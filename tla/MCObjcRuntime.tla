---------------------------- MODULE MCObjcRuntime ----------------------------
(* One class with one method, two host threads.                              *)
EXTENDS ObjcRuntime, TLC

CONSTANTS Host, run, t1, t2

MCClass == {Host}
MCSelector == {run}
MCAncestors == [c \in MCClass |-> {c}]
MCShipped == {<<Host, run>>}

opts(allow, reset, strict) ==
  [allowReload |-> allow, resetBeforeLoad |-> reset, strictHooks |-> strict]

MCPolicies == {NoPolicy, opts(FALSE, FALSE, TRUE), opts(TRUE, TRUE, TRUE)}
MCRecommended == {opts(FALSE, FALSE, FALSE)}
MCOptions == {opts(FALSE, FALSE, FALSE), opts(TRUE, TRUE, FALSE), opts(TRUE, TRUE, TRUE)}
MCSymmetry == Permutations(Thread) \cup Permutations(Closure)
MCStrict == {opts(FALSE, FALSE, TRUE)}
=============================================================================
