---------------------------- MODULE MCObjcMethod ----------------------------
(* Base <- Derived share the selector run; Other stands apart.             *)
EXTENDS ObjcMethod, TLC

CONSTANTS Base, Derived, Other, run

MCClass == {Base, Derived, Other}
MCSelector == {run}
MCAncestors == [c \in MCClass |-> IF c = Derived THEN {Derived, Base} ELSE {c}]
MCShipped == {<<Base, run>>, <<Other, run>>}
MCSymmetry == Permutations(Closure)
=============================================================================
