---------------------------- MODULE MCHookClosures ----------------------------
(* Base <- Derived share the selector run; Other stands apart.               *)
EXTENDS HookClosures, TLC

CONSTANTS Base, Derived, Other, run

MCClass == {Base, Derived, Other}
MCSelector == {run}
MCAncestors == [c \in MCClass |-> IF c = Derived THEN {Derived, Base} ELSE {c}]
MCShipped == {<<Base, run>>, <<Other, run>>}
MCIntelTargets == {<<Base, run>>, <<Other, run>>}
MCSymmetry == Permutations(Closure)
===============================================================================
