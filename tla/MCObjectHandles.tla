---------------------------- MODULE MCObjectHandles ----------------------------
(* Symmetric activations, boxes and arrays.                                   *)
EXTENDS ObjectHandles

MCSymmetry == Permutations(Activation) \cup Permutations(Box) \cup Permutations(Array)
===============================================================================
