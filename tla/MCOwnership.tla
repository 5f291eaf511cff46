---------------------------- MODULE MCOwnership ----------------------------
(* Instances of Ownership for TLC. *)
EXTENDS Ownership, TLC

(* The variables of the application are interchangeable. *)
Symmetry == Permutations(Objects)
=============================================================================
