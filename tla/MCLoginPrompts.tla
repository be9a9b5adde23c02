---------------------------- MODULE MCLoginPrompts ----------------------------
(***************************************************************************)
(* LoginPrompts for TLC: processes and keys are interchangeable, and the   *)
(* properties are invariants and one action property, symmetric too.       *)
(***************************************************************************)
EXTENDS LoginPrompts, TLC

Symmetry == Permutations(Process) \cup Permutations(Key)

==============================================================================
