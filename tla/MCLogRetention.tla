---------------------------- MODULE MCLogRetention ----------------------------
(***************************************************************************)
(* LogRetention for TLC: nothing tells one past run, or one new run, from  *)
(* another.                                                                *)
(***************************************************************************)
EXTENDS LogRetention, TLC

Symmetry == Permutations(Run \ Past) \cup Permutations(Past)
=============================================================================
