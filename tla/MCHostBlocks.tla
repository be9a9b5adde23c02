---------------------------- MODULE MCHostBlocks ----------------------------
(***************************************************************************)
(* HostBlocks for TLC: two tunnels that want the same alias, one of another*)
(* alias, whose start prunes too, and one doctor.                          *)
(***************************************************************************)
EXTENDS HostBlocks, TLC

CONSTANTS a, b, t1, t2, t3, d

MCAliasOf == t1 :> a @@ t2 :> a @@ t3 :> b

\* The two tunnels for the same alias are interchangeable.
Symmetry == Permutations({t1, t2})
=============================================================================
