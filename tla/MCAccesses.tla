------------------------------ MODULE MCAccesses ------------------------------
(***************************************************************************)
(* Constants and symmetry of Accesses for TLC.                             *)
(***************************************************************************)
EXTENDS Accesses, TLC

CONSTANTS u1, p1, p2

MCShares == {<<"readers", "view">>}
Symmetry == Permutations(Workers)

=============================================================================
