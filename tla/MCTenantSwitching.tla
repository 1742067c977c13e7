---------------------------- MODULE MCTenantSwitching -------------------------
(***************************************************************************)
(* Constants and symmetry of TenantSwitching for TLC.                      *)
(***************************************************************************)
EXTENDS TenantSwitching

CONSTANTS a, b, t1, t2

MCTenants == {a, b}
MCThreads == {t1, t2}
MCKinds == AllKinds
Symmetry == Permutations(MCTenants) \cup Permutations(MCThreads)

=============================================================================
