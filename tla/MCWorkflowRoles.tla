--------------------------- MODULE MCWorkflowRoles ---------------------------
(* Two admin sets, both works deposited into the first: the roles on the    *)
(* second must not count for them.                                          *)
EXTENDS WorkflowRoles, TLC

CONSTANT a1

MCAdminSetOf == [w \in Works |-> a1]

Symmetry == Permutations(Users) \cup Permutations(Works)

=============================================================================
