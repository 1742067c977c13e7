CONSTANTS
    a1 = a1
    Users = {u1, u2}
    OtherGroups = {g1}
    OtherNames = {n1}
    MaxEdits = 1
    AdminSets = {a1, a2}
    Works = {k1, k2}
    AdminSetOf <- MCAdminSetOf
SPECIFICATION WorkflowSpec
SYMMETRY Symmetry
INVARIANTS
    QueriesAgree
    AgentsAgree
    NotifiedMayApprove
PROPERTY OnlyReviewersDeposit
CHECK_DEADLOCK FALSE
