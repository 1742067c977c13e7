SPECIFICATION Spec
CONSTANTS
    a = a
    b = b
    t1 = t1
    t2 = t2
    Tenants <- MCTenants
    Threads <- MCThreads
    Kinds <- MCKinds
    MaxTasks = 2
    MaxRaises = 1
SYMMETRY Symmetry

PROPERTIES RemovesOwnKeys
CHECK_DEADLOCK FALSE
