SPECIFICATION Spec
CONSTANTS
    a = a
    b = b
    t1 = t1
    t2 = t2
    Tenants <- MCTenants
    Threads <- MCThreads
    Kinds <- MCKinds
    MaxTasks = 3
    MaxRaises = 1
SYMMETRY Symmetry
INVARIANTS TypeOK WorksAtHome OthersDisturb IdleIsPublic
PROPERTIES UndisturbedRemoval
CHECK_DEADLOCK FALSE
