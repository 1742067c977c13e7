SPECIFICATION AccessesSpec
CONSTANTS
    u1 = u1
    p1 = p1
    p2 = p2
    Users = {u1}
    OtherGroups = {}
    OtherNames = {"readers"}
    MaxEdits = 1
    Workers = {p1, p2}
    Shares <- MCShares
SYMMETRY Symmetry
INVARIANTS  EquippedStays AclIsGrants RolesReachTheSet
CHECK_DEADLOCK FALSE
