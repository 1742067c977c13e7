CONSTANTS
    Users = {u1, u2}
    OtherGroups = {g1}
    OtherNames = {n1}
    MaxEdits = 3
SPECIFICATION GroupsSpec
INVARIANT AdminGroupIsAdmin
CHECK_DEADLOCK FALSE
