CONSTANTS
    w1 = w1
    w2 = w2
    u1 = u1
    u2 = u2
    Works = {w1, w2}
    Users = {u1, u2}
    Overlapping = {u2}
    Sessions = {s1, s2}
    Scopes <- MCScopes
    Loan = 1
    MaxTime = 1
SPECIFICATION Spec
SYMMETRY Symmetry
INVARIANTS
    
    AccessHasRecord
    OneRecord
    SigninSettles
    FreshLoanKept
 
CHECK_DEADLOCK FALSE
