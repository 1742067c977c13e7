SPECIFICATION Spec
CONSTANTS
    c1 = c1
    c2 = c2
    r1 = r1
    r2 = r2
    h1 = h1
    h2 = h2
    Collections = {c1, c2}
    Requests = {r1, r2}
    Homes = {h1}
    FEATURE_LIMIT = 2
    MaxRows = 3
    MaxEvents = 2
SYMMETRY Symmetry
INVARIANTS OverlapsExceedLimit ArrangedStays HiddenIsNotFeatured
CHECK_DEADLOCK FALSE
