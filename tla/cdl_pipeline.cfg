CONSTANTS
    p1 = p1
    p2 = p2
    Works = {w1}
    Pdfs = {p1, p2}
    FirstPdf = p1
    Pages <- MCPages
    RETRY_MAX = 5
    MaxErrors = 1
SPECIFICATION FairSpec
INVARIANTS
    TypeOK
    
PROPERTIES
    ImplementsLife
    ChainsEnd
    CompleteWorkOpens
    GroupGoesWithWork
CHECK_DEADLOCK FALSE
