CONSTANTS
    Fulls = {f1}
    SearchOnly = {s1}
SPECIFICATION FairSpec
INVARIANTS
    ServedIsWhole
    GoneLeavesNothing
    SearchesAll
    NoneOrphaned
PROPERTY CollectionGoes
CHECK_DEADLOCK FALSE
