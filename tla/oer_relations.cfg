SPECIFICATION FairSpec
CONSTANTS
    a = a
    b = b
    form1 = form1
    form2 = form2
    Records = {a, b}
    Table <- MCTable
    UsedTypes = {"newer-version"}
    Forms = {form1, form2}
    MaxRows = 1
    MaxImports = 1
    MaxErrors = 1
INVARIANTS TypeOK OneRelation
 
CHECK_DEADLOCK FALSE
