SPECIFICATION FairSpec
CONSTANTS
    f1 = f1
    f2 = f2
    w1 = w1
    w2 = w2
    j1 = j1
    j2 = j2
    Uploads <- MCUploads
    Works <- MCWorks
    Invalid = {w2}
    Jobs <- MCJobs
    MaxDeaths = 2
INVARIANTS AttachedOnce NoneForgotten
PROPERTIES MembersKept FilesAttached
CHECK_DEADLOCK FALSE
