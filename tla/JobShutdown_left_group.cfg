SPECIFICATION FairShutdownSpec
CONSTANTS
    p1 = p1
    p2 = p2
    p3 = p3
    None = None
    Proc <- MCProc
    Jobs <- MCJobs
    Members <- MCMembers
    Leavers <- OneLeaver
    Retries = 2
PROPERTIES
    ShutdownReturns
