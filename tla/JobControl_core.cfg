SPECIFICATION FairSpec
CONSTANTS
    p1 = p1
    p2 = p2
    None = None
    Shell = Shell
    Proc <- MCProc
    Leavers <- NoLeavers
    TtyMayFail = FALSE
    ExitCodes = {7}
    MaxPipeline = 2
    JobLimits = {1, 2}
INVARIANTS
    ForegroundOwnsTerminal
PROPERTIES
    LimitRespected
    StatusOfLastProcess
    ZombiesCollected
