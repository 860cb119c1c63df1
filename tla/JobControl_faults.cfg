SPECIFICATION Spec
CONSTANTS
    p1 = p1
    p2 = p2
    None = None
    Shell = Shell
    Proc <- MCProc
    Leavers <- MCProc
    TtyMayFail = TRUE
    ExitCodes = {7}
    MaxPipeline = 2
    JobLimits = {2}
SYMMETRY Symmetry
INVARIANTS
    NoChildForgotten
    StaleOnlyUntilReap
    PromptOwnsTerminal
