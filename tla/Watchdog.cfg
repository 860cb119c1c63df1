CONSTANTS
    Durations = {1, 3}
    Actual = {1, 2, 3}
    Default = 3
    Second = 2
    Delay = 1
SPECIFICATION Spec
INVARIANTS
    ServedInTime
    SuccessMeansStopped
    StoppedAtEnd
    StopIsPrompt
PROPERTY DemoEnds
