SPECIFICATION FairSpec
CONSTANTS
    c1 = c1
    c2 = c2
    Child <- MCChild
    PipeCap = 2
    ReadSize = 1
    MaxRaise = 5
INVARIANTS
    NeverSleepsOnWork
    HandlerHasPipe
PROPERTIES
    ChangesCollected
    InterruptsServed
