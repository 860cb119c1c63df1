SPECIFICATION FairSpec
CONSTANTS
    MaxCommands = 4
    MAX_PIPELINE = 3
INVARIANTS
    NobodyLeftAtGate
    NoDescriptorLeak
PROPERTIES
    LaunchIsAtomic
    GateAlwaysEnds
