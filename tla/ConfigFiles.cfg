SPECIFICATION Spec
CONSTANTS
    LineSets <- MCLineSets
    ShellLineSets <- MCShellLineSets
    MaxLines = 7
    DeviceLineSize = 512
    ShellLineSize = 256
    NameSize = 64
    PathSize = 256
    PromptSize = 64
    MaxDevices = 2
    IntMax = 500000
    UIntMax = 1000000
INVARIANTS
    DevicesAsWritten
    ShellAsWritten
