SPECIFICATION HwSpec
CONSTANTS
    Name = {stm32, panel}
    Fd = {fd3, fd4}
    NoFd = NoFd
    BackendErrors = {"EIO", "EAGAIN"}
    Cells = 2
    MaxBrightness = 1
SYMMETRY Symmetry
INVARIANTS
    DescriptorsExact
    ShownStateIsTrue
    ChildHasNoDevice
    ScreenAsTold
    LampAsTold
PROPERTIES
    ErrorNeedsClose
