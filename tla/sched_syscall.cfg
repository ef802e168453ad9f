SPECIFICATION Spec
CONSTANTS
    MaxPid = 3
    BootForks = 2
    ExitPids = {}
    Syscalls = {"other"}
    FreshIntNos = {"low"}
    StackRoom = 2
    StepMod = 2
    MaxActive = 4
INVARIANT TicksGoOn
CHECK_DEADLOCK FALSE
