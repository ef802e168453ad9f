SPECIFICATION FairSpec
CONSTANTS
    MaxPid = 3
    BootForks = 2
    ExitPids = {}
    Syscalls = {}
    FreshIntNos = {"low"}
    StackRoom = 2
    StepMod = 2
    MaxActive = 4
PROPERTY ShellIsStarted
CHECK_DEADLOCK FALSE
