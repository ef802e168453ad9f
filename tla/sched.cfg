SPECIFICATION FairSpec
CONSTANTS
    MaxPid = 3
    BootForks = 2
    ExitPids = {2, 3}
    Syscalls = {"exit", "other", "fork"}
    FreshIntNos = {"low", "high"}
    StackRoom = 1
    StepMod = 2
    MaxActive = 4
INVARIANTS TypeOK ContextIntegrity CountCoversReady SearchEnds
PROPERTIES NoEviction EveryoneRuns
CHECK_DEADLOCK FALSE
