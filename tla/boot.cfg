SPECIFICATION KmainSpec
CONSTANTS
    page_table_size = 34
    FirstPage = 4
    BootReserved = {0, 1, 2, 3, 4}
    TagMod = 256
    PartitionCount = 3
    FsInfoPages = 2
    ProcListPages = 3
INVARIANTS RegistrationIsSafe RegisteredLive NoStrayInterrupt AnswersInStep
PROPERTY KmainStarts
CHECK_DEADLOCK FALSE
