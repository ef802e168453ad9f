SPECIFICATION FairSpec
CONSTANTS
    page_table_size = 12
    FirstPage = 2
    BootReserved = {0, 1, 2}
    TagMod = 256
    Words = {"exit", "other"}
    TicksPerSec = 2
INVARIANTS TypeOK Exclusive AlwaysACommandBuffer BootMemoryIntact NothingOverwritten
PROPERTY ExitEnds
CHECK_DEADLOCK FALSE
