SPECIFICATION Spec
CONSTANTS
    page_table_size = 12
    FirstPage = 2
    BootReserved = {0, 1, 2}
    TagMod = 256
    Words = {"exit", "other"}
    TicksPerSec = 2
INVARIANT ExitIsSafe
CHECK_DEADLOCK FALSE
