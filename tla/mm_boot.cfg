SPECIFICATION Spec
CONSTANTS
    PageUnits = 2
    AddressMod = 32
    FirstPage = 1
    EntriesPerUnit = 2
    TagMod = 4
    RamPages = 5
    MaxEntries = 4
    Handles = {h1, h2}
    Sizes = {1, 2}
INVARIANTS FreeIsNotReserved UsableIsFree WalkStaysInMap FreeIsTop
CHECK_DEADLOCK FALSE
