SPECIFICATION Spec
CONSTANTS
    page_table_size = 8
    FirstPage = 2
    BootReserved = {0, 1, 2, 4}
    TagMod = 4
    Handles = {h1, h2, h3}
    Pids = {1, 2, 3}
    ExitPids = {2, 3}
    Sizes = {1, 2, 3}
    NumMod = 11
    Counts = {0, 1, 10}
SYMMETRY HandleSymmetry
CONSTRAINT BeforeClash
INVARIANTS TypeOK NoOverlap UsedIffHeld
PROPERTIES ExitFreesAll ImplementsOwnership
