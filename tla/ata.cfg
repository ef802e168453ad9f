SPECIFICATION FairSpec
CONSTANTS
    Statuses <- AllStatuses
    MaxSectors = 7
    Chunk = 3
    LbaMod = 8
    Starts = {6}
    Seconds = 2
    trymax = 2
INVARIANTS TypeOK NotBusyWhenPolled AskedSectors
PROPERTY CallsEnd
