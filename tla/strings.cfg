\* Every path of up to three characters over two letters and the slash, with every byte
\* behind it, one after another, and every 8-bit number; a volume whose clusters 2 and
\* 3 share a word, and 5 and 6, with every hint and many contents of memory.
SPECIFICATION MCSpec
CONSTANTS
    WordBits = 8
    Chars = {47, 97, 98}
    MaxPath = 3
    MaxRest = 1
    MaxPadding = 4
    Top = 7
    EndOfChain = 6
    FirstMark = 5
    total_clusters = 6
    MemoryWords = 3
    ClustersPerShift = 3
    root_dir_cluster = 2
    Leftovers = {0, 3, 7}
    Handles = {1}
    OpenBits = 2
    MaxWrites = 1
    MaxRead = 1
INVARIANTS
    TokensAreParts
    NumbersComeBack
PROPERTIES
    NoNewCycle
    LoopsEnd
CHECK_DEADLOCK FALSE
