\* A screen of 4 columns and 3 rows, where a line of two characters wraps and the
\* second line of output scrolls.
SPECIFICATION Spec
CONSTANTS
    WordBits = 8
    Cols = 4
    Rows = 3
    LineBytes = 4
    MaxLine = 2
    ListenerSlots = 2
    Keys = {"a", "enter", "backspace", "tab", "lshift", "ctrl", "caps"}
    ExitWord <- MCExit
    ClearWord <- MCClear
    PrintWord <- MCPrint
INVARIANTS
    OnScreen
    LineAsTyped
    NoStuckShift
PROPERTIES
    NoEchoAfterEnd
