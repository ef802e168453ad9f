------------------------- MODULE MCMemoryManager -------------------------
EXTENDS MemoryManager, TLC

\* Pointer variables are interchangeable.
HandleSymmetry == Permutations(Handles)

\* The states behind a clash, of which no property speaks, are not searched.
BeforeClash == ~clashed
==========================================================================
