\* Every normalized text of up to 17 characters, chunks of 8 with an overlap of
\* 3.  The loop stops when it is done.
CONSTANTS
    MaxChars = 8
    Overlap = 3
    MaxLen = 17
SPECIFICATION Spec
INVARIANTS
    NothingLost
PROPERTIES
    ChunksAdvance
    StuckForGood
CHECK_DEADLOCK FALSE
