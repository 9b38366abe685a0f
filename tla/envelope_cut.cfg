SPECIFICATION ReaderSpec
CONSTANTS
    Readers = {"stream"}
    Sizes = {0, 1, 3}
    PackedSizes = {1, 2}
    MaxMessages = 2
    ReadMaxBytes = 2
INVARIANTS
    PrematureEndFails
CHECK_DEADLOCK FALSE
