SPECIFICATION ReaderSpec
CONSTANTS
    Readers = {"split", "stream"}
    Sizes = {0, 1, 3}
    PackedSizes = {1, 2}
    MaxMessages = 2
    ReadMaxBytes = 2
INVARIANTS
    WholeEnvelopes
    SplitResult
CHECK_DEADLOCK FALSE
