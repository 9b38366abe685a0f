SPECIFICATION Spec
CONSTANTS
    MaxWrites = 3
    MaxFaults = 2
INVARIANTS
    ReadInOrder
    FinalTold
PROPERTIES
    WritersSettle
CHECK_DEADLOCK FALSE
