SPECIFICATION FairSpec
INVARIANTS
    WholeInput
PROPERTIES
    ImplementsRpc
    CallSettles
CHECK_DEADLOCK FALSE
