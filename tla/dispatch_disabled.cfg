SPECIFICATION Spec
CONSTANTS
    Adapters = {"node", "express", "next", "fastify", "memory"}
    MaxServices = 2
    Timeouts = {12, 80, 93, 101}
    MaxTimeouts = {50, 999}
INVARIANTS
    DisabledStaysDisabled
CHECK_DEADLOCK FALSE
