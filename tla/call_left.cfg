SPECIFICATION ServedSpec
CONSTANTS
    MaxIn = 1
    MaxOut = 1
PROPERTIES
    LeftReleases
CHECK_DEADLOCK FALSE
