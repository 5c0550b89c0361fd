\* One chunk from the user, none from a destination that closes its half.
SPECIFICATION Spec
CONSTANTS
    MaxUser = 1
    MaxDest = 0
    LinkCap = 2
    MaxFaults = 0
PROPERTIES
    DataAfterEofKeepsCircuit
