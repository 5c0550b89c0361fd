\* Two chunks each way, so that one can overtake or repeat another, and one
\* fault at any point.  A repeated frame can fill a link, so the wedge, a real
\* deadlock of the code, occurs here: OnlyWedgesBlock says that no other state
\* is stuck.
SPECIFICATION Spec
CONSTANTS
    MaxUser = 2
    MaxDest = 2
    LinkCap = 2
    MaxFaults = 1
INVARIANTS
    TypeOK
    ForwardInOrder
    BackwardInOrder
    CountersAgree
    OnlyWedgesBlock
PROPERTIES
    CircuitSteps
    WedgePersists
CHECK_DEADLOCK FALSE
