SPECIFICATION Spec
CONSTANTS
    MAX_RELAYS = 5
    SKEW_ALLOWANCE_SECS = 1
    Catalogue <- MCCatalogue
    Window = 3
    MaxTime = 5
    MaxPub = 2
    Drifts <- MCDrifts
INVARIANTS
    PathDiverse
    EveryDrawOnePath
PROPERTIES
    ListedIsAdmitted
    NoRetiredRelay
