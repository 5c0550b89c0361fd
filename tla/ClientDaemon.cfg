SPECIFICATION Spec
CONSTANTS
    Reqs = {"first", "second"}
    Keys <- MCKeys
    Digests = {8, 31}
    Draws = {2}
    Radix = 8
    MaxLost = 2
INVARIANTS
    CountedBeforeDelivered
    ExpiryEndsIssuance
    WaitsOneFetch
PROPERTIES
    RefusedOnlyByRotation
    Answered
