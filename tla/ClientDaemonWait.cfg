SPECIFICATION Spec
CONSTANTS
    Reqs = {"first", "second"}
    Keys <- MCKeys
    Digests = {8, 31}
    Draws = {2}
    Radix = 8
    MaxLost = 2
INVARIANT
    NoBuildWaitsOnFetch
