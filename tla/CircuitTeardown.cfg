\* One fault at most; links of two frames, with too little in flight to fill
\* them in both directions.  Without a timer, a chunk left anywhere stays there.
SPECIFICATION FairSpec
CONSTANTS
    MaxUser = 2
    MaxDest = 1
    LinkCap = 2
    MaxFaults = 1
PROPERTIES
    TeardownReachesAll
    ChunksArrive
    ImplementsTunnel
