\* Two processes on one directory; two versions of two bodies each; an hour
\* of one tick, so that a document is usable one tick early (Skew), is fresh for
\* one hour and usable for three: version 1 is still valid when version 2 has
\* gone stale, and has expired before the clock stops.
SPECIFICATION Spec
CONSTANTS
    p1 = p1
    p2 = p2
    Procs = {p1, p2}
    MaxVer = 2
    Bodies = {1, 2}
    Hour = 1
    Skew = 1
    Valid = 3
    MaxTime = 4
    MaxCrashes = 1
    MaxFaults = 1
SYMMETRY ProcSymmetry
INVARIANTS
    SerialNoEquivocation
PROPERTIES
    SerialStoreAtomic
    SerialNoRollback
