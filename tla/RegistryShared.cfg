\* Two processes of one user on the default state directory; three versions, so
\* that an older document can replace a newer baseline.
SPECIFICATION Spec
CONSTANTS
    p1 = p1
    p2 = p2
    Procs = {p1, p2}
    MaxVer = 3
    Bodies = {1}
    Hour = 1
    Skew = 0
    Valid = 4
    MaxTime = 3
    MaxCrashes = 1
    MaxFaults = 0
PROPERTIES
    NoRollback
