\* Two connection tasks, two good tokens and one bad one, a window of two
\* ticks on a clock of five: long enough for an entry to expire, be reused and
\* expire again; one restart.
CONSTANTS
    c1 = c1
    c2 = c2
    good1 = good1
    good2 = good2
    bad = bad
    Conns = {c1, c2}
    Tokens = {good1, good2, bad}
    Signed = {good1, good2}
    Ttl = 2
    MaxInstant = 5
    MaxRestarts = 1
SPECIFICATION WindowSpec
SYMMETRY ConnSymmetry
INVARIANT WindowBounded
PROPERTY NoReplay
PROPERTY NoFalseReplay
