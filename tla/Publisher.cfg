\* Two instances, one with its clock a tick ahead; an hour of one tick, so that
\* requests span hours and a copy outlives its hour and expires; one outage.
SPECIFICATION Spec
CONSTANTS
    i1 = i1
    i2 = i2
    q1 = q1
    q2 = q2
    x = x
    Instances = {i1, i2}
    Ahead = {i2}
    Reqs = {q1, q2}
    Relays = {x}
    Hour = 1
    Valid = 2
    MaxTime = 3
    MaxOutages = 1
SYMMETRY ReqSymmetry
INVARIANTS
    TypeOK
    OnlyStored
    OneDocumentPerHour
    AnswersValid
