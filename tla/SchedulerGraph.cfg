SPECIFICATION Spec
CONSTANTS
    i1 = i1
    i2 = i2
    i3 = i3
    d1 = d1
    d2 = d2
    Requests = {i1, d1, d2}
    Interactive = {i1}
    Unknown = {}
    SpecCapable = {d1, d2}
    Undemotable = {d1}
    GraphCapable = {i1}
    InteractiveCap = 2
    DarkCap = 2
    SpecLow = 1
    SpecHigh = 2
    OomRetries = 0
    MaxNew = 2
    Zero = {}
    Burst = 1
    Overshoot = 1
    Chunks = 1
    MaxHold = 0
INVARIANTS ExactStream GraphAlone
CHECK_DEADLOCK FALSE
