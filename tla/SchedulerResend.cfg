SPECIFICATION Spec
CONSTANTS
    i1 = i1
    i2 = i2
    i3 = i3
    d1 = d1
    d2 = d2
    Requests = {i1}
    Interactive = {i1}
    Unknown = {}
    SpecCapable = {i1}
    Undemotable = {}
    GraphCapable = {}
    InteractiveCap = 2
    DarkCap = 2
    SpecLow = 1
    SpecHigh = 2
    OomRetries = 1
    MaxNew = 2
    Zero = {}
    Burst = 2
    Overshoot = 1
    Chunks = 1
    MaxHold = 0
INVARIANT ExactStream
CHECK_DEADLOCK FALSE
