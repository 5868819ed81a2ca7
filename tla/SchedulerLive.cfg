SPECIFICATION Spec
CONSTANTS
    i1 = i1
    i2 = i2
    i3 = i3
    d1 = d1
    d2 = d2
    Requests = {i1, d1, i3}
    Interactive = {i1, i3}
    Unknown = {i3}
    SpecCapable = {i1, d1}
    Undemotable = {}
    GraphCapable = {}
    InteractiveCap = 1
    DarkCap = 1
    SpecLow = 1
    SpecHigh = 2
    OomRetries = 1
    MaxNew = 1
    Zero = {d1}
    Burst = 1
    Overshoot = 0
    Chunks = 1
    MaxHold = 1
PROPERTY Answered
CHECK_DEADLOCK FALSE
