SPECIFICATION Spec
CONSTANTS
    i1 = i1
    i2 = i2
    i3 = i3
    d1 = d1
    d2 = d2
    Requests = {i1, i2, d1}
    Interactive = {i1, i2}
    Unknown = {}
    SpecCapable = {i1, i2, d1}
    Undemotable = {}
    GraphCapable = {}
    InteractiveCap = 1
    DarkCap = 1
    SpecLow = 1
    SpecHigh = 2
    OomRetries = 1
    MaxNew = 1
    Zero = {}
    Burst = 1
    Overshoot = 1
    Chunks = 1
    MaxHold = 0
INVARIANTS TypeOK HeldOnce LaneCaps ParkedAhead
PROPERTIES NothingAfterEnd InteractiveFifo
SYMMETRY InteractivePairs
CHECK_DEADLOCK FALSE
