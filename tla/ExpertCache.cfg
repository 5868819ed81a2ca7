SPECIFICATION Spec
CONSTANTS
    b1 = b1
    b2 = b2
    b3 = b3
    b4 = b4
    Blocks = {b1, b2, b3, b4}
    NoBlock = NoBlock
    LayerBlocks <- MCLayerBlocks
    NumSlots = 2
    ProtectedCap = 1
    NumBuffers = 3
    Configs <- MCConfigs
    MaxCompute = 4
    MaxFaults = 1
INVARIANTS TypeOK SlotsAccounted ReadsExact BuffersSafe
SYMMETRY Symmetric
