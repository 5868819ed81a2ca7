SPECIFICATION Spec
CONSTANTS
    k1 = k1
    k2 = k2
    s1 = s1
    s2 = s2
    PoolKeys = {k1, k2}
    EagerKeys = {k2}
    Sessions = {s1, s2}
    Prompts <- MCPrompts
    MinTokens = 2
    Budget = 6
    TokBytes = 1
    StateBytes = 0
    MaxTime = 1
    MaxInserts = 4
INVARIANTS TypeOK IndexExact BytesAccounted KeysUnique BoundaryAhead CountersAgree
PROPERTIES NewcomerSurvives ImplementsPolicy
