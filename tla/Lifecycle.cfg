SPECIFICATION Spec
CONSTANTS
    r1 = r1
    r2 = r2
    t1 = t1
    Requests = {r1, r2}
    Dark = {r2}
    Streams = {r1}
    Tenants = {t1}
    Tenant <- MCTenant
    TenantCaps <- MCCaps
    MaxTokens = 1
    RespawnMax = 1
    Deadline = FALSE
INVARIANTS TypeOK SlotsExact PendingExact DroppedByPanic LiveMeansServing CleanExit
PROPERTIES Served DrainEnds Recovers
CHECK_DEADLOCK FALSE
