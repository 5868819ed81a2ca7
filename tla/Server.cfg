SPECIFICATION ServerSpec
CONSTANTS
    r1 = r1
    t1 = t1
    Requests = {r1}
    Dark = {}
    Streams = {r1}
    Tenants = {t1}
    Tenant <- MCTenant
    TenantCaps <- MCCaps
    MaxTokens = 1
    RespawnMax = 1
    Deadline = TRUE
INVARIANTS ServerTypeOK JobKnown
PROPERTIES YieldsToTraffic NeverFrozen ServerDrains
CHECK_DEADLOCK FALSE
