SPECIFICATION FairSpec
CONSTANTS
    p1 = p1
    p2 = p2
    b1 = b1
    worker = worker
    api = api
    Pairs = {p1, p2}
    Batches = {b1}
    Scanners = {worker, api}
    Api = {api}
    MaxTurns = 3
    MaxAlerts = 10
INVARIANTS
    AlertsTypeOK
    OneActivePerSubject
PROPERTIES
    ResolvedAfterRecovery
    ListReflectsLiveState
    ExpiringBatchAlerted
