SPECIFICATION SystemSpec
CONSTANTS
    v1 = v1
    w1 = w1
    noBatch = noBatch
    notCounted = notCounted
    r1 = r1
    t1 = t1
    t2 = t2
    c1 = c1
    a1 = a1
    Variants = {v1}
    Warehouses = {w1}
    BatchNos = {}
    NoBatch = noBatch
    Reservations = {r1}
    Takes = {t1, t2}
    Clients = {c1}
    Quantities = {1}
    Deltas <- OneUnitLoss
    ExpiryDates = {}
    Never = 9
    MaxStock = 2
    MaxUnchecked = 1
    Auditors = {a1}
    Counts = {0, 2}
    NotCounted = notCounted
SYMMETRY Symmetry
INVARIANTS
    AuditTypeOK
    FrozenUnlessDisturbed
    PostedIsDifference
    CanceledPostsNothing
    OneOpenTakePerWarehouse
PROPERTIES
    CountsBecomeStock
    ClosedIsFinal
