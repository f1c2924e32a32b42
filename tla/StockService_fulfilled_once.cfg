SPECIFICATION Spec
CONSTANTS
    v1 = v1
    w1 = w1
    noBatch = noBatch
    r1 = r1
    c1 = c1
    c2 = c2
    Variants = {v1}
    Warehouses = {w1}
    BatchNos = {}
    NoBatch = noBatch
    Reservations = {r1}
    Takes = {}
    Clients = {c1, c2}
    Quantities = {1, 2}
    Deltas <- OneUnitLoss
    ExpiryDates = {}
    Never = 9
    MaxStock = 2
    MaxUnchecked = 1
CHECK_DEADLOCK FALSE
INVARIANT
    FulfilledOnce
