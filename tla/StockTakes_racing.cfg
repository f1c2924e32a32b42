SPECIFICATION SystemSpec
CONSTANTS
    v1 = v1
    w1 = w1
    w2 = w2
    noBatch = noBatch
    notCounted = notCounted
    t1 = t1
    t2 = t2
    c1 = c1
    a1 = a1
    a2 = a2
    Variants = {v1}
    Warehouses = {w1, w2}
    BatchNos = {}
    NoBatch = noBatch
    Reservations = {}
    Takes = {t1, t2}
    Clients = {c1}
    Quantities = {1}
    Deltas = {}
    ExpiryDates = {}
    Never = 9
    MaxStock = 1
    MaxUnchecked = 0
    Auditors = {a1, a2}
    Counts = {1}
    NotCounted = notCounted
SYMMETRY Symmetry
INVARIANTS
    NothingPostedWhileOpen
PROPERTIES
    ClosedTakeStaysClosed
