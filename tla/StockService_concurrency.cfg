SPECIFICATION Spec
CONSTANTS
    v1 = v1
    w1 = w1
    w2 = w2
    noBatch = noBatch
    r1 = r1
    r2 = r2
    c1 = c1
    c2 = c2
    Variants = {v1}
    Warehouses = {w1, w2}
    BatchNos = {}
    NoBatch = noBatch
    Reservations = {r1, r2}
    Takes = {}
    Clients = {c1, c2}
    Quantities = {1}
    Deltas <- OneUnitLoss
    ExpiryDates = {}
    Never = 9
    MaxStock = 3
    MaxUnchecked = 1
SYMMETRY Symmetry
INVARIANTS
    TypeOK
    OversellBounded
    InFlightCovered
    DispatchedIffClosed
PROPERTY
    ImplementsPromise
