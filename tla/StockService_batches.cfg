SPECIFICATION Spec
CONSTANTS
    v1 = v1
    w1 = w1
    b1 = b1
    b2 = b2
    noBatch = noBatch
    c1 = c1
    c2 = c2
    Variants = {v1}
    Warehouses = {w1}
    BatchNos = {b1, b2}
    NoBatch = noBatch
    Reservations = {}
    Takes = {}
    Clients = {c1, c2}
    Quantities = {1, 2}
    Deltas = {1}
    ExpiryDates = {1, 2}
    Never = 9
    MaxStock = 3
    MaxUnchecked = 0
SYMMETRY BatchSymmetry
INVARIANTS
    InFlightCovered
    BatchNeverOverdrawn
