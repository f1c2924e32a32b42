SPECIFICATION Spec
CONSTANTS
    o1 = o1
    i1 = i1
    i2 = i2
    i3 = i3
    c1 = c1
    c2 = c2
    noOrder = noOrder
    Orders = {o1}
    NoOrder = noOrder
    Items = {i1, i2, i3}
    Clerks = {c1, c2}
    Quantities = {1, 2}
    MaxLines = 2
    MaxPosted = 3
CHECK_DEADLOCK FALSE
SYMMETRY Symmetry
INVARIANTS
    NeverOverstated
    NeverWithoutLines
