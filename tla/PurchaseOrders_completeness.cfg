SPECIFICATION Spec
CONSTANTS
    o1 = o1
    i1 = i1
    c1 = c1
    c2 = c2
    noOrder = noOrder
    Orders = {o1}
    NoOrder = noOrder
    Items = {i1}
    Clerks = {c1, c2}
    Quantities = {1, 2}
    MaxLines = 1
    MaxPosted = 2
CHECK_DEADLOCK FALSE
INVARIANT
    CompletenessAccurate
