SPECIFICATION PerfSpec
CONSTANTS
    o1 = o1
    o2 = o2
    i1 = i1
    i2 = i2
    i3 = i3
    i4 = i4
    c1 = c1
    noOrder = noOrder
    Orders = {o1, o2}
    NoOrder = noOrder
    Items = {i1, i2, i3, i4}
    Clerks = {c1}
    Quantities = {1, 2}
    MaxLines = 2
    MaxPosted = 3
    Dates = {1}
    MaxDay = 2
CHECK_DEADLOCK FALSE
SYMMETRY Symmetry
INVARIANTS
    POTypeOK
    ReceivedIsPosted
    CompletenessAccurate
    TotalMatchesLines
    PerformanceAccurate
PROPERTIES
    OnlyDraftsEdited
    KeepsPromise
