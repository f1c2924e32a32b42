SPECIFICATION Spec
CONSTANTS
    k1 = k1
    k2 = k2
    k3 = k3
    p1 = p1
    p2 = p2
    p3 = p3
    noCategory = noCategory
    absent = absent
    Categories = {k1, k2, k3}
    Products = {p1, p2, p3}
    NoCategory = noCategory
    Absent = absent
    Filters <- SomeFilters
    Limit = 1
    MaxTime = 3
    MaxRows = 4
SYMMETRY Symmetry
INVARIANTS
    CatalogTypeOK
    ForestIsRooted
    ListingComplete
PROPERTIES
    HiddenOnlyByCycle
