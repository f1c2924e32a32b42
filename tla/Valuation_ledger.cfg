SPECIFICATION Spec
CONSTANTS
    v1 = v1
    v2 = v2
    w1 = w1
    w2 = w2
    FIFO = FIFO
    Average = Average
    Unpriced = unpriced
    Variants = {v1, v2}
    Warehouses = {w1, w2}
    MethodOf <- OneOfEach
    CategoryOf <- OwnCategory
    Quantities = {1, 2}
    Costs = {3333, 10001}
    ReportQueries <- SomeReports
    SummaryQueries <- SomeSummaries
    Open = open
    Deltas <- OneUnit
    MaxMovements = 3
INVARIANTS
    ValuationTypeOK
    FifoIsReplay
    AverageWithinCosts
    RoundingBounded
    ReportIsLedgerAtRest
    SummaryAddsUp
SYMMETRY Symmetry
