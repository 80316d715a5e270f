\* Two threads that make every kind of request; the symbol comes and goes.
CONSTANTS
    Readers = {r1, r2}
    MaxVersion = 2
    MaxRequests = 4
    Indexed = {0, 2}
    Epoch = Epoch
    Nil = Nil
SPECIFICATION Spec
SYMMETRY ReaderSymmetry
CHECK_DEADLOCK FALSE
INVARIANTS
    TypeOK
    ParsesExact
    FiltersExact
    OutlinesExactUnlessRaced
    NeverOlderThanRequest
    FalseNegativeNeedsWrite
