CONSTANTS
    Name = {a, b}
    MaxDepth = 2
    Meta = {m1, m2}
    Torn = Torn
    MaxFaults = 2
    MaxEntries = 3
SYMMETRY Symmetry
SPECIFICATION Spec
INVARIANTS TypeOK Agreement TreeShape Recoverable PromiseKept NoInternalError ListingMatchesStat
PROPERTIES TreeSpec
