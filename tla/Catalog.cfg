SPECIFICATION Spec
CONSTANTS
    None = None
    w1 = w1
    g1 = g1
    Products <- MCProducts
    KindOf <- MCKindOf
    Codes = {c1}
    Handlers = {h1, h2}
    Keep = 1
INVARIANTS
    TypeOK
    CodesGoToo
PROPERTIES
    GraceKept
    OnSaleStays
    NeverReturns
    BinEmptied
