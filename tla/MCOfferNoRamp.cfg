CONSTANTS
    Uint24Max = 7
    Uint64Max = 63
    MaxPrice = 5
    MaxPeriod = 6
    MaxStart = 2
    MinRamp = 0
SPECIFICATION Spec
INVARIANTS
    WorthThePriceAtTimeAtPrice
