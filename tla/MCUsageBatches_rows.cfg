SPECIFICATION Spec
CONSTANTS
    r1 = r1
    r2 = r2
    b1 = b1
    b2 = b2
    b3 = b3
    b4 = b4
    Rows = {r1}
    Batches = {b1, b2, b3, b4}
    Values <- Signed
    NoBatch = NoBatch
CHECK_DEADLOCK FALSE
SYMMETRY BatchSymmetry
INVARIANT TypeOK
INVARIANT TotalsAreExact
INVARIANT MaxIsGreatest
INVARIANT MinIsLeastSinceZero
