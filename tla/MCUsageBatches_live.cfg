SPECIFICATION FairSpec
CONSTANTS
    r1 = r1
    r2 = r2
    b1 = b1
    b2 = b2
    b3 = b3
    b4 = b4
    Rows = {r1, r2}
    Batches = {b1, b2, b3}
    Values = {1}
    NoBatch = NoBatch
CHECK_DEADLOCK FALSE
INVARIANT AllOrNothing
PROPERTY BatchesEnd
