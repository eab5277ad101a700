SPECIFICATION Spec
CONSTANTS
    n1 = n1
    n2 = n2
    p1 = p1
    a = a
    b = b
    Nodes = {n1, n2}
    Pods = {p1}
    NameOf <- OneName
    Sizes <- FourOrTwoCores
    Specs <- OneOrTwoCores
    Averages = {1500}
    Hour = 2
    MaxNow = 3
    Null = Null
SYMMETRY Replaceable
CHECK_DEADLOCK FALSE
INVARIANT TypeOK
INVARIANT NodeHoursAddUp
INVARIANT NegativeOnlyOutsideLife
INVARIANT CapacityIsPaid
PROPERTY PastHoursFollowData
