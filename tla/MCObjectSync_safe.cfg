SPECIFICATION Spec
CONSTANTS
    p1 = p1
    p2 = p2
    n1 = n1
    i1 = i1
    i2 = i2
    c1 = c1
    c2 = c2
    Objects = {p1, p2}
    Instances = {i1, i2}
    Clusters = {c1, c2}
    HomeOf <- TwoHomes
    KindOf <- KindByName
    ClusterOf <- TwoClusters
    MaxRev = 2
    MaxQueue = 2
    MaxAbandoned = 0
    MaxRestarts = 1
SYMMETRY Exchangeable
INVARIANT TypeOK
INVARIANT RowsAreCached
PROPERTY RowNeverGoesBack
PROPERTY OnlyNewcomersMisjudged
