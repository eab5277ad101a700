SPECIFICATION FairSpec
CONSTANTS
    p1 = p1
    p2 = p2
    n1 = n1
    i1 = i1
    i2 = i2
    c1 = c1
    c2 = c2
    Objects = {n1}
    Instances = {i1}
    Clusters = {c1}
    HomeOf <- OneHome
    KindOf <- KindByName
    ClusterOf <- OneCluster
    MaxRev = 1
    MaxQueue = 1
    MaxAbandoned = 0
    MaxRestarts = 1
PROPERTY NodesEventuallyMarked
