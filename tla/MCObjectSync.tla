----------------------------- MODULE MCObjectSync ------------------------------
(* Instances of ObjectSync for TLC. *)
EXTENDS ObjectSync, TLC

CONSTANTS
    p1, p2,     \* pods
    n1,         \* a node
    i1, i2,     \* pgkube processes
    c1, c2      \* clusters

KindByName == [u \in Objects |-> IF u = n1 THEN "Node" ELSE "Pod"]

\* One cluster, watched by every instance.
OneHome == [u \in Objects |-> c1]
OneCluster == [i \in Instances |-> c1]

\* Two clusters, each with its own instance and its own pod.
TwoHomes == [u \in Objects |-> IF u = p2 THEN c2 ELSE c1]
TwoClusters == [i \in Instances |-> IF i = i2 THEN c2 ELSE c1]

\* The clusters may be exchanged, each with its pod and its instance.
Same == [v \in {p1, p2, i1, i2, c1, c2} |-> v]
Swap == p1 :> p2 @@ p2 :> p1 @@ i1 :> i2 @@ i2 :> i1 @@ c1 :> c2 @@ c2 :> c1
Exchangeable == {IF swapped THEN Swap ELSE Same : swapped \in BOOLEAN}
================================================================================
