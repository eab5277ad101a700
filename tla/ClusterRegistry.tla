---------------------------- MODULE ClusterRegistry ----------------------------
(***************************************************************************)
(* What table "cluster" promises to the processes that share a database: a *)
(* name gets one id, for ever, no two names get the same, and a process    *)
(* works under the id of its own cluster's name or under none.             *)
(***************************************************************************)
EXTENDS Naturals

CONSTANTS
    Names,      \* names of clusters
    Instances,  \* pgkube processes
    NameOf,     \* [Instances -> Names]
    Ids         \* what may be an id; 0 is not

VARIABLES
    registered, \* registered[n]: the id of name n, 0 if it has none
    held        \* held[i]: the id process i works under, 0 if none

vars == <<registered, held>>

Init ==
    /\ registered = [n \in Names |-> 0]
    /\ held = [i \in Instances |-> 0]

\* The process of a new name registers it and works under the new id at once.
Register(i) ==
    \E id \in Ids :
        /\ registered[NameOf[i]] = 0
        /\ \A n \in Names : registered[n] # id
        /\ registered' = [registered EXCEPT ![NameOf[i]] = id]
        /\ held' = [held EXCEPT ![i] = id]

Join(i) ==
    /\ registered[NameOf[i]] # 0
    /\ held' = [held EXCEPT ![i] = registered[NameOf[i]]]
    /\ UNCHANGED registered

Leave(i) ==
    /\ held' = [held EXCEPT ![i] = 0]
    /\ UNCHANGED registered

Next == \E i \in Instances : Register(i) \/ Join(i) \/ Leave(i)

Spec == Init /\ [][Next]_vars

\* A process never works under another cluster's id: what every query that
\* restricts itself to the process's cluster_id relies on.
OwnCluster ==
    /\ \A i \in Instances : held[i] # 0 => held[i] = registered[NameOf[i]]
    /\ \A m, n \in Names : m # n /\ registered[m] # 0 => registered[m] # registered[n]
================================================================================
