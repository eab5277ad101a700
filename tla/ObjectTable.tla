------------------------------ MODULE ObjectTable ------------------------------
(***************************************************************************)
(* The PostgreSQL table "object" and the three statements pgkube runs on   *)
(* it.  A row is keyed by the uid of a Kubernetes object; of its columns   *)
(* the model keeps whether deleted_at is set and which revision of the     *)
(* object "data" holds.  The columns cluster_id, kind, namespace and name  *)
(* are functions of the uid (every upsert of a uid writes the same         *)
(* values), so the statements read HomeOf and KindOf in their place.       *)
(***************************************************************************)
EXTENDS Naturals

CONSTANTS
    Objects,        \* uids of Kubernetes objects
    Clusters,       \* clusters whose pgkube writes to this database
    HomeOf,         \* [Objects -> Clusters]: the cluster an object lives in
    KindOf          \* [Objects -> InformerKinds]

\* The keys of the map "informers": the kind strings objects are stored under.
InformerKinds ==
    {"Pod", "Node", "PersistentVolume", "PersistentVolumeClaim", "ReplicaSet",
     "Deployment", "DaemonSet", "StatefulSet", "Job", "CronJob"}

ASSUME ObjectTableAssumption ==
    /\ HomeOf \in [Objects -> Clusters]
    /\ KindOf \in [Objects -> InformerKinds]

RowStates == {"absent", "active", "deleted"}
Row == [state : RowStates, rev : Nat]
NoRow == [state |-> "absent", rev |-> 0]
EmptyTable == [u \in Objects |-> NoRow]

\* Mutated form of Upsert: the conflict clause also clears deleted_at.
Upsert_ClearsDeletedAt(t, u, r) ==
    [t EXCEPT ![u] = [state |-> "active", rev |-> r]]

\* Mutated form of Upsert: on conflict do nothing.
Upsert_DoNothing(t, u, r) ==
    IF t[u].state = "absent" THEN [t EXCEPT ![u] = [state |-> "active", rev |-> r]]
    ELSE t

\* insert ... on conflict (uid) do update: a new row has no deleted_at; an
\* existing row takes the new data and keeps its deleted_at.
Upsert(t, u, r) ==
    [t EXCEPT ![u] = [state |-> IF t[u].state = "absent" THEN "active"
                                ELSE t[u].state,
                      rev   |-> r]]

\* update ... where uid = $1 and deleted_at is null and cluster_id = $2
DeleteObject(t, c, u) ==
    IF t[u].state = "active" /\ HomeOf[u] = c
    THEN [t EXCEPT ![u] = [state |-> "deleted", rev |-> t[u].rev]]
    ELSE t

\* Mutated form of DeleteObjects: the where clause forgets the cluster.
DeleteObjects_AnyCluster(t, c, k, keep) ==
    [u \in Objects |->
        IF /\ u \notin keep
           /\ t[u].state = "active"
           /\ KindOf[u] = k
        THEN [state |-> "deleted", rev |-> t[u].rev]
        ELSE t[u]]

\* update ... where cluster_id = $1 and uid != all($2) and deleted_at is null
\* and kind = $3
DeleteObjects(t, c, k, keep) ==
    [u \in Objects |->
        IF /\ HomeOf[u] = c
           /\ u \notin keep
           /\ t[u].state = "active"
           /\ KindOf[u] = k
        THEN [state |-> "deleted", rev |-> t[u].rev]
        ELSE t[u]]
================================================================================
