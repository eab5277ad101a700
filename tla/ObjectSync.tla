------------------------------ MODULE ObjectSync -------------------------------
(***************************************************************************)
(* How pgkube mirrors Kubernetes objects into the table "object".          *)
(*                                                                         *)
(* An instance of pgkube (a process) runs, for each kind, a client-go      *)
(* informer that keeps a cache of the cluster's objects and queues a       *)
(* notification for every change, and a PersistObjectHandler that takes    *)
(* the notifications one at a time and writes them to the database.  Once  *)
(* an hour a garbage collector lists the caches and marks every row whose  *)
(* object is not listed.  Several instances may share a database: one per  *)
(* cluster, and two of the same cluster while a deployment is rolled out.  *)
(***************************************************************************)
EXTENDS ObjectTable, Sequences, FiniteSets

CONSTANTS
    Instances,      \* pgkube processes
    ClusterOf,      \* [Instances -> Clusters]: the cluster an instance watches
    MaxRev,         \* bound: revisions of an object
    MaxQueue,       \* bound: notifications waiting for one handler
    MaxAbandoned,   \* bound: timed-out statements the database may still run
    MaxRestarts     \* bound: restarts of all instances together

ASSUME ObjectSyncAssumption ==
    /\ ClusterOf \in [Instances -> Clusters]
    /\ MaxRev \in Nat
    /\ MaxQueue \in Nat
    /\ MaxAbandoned \in Nat
    /\ MaxRestarts \in Nat

\* Mutated form of GCTable: the typing error of the second line, in the first.
GCTable_PodsMisspelt == << [lister |-> "Pod", kind |-> "Pods"] >>

\* The calls of listAndDelete that CollectGarbage makes, in their order: the
\* lister that is read and the kind string given to DeleteObjects.
GCTable ==
    << [lister |-> "Pod",                   kind |-> "Pod"],
       [lister |-> "Node",                  kind |-> "Nodes"],
       [lister |-> "PersistentVolume",      kind |-> "PersistentVolume"],
       [lister |-> "PersistentVolumeClaim", kind |-> "PersistentVolumeClaim"],
       [lister |-> "ReplicaSet",            kind |-> "ReplicaSet"],
       [lister |-> "Deployment",            kind |-> "Deployment"],
       [lister |-> "Job",                   kind |-> "Job"],
       [lister |-> "CronJob",               kind |-> "CronJob"] >>

Kinds == {KindOf[u] : u \in Objects}

\* The calls that read or mark some kind in use; the others change nothing.
Tasks == {t \in DOMAIN GCTable : {GCTable[t].lister, GCTable[t].kind} \cap Kinds # {}}

VARIABLES
    rev,        \* rev[u]: latest revision of u in its cluster, 0 before creation
    gone,       \* objects deleted from their cluster
    seen,       \* seen[i][u]: latest revision of u that i's informer observed
    cached,     \* cached[i]: objects in the caches of i's informers
    synced,     \* synced[i]: kinds whose initial list is in i's cache
    queue,      \* queue[i][k]: notifications waiting for i's handler of kind k
    gc,         \* gc[i]: the garbage collection pass of i
    table,      \* the database table
    abandoned,  \* statements given up by a handler that may still be run
    orphans,    \* statements of collectors that died, which may still be run
    restarts    \* restarts so far

vars == <<rev, gone, seen, cached, synced, queue, gc, table, abandoned, orphans, restarts>>
clusterVars == <<rev, gone>>
informerVars == <<seen, cached, synced>>
databaseVars == <<table, abandoned, orphans>>

EventTypes == {"add", "update", "delete", "tombstone"}
Event == [type : EventTypes, obj : Objects, rev : Nat]
Pass == [todo : SUBSET Nat, listed : BOOLEAN, keep : SUBSET Objects]
NoPass == [todo |-> {}, listed |-> FALSE, keep |-> {}]

TypeOK ==
    /\ rev \in [Objects -> Nat]
    /\ gone \in SUBSET Objects
    /\ seen \in [Instances -> [Objects -> Nat]]
    /\ cached \in [Instances -> SUBSET Objects]
    /\ synced \in [Instances -> SUBSET Kinds]
    /\ queue \in [Instances -> [Kinds -> Seq(Event)]]
    /\ gc \in [Instances -> Pass]
    /\ table \in [Objects -> Row]
    /\ abandoned \in SUBSET [by : Instances, event : Event]
    /\ orphans \in SUBSET [by : Instances, task : Tasks, keep : SUBSET Objects]
    /\ restarts \in Nat

Init ==
    /\ rev = [u \in Objects |-> 0]
    /\ gone = {}
    /\ seen = [i \in Instances |-> [u \in Objects |-> 0]]
    /\ cached = [i \in Instances |-> {}]
    /\ synced = [i \in Instances |-> {}]
    /\ queue = [i \in Instances |-> [k \in Kinds |-> <<>>]]
    /\ gc = [i \in Instances |-> NoPass]
    /\ table = EmptyTable
    /\ abandoned = {}
    /\ orphans = {}
    /\ restarts = 0

Live(u) == rev[u] > 0 /\ u \notin gone
Watches(i, u) == HomeOf[u] = ClusterOf[i]

--------------------------------------------------------------------------------
(* The cluster: the API server is the system of record. *)

Create(u) ==
    /\ rev[u] = 0
    /\ rev' = [rev EXCEPT ![u] = 1]
    /\ UNCHANGED <<gone, informerVars, queue, gc, databaseVars, restarts>>

Modify(u) ==
    /\ Live(u)
    /\ rev[u] < MaxRev
    /\ rev' = [rev EXCEPT ![u] = @ + 1]
    /\ UNCHANGED <<gone, informerVars, queue, gc, databaseVars, restarts>>

Remove(u) ==
    /\ Live(u)
    /\ gone' = gone \union {u}
    /\ UNCHANGED <<rev, informerVars, queue, gc, databaseVars, restarts>>

--------------------------------------------------------------------------------
(* The informers of instance i (client-go, as scraper.go configures them).   *)

\* The indexer is updated first, then the handler is notified.
Notify(i, type, u, r) ==
    /\ Len(queue[i][KindOf[u]]) < MaxQueue
    /\ queue' = [queue EXCEPT ![i][KindOf[u]] =
                    Append(@, [type |-> type, obj |-> u, rev |-> r])]

\* A list (the initial one, or the one that follows a broken watch) shows the
\* present state of u; what happened to u since it was last seen is lost.  An
\* object that vanished in between is reported by a tombstone.
ReplaceLive(i, u) ==
    /\ Watches(i, u)
    /\ Live(u)
    /\ u \notin cached[i] \/ seen[i][u] < rev[u]
    /\ Notify(i, IF u \in cached[i] THEN "update" ELSE "add", u, rev[u])
    /\ seen' = [seen EXCEPT ![i][u] = rev[u]]
    /\ cached' = [cached EXCEPT ![i] = @ \union {u}]
    /\ UNCHANGED <<synced, clusterVars, gc, databaseVars, restarts>>

ReplaceGone(i, u) ==
    /\ Watches(i, u)
    /\ u \in gone
    /\ \/ /\ u \in cached[i]
          /\ Notify(i, "tombstone", u, seen[i][u])
       \/ /\ u \notin cached[i]
          /\ seen[i][u] < rev[u]
          /\ UNCHANGED queue
    /\ seen' = [seen EXCEPT ![i][u] = rev[u]]
    /\ cached' = [cached EXCEPT ![i] = @ \ {u}]
    /\ UNCHANGED <<synced, clusterVars, gc, databaseVars, restarts>>

\* Mutated form of InitialSync: the collector starts on an unfilled cache.
InitialSync_WithoutWaiting(i, k) ==
    /\ k \notin synced[i]
    /\ synced' = [synced EXCEPT ![i] = @ \union {k}]
    /\ UNCHANGED <<clusterVars, seen, cached, queue, gc, databaseVars, restarts>>

\* The initial list of kind k has reached the cache (the handlers may lag): it
\* held every object that lives, and the objects gone by then are not replayed.
InitialSync(i, k) ==
    /\ k \notin synced[i]
    /\ \A u \in Objects : Watches(i, u) /\ KindOf[u] = k =>
          /\ Live(u) => u \in cached[i]
          /\ u \in gone => u \in cached[i] \/ seen[i][u] = rev[u]
    /\ synced' = [synced EXCEPT ![i] = @ \union {k}]
    /\ UNCHANGED <<clusterVars, seen, cached, queue, gc, databaseVars, restarts>>

\* The watch replays the history of u one event at a time.
WatchUpdate(i, u) ==
    /\ Watches(i, u)
    /\ KindOf[u] \in synced[i]
    /\ seen[i][u] < rev[u]
    /\ Notify(i, IF u \in cached[i] THEN "update" ELSE "add", u, seen[i][u] + 1)
    /\ seen' = [seen EXCEPT ![i][u] = @ + 1]
    /\ cached' = [cached EXCEPT ![i] = @ \union {u}]
    /\ UNCHANGED <<synced, clusterVars, gc, databaseVars, restarts>>

WatchDelete(i, u) ==
    /\ Watches(i, u)
    /\ KindOf[u] \in synced[i]
    /\ u \in gone \intersect cached[i]
    /\ seen[i][u] = rev[u]
    /\ Notify(i, "delete", u, rev[u])
    /\ cached' = [cached EXCEPT ![i] = @ \ {u}]
    /\ UNCHANGED <<seen, synced, clusterVars, gc, databaseVars, restarts>>

\* Every resyncInterval each cached object is handed to the handler again.
Resync(i, u) ==
    /\ KindOf[u] \in synced[i]
    /\ u \in cached[i]
    /\ Notify(i, "update", u, seen[i][u])
    /\ UNCHANGED <<informerVars, clusterVars, gc, databaseVars, restarts>>

--------------------------------------------------------------------------------
(* PersistObjectHandler: one notification at a time, in the order of arrival. *)

\* The write a notification leads to: OnAdd and OnUpdate upsert, OnDelete marks
\* the row, and a tombstone has no GetUID, so OnDelete returns early.
Written(c, e, t) ==
    CASE e.type \in {"add", "update"} -> Upsert(t, e.obj, e.rev)
      [] e.type = "delete"            -> DeleteObject(t, c, e.obj)
      [] e.type = "tombstone"         -> t

Take(i, k) ==
    /\ queue[i][k] # <<>>
    /\ queue' = [queue EXCEPT ![i][k] = Tail(@)]
    /\ UNCHANGED <<clusterVars, informerVars, gc, restarts>>

\* Mutated form of HandleApplied: a goroutine for each notification.
HandleApplied_Concurrent(i, k) ==
    \E n \in DOMAIN queue[i][k] :
        /\ queue' = [queue EXCEPT ![i][k] =
                        SubSeq(@, 1, n - 1) \o SubSeq(@, n + 1, Len(@))]
        /\ table' = Written(ClusterOf[i], queue[i][k][n], table)
        /\ UNCHANGED <<clusterVars, informerVars, gc, abandoned, orphans, restarts>>

HandleApplied(i, k) ==
    /\ Take(i, k)
    /\ table' = Written(ClusterOf[i], Head(queue[i][k]), table)
    /\ UNCHANGED <<abandoned, orphans>>

\* The database refuses or is not reached: the error is logged, the
\* notification is not retried.
HandleFailed(i, k) ==
    /\ Take(i, k)
    /\ UNCHANGED databaseVars

\* The 5 second timeout: the handler moves on, the database may still run the
\* statement.
HandleAbandoned(i, k) ==
    /\ Take(i, k)
    /\ Head(queue[i][k]).type # "tombstone"
    /\ Cardinality(abandoned) < MaxAbandoned
    /\ abandoned' = abandoned \union {[by |-> i, event |-> Head(queue[i][k])]}
    /\ UNCHANGED <<table, orphans>>

Land(s) ==
    /\ s \in abandoned
    /\ table' = Written(ClusterOf[s.by], s.event, table)
    /\ abandoned' = abandoned \ {s}
    /\ UNCHANGED <<orphans, clusterVars, informerVars, queue, gc, restarts>>

Vanish(s) ==
    /\ s \in abandoned
    /\ abandoned' = abandoned \ {s}
    /\ UNCHANGED <<table, orphans, clusterVars, informerVars, queue, gc, restarts>>

--------------------------------------------------------------------------------
(* The garbage collector of instance i: StartGarbageCollector, CollectGarbage. *)

\* Mutated form of GCStart: the collector does not wait for the caches.
GCStart_WithoutWaiting(i) ==
    /\ gc[i].todo = {}
    /\ gc' = [gc EXCEPT ![i] = [NoPass EXCEPT !.todo = Tasks]]
    /\ UNCHANGED <<clusterVars, informerVars, queue, databaseVars, restarts>>

\* The first pass waits for every cache, the others for the hourly ticker.
GCStart(i) ==
    /\ Kinds \subseteq synced[i]
    /\ gc[i].todo = {}
    /\ gc' = [gc EXCEPT ![i] = [NoPass EXCEPT !.todo = Tasks]]
    /\ UNCHANGED <<clusterVars, informerVars, queue, databaseVars, restarts>>

IsNext(i, t) == t \in gc[i].todo /\ \A s \in gc[i].todo : t <= s

\* listFunc: the uids the cache holds now.
GCList(i, t) ==
    /\ IsNext(i, t)
    /\ ~gc[i].listed
    /\ gc' = [gc EXCEPT ![i].listed = TRUE,
                        ![i].keep = {u \in cached[i] : KindOf[u] = GCTable[t].lister}]
    /\ UNCHANGED <<clusterVars, informerVars, queue, databaseVars, restarts>>

\* deleteObjects has returned, with or without an error: on to the next kind.
GCNext(i, t) ==
    /\ IsNext(i, t)
    /\ gc[i].listed
    /\ gc' = [gc EXCEPT ![i] = [NoPass EXCEPT !.todo = gc[i].todo \ {t}]]
    /\ UNCHANGED <<clusterVars, informerVars, queue, abandoned, orphans, restarts>>

GCDeleted(i, t) ==
    /\ GCNext(i, t)
    /\ table' = DeleteObjects(table, ClusterOf[i], GCTable[t].kind, gc[i].keep)

GCFailed(i, t) ==
    /\ GCNext(i, t)
    /\ UNCHANGED table

--------------------------------------------------------------------------------
\* Mutated form of Restart: the queues are left without their kinds.
Restart_NoQueues(i) ==
    /\ restarts < MaxRestarts
    /\ restarts' = restarts + 1
    /\ seen' = [seen EXCEPT ![i] = [u \in Objects |-> 0]]
    /\ cached' = [cached EXCEPT ![i] = {}]
    /\ synced' = [synced EXCEPT ![i] = {}]
    /\ queue' = [queue EXCEPT ![i] = <<>>]
    /\ gc' = [gc EXCEPT ![i] = NoPass]
    /\ UNCHANGED <<clusterVars, table, abandoned, orphans>>

\* The statement that a pass of i is at, its kind being listed.
Pending(i) ==
    {[by |-> i, task |-> t, keep |-> gc[i].keep] : t \in {t \in Tasks : IsNext(i, t) /\ gc[i].listed}}

\* The process dies and a new one starts with empty caches.  A statement the
\* database was given before may still be run: the collector's is left behind
\* here, a handler's by HandleAbandoned.
Restart(i) ==
    /\ restarts < MaxRestarts
    /\ restarts' = restarts + 1
    /\ seen' = [seen EXCEPT ![i] = [u \in Objects |-> 0]]
    /\ cached' = [cached EXCEPT ![i] = {}]
    /\ synced' = [synced EXCEPT ![i] = {}]
    /\ queue' = [queue EXCEPT ![i] = [k \in Kinds |-> <<>>]]
    /\ gc' = [gc EXCEPT ![i] = NoPass]
    /\ \E sent \in SUBSET Pending(i) : orphans' = orphans \union sent
    /\ UNCHANGED <<clusterVars, table, abandoned>>

LandPass(s) ==
    /\ s \in orphans
    /\ table' = DeleteObjects(table, ClusterOf[s.by], GCTable[s.task].kind, s.keep)
    /\ orphans' = orphans \ {s}
    /\ UNCHANGED <<abandoned, clusterVars, informerVars, queue, gc, restarts>>

VanishPass(s) ==
    /\ s \in orphans
    /\ orphans' = orphans \ {s}
    /\ UNCHANGED <<table, abandoned, clusterVars, informerVars, queue, gc, restarts>>

Cluster == \E u \in Objects : Create(u) \/ Modify(u) \/ Remove(u)

Informer(i) ==
    \/ \E u \in Objects :
          \/ ReplaceLive(i, u) \/ ReplaceGone(i, u)
          \/ WatchUpdate(i, u) \/ WatchDelete(i, u) \/ Resync(i, u)
    \/ \E k \in Kinds : InitialSync(i, k)

Handler(i) ==
    \E k \in Kinds : HandleApplied(i, k) \/ HandleFailed(i, k) \/ HandleAbandoned(i, k)

Database ==
    \/ \E s \in abandoned : Land(s) \/ Vanish(s)
    \/ \E s \in orphans : LandPass(s) \/ VanishPass(s)

Collector(i) ==
    \/ GCStart(i)
    \/ \E t \in Tasks : GCList(i, t) \/ GCDeleted(i, t) \/ GCFailed(i, t)

Next ==
    \/ Cluster
    \/ \E i \in Instances : Informer(i) \/ Handler(i) \/ Collector(i) \/ Restart(i)
    \/ Database

Spec == Init /\ [][Next]_vars

--------------------------------------------------------------------------------
(* Fairness.  Informers and the hourly timers keep running; the database       *)
(* answers now and then, so a write tried over and over succeeds in the end;   *)
(* a statement given up is run or dropped in the end.                          *)

AboutNext(i, k, u) == queue[i][k] # <<>> /\ Head(queue[i][k]).obj = u

InformerFairness(i) ==
    /\ \A u \in Objects :
          /\ WF_vars(ReplaceLive(i, u) /\ KindOf[u] \notin synced[i])
          /\ WF_vars(ReplaceGone(i, u) /\ KindOf[u] \notin synced[i])
          /\ SF_vars(WatchUpdate(i, u))
          /\ SF_vars(WatchDelete(i, u))
          /\ SF_vars(Resync(i, u))
    /\ \A k \in Kinds : WF_vars(InitialSync(i, k))

HandlerFairness(i) ==
    \A k \in Kinds :
        /\ WF_vars(HandleApplied(i, k) \/ HandleFailed(i, k))
        /\ \A u \in Objects : SF_vars(AboutNext(i, k, u) /\ HandleApplied(i, k))

CollectorFairness(i) ==
    /\ WF_vars(Collector(i))
    /\ \A t \in Tasks : SF_vars(GCDeleted(i, t))

FairSpec ==
    /\ Spec
    /\ \A i \in Instances :
          InformerFairness(i) /\ HandlerFairness(i) /\ CollectorFairness(i)
    /\ WF_vars(Database)

--------------------------------------------------------------------------------
(* Properties. *)

\* No two instances watch the same cluster (kube/pgkube.yaml: replicas: 1, and
\* no rolling update under way).
OnePerCluster ==
    \A i, j \in Instances : ClusterOf[i] = ClusterOf[j] => i = j

\* Once an instance has listed a kind, every living object that has a row is in
\* its cache.  This is what makes it sound for CollectGarbage to read "not
\* listed" as "gone", and why StartScraper waits for the caches first.
RowsAreCached ==
    \A i \in Instances, u \in Objects :
        /\ Watches(i, u)
        /\ KindOf[u] \in synced[i]
        /\ table[u].state # "absent"
        /\ u \notin gone
        => u \in cached[i]

\* The collector of instance i is about to mark u, which its cache holds: u was
\* listed by nobody because it arrived after this pass listed the cache.
Newcomer(i, u) ==
    /\ Watches(i, u)
    /\ \E t \in Tasks :
          /\ IsNext(i, t)
          /\ GCTable[t].lister = KindOf[u]
          /\ GCTable[t].kind = KindOf[u]
    /\ gc[i].listed
    /\ u \in cached[i] \ gc[i].keep

\* A collector that died is about to mark u: u's kind was listed, and u not in it.
Overlooked(s, u) ==
    /\ Watches(s.by, u)
    /\ GCTable[s.task].lister = KindOf[u]
    /\ GCTable[s.task].kind = KindOf[u]
    /\ u \notin s.keep

\* The row of an object that still lives is marked deleted in one way only: by
\* the collector of the object's own cluster, when the object entered the cache
\* between the listing of its kind and the statement that marks the rest; or the
\* cache of the next process, if the collector died in between.
OnlyNewcomersMisjudged ==
    [][\A u \in Objects :
          table[u].state = "active" /\ table'[u].state # "active" /\ u \notin gone
          => \/ \E i \in Instances : Newcomer(i, u)
             \/ \E s \in orphans : Overlooked(s, u)]_vars

\* The data of a row never goes back to an older revision, across lost
\* statements, relists and restarts (one instance per cluster, and no
\* statement that runs after its handler gave it up or died).
RowNeverGoesBack ==
    [][\A u \in Objects : table'[u].rev >= table[u].rev]_vars

\* The table keeps the promises of ObjectArchive in every run.
Archive ==
    INSTANCE ObjectArchive
        WITH Objects <- Objects, rev <- rev, gone <- gone, table <- table
Archived == Archive!Spec

\* An object of a collected kind that is gone and has an active row gets its
\* deleted_at in the end, even if the deletion went unseen or its statement was
\* lost: what the hourly garbage collector is for.
CollectedKinds ==
    {"Pod", "PersistentVolume", "PersistentVolumeClaim", "ReplicaSet",
     "Deployment", "Job", "CronJob"}
GoneEventuallyMarked ==
    \A u \in Objects : KindOf[u] \in CollectedKinds =>
        (u \in gone /\ table[u].state = "active" ~> table[u].state = "deleted")

\* Every object has a row with its latest revision in the end, for good, unless
\* it is deleted: the resync repairs every statement that was lost or ran late.
EventuallyCurrent ==
    \A u \in Objects : <>[](Live(u) => table[u].rev = rev[u])

\* The same as GoneEventuallyMarked, asked of nodes.  It does not hold: nodes
\* are stored as kind "Node" and collected as kind "Nodes".
NodesEventuallyMarked ==
    \A u \in Objects : KindOf[u] = "Node" =>
        (u \in gone /\ table[u].state = "active" ~> table[u].state = "deleted")
--------------------------------------------------------------------------------
(* The inductive invariant behind the properties.                             *)

\* The notifications that wait for the handler of kind k in instance i.
Queued(i, k) == {queue[i][k][n] : n \in 1..Len(queue[i][k])}

\* Notification e, put in a queue of instance i, tells what happened: to an
\* object of i's cluster, in a revision it had, and "delete" only of one gone.
Genuine(i, e) ==
    /\ Watches(i, e.obj)
    /\ e.rev \in 1..rev[e.obj]
    /\ e.type \in {"delete", "tombstone"} => e.obj \in gone

ClusterTruth ==
    /\ \A u \in gone : rev[u] > 0
    /\ \A i \in Instances, u \in Objects : seen[i][u] <= rev[u]
    /\ \A i \in Instances : \A u \in cached[i] : Watches(i, u) /\ seen[i][u] > 0

RowTruth ==
    \A u \in Objects :
        /\ table[u].rev <= rev[u]
        /\ table[u].state # "absent" => rev[u] > 0

QueueTruth ==
    \A i \in Instances, k \in Kinds : \A e \in Queued(i, k) :
        Genuine(i, e) /\ KindOf[e.obj] = k /\ e.obj \in gone \union cached[i]

StatementTruth == \A s \in abandoned : Genuine(s.by, s.event)

PassesAreSynced == \A i \in Instances : gc[i].todo # {} => Kinds \subseteq synced[i]

\* What holds whoever shares the database.  The queues and the statements given
\* up only tell what happened, so no handler marks a living object; a row holds
\* a revision its object had; and no pass runs on a cache not yet listed.
Truthful ==
    /\ TypeOK
    /\ ClusterTruth
    /\ RowTruth
    /\ QueueTruth
    /\ StatementTruth
    /\ PassesAreSynced

\* u has a row, or a statement that may still write one.
Recorded(u) == table[u].state # "absent" \/ \E s \in abandoned : s.event.obj = u

\* RowsAreCached, strengthened to the statements that may still write a row.
RecordedAreCached ==
    \A i \in Instances, u \in Objects :
        /\ Watches(i, u)
        /\ KindOf[u] \in synced[i]
        /\ Recorded(u)
        /\ u \notin gone
        => u \in cached[i]
================================================================================
