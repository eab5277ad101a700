--------------------------- MODULE ObjectSyncProofs ----------------------------
(***************************************************************************)
(* Proofs about ObjectSync, for any number of objects, clusters, kinds and *)
(* instances and for every value of the bounds.                            *)
(*                                                                         *)
(* The argument: the queues and the abandoned statements only tell things  *)
(* that happened (Truthful), so no handler marks a living object; an       *)
(* informer that has listed a kind has seen whatever its own handlers      *)
(* wrote or may still write (RecordedAreCached), so a row missing from the *)
(* cache is the row of an object that is gone; and the collector runs on   *)
(* listed caches only (PassesAreSynced).                           *)
(***************************************************************************)
EXTENDS ObjectSync, SequenceTheorems, FiniteSetTheorems, TLAPS

--------------------------------------------------------------------------------
(* Facts about the constants and the sequences.                               *)

\* The collector's table has eight calls; a call that marks a kind under which
\* objects are stored has listed that same kind.
LEMMA GCTableFacts ==
    /\ Tasks \subseteq 1..8
    /\ \A t \in Tasks : GCTable[t].kind \in InformerKinds => GCTable[t].lister = GCTable[t].kind
<1>1. DOMAIN GCTable = 1..8
  BY DEF GCTable
<1>2. \A t \in 1..8 : GCTable[t].kind \in InformerKinds => GCTable[t].lister = GCTable[t].kind
  <2>1. TAKE t \in 1..8
  <2>2. t \in {1, 2, 3, 4, 5, 6, 7, 8}
    OBVIOUS
  <2>3. QED
    BY <2>2 DEF GCTable, InformerKinds
<1>3. QED
  BY <1>1, <1>2 DEF Tasks

\* Every object is of a kind in use.
LEMMA KindInUse == \A u \in Objects : KindOf[u] \in Kinds
BY DEF Kinds

\* What Take needs of a sequence: its head is one of its elements, and its tail
\* has no other elements.
LEMMA TailFacts ==
    ASSUME NEW S, NEW s \in Seq(S), s # <<>>
    PROVE  /\ Head(s) = s[1]
           /\ 1 \in 1..Len(s)
           /\ Head(s) \in S
           /\ Tail(s) \in Seq(S)
           /\ Len(Tail(s)) = Len(s) - 1
           /\ \A n \in 1..Len(Tail(s)) : n + 1 \in 1..Len(s) /\ Tail(s)[n] = s[n + 1]
<1>1. Len(s) \in Nat \ {0}
  BY EmptySeq, LenProperties
<1>2. QED
  BY <1>1, HeadTailProperties

--------------------------------------------------------------------------------
(* Type correctness.                                                          *)

\* Statements on the table leave it a table.
LEMMA WrittenType ==
    ASSUME NEW c \in Clusters, NEW e \in Event, table \in [Objects -> Row]
    PROVE  Written(c, e, table) \in [Objects -> Row]
<1>1. e.obj \in Objects /\ e.rev \in Nat /\ e.type \in EventTypes
  BY DEF Event
<1>2. CASE e.type \in {"add", "update"}
  BY <1>1, <1>2 DEF Written, Upsert, Row, RowStates
<1>3. CASE e.type = "delete"
  BY <1>1, <1>3 DEF Written, DeleteObject, Row, RowStates
<1>4. CASE e.type = "tombstone"
  BY <1>4 DEF Written
<1>5. QED
  BY <1>1, <1>2, <1>3, <1>4 DEF EventTypes

\* A notification is put in one queue, at its end.
LEMMA NotifyType ==
    ASSUME TypeOK, NEW i \in Instances, NEW type \in EventTypes, NEW u \in Objects,
           NEW r \in Nat, Notify(i, type, u, r)
    PROVE  queue' \in [Instances -> [Kinds -> Seq(Event)]]
<1>1. [type |-> type, obj |-> u, rev |-> r] \in Event
  BY DEF Event
<1>2. queue[i][KindOf[u]] \in Seq(Event)
  BY KindInUse DEF TypeOK
<1>3. Append(queue[i][KindOf[u]], [type |-> type, obj |-> u, rev |-> r]) \in Seq(Event)
  BY <1>1, <1>2, AppendProperties
<1>4. QED
  BY <1>3, KindInUse DEF Notify, TypeOK

LEMMA TakeType ==
    ASSUME TypeOK, NEW i \in Instances, NEW k \in Kinds, Take(i, k)
    PROVE  /\ queue' \in [Instances -> [Kinds -> Seq(Event)]]
           /\ Head(queue[i][k]) \in Event
<1>1. queue[i][k] \in Seq(Event) /\ queue[i][k] # <<>>
  BY DEF TypeOK, Take
<1>2. Head(queue[i][k]) \in Event /\ Tail(queue[i][k]) \in Seq(Event)
  BY <1>1, TailFacts
<1>3. QED
  BY <1>2 DEF Take, TypeOK

LEMMA TypeStep == TypeOK /\ [Next]_vars => TypeOK'
<1>1. SUFFICES ASSUME TypeOK, [Next]_vars PROVE TypeOK'
  OBVIOUS
<1> USE ObjectTableAssumption, ObjectSyncAssumption
<1>2. ASSUME NEW u \in Objects, Create(u) \/ Modify(u) \/ Remove(u)
      PROVE  TypeOK'
  <2>1. rev' \in [Objects -> Nat] /\ gone' \in SUBSET Objects
    <3>1. CASE Create(u)
      BY <1>1, <3>1 DEF Create, TypeOK
    <3>2. CASE Modify(u)
      BY <1>1, <3>2 DEF Modify, TypeOK
    <3>3. CASE Remove(u)
      BY <1>1, <3>3 DEF Remove, TypeOK
    <3>4. QED
      BY <1>2, <3>1, <3>2, <3>3
  <2>2. UNCHANGED <<seen, cached, synced, queue, gc, table, abandoned, orphans, restarts>>
    BY <1>2 DEF Create, Modify, Remove, informerVars, databaseVars
  <2>3. QED
    BY <1>1, <2>1, <2>2 DEF TypeOK
<1>3. ASSUME NEW i \in Instances, NEW u \in Objects, ReplaceLive(i, u)
      PROVE  TypeOK'
  <2>1. queue' \in [Instances -> [Kinds -> Seq(Event)]]
    BY <1>1, <1>3, NotifyType DEF ReplaceLive, TypeOK, EventTypes
  <2>2. QED
    BY <1>1, <1>3, <2>1 DEF ReplaceLive, TypeOK, clusterVars, databaseVars
<1>4. ASSUME NEW i \in Instances, NEW u \in Objects, ReplaceGone(i, u)
      PROVE  TypeOK'
  <2>1. queue' \in [Instances -> [Kinds -> Seq(Event)]]
    <3>1. CASE Notify(i, "tombstone", u, seen[i][u])
      BY <1>1, <3>1, NotifyType DEF TypeOK, EventTypes
    <3>2. CASE UNCHANGED queue
      BY <1>1, <3>2 DEF TypeOK
    <3>3. QED
      BY <1>4, <3>1, <3>2 DEF ReplaceGone
  <2>2. QED
    BY <1>1, <1>4, <2>1 DEF ReplaceGone, TypeOK, clusterVars, databaseVars
<1>5. ASSUME NEW i \in Instances, NEW u \in Objects, WatchUpdate(i, u)
      PROVE  TypeOK'
  <2>1. queue' \in [Instances -> [Kinds -> Seq(Event)]]
    BY <1>1, <1>5, NotifyType DEF WatchUpdate, TypeOK, EventTypes
  <2>2. seen' \in [Instances -> [Objects -> Nat]]
    BY <1>1, <1>5 DEF WatchUpdate, TypeOK
  <2>3. QED
    BY <1>1, <1>5, <2>1, <2>2 DEF WatchUpdate, TypeOK, clusterVars, databaseVars
<1>6. ASSUME NEW i \in Instances, NEW u \in Objects, WatchDelete(i, u)
      PROVE  TypeOK'
  <2>1. queue' \in [Instances -> [Kinds -> Seq(Event)]]
    BY <1>1, <1>6, NotifyType DEF WatchDelete, TypeOK, EventTypes
  <2>2. QED
    BY <1>1, <1>6, <2>1 DEF WatchDelete, TypeOK, clusterVars, databaseVars
<1>7. ASSUME NEW i \in Instances, NEW u \in Objects, Resync(i, u)
      PROVE  TypeOK'
  <2>1. queue' \in [Instances -> [Kinds -> Seq(Event)]]
    BY <1>1, <1>7, NotifyType DEF Resync, TypeOK, EventTypes
  <2>2. QED
    BY <1>1, <1>7, <2>1 DEF Resync, TypeOK, clusterVars, informerVars, databaseVars
<1>8. ASSUME NEW i \in Instances, NEW k \in Kinds, InitialSync(i, k)
      PROVE  TypeOK'
  BY <1>1, <1>8 DEF InitialSync, TypeOK, clusterVars, databaseVars
<1>9. ASSUME NEW i \in Instances, NEW k \in Kinds, HandleApplied(i, k)
      PROVE  TypeOK'
  <2>1. queue' \in [Instances -> [Kinds -> Seq(Event)]] /\ Head(queue[i][k]) \in Event
    BY <1>1, <1>9, TakeType DEF HandleApplied
  <2>2. table' \in [Objects -> Row]
    BY <1>1, <1>9, <2>1, WrittenType DEF HandleApplied, TypeOK
  <2>3. QED
    BY <1>1, <1>9, <2>1, <2>2
    DEF HandleApplied, Take, TypeOK, clusterVars, informerVars
<1>10. ASSUME NEW i \in Instances, NEW k \in Kinds, HandleFailed(i, k) \/ HandleAbandoned(i, k)
       PROVE  TypeOK'
  <2>1. queue' \in [Instances -> [Kinds -> Seq(Event)]] /\ Head(queue[i][k]) \in Event
    BY <1>1, <1>10, TakeType DEF HandleFailed, HandleAbandoned
  <2>2. abandoned' \in SUBSET [by : Instances, event : Event]
    BY <1>1, <1>10, <2>1 DEF HandleFailed, HandleAbandoned, TypeOK, databaseVars
  <2>3. QED
    BY <1>1, <1>10, <2>1, <2>2
    DEF HandleFailed, HandleAbandoned, Take, TypeOK, clusterVars, informerVars, databaseVars
<1>11. ASSUME NEW s \in abandoned, Land(s) \/ Vanish(s)
       PROVE  TypeOK'
  <2>1. s.by \in Instances /\ s.event \in Event
    BY <1>1 DEF TypeOK
  <2>2. table' \in [Objects -> Row]
    BY <1>1, <1>11, <2>1, WrittenType DEF Land, Vanish, TypeOK
  <2>3. QED
    BY <1>1, <1>11, <2>2 DEF Land, Vanish, TypeOK, clusterVars, informerVars
<1>12. ASSUME NEW i \in Instances, GCStart(i)
       PROVE  TypeOK'
  <2>1. [NoPass EXCEPT !.todo = Tasks] \in Pass
    <3>1. Tasks \in SUBSET Nat
      BY GCTableFacts
    <3>2. QED
      BY <3>1 DEF Pass, NoPass
  <2>2. gc' \in [Instances -> Pass]
    BY <1>1, <1>12, <2>1 DEF GCStart, TypeOK
  <2>3. QED
    BY <1>1, <1>12, <2>2 DEF GCStart, TypeOK, clusterVars, informerVars, databaseVars
<1>13. ASSUME NEW i \in Instances, NEW t \in Tasks, GCList(i, t)
       PROVE  TypeOK'
  <2>1. [gc[i] EXCEPT !.listed = TRUE,
                      !.keep = {u \in cached[i] : KindOf[u] = GCTable[t].lister}] \in Pass
    <3>1. gc[i] \in Pass /\ cached[i] \in SUBSET Objects
      BY <1>1 DEF TypeOK
    <3>2. {u \in cached[i] : KindOf[u] = GCTable[t].lister} \in SUBSET Objects
      BY <3>1
    <3> DEFINE L == {u \in cached[i] : KindOf[u] = GCTable[t].lister}
    <3> HIDE DEF L
    <3>3. L \in SUBSET Objects
      BY <3>2 DEF L
    <3>4. [gc[i] EXCEPT !.listed = TRUE, !.keep = L] \in Pass
      BY <3>1, <3>3 DEF Pass
    <3>5. QED
      BY <3>4 DEF L
  <2>2. gc' \in [Instances -> Pass]
    BY <1>1, <1>13, <2>1 DEF GCList, TypeOK
  <2>3. QED
    BY <1>1, <1>13, <2>2 DEF GCList, TypeOK, clusterVars, informerVars, databaseVars
<1>14. ASSUME NEW i \in Instances, NEW t \in Tasks, GCDeleted(i, t) \/ GCFailed(i, t)
       PROVE  TypeOK'
  <2>1. table' \in [Objects -> Row]
    BY <1>1, <1>14 DEF GCDeleted, GCFailed, DeleteObjects, TypeOK, Row, RowStates
  <2>2. gc' \in [Instances -> Pass]
    <3>1. gc[i].todo \ {t} \in SUBSET Nat
      BY <1>1 DEF TypeOK, Pass
    <3>2. [NoPass EXCEPT !.todo = gc[i].todo \ {t}] \in Pass
      BY <3>1 DEF Pass, NoPass
    <3>3. QED
      BY <1>1, <1>14, <3>2 DEF GCDeleted, GCFailed, GCNext, TypeOK
  <2>3. QED
    BY <1>1, <1>14, <2>1, <2>2
    DEF GCDeleted, GCFailed, GCNext, TypeOK, clusterVars, informerVars
<1>15. ASSUME NEW i \in Instances, Restart(i)
       PROVE  TypeOK'
  <2>1. [k \in Kinds |-> <<>>] \in [Kinds -> Seq(Event)]
    BY EmptySeq
  <2>2. gc[i].keep \in SUBSET Objects
    BY <1>1 DEF TypeOK, Pass
  <2>3. Pending(i) \subseteq [by : Instances, task : Tasks, keep : SUBSET Objects]
    BY <2>2 DEF Pending
  <2>4. orphans' \in SUBSET [by : Instances, task : Tasks, keep : SUBSET Objects]
    BY <1>1, <1>15, <2>3 DEF Restart, TypeOK
  <2>5. QED
    BY <1>1, <1>15, <2>1, <2>4 DEF Restart, TypeOK, Pass, NoPass, clusterVars
<1>16. ASSUME NEW s \in orphans, LandPass(s) \/ VanishPass(s)
       PROVE  TypeOK'
  <2>1. table' \in [Objects -> Row]
    BY <1>1, <1>16 DEF LandPass, VanishPass, DeleteObjects, TypeOK, Row, RowStates
  <2>2. QED
    BY <1>1, <1>16, <2>1 DEF LandPass, VanishPass, TypeOK, clusterVars, informerVars
<1>17. ASSUME UNCHANGED vars
       PROVE  TypeOK'
  BY <1>1, <1>17 DEF vars, TypeOK
<1>18. QED
  BY <1>1, <1>2, <1>3, <1>4, <1>5, <1>6, <1>7, <1>8, <1>9, <1>10, <1>11, <1>12, <1>13,
     <1>14, <1>15, <1>16, <1>17
  DEF Next, Cluster, Informer, Handler, Database, Collector

\* Every variable keeps its type, whatever the processes, the network and the
\* database do.
THEOREM Typing == Spec => []TypeOK
<1>1. Init => TypeOK
  BY EmptySeq DEF Init, TypeOK, EmptyTable, NoRow, Row, RowStates, NoPass, Pass
<1>2. QED
  BY <1>1, TypeStep, PTL DEF Spec

--------------------------------------------------------------------------------
(* The queues as sets.                                                        *)

\* What waits in a queue is a notification.
LEMMA QueuedAreEvents ==
    ASSUME TypeOK, NEW i \in Instances, NEW k \in Kinds, NEW e \in Queued(i, k)
    PROVE  e \in Event /\ e.obj \in Objects /\ e.rev \in Nat
<1>1. e \in Event
  BY ElementOfSeq DEF Queued, TypeOK
<1>2. QED
  BY <1>1 DEF Event

\* A notification joins the notifications of one queue.
LEMMA QueuedAfterNotify ==
    ASSUME TypeOK, NEW i \in Instances, NEW type \in EventTypes, NEW u \in Objects,
           NEW r \in Nat, Notify(i, type, u, r),
           NEW j \in Instances, NEW k \in Kinds, NEW e \in Queued(j, k)'
    PROVE  \/ e \in Queued(j, k)
           \/ j = i /\ k = KindOf[u] /\ e = [type |-> type, obj |-> u, rev |-> r]
<1> DEFINE new == [type |-> type, obj |-> u, rev |-> r]
           q == queue[i][KindOf[u]]
<1>1. q \in Seq(Event) /\ new \in Event
  BY KindInUse DEF TypeOK, Event
<1>2. CASE j = i /\ k = KindOf[u]
  <2>1. queue'[j][k] = Append(q, new)
    BY <1>2, KindInUse DEF Notify, TypeOK
  <2>2. PICK n \in 1..Len(Append(q, new)) : e = Append(q, new)[n]
    BY <2>1 DEF Queued
  <2>3. n = Len(q) + 1 \/ n \in 1..Len(q)
    BY <1>1, <2>2, AppendProperties, LenProperties
  <2>4. n \in 1..Len(q) => e \in Queued(j, k)
    BY <1>1, <1>2, <2>2, AppendProperties DEF Queued
  <2>5. n = Len(q) + 1 => e = new
    BY <1>1, <2>2, AppendProperties
  <2>6. QED
    BY <1>2, <2>3, <2>4, <2>5
<1>3. CASE ~(j = i /\ k = KindOf[u])
  BY <1>3, KindInUse DEF Notify, TypeOK, Queued
<1>4. QED
  BY <1>2, <1>3

\* Taking a notification adds none, and the one taken was waiting.
LEMMA QueuedAfterTake ==
    ASSUME TypeOK, NEW i \in Instances, NEW k \in Kinds, Take(i, k)
    PROVE  /\ Head(queue[i][k]) \in Queued(i, k)
           /\ \A j \in Instances, l \in Kinds : Queued(j, l)' \subseteq Queued(j, l)
<1>1. queue[i][k] \in Seq(Event) /\ queue[i][k] # <<>>
  BY DEF Take, TypeOK
<1>2. Head(queue[i][k]) \in Queued(i, k)
  BY <1>1, TailFacts DEF Queued
<1>3. ASSUME NEW j \in Instances, NEW l \in Kinds
      PROVE  Queued(j, l)' \subseteq Queued(j, l)
  <2>1. CASE j = i /\ l = k
    <3>1. queue'[j][l] = Tail(queue[i][k])
      BY <2>1 DEF Take, TypeOK
    <3>2. QED
      BY <1>1, <2>1, <3>1, TailFacts DEF Queued
  <2>2. CASE ~(j = i /\ l = k)
    BY <2>2 DEF Take, TypeOK, Queued
  <2>3. QED
    BY <2>1, <2>2
<1>4. QED
  BY <1>2, <1>3

\* What a statement does to a row: it touches only the row of its object, whose
\* revision it keeps or replaces by its own; only a delete ends an active row.
LEMMA WrittenRow ==
    ASSUME NEW i \in Instances, NEW e \in Event, table \in [Objects -> Row], NEW u \in Objects
    PROVE  LET new == Written(ClusterOf[i], e, table)[u]
           IN  /\ e.obj # u => new = table[u]
               /\ new.rev = table[u].rev \/ new.rev = e.rev
               /\ table[u].state = "active" /\ e.type # "delete" => new.state = "active"
<1>1. e.obj \in Objects /\ e.type \in EventTypes
  BY DEF Event
<1>2. CASE e.type \in {"add", "update"}
  BY <1>1, <1>2 DEF Written, Upsert
<1>3. CASE e.type = "delete"
  BY <1>1, <1>3 DEF Written, DeleteObject
<1>4. CASE e.type = "tombstone"
  BY <1>4 DEF Written
<1>5. QED
  BY <1>1, <1>2, <1>3, <1>4 DEF EventTypes

--------------------------------------------------------------------------------
(* Truthful is inductive.                                                     *)

\* After the only notification sent is a genuine one about an object that is
\* gone or cached, the queues tell the truth.
LEMMA QueueTruthAfterNotify ==
    ASSUME TypeOK, QueueTruth,
           NEW i \in Instances, NEW type \in EventTypes, NEW u \in Objects,
           NEW r \in Nat, Notify(i, type, u, r),
           Genuine(i, [type |-> type, obj |-> u, rev |-> r]),
           u \in gone \union cached'[i],
           UNCHANGED <<rev, gone>>,
           \A j \in Instances : cached[j] \subseteq cached'[j] \union gone
    PROVE  QueueTruth'
<1>1. SUFFICES ASSUME NEW j \in Instances, NEW k \in Kinds, NEW e \in Queued(j, k)'
               PROVE  Genuine(j, e)' /\ KindOf[e.obj] = k /\ e.obj \in gone' \union cached'[j]
  BY DEF QueueTruth
<1>2. CASE e \in Queued(j, k)
  BY <1>2 DEF QueueTruth, Genuine, Watches
<1>3. CASE j = i /\ k = KindOf[u] /\ e = [type |-> type, obj |-> u, rev |-> r]
  BY <1>3 DEF Genuine, Watches
<1>4. QED
  BY <1>2, <1>3, QueuedAfterNotify

\* Neither growth of the cluster nor fewer notifications make a queue lie.
LEMMA QueueTruthKept ==
    ASSUME TypeOK, QueueTruth,
           \A j \in Instances, k \in Kinds : Queued(j, k)' \subseteq Queued(j, k),
           \A u \in Objects : rev'[u] \in Nat /\ rev[u] <= rev'[u],
           gone \subseteq gone',
           \A j \in Instances, k \in Kinds :
              Queued(j, k)' # {} => cached[j] \subseteq cached'[j]
    PROVE  QueueTruth'
<1>1. SUFFICES ASSUME NEW j \in Instances, NEW k \in Kinds, NEW e \in Queued(j, k)'
               PROVE  Genuine(j, e)' /\ KindOf[e.obj] = k /\ e.obj \in gone' \union cached'[j]
  BY DEF QueueTruth
<1>2. e \in Queued(j, k) /\ cached[j] \subseteq cached'[j]
  OBVIOUS
<1>3. Genuine(j, e) /\ KindOf[e.obj] = k /\ e.obj \in gone \union cached[j]
  BY <1>2 DEF QueueTruth
<1>4. e.obj \in Objects
  BY <1>3 DEF TypeOK
<1>5. rev[e.obj] \in Nat /\ rev'[e.obj] \in Nat /\ rev[e.obj] <= rev'[e.obj]
  BY <1>4 DEF TypeOK
<1>6. QED
  BY <1>2, <1>3, <1>5 DEF Genuine, Watches

LEMMA RowTruthAfterWritten ==
    ASSUME TypeOK, RowTruth, NEW i \in Instances, NEW e \in Event, Genuine(i, e),
           table' = Written(ClusterOf[i], e, table), UNCHANGED rev
    PROVE  RowTruth'
<1>1. SUFFICES ASSUME NEW u \in Objects
               PROVE  table'[u].rev <= rev[u] /\ (table'[u].state # "absent" => rev[u] > 0)
  BY DEF RowTruth
<1>2. table[u].rev <= rev[u] /\ (table[u].state # "absent" => rev[u] > 0)
  BY DEF RowTruth
<1>3. rev[u] \in Nat /\ table \in [Objects -> Row]
  BY DEF TypeOK
<1>4. e.obj = u => e.rev \in 1..rev[u]
  BY DEF Genuine
<1>5. CASE e.obj # u
  BY <1>2, <1>3, <1>5, WrittenRow
<1>6. CASE e.obj = u
  BY <1>2, <1>3, <1>4, <1>6, WrittenRow
<1>7. QED
  BY <1>5, <1>6

LEMMA TruthfulStep == Truthful /\ [Next]_vars => Truthful'
<1>1. SUFFICES ASSUME Truthful, [Next]_vars PROVE Truthful'
  OBVIOUS
<1>2. TypeOK /\ TypeOK'
  BY <1>1, TypeStep DEF Truthful
<1> USE <1>2
<1>3. ASSUME NEW u \in Objects, Create(u) \/ Modify(u) \/ Remove(u)
      PROVE  Truthful'
  <2>1. /\ UNCHANGED <<seen, cached, synced, queue, gc, table, abandoned>>
        /\ gone \subseteq gone'
    BY <1>3 DEF Create, Modify, Remove, informerVars, databaseVars
  <2>2. \A v \in Objects : rev'[v] \in Nat /\ rev[v] \in Nat /\ rev[v] <= rev'[v]
    <3>1. CASE Create(u)
      BY <3>1 DEF Create, TypeOK
    <3>2. CASE Modify(u)
      BY <3>2 DEF Modify, TypeOK
    <3>3. CASE Remove(u)
      BY <3>3 DEF Remove, TypeOK
    <3>4. QED
      BY <1>3, <3>1, <3>2, <3>3
  <2>3. ClusterTruth'
    <3>1. \A v \in gone' : rev'[v] > 0
      BY <1>1, <1>3, <2>2 DEF Truthful, ClusterTruth, Create, Modify, Remove, Live, TypeOK
    <3>2. \A i \in Instances, v \in Objects : seen[i][v] <= rev'[v]
      BY <1>1, <2>2 DEF Truthful, ClusterTruth, TypeOK
    <3>3. QED
      BY <1>1, <2>1, <3>1, <3>2 DEF Truthful, ClusterTruth, Watches
  <2>4. RowTruth'
    BY <1>1, <2>1, <2>2 DEF Truthful, RowTruth, TypeOK, Row
  <2>5. QueueTruth'
    BY <1>1, <2>1, <2>2, QueueTruthKept DEF Truthful, Queued
  <2>6. StatementTruth'
    <3>1. SUFFICES ASSUME NEW s \in abandoned PROVE Genuine(s.by, s.event)'
      BY <2>1 DEF StatementTruth
    <3>2. Genuine(s.by, s.event) /\ s.event.obj \in Objects /\ s.event.rev \in Nat
      BY <1>1 DEF Truthful, StatementTruth, TypeOK, Event
    <3>3. QED
      BY <2>1, <2>2, <3>2 DEF Genuine, Watches
  <2>7. PassesAreSynced'
    BY <1>1, <2>1 DEF Truthful, PassesAreSynced
  <2>8. QED
    BY <2>3, <2>4, <2>5, <2>6, <2>7 DEF Truthful
<1>4. ASSUME NEW i \in Instances, NEW u \in Objects, ReplaceLive(i, u) \/ WatchUpdate(i, u)
      PROVE  Truthful'
  <2>1. /\ UNCHANGED <<rev, gone, synced, gc, table, abandoned>>
        /\ Watches(i, u)
        /\ cached' = [cached EXCEPT ![i] = @ \union {u}]
    BY <1>4 DEF ReplaceLive, WatchUpdate, clusterVars, databaseVars
  <2>2. PICK r \in 1..rev[u] : /\ seen' = [seen EXCEPT ![i][u] = r]
                               /\ \E type \in {"add", "update"} : Notify(i, type, u, r)
    <3>1. CASE ReplaceLive(i, u)
      <4>1. rev[u] \in Nat /\ rev[u] \in 1..rev[u]
        BY <3>1 DEF ReplaceLive, Live, TypeOK
      <4>2. seen' = [seen EXCEPT ![i][u] = rev[u]]
        BY <3>1 DEF ReplaceLive
      <4>3. \E type \in {"add", "update"} : Notify(i, type, u, rev[u])
        BY <3>1 DEF ReplaceLive
      <4>4. QED
        BY <4>1, <4>2, <4>3
    <3>2. CASE WatchUpdate(i, u)
      <4>1. seen[i][u] \in Nat /\ rev[u] \in Nat /\ seen[i][u] + 1 \in 1..rev[u]
        BY <3>2 DEF WatchUpdate, TypeOK
      <4>2. seen' = [seen EXCEPT ![i][u] = seen[i][u] + 1]
        BY <3>2 DEF WatchUpdate
      <4>3. QED
        BY <3>2, <4>1, <4>2 DEF WatchUpdate
    <3>3. QED
      BY <1>4, <3>1, <3>2
  <2>3. PICK type \in {"add", "update"} : Notify(i, type, u, r)
    BY <2>2
  <2>4. rev[u] \in Nat /\ r \in Nat /\ type \in EventTypes
    BY DEF TypeOK, EventTypes
  <2>5. ClusterTruth'
    BY <1>1, <2>1, <2>2, <2>4 DEF Truthful, ClusterTruth, TypeOK, Watches
  <2>6. QueueTruth'
    <3>1. u \in cached'[i] /\ \A j \in Instances : cached[j] \subseteq cached'[j]
      BY <2>1 DEF TypeOK
    <3>2. Genuine(i, [type |-> type, obj |-> u, rev |-> r])
      BY <2>1 DEF Genuine
    <3>3. QED
      BY <1>1, <2>1, <2>3, <2>4, <3>1, <3>2, QueueTruthAfterNotify DEF Truthful
  <2>7. RowTruth' /\ StatementTruth' /\ PassesAreSynced'
    BY <1>1, <2>1
    DEF Truthful, RowTruth, StatementTruth, PassesAreSynced, Genuine, Watches
  <2>8. QED
    BY <2>5, <2>6, <2>7 DEF Truthful
<1>5. ASSUME NEW i \in Instances, NEW u \in Objects, ReplaceGone(i, u) \/ WatchDelete(i, u)
      PROVE  Truthful'
  <2>1. /\ UNCHANGED <<rev, gone, synced, gc, table, abandoned>>
        /\ Watches(i, u)
        /\ u \in gone
        /\ cached' = [cached EXCEPT ![i] = @ \ {u}]
        /\ seen' = seen \/ seen' = [seen EXCEPT ![i][u] = rev[u]]
    BY <1>5 DEF ReplaceGone, WatchDelete, clusterVars, databaseVars
  <2>2. \A j \in Instances :
           cached'[j] \subseteq cached[j] /\ cached[j] \subseteq cached'[j] \union gone
    BY <2>1 DEF TypeOK
  <2>3. \/ \E type \in {"delete", "tombstone"}, r \in 1..rev[u] : Notify(i, type, u, r)
        \/ UNCHANGED queue
    <3>1. u \in cached[i] => seen[i][u] \in 1..rev[u]
      BY <1>1 DEF Truthful, ClusterTruth, TypeOK
    <3>2. CASE ReplaceGone(i, u)
      BY <3>1, <3>2 DEF ReplaceGone
    <3>3. CASE WatchDelete(i, u)
      BY <3>1, <3>3 DEF WatchDelete
    <3>4. QED
      BY <1>5, <3>2, <3>3
  <2>4. ClusterTruth'
    <3>1. rev[u] \in Nat /\ rev[u] > 0
      BY <1>1, <2>1 DEF Truthful, ClusterTruth, TypeOK
    <3>2. \A j \in Instances, v \in Objects : seen'[j][v] = seen[j][v] \/ seen'[j][v] = rev[v]
      <4>1. CASE seen' = seen
        BY <4>1
      <4>2. CASE seen' = [seen EXCEPT ![i][u] = rev[u]]
        BY <4>2 DEF TypeOK
      <4>3. QED
        BY <2>1, <4>1, <4>2
    <3>3. \A j \in Instances : \A v \in cached'[j] : Watches(j, v) /\ seen'[j][v] > 0
      <4>1. SUFFICES ASSUME NEW j \in Instances, NEW v \in cached'[j]
                     PROVE  Watches(j, v) /\ seen'[j][v] > 0
        OBVIOUS
      <4>2. v \in cached[j] /\ Watches(j, v) /\ seen[j][v] > 0 /\ ~(j = i /\ v = u)
        BY <1>1, <2>1, <2>2 DEF Truthful, ClusterTruth, TypeOK
      <4>3. seen'[j][v] = seen[j][v]
        BY <2>1, <4>2 DEF TypeOK
      <4>4. QED
        BY <4>2, <4>3
    <3>4. \A j \in Instances, v \in Objects : seen'[j][v] <= rev[v]
      <4>1. \A j \in Instances, v \in Objects : seen[j][v] <= rev[v] /\ rev[v] \in Nat
        BY <1>1 DEF Truthful, ClusterTruth, TypeOK
      <4>2. \A n \in Nat : n <= n
        OBVIOUS
      <4>3. QED
        BY <3>2, <4>1, <4>2
    <3>5. \A v \in gone : rev[v] > 0
      BY <1>1 DEF Truthful, ClusterTruth
    <3>6. QED
      BY <2>1, <3>3, <3>4, <3>5 DEF ClusterTruth, Watches
  <2>5. QueueTruth'
    <3>1. ASSUME NEW type \in {"delete", "tombstone"}, NEW r \in 1..rev[u], Notify(i, type, u, r)
          PROVE  QueueTruth'
      <4>1. Genuine(i, [type |-> type, obj |-> u, rev |-> r])
        BY <2>1 DEF Genuine
      <4>2. r \in Nat /\ type \in EventTypes
        BY DEF TypeOK, EventTypes
      <4>3. QED
        BY <1>1, <2>1, <2>2, <3>1, <4>1, <4>2, QueueTruthAfterNotify DEF Truthful
    <3>2. CASE UNCHANGED queue
      <4>1. SUFFICES ASSUME NEW j \in Instances, NEW k \in Kinds, NEW e \in Queued(j, k)
                     PROVE  Genuine(j, e)' /\ KindOf[e.obj] = k /\ e.obj \in gone' \union cached'[j]
        BY <3>2 DEF QueueTruth, Queued
      <4>2. QED
        BY <1>1, <2>1, <2>2 DEF Truthful, QueueTruth, Genuine, Watches
    <3>3. QED
      BY <2>3, <3>1, <3>2
  <2>6. RowTruth' /\ StatementTruth' /\ PassesAreSynced'
    BY <1>1, <2>1
    DEF Truthful, RowTruth, StatementTruth, PassesAreSynced, Genuine, Watches
  <2>7. QED
    BY <2>4, <2>5, <2>6 DEF Truthful
<1>6. ASSUME NEW i \in Instances, NEW u \in Objects, Resync(i, u)
      PROVE  Truthful'
  <2>1. /\ UNCHANGED <<rev, gone, seen, cached, synced, gc, table, abandoned>>
        /\ u \in cached[i]
        /\ Notify(i, "update", u, seen[i][u])
    BY <1>6 DEF Resync, clusterVars, informerVars, databaseVars
  <2>2. Watches(i, u) /\ seen[i][u] \in 1..rev[u] /\ seen[i][u] \in Nat
    BY <1>1, <2>1 DEF Truthful, ClusterTruth, TypeOK
  <2>3. Genuine(i, [type |-> "update", obj |-> u, rev |-> seen[i][u]])
    BY <2>2 DEF Genuine
  <2>4. "update" \in EventTypes
    BY DEF EventTypes
  <2>5. QueueTruth'
    BY <1>1, <2>1, <2>2, <2>3, <2>4, QueueTruthAfterNotify DEF Truthful
  <2>6. ClusterTruth' /\ RowTruth' /\ StatementTruth' /\ PassesAreSynced'
    BY <1>1, <2>1
    DEF Truthful, ClusterTruth, RowTruth, StatementTruth, PassesAreSynced, Genuine, Watches
  <2>7. QED
    BY <2>5, <2>6 DEF Truthful
<1>7. ASSUME NEW i \in Instances, NEW k \in Kinds, InitialSync(i, k)
      PROVE  Truthful'
  <2>1. /\ UNCHANGED <<rev, gone, seen, cached, queue, gc, table, abandoned>>
        /\ synced' = [synced EXCEPT ![i] = @ \union {k}]
    BY <1>7 DEF InitialSync, clusterVars, databaseVars
  <2>2. \A j \in Instances : synced[j] \subseteq synced'[j]
    BY <2>1 DEF TypeOK
  <2>3. PassesAreSynced'
    BY <1>1, <2>1, <2>2 DEF Truthful, PassesAreSynced
  <2>4. ClusterTruth' /\ RowTruth' /\ QueueTruth' /\ StatementTruth'
    BY <1>1, <2>1
    DEF Truthful, ClusterTruth, RowTruth, QueueTruth, StatementTruth, Queued, Genuine, Watches
  <2>5. QED
    BY <2>3, <2>4 DEF Truthful
<1>8. ASSUME NEW i \in Instances, NEW k \in Kinds,
             HandleApplied(i, k) \/ HandleFailed(i, k) \/ HandleAbandoned(i, k)
      PROVE  Truthful'
  <2> DEFINE head == Head(queue[i][k])
  <2>1. Take(i, k) /\ UNCHANGED <<rev, gone, seen, cached, synced, gc>>
    BY <1>8 DEF HandleApplied, HandleFailed, HandleAbandoned, Take, clusterVars, informerVars
  <2>2. head \in Event /\ Genuine(i, head)
    BY <1>1, <2>1, TakeType, QueuedAfterTake DEF Truthful, QueueTruth
  <2>3. QueueTruth'
    <3>1. \A u \in Objects : rev'[u] \in Nat /\ rev[u] <= rev'[u]
      BY <2>1 DEF TypeOK
    <3>2. QED
      BY <1>1, <2>1, <3>1, QueuedAfterTake, QueueTruthKept DEF Truthful
  <2>4. RowTruth'
    <3>1. CASE table' = Written(ClusterOf[i], head, table)
      BY <1>1, <2>1, <2>2, <3>1, RowTruthAfterWritten DEF Truthful
    <3>2. CASE UNCHANGED table
      BY <1>1, <2>1, <3>2 DEF Truthful, RowTruth
    <3>3. QED
      BY <1>8, <3>1, <3>2 DEF HandleApplied, HandleFailed, HandleAbandoned, databaseVars
  <2>5. StatementTruth'
    <3>1. abandoned' \subseteq abandoned \union {[by |-> i, event |-> head]}
      BY <1>8 DEF HandleApplied, HandleFailed, HandleAbandoned, databaseVars
    <3>2. QED
      BY <1>1, <2>1, <2>2, <3>1 DEF Truthful, StatementTruth, Genuine, Watches
  <2>6. ClusterTruth' /\ PassesAreSynced'
    BY <1>1, <2>1 DEF Truthful, ClusterTruth, PassesAreSynced, Watches
  <2>7. QED
    BY <2>3, <2>4, <2>5, <2>6 DEF Truthful
<1>9. ASSUME NEW s \in abandoned, Land(s) \/ Vanish(s)
      PROVE  Truthful'
  <2>1. /\ UNCHANGED <<rev, gone, seen, cached, synced, queue, gc>>
        /\ abandoned' \subseteq abandoned
    BY <1>9 DEF Land, Vanish, clusterVars, informerVars
  <2>2. s.by \in Instances /\ s.event \in Event /\ Genuine(s.by, s.event)
    BY <1>1 DEF Truthful, StatementTruth, TypeOK
  <2>3. RowTruth'
    <3>1. CASE Land(s)
      BY <1>1, <2>1, <2>2, <3>1, RowTruthAfterWritten DEF Truthful, Land
    <3>2. CASE Vanish(s)
      BY <1>1, <2>1, <3>2 DEF Truthful, RowTruth, Vanish
    <3>3. QED
      BY <1>9, <3>1, <3>2
  <2>4. ClusterTruth' /\ QueueTruth' /\ StatementTruth' /\ PassesAreSynced'
    BY <1>1, <2>1
    DEF Truthful, ClusterTruth, QueueTruth, StatementTruth, PassesAreSynced, Queued, Genuine,
        Watches
  <2>5. QED
    BY <2>3, <2>4 DEF Truthful
<1>10. ASSUME NEW i \in Instances, GCStart(i)
       PROVE  Truthful'
  <2>1. /\ UNCHANGED <<rev, gone, seen, cached, synced, queue, table, abandoned>>
        /\ Kinds \subseteq synced[i]
        /\ \A j \in Instances : j # i => gc'[j] = gc[j]
    BY <1>10 DEF GCStart, TypeOK, clusterVars, informerVars, databaseVars
  <2>2. PassesAreSynced'
    BY <1>1, <2>1 DEF Truthful, PassesAreSynced
  <2>3. ClusterTruth' /\ RowTruth' /\ QueueTruth' /\ StatementTruth'
    BY <1>1, <2>1
    DEF Truthful, ClusterTruth, RowTruth, QueueTruth, StatementTruth, Queued, Genuine, Watches
  <2>4. QED
    BY <2>2, <2>3 DEF Truthful
<1>11. ASSUME NEW i \in Instances, NEW t \in Tasks,
              GCList(i, t) \/ GCDeleted(i, t) \/ GCFailed(i, t)
       PROVE  Truthful'
  <2>1. /\ UNCHANGED <<rev, gone, seen, cached, synced, queue, abandoned>>
        /\ t \in gc[i].todo
        /\ \A j \in Instances : j # i => gc'[j] = gc[j]
    BY <1>11
    DEF GCList, GCDeleted, GCFailed, GCNext, IsNext, TypeOK, clusterVars, informerVars,
        databaseVars
  <2>2. RowTruth'
    <3>1. CASE UNCHANGED table
      BY <1>1, <2>1, <3>1 DEF Truthful, RowTruth
    <3>2. CASE table' = DeleteObjects(table, ClusterOf[i], GCTable[t].kind, gc[i].keep)
      BY <1>1, <2>1, <3>2 DEF Truthful, RowTruth, DeleteObjects
    <3>3. QED
      BY <1>11, <3>1, <3>2 DEF GCList, GCDeleted, GCFailed, databaseVars
  <2>3. PassesAreSynced'
    <3>1. Kinds \subseteq synced[i]
      BY <1>1, <2>1 DEF Truthful, PassesAreSynced
    <3>2. QED
      BY <1>1, <2>1, <3>1 DEF Truthful, PassesAreSynced
  <2>4. ClusterTruth' /\ QueueTruth' /\ StatementTruth'
    BY <1>1, <2>1
    DEF Truthful, ClusterTruth, QueueTruth, StatementTruth, Queued, Genuine, Watches
  <2>5. QED
    BY <2>2, <2>3, <2>4 DEF Truthful
<1>12. ASSUME NEW i \in Instances, Restart(i)
       PROVE  Truthful'
  <2>1. /\ UNCHANGED <<rev, gone, table, abandoned>>
        /\ seen'[i] = [u \in Objects |-> 0] /\ cached'[i] = {}
        /\ queue'[i] = [k \in Kinds |-> <<>>] /\ gc'[i] = NoPass
        /\ \A j \in Instances : j # i =>
              /\ seen'[j] = seen[j] /\ cached'[j] = cached[j] /\ synced'[j] = synced[j]
              /\ queue'[j] = queue[j] /\ gc'[j] = gc[j]
    BY <1>12 DEF Restart, TypeOK, clusterVars
  <2>2. ClusterTruth'
    <3>1. \A u \in Objects : seen'[i][u] = 0 /\ rev[u] \in Nat /\ seen'[i][u] <= rev[u]
      BY <2>1 DEF TypeOK
    <3>2. \A j \in Instances, u \in Objects : seen'[j][u] <= rev[u]
      BY <1>1, <2>1, <3>1 DEF Truthful, ClusterTruth
    <3>3. \A j \in Instances : \A u \in cached'[j] : Watches(j, u) /\ seen'[j][u] > 0
      BY <1>1, <2>1 DEF Truthful, ClusterTruth
    <3>4. QED
      BY <1>1, <2>1, <3>2, <3>3 DEF Truthful, ClusterTruth, Watches
  <2>3. QueueTruth'
    <3>1. \A k \in Kinds : Queued(i, k)' = {}
      BY <2>1, EmptySeq DEF Queued
    <3>2. \A j \in Instances, k \in Kinds : j # i => Queued(j, k)' = Queued(j, k)
      BY <2>1 DEF Queued
    <3>3. QED
      BY <1>1, <2>1, <3>1, <3>2 DEF Truthful, QueueTruth, Genuine, Watches
  <2>4. RowTruth' /\ StatementTruth'
    BY <1>1, <2>1 DEF Truthful, RowTruth, StatementTruth, Genuine, Watches
  <2>5. PassesAreSynced'
    BY <1>1, <2>1 DEF Truthful, PassesAreSynced, NoPass
  <2>6. QED
    BY <2>2, <2>3, <2>4, <2>5 DEF Truthful
<1>13. ASSUME NEW s \in orphans, LandPass(s) \/ VanishPass(s)
       PROVE  Truthful'
  <2>1. UNCHANGED <<rev, gone, seen, cached, synced, queue, gc, abandoned>>
    BY <1>13 DEF LandPass, VanishPass, clusterVars, informerVars
  <2>2. RowTruth'
    BY <1>1, <1>13, <2>1 DEF Truthful, RowTruth, LandPass, VanishPass, DeleteObjects
  <2>3. ClusterTruth' /\ QueueTruth' /\ StatementTruth' /\ PassesAreSynced'
    BY <1>1, <2>1
    DEF Truthful, ClusterTruth, QueueTruth, StatementTruth, PassesAreSynced, Queued, Genuine,
        Watches
  <2>4. QED
    BY <2>2, <2>3 DEF Truthful
<1>14. ASSUME UNCHANGED vars
       PROVE  Truthful'
  BY <1>1, <1>14
  DEF vars, Truthful, ClusterTruth, RowTruth, QueueTruth, StatementTruth, PassesAreSynced,
      Queued, Genuine, Watches
<1>15. QED
  BY <1>1, <1>3, <1>4, <1>5, <1>6, <1>7, <1>8, <1>9, <1>10, <1>11, <1>12, <1>13, <1>14
  DEF Next, Cluster, Informer, Handler, Database, Collector

\* The queues, the statements given up and the rows only tell what happened,
\* and no collection pass runs on a cache that is not listed, whichever and
\* however many instances share the database.
THEOREM NothingMadeUp == Spec => []Truthful
<1>1. Init => Truthful
  <2>1. ASSUME Init PROVE TypeOK
    BY <2>1, EmptySeq DEF Init, TypeOK, EmptyTable, NoRow, Row, RowStates, NoPass, Pass
  <2>2. ASSUME Init PROVE ClusterTruth /\ RowTruth /\ StatementTruth /\ PassesAreSynced
    BY <2>2
    DEF Init, ClusterTruth, RowTruth, StatementTruth, PassesAreSynced, EmptyTable, NoRow, NoPass
  <2>3. ASSUME Init PROVE QueueTruth
    BY <2>3, EmptySeq DEF Init, QueueTruth, Queued
  <2>4. QED
    BY <2>1, <2>2, <2>3 DEF Truthful
<1>2. QED
  BY <1>1, TruthfulStep, PTL DEF Spec

--------------------------------------------------------------------------------
(* RowsAreCached.                                                             *)

\* RecordedAreCached survives a step after which nothing more is recorded or
\* synced, and no living object has left a cache that counts as synced.
LEMMA RecordedKept ==
    ASSUME RecordedAreCached,
           \A u \in Objects : Recorded(u)' => Recorded(u),
           gone \subseteq gone',
           \A i \in Instances : /\ synced'[i] \subseteq synced[i]
                                /\ synced'[i] # {} => cached[i] \subseteq cached'[i] \union gone
    PROVE  RecordedAreCached'
BY DEF RecordedAreCached, Watches

LEMMA RecordedStep ==
    ASSUME OnePerCluster
    PROVE  Truthful /\ RecordedAreCached /\ [Next]_vars => RecordedAreCached'
<1>1. SUFFICES ASSUME Truthful, RecordedAreCached, [Next]_vars PROVE RecordedAreCached'
  OBVIOUS
<1>2. TypeOK
  BY <1>1 DEF Truthful
<1>3. ASSUME NEW u \in Objects, Create(u) \/ Modify(u) \/ Remove(u)
      PROVE  RecordedAreCached'
  BY <1>1, <1>3, RecordedKept
  DEF Create, Modify, Remove, Recorded, informerVars, databaseVars
<1>4. ASSUME NEW i \in Instances, NEW u \in Objects,
             \/ ReplaceLive(i, u) \/ ReplaceGone(i, u)
             \/ WatchUpdate(i, u) \/ WatchDelete(i, u) \/ Resync(i, u)
      PROVE  RecordedAreCached'
  <2>1. /\ UNCHANGED <<gone, synced, table, abandoned>>
        /\ \/ cached' = cached
           \/ cached' = [cached EXCEPT ![i] = @ \union {u}]
           \/ cached' = [cached EXCEPT ![i] = @ \ {u}] /\ u \in gone
    BY <1>4
    DEF ReplaceLive, ReplaceGone, WatchUpdate, WatchDelete, Resync, clusterVars, informerVars,
        databaseVars
  <2>2. \A j \in Instances : cached[j] \subseteq cached'[j] \union gone
    BY <1>2, <2>1 DEF TypeOK
  <2>3. QED
    BY <1>1, <2>1, <2>2, RecordedKept DEF Recorded
<1>5. ASSUME NEW i \in Instances, NEW k \in Kinds, InitialSync(i, k)
      PROVE  RecordedAreCached'
  <2>1. /\ UNCHANGED <<rev, gone, cached, table, abandoned>>
        /\ synced' = [synced EXCEPT ![i] = @ \union {k}]
    BY <1>5 DEF InitialSync, clusterVars, databaseVars
  <2>2. \A u \in Objects : Recorded(u) => rev[u] > 0
    <3>1. ASSUME NEW u \in Objects, NEW s \in abandoned, s.event.obj = u PROVE rev[u] > 0
      <4>1. s.event.rev \in 1..rev[u] /\ rev[u] \in Nat
        BY <1>1, <1>2, <3>1 DEF Truthful, StatementTruth, Genuine, TypeOK
      <4>2. QED
        BY <4>1
    <3>2. QED
      BY <1>1, <3>1 DEF Truthful, RowTruth, Recorded
  <2>3. SUFFICES ASSUME NEW j \in Instances, NEW u \in Objects,
                        Watches(j, u), KindOf[u] \in synced'[j], Recorded(u), u \notin gone
                 PROVE  u \in cached[j]
    BY <2>1 DEF RecordedAreCached, Recorded, Watches
  <2>4. CASE KindOf[u] \in synced[j]
    BY <1>1, <2>3, <2>4 DEF RecordedAreCached
  <2>5. CASE j = i /\ KindOf[u] = k
    BY <1>5, <2>2, <2>3, <2>5 DEF InitialSync, Live
  <2>6. QED
    BY <1>2, <2>1, <2>3, <2>4, <2>5 DEF TypeOK
<1>6. ASSUME NEW i \in Instances, NEW k \in Kinds,
             HandleApplied(i, k) \/ HandleFailed(i, k) \/ HandleAbandoned(i, k)
      PROVE  RecordedAreCached'
  <2> DEFINE head == Head(queue[i][k])
  <2>1. Take(i, k) /\ UNCHANGED <<gone, cached, synced>>
    BY <1>6 DEF HandleApplied, HandleFailed, HandleAbandoned, Take, clusterVars, informerVars
  <2>2. head \in Event /\ head \in Queued(i, k)
    BY <1>2, <2>1, TakeType, QueuedAfterTake
  <2>3. Watches(i, head.obj) /\ head.obj \in gone \union cached[i]
    BY <1>1, <2>2 DEF Truthful, QueueTruth, Genuine
  <2>4. \A u \in Objects : Recorded(u)' => Recorded(u) \/ u = head.obj
    <3>1. CASE HandleApplied(i, k)
      <4>1. SUFFICES ASSUME NEW u \in Objects, table'[u].state # "absent", u # head.obj
                     PROVE  table[u].state # "absent"
        BY <3>1 DEF HandleApplied, Recorded
      <4>2. table'[u] = table[u]
        BY <1>2, <2>2, <3>1, <4>1, WrittenRow DEF HandleApplied, TypeOK
      <4>3. QED
        BY <4>1, <4>2
    <3>2. CASE HandleFailed(i, k) \/ HandleAbandoned(i, k)
      BY <3>2 DEF HandleFailed, HandleAbandoned, Recorded, databaseVars
    <3>3. QED
      BY <1>6, <3>1, <3>2
  <2>5. SUFFICES ASSUME NEW j \in Instances, NEW u \in Objects,
                        Watches(j, u), KindOf[u] \in synced[j], Recorded(u)', u \notin gone
                 PROVE  u \in cached[j]
    BY <2>1 DEF RecordedAreCached, Watches
  <2>6. CASE Recorded(u)
    BY <1>1, <2>5, <2>6 DEF RecordedAreCached
  <2>7. CASE u = head.obj
    <3>1. j = i
      BY <2>3, <2>5, <2>7 DEF Watches, OnePerCluster
    <3>2. QED
      BY <2>3, <2>5, <2>7, <3>1
  <2>8. QED
    BY <2>4, <2>5, <2>6, <2>7
<1>7. ASSUME NEW s \in abandoned, Land(s) \/ Vanish(s)
      PROVE  RecordedAreCached'
  <2>1. UNCHANGED <<gone, cached, synced>> /\ abandoned' \subseteq abandoned
    BY <1>7 DEF Land, Vanish, clusterVars, informerVars
  <2>2. \A u \in Objects : Recorded(u)' => Recorded(u)
    <3>1. SUFFICES ASSUME NEW u \in Objects, table'[u].state # "absent", u # s.event.obj
                   PROVE  table[u].state # "absent"
      BY <2>1 DEF Recorded
    <3>2. s.event \in Event
      BY <1>2 DEF TypeOK
    <3>3. CASE table' = Written(ClusterOf[s.by], s.event, table)
      <4>1. Written(ClusterOf[s.by], s.event, table)[u] = table[u]
        BY <1>2, <3>1, <3>2, WrittenRow DEF TypeOK
      <4>2. QED
        BY <3>1, <3>3, <4>1
    <3>4. QED
      BY <1>7, <3>1, <3>3 DEF Land, Vanish
  <2>3. QED
    BY <1>1, <2>1, <2>2, RecordedKept
<1>8. ASSUME NEW i \in Instances, GCStart(i)
      PROVE  RecordedAreCached'
  BY <1>1, <1>8, RecordedKept DEF GCStart, Recorded, clusterVars, informerVars, databaseVars
<1>9. ASSUME NEW i \in Instances, NEW t \in Tasks,
             GCList(i, t) \/ GCDeleted(i, t) \/ GCFailed(i, t)
      PROVE  RecordedAreCached'
  <2>1. UNCHANGED <<gone, cached, synced, abandoned>>
    BY <1>9
    DEF GCList, GCDeleted, GCFailed, GCNext, clusterVars, informerVars, databaseVars
  <2>2. \A u \in Objects : table[u].state = "absent" => table'[u].state = "absent"
    BY <1>9 DEF GCList, GCDeleted, GCFailed, DeleteObjects, databaseVars
  <2>3. QED
    BY <1>1, <2>1, <2>2, RecordedKept DEF Recorded
<1>10. ASSUME NEW i \in Instances, Restart(i)
       PROVE  RecordedAreCached'
  <2>1. UNCHANGED <<gone, table, abandoned>> /\ synced'[i] = {}
    BY <1>2, <1>10 DEF Restart, TypeOK, clusterVars
  <2>2. \A j \in Instances : j # i => synced'[j] = synced[j] /\ cached'[j] = cached[j]
    BY <1>2, <1>10 DEF Restart, TypeOK
  <2>3. QED
    BY <1>1, <2>1, <2>2, RecordedKept DEF Recorded
<1>11. ASSUME NEW s \in orphans, LandPass(s) \/ VanishPass(s)
       PROVE  RecordedAreCached'
  <2>1. UNCHANGED <<gone, cached, synced, abandoned>>
    BY <1>11 DEF LandPass, VanishPass, clusterVars, informerVars
  <2>2. \A u \in Objects : table[u].state = "absent" => table'[u].state = "absent"
    BY <1>11 DEF LandPass, VanishPass, DeleteObjects
  <2>3. QED
    BY <1>1, <2>1, <2>2, RecordedKept DEF Recorded
<1>12. ASSUME UNCHANGED vars
       PROVE  RecordedAreCached'
  BY <1>1, <1>12, RecordedKept DEF vars, Recorded
<1>13. QED
  BY <1>1, <1>3, <1>4, <1>5, <1>6, <1>7, <1>8, <1>9, <1>10, <1>11, <1>12
  DEF Next, Cluster, Informer, Handler, Database, Collector

LEMMA RecordedInit == Init => RecordedAreCached
BY DEF Init, RecordedAreCached, Recorded, EmptyTable, NoRow

\* With one instance per cluster, a living object with a row is in the cache of
\* every instance that has listed its kind: "not in the cache" means "gone",
\* which is what CollectGarbage relies on.
THEOREM CacheCoversRows ==
    ASSUME OnePerCluster
    PROVE  Spec => []RowsAreCached
<1>1. RecordedAreCached => RowsAreCached
  BY DEF RecordedAreCached, RowsAreCached, Recorded
<1>2. Spec => []Truthful
  BY NothingMadeUp
<1>3. Truthful /\ RecordedAreCached /\ [Next]_vars => RecordedAreCached'
  BY RecordedStep
<1>4. QED
  BY <1>1, <1>2, <1>3, RecordedInit, PTL DEF Spec

--------------------------------------------------------------------------------
(* OnlyNewcomersMisjudged.                                                    *)

\* A statement of a handler marks only objects that are gone.
LEMMA WrittenSparesTheLiving ==
    ASSUME TypeOK, NEW i \in Instances, NEW e \in Event, Genuine(i, e),
           table' = Written(ClusterOf[i], e, table),
           NEW u \in Objects, table[u].state = "active", u \notin gone
    PROVE  table'[u].state = "active"
<1>1. table \in [Objects -> Row]
  BY DEF TypeOK
<1>2. e.type = "delete" => e.obj \in gone
  BY DEF Genuine
<1>3. CASE e.obj # u
  BY <1>1, <1>3, WrittenRow
<1>4. CASE e.type # "delete"
  BY <1>1, <1>4, WrittenRow
<1>5. QED
  BY <1>2, <1>3, <1>4

LEMMA MisjudgedStep ==
    ASSUME Truthful, RowsAreCached, Next,
           NEW u \in Objects, table[u].state = "active", table'[u].state # "active", u \notin gone
    PROVE  \/ \E i \in Instances : Newcomer(i, u)
           \/ \E s \in orphans : Overlooked(s, u)
<1>1. TypeOK
  BY DEF Truthful
<1>2. table' # table
  OBVIOUS
<1>3. ASSUME NEW i \in Instances, NEW k \in Kinds, HandleApplied(i, k)
      PROVE  FALSE
  <2>1. Take(i, k)
    BY <1>3 DEF HandleApplied
  <2>2. Head(queue[i][k]) \in Event /\ Genuine(i, Head(queue[i][k]))
    BY <1>1, <2>1, TakeType, QueuedAfterTake DEF Truthful, QueueTruth
  <2>3. QED
    BY <1>1, <1>3, <2>2, WrittenSparesTheLiving DEF HandleApplied
<1>4. ASSUME NEW s \in abandoned, Land(s)
      PROVE  FALSE
  <2>1. s.by \in Instances /\ s.event \in Event /\ Genuine(s.by, s.event)
    BY <1>1 DEF Truthful, StatementTruth, TypeOK
  <2>2. QED
    BY <1>1, <1>4, <2>1, WrittenSparesTheLiving DEF Land
<1>5. ASSUME NEW i \in Instances, NEW t \in Tasks, GCDeleted(i, t)
      PROVE  Newcomer(i, u)
  <2>1. IsNext(i, t) /\ gc[i].listed
    BY <1>5 DEF GCDeleted, GCNext
  <2>2. HomeOf[u] = ClusterOf[i] /\ u \notin gc[i].keep /\ KindOf[u] = GCTable[t].kind
    BY <1>5 DEF GCDeleted, DeleteObjects
  <2>3. KindOf[u] \in synced[i]
    BY <2>1, KindInUse DEF IsNext, Truthful, PassesAreSynced
  <2>4. u \in cached[i]
    BY <2>2, <2>3 DEF RowsAreCached, Watches
  <2>5. GCTable[t].lister = KindOf[u]
    BY <2>2, ObjectTableAssumption, GCTableFacts
  <2>6. QED
    BY <2>1, <2>2, <2>4, <2>5 DEF Newcomer, Watches
<1>6. ASSUME NEW s \in orphans, LandPass(s)
      PROVE  Overlooked(s, u)
  <2>1. HomeOf[u] = ClusterOf[s.by] /\ u \notin s.keep /\ KindOf[u] = GCTable[s.task].kind
    BY <1>6 DEF LandPass, DeleteObjects
  <2>2. s.task \in Tasks
    BY <1>1 DEF TypeOK
  <2>3. GCTable[s.task].lister = KindOf[u]
    BY <2>1, <2>2, ObjectTableAssumption, GCTableFacts
  <2>4. QED
    BY <2>1, <2>3 DEF Overlooked, Watches
<1>7. ASSUME NEW v \in Objects PROVE ~(Create(v) \/ Modify(v) \/ Remove(v))
  BY <1>2 DEF Create, Modify, Remove, databaseVars
<1>8. ASSUME NEW i \in Instances PROVE ~Informer(i)
  BY <1>2
  DEF Informer, ReplaceLive, ReplaceGone, WatchUpdate, WatchDelete, Resync, InitialSync,
      databaseVars
<1>9. ASSUME NEW i \in Instances, NEW k \in Kinds PROVE ~(HandleFailed(i, k) \/ HandleAbandoned(i, k))
  BY <1>2 DEF HandleFailed, HandleAbandoned, databaseVars
<1>10. ASSUME NEW s \in abandoned PROVE ~Vanish(s)
  BY <1>2 DEF Vanish
<1>11. ASSUME NEW s \in orphans PROVE ~VanishPass(s)
  BY <1>2 DEF VanishPass
<1>12. ASSUME NEW i \in Instances PROVE ~(GCStart(i) \/ Restart(i))
  BY <1>2 DEF GCStart, Restart, databaseVars
<1>13. ASSUME NEW i \in Instances, NEW t \in Tasks PROVE ~(GCList(i, t) \/ GCFailed(i, t))
  BY <1>2 DEF GCList, GCFailed, databaseVars
<1>14. QED
  BY <1>3, <1>4, <1>5, <1>6, <1>7, <1>8, <1>9, <1>10, <1>11, <1>12, <1>13
  DEF Next, Cluster, Handler, Database, Collector

\* With one instance per cluster, the row of a living object is marked deleted
\* only by the collector of its own cluster, and only when the object entered
\* the cache after the pass listed it, or the list of a collector that died in
\* between did not hold it.
THEOREM OnlyNewcomers ==
    ASSUME OnePerCluster
    PROVE  Spec => OnlyNewcomersMisjudged
<1>1. Truthful /\ RowsAreCached /\ [Next]_vars =>
        [\A u \in Objects :
            table[u].state = "active" /\ table'[u].state # "active" /\ u \notin gone
            => \/ \E i \in Instances : Newcomer(i, u)
               \/ \E s \in orphans : Overlooked(s, u)]_vars
  BY MisjudgedStep
<1>2. Spec => []Truthful /\ []RowsAreCached
  BY NothingMadeUp, CacheCoversRows
<1>3. QED
  BY <1>1, <1>2, PTL DEF Spec, OnlyNewcomersMisjudged

--------------------------------------------------------------------------------
(* Archived: the table is an archive.                                         *)

\* A statement of a handler records a revision, marks one row or does nothing.
LEMMA WrittenIsArchived ==
    ASSUME TypeOK, NEW i \in Instances, NEW e \in Event, Genuine(i, e),
           table' = Written(ClusterOf[i], e, table), UNCHANGED <<rev, gone>>
    PROVE  Archive!Next \/ UNCHANGED table
<1>1. e.obj \in Objects /\ e.type \in EventTypes /\ e.rev \in 1..rev[e.obj]
  BY DEF Event, Genuine
<1>2. CASE e.type \in {"add", "update"}
  <2>1. Archive!Record(e.obj)
    BY <1>1, <1>2 DEF Archive!Record, Written, Upsert
  <2>2. QED
    BY <1>1, <2>1 DEF Archive!Next
<1>3. CASE e.type = "delete" /\ table' # table
  <2>1. /\ table[e.obj].state = "active"
        /\ table' = [table EXCEPT ![e.obj] = [state |-> "deleted", rev |-> table[e.obj].rev]]
    BY <1>3 DEF Written, DeleteObject
  <2>2. table' = [u \in Objects |->
                    IF u \in {e.obj} THEN [state |-> "deleted", rev |-> table[u].rev]
                    ELSE table[u]]
    BY <1>1, <2>1 DEF TypeOK
  <2>3. Archive!Mark({e.obj})
    BY <2>1, <2>2 DEF Archive!Mark
  <2>4. QED
    BY <1>1, <2>3 DEF Archive!Next
<1>4. CASE e.type = "tombstone"
  BY <1>4 DEF Written
<1>5. QED
  BY <1>1, <1>2, <1>3, <1>4 DEF EventTypes

\* A garbage collection marks a set of active rows.
LEMMA CollectionIsArchived ==
    ASSUME NEW c, NEW k, NEW keep, table' = DeleteObjects(table, c, k, keep),
           UNCHANGED <<rev, gone>>
    PROVE  Archive!Next
<1> DEFINE S == {u \in Objects : /\ HomeOf[u] = c
                                 /\ u \notin keep
                                 /\ table[u].state = "active"
                                 /\ KindOf[u] = k}
<1>1. table' = [u \in Objects |->
                    IF u \in S THEN [state |-> "deleted", rev |-> table[u].rev]
                    ELSE table[u]]
  BY DEF DeleteObjects
<1>2. S \in SUBSET Objects /\ \A u \in S : table[u].state = "active"
  OBVIOUS
<1>3. Archive!Mark(S)
  BY <1>1, <1>2 DEF Archive!Mark
<1>4. QED
  BY <1>2, <1>3 DEF Archive!Next

LEMMA ArchiveStep == Truthful /\ [Next]_vars => [Archive!Next]_Archive!vars
<1>1. SUFFICES ASSUME Truthful, [Next]_vars PROVE Archive!Next \/ UNCHANGED <<rev, gone, table>>
  BY DEF Archive!vars
<1>2. TypeOK
  BY <1>1 DEF Truthful
<1>3. ASSUME NEW u \in Objects, Create(u) \/ Modify(u) \/ Remove(u)
      PROVE  Archive!Next
  <2>1. u \notin gone /\ UNCHANGED table
    BY <1>1, <1>3 DEF Create, Modify, Remove, Live, Truthful, ClusterTruth, databaseVars
  <2>2. Archive!Evolve(u)
    <3>1. CASE Create(u)
      BY <1>2, <2>1, <3>1 DEF Create, Archive!Evolve, TypeOK
    <3>2. CASE Modify(u)
      BY <2>1, <3>2 DEF Modify, Archive!Evolve
    <3>3. CASE Remove(u)
      BY <2>1, <3>3 DEF Remove, Live, Archive!Evolve
    <3>4. QED
      BY <1>3, <3>1, <3>2, <3>3
  <2>3. QED
    BY <2>2 DEF Archive!Next
<1>4. ASSUME NEW i \in Instances, NEW k \in Kinds, HandleApplied(i, k)
      PROVE  Archive!Next \/ UNCHANGED <<rev, gone, table>>
  <2>1. Take(i, k) /\ UNCHANGED <<rev, gone>>
    BY <1>4 DEF HandleApplied, Take, clusterVars
  <2>2. Head(queue[i][k]) \in Event /\ Genuine(i, Head(queue[i][k]))
    BY <1>1, <1>2, <2>1, TakeType, QueuedAfterTake DEF Truthful, QueueTruth
  <2>3. QED
    BY <1>2, <1>4, <2>1, <2>2, WrittenIsArchived DEF HandleApplied
<1>5. ASSUME NEW s \in abandoned, Land(s)
      PROVE  Archive!Next \/ UNCHANGED <<rev, gone, table>>
  <2>1. s.by \in Instances /\ s.event \in Event /\ Genuine(s.by, s.event)
    BY <1>1, <1>2 DEF Truthful, StatementTruth, TypeOK
  <2>2. QED
    BY <1>2, <1>5, <2>1, WrittenIsArchived DEF Land, clusterVars
<1>6. ASSUME NEW i \in Instances, NEW t \in Tasks, GCDeleted(i, t)
      PROVE  Archive!Next
  BY <1>6, CollectionIsArchived DEF GCDeleted, GCNext, clusterVars
<1>7. ASSUME NEW i \in Instances, Informer(i)
      PROVE  UNCHANGED <<rev, gone, table>>
  BY <1>7
  DEF Informer, ReplaceLive, ReplaceGone, WatchUpdate, WatchDelete, Resync, InitialSync,
      clusterVars, databaseVars
<1>8. ASSUME NEW i \in Instances, NEW k \in Kinds, HandleFailed(i, k) \/ HandleAbandoned(i, k)
      PROVE  UNCHANGED <<rev, gone, table>>
  BY <1>8 DEF HandleFailed, HandleAbandoned, Take, clusterVars, databaseVars
<1>9. ASSUME NEW s \in abandoned, Vanish(s)
      PROVE  UNCHANGED <<rev, gone, table>>
  BY <1>9 DEF Vanish, clusterVars
<1>10. ASSUME NEW i \in Instances, GCStart(i) \/ Restart(i)
       PROVE  UNCHANGED <<rev, gone, table>>
  BY <1>10 DEF GCStart, Restart, clusterVars, databaseVars
<1>11. ASSUME NEW i \in Instances, NEW t \in Tasks, GCList(i, t) \/ GCFailed(i, t)
       PROVE  UNCHANGED <<rev, gone, table>>
  BY <1>11 DEF GCList, GCFailed, GCNext, clusterVars, databaseVars
<1>12. ASSUME NEW s \in orphans, LandPass(s) \/ VanishPass(s)
       PROVE  Archive!Next \/ UNCHANGED <<rev, gone, table>>
  BY <1>12, CollectionIsArchived DEF LandPass, VanishPass, clusterVars
<1>13. ASSUME UNCHANGED vars
       PROVE  UNCHANGED <<rev, gone, table>>
  BY <1>13 DEF vars
<1>14. QED
  BY <1>1, <1>3, <1>4, <1>5, <1>6, <1>7, <1>8, <1>9, <1>10, <1>11, <1>12, <1>13
  DEF Next, Cluster, Handler, Database, Collector

\* However many instances share the database, and whatever statements are lost
\* or run late, the table is an archive: every row holds a revision its object
\* had, no row disappears, and none that was marked deleted comes back.
THEOREM TableIsArchive == Spec => Archived
<1>1. Init => Archive!Init
  BY DEF Init, Archive!Init, EmptyTable, NoRow
<1>2. Spec => []Truthful
  BY NothingMadeUp
<1>3. QED
  BY <1>1, <1>2, ArchiveStep, PTL DEF Spec, Archived, Archive!Spec

--------------------------------------------------------------------------------
(* RowNeverGoesBack.                                                          *)

\* Notifications about an object wait in the order of its revisions ...
QueuesInOrder ==
    \A i \in Instances, k \in Kinds : \A m, n \in 1..Len(queue[i][k]) :
        m < n /\ queue[i][k][m].obj = queue[i][k][n].obj
        => queue[i][k][m].rev <= queue[i][k][n].rev

\* ... none of them newer than what the informer saw nor older than the row ...
QueuesAheadOfRows ==
    \A i \in Instances, k \in Kinds : \A e \in Queued(i, k) :
        table[e.obj].rev <= e.rev /\ e.rev <= seen[i][e.obj]

\* ... and an informer that saw an object saw what its row holds.
InformersAheadOfRows ==
    \A i \in Instances, u \in Objects :
        Watches(i, u) /\ (seen[i][u] > 0 \/ KindOf[u] \in synced[i])
        => table[u].rev <= seen[i][u]

InOrder ==
    /\ abandoned = {}
    /\ QueuesInOrder
    /\ QueuesAheadOfRows
    /\ InformersAheadOfRows

LEMMA OrderAfterNotify ==
    ASSUME TypeOK, InOrder,
           NEW i \in Instances, NEW type \in EventTypes, NEW u \in Objects,
           NEW r \in Nat, Notify(i, type, u, r),
           seen[i][u] <= r, r <= seen'[i][u], table[u].rev <= r,
           UNCHANGED table,
           \A j \in Instances, v \in Objects : seen'[j][v] \in Nat /\ seen[j][v] <= seen'[j][v]
    PROVE  QueuesInOrder' /\ QueuesAheadOfRows'
<1> DEFINE new == [type |-> type, obj |-> u, rev |-> r]
           q == queue[i][KindOf[u]]
<1>1. q \in Seq(Event) /\ new \in Event /\ Len(q) \in Nat
  <2>1. q \in Seq(Event) /\ new \in Event
    BY KindInUse DEF TypeOK, Event
  <2>2. QED
    BY <2>1, LenProperties
<1>2. \A n \in 1..Len(q) : q[n] \in Event /\ q[n] \in Queued(i, KindOf[u])
  BY <1>1, ElementOfSeq DEF Queued
<1>3. QueuesInOrder'
  <2>1. SUFFICES ASSUME NEW j \in Instances, NEW k \in Kinds,
                        NEW m \in 1..Len(queue'[j][k]), NEW n \in 1..Len(queue'[j][k]),
                        m < n, queue'[j][k][m].obj = queue'[j][k][n].obj
                 PROVE  queue'[j][k][m].rev <= queue'[j][k][n].rev
    BY DEF QueuesInOrder
  <2>2. CASE j = i /\ k = KindOf[u]
    <3>1. queue'[j][k] = Append(q, new)
      BY <2>2, KindInUse DEF Notify, TypeOK
    <3>2. Len(Append(q, new)) = Len(q) + 1
      BY <1>1, AppendProperties
    <3>3. m \in 1..Len(q) /\ Append(q, new)[m] = q[m]
      BY <1>1, <2>1, <3>1, <3>2, AppendProperties
    <3>4. CASE n \in 1..Len(q)
      <4>1. Append(q, new)[n] = q[n]
        BY <1>1, <3>4, AppendProperties
      <4>2. q[m].rev <= q[n].rev
        BY <2>1, <3>1, <3>3, <3>4, <4>1, KindInUse DEF InOrder, QueuesInOrder
      <4>3. QED
        BY <3>1, <3>3, <4>1, <4>2
    <3>5. CASE n = Len(q) + 1
      <4>1. Append(q, new)[n] = new
        BY <1>1, <3>5, AppendProperties
      <4>2. q[m].obj = u
        BY <2>1, <3>1, <3>3, <4>1
      <4>3. q[m].rev <= seen[i][u] /\ q[m].rev \in Nat
        BY <1>2, <3>3, <4>2, KindInUse DEF InOrder, QueuesAheadOfRows, Event
      <4>4. q[m].rev <= r
        BY <4>3 DEF TypeOK
      <4>5. QED
        BY <3>1, <3>3, <4>1, <4>4
    <3>6. QED
      BY <1>1, <3>1, <3>2, <3>4, <3>5
  <2>3. CASE ~(j = i /\ k = KindOf[u])
    <3>1. queue'[j][k] = queue[j][k]
      BY <2>3, KindInUse DEF Notify, TypeOK
    <3>2. QED
      BY <2>1, <3>1 DEF InOrder, QueuesInOrder
  <2>4. QED
    BY <2>2, <2>3
<1>4. QueuesAheadOfRows'
  <2>1. SUFFICES ASSUME NEW j \in Instances, NEW k \in Kinds, NEW e \in Queued(j, k)'
                 PROVE  table[e.obj].rev <= e.rev /\ e.rev <= seen'[j][e.obj]
    BY DEF QueuesAheadOfRows
  <2>2. CASE e \in Queued(j, k)
    <3>1. e \in Event
      BY <2>2, ElementOfSeq DEF Queued, TypeOK
    <3>2. e.obj \in Objects /\ e.rev \in Nat
      BY <3>1 DEF Event
    <3>3. table[e.obj].rev <= e.rev /\ e.rev <= seen[j][e.obj] /\ seen[j][e.obj] \in Nat
      BY <2>2, <3>2 DEF InOrder, QueuesAheadOfRows, TypeOK
    <3>4. seen'[j][e.obj] \in Nat /\ seen[j][e.obj] <= seen'[j][e.obj]
      BY <3>2
    <3>5. QED
      BY <3>2, <3>3, <3>4
  <2>3. CASE j = i /\ e = new
    BY <2>3
  <2>4. QED
    BY <2>2, <2>3, QueuedAfterNotify
<1>5. QED
  BY <1>3, <1>4

LEMMA OrderAfterTake ==
    ASSUME TypeOK, InOrder, NEW i \in Instances, NEW k \in Kinds, Take(i, k)
    PROVE  /\ QueuesInOrder'
           /\ \A e \in Queued(i, k)' : e.obj = Head(queue[i][k]).obj
                                       => Head(queue[i][k]).rev <= e.rev
<1> DEFINE q == queue[i][k]
<1>1. q \in Seq(Event) /\ q # <<>>
  BY DEF Take, TypeOK
<1>2. queue' = [queue EXCEPT ![i][k] = Tail(q)]
  BY DEF Take
<1>3. queue'[i][k] = Tail(q)
  BY <1>2 DEF TypeOK
<1>4. /\ Head(q) = q[1] /\ 1 \in 1..Len(q) /\ Len(Tail(q)) \in Nat
      /\ \A n \in 1..Len(Tail(q)) : n + 1 \in 1..Len(q) /\ Tail(q)[n] = q[n + 1]
  BY <1>1, TailFacts, LenProperties
<1>5. QueuesInOrder'
  <2>1. SUFFICES ASSUME NEW j \in Instances, NEW l \in Kinds,
                        NEW m \in 1..Len(queue'[j][l]), NEW n \in 1..Len(queue'[j][l]),
                        m < n, queue'[j][l][m].obj = queue'[j][l][n].obj
                 PROVE  queue'[j][l][m].rev <= queue'[j][l][n].rev
    BY DEF QueuesInOrder
  <2>2. CASE j = i /\ l = k
    <3> DEFINE rest == Tail(q)
    <3> HIDE DEF rest
    <3>0. queue'[j][l] = rest /\ \A x \in 1..Len(rest) : x + 1 \in 1..Len(q) /\ rest[x] = q[x + 1]
      BY <1>3, <1>4, <2>2 DEF rest
    <3>1. /\ rest[m] = q[m + 1] /\ rest[n] = q[n + 1]
          /\ m + 1 \in 1..Len(q) /\ n + 1 \in 1..Len(q) /\ m + 1 < n + 1
      BY <2>1, <3>0
    <3>2. q[m + 1].obj = q[n + 1].obj => q[m + 1].rev <= q[n + 1].rev
      BY <3>1 DEF InOrder, QueuesInOrder
    <3>3. QED
      BY <2>1, <3>0, <3>1, <3>2
  <2>3. CASE ~(j = i /\ l = k)
    <3>1. queue'[j][l] = queue[j][l]
      BY <1>2, <2>3 DEF TypeOK
    <3>2. QED
      BY <2>1, <3>1 DEF InOrder, QueuesInOrder
  <2>4. QED
    BY <2>2, <2>3
<1>6. ASSUME NEW e \in Queued(i, k)', e.obj = Head(q).obj
      PROVE  Head(q).rev <= e.rev
  <2>1. PICK n \in 1..Len(Tail(q)) : e = Tail(q)[n]
    BY <1>3 DEF Queued
  <2>2. e = q[n + 1] /\ n + 1 \in 1..Len(q) /\ 1 < n + 1
    BY <1>4, <2>1
  <2>3. QED
    BY <1>4, <1>6, <2>2 DEF InOrder, QueuesInOrder
<1>7. QED
  BY <1>5, <1>6

\* A step of the informer of i about u, which has now seen revision r and may
\* have sent a notification about revision m.
LEMMA OrderAfterInformer ==
    ASSUME TypeOK, InOrder,
           NEW i \in Instances, NEW u \in Objects, NEW type \in EventTypes,
           NEW m \in Nat, NEW r \in Nat,
           UNCHANGED <<synced, table, abandoned>>,
           seen' = [seen EXCEPT ![i][u] = r], seen[i][u] <= r, table[u].rev <= r,
           \/ UNCHANGED queue
           \/ Notify(i, type, u, m) /\ seen[i][u] <= m /\ m <= r /\ table[u].rev <= m
    PROVE  InOrder'
<1>1. seen[i][u] \in Nat /\ seen'[i][u] = r
  BY DEF TypeOK
<1>2. \A j \in Instances, v \in Objects :
          /\ seen'[j][v] \in Nat
          /\ seen[j][v] \in Nat
          /\ (j = i /\ v = u) \/ seen'[j][v] = seen[j][v]
  BY DEF TypeOK
<1>3. \A j \in Instances, v \in Objects : seen'[j][v] \in Nat /\ seen[j][v] <= seen'[j][v]
  BY <1>1, <1>2
<1>4. QueuesInOrder' /\ QueuesAheadOfRows'
  <2>1. CASE UNCHANGED queue
    <3>1. QueuesInOrder'
      BY <2>1 DEF InOrder, QueuesInOrder
    <3>2. QueuesAheadOfRows'
      <4>1. SUFFICES ASSUME NEW j \in Instances, NEW k \in Kinds, NEW e \in Queued(j, k)
                     PROVE  table[e.obj].rev <= e.rev /\ e.rev <= seen'[j][e.obj]
        BY <2>1 DEF QueuesAheadOfRows, Queued
      <4>2. e.obj \in Objects /\ e.rev \in Nat
        BY QueuedAreEvents
      <4>3. table[e.obj].rev <= e.rev /\ e.rev <= seen[j][e.obj]
        BY DEF InOrder, QueuesAheadOfRows
      <4>4. seen[j][e.obj] \in Nat /\ seen'[j][e.obj] \in Nat /\ seen[j][e.obj] <= seen'[j][e.obj]
        BY <1>2, <1>3, <4>2
      <4>5. QED
        BY <4>2, <4>3, <4>4
    <3>3. QED
      BY <3>1, <3>2
  <2>2. CASE Notify(i, type, u, m) /\ seen[i][u] <= m /\ m <= r /\ table[u].rev <= m
    BY <1>1, <1>3, <2>2, OrderAfterNotify
  <2>3. QED
    BY <2>1, <2>2
<1>5. InformersAheadOfRows'
  BY <1>1, <1>2 DEF InOrder, InformersAheadOfRows, Watches
<1>6. QED
  BY <1>4, <1>5 DEF InOrder

LEMMA InOrderStep ==
    ASSUME OnePerCluster, MaxAbandoned = 0
    PROVE  Truthful /\ InOrder /\ [Next]_vars => InOrder'
<1>1. SUFFICES ASSUME Truthful, InOrder, [Next]_vars PROVE InOrder'
  OBVIOUS
<1>2. TypeOK /\ TypeOK'
  BY <1>1, TypeStep DEF Truthful
<1>3. ASSUME NEW u \in Objects, Create(u) \/ Modify(u) \/ Remove(u)
      PROVE  InOrder'
  BY <1>1, <1>3
  DEF Create, Modify, Remove, InOrder, QueuesInOrder, QueuesAheadOfRows, InformersAheadOfRows,
      Queued, Watches, informerVars, databaseVars
<1>5. ASSUME NEW i \in Instances, NEW u \in Objects
      PROVE  /\ seen[i][u] \in Nat /\ rev[u] \in Nat
             /\ seen[i][u] <= rev[u] /\ table[u].rev <= rev[u]
             /\ Watches(i, u) /\ KindOf[u] \in synced[i] => table[u].rev <= seen[i][u]
             /\ u \in cached[i] => table[u].rev <= seen[i][u]
             /\ table[u].rev \in Nat
  BY <1>1, <1>2
  DEF Truthful, ClusterTruth, RowTruth, InOrder, InformersAheadOfRows, TypeOK, Row
<1>6. ASSUME NEW i \in Instances, NEW u \in Objects, ReplaceLive(i, u)
      PROVE  InOrder'
  <2>1. /\ UNCHANGED <<synced, table, abandoned>>
        /\ seen' = [seen EXCEPT ![i][u] = rev[u]]
    BY <1>6 DEF ReplaceLive, databaseVars
  <2>2. PICK type \in EventTypes : Notify(i, type, u, rev[u])
    BY <1>6 DEF ReplaceLive, EventTypes
  <2>3. rev[u] <= rev[u]
    BY <1>5
  <2>4. QED
    BY <1>1, <1>2, <1>5, <2>1, <2>2, <2>3, OrderAfterInformer
<1>7. ASSUME NEW i \in Instances, NEW u \in Objects, ReplaceGone(i, u)
      PROVE  InOrder'
  <2>1. /\ UNCHANGED <<synced, table, abandoned>>
        /\ seen' = [seen EXCEPT ![i][u] = rev[u]]
        /\ UNCHANGED queue \/ (u \in cached[i] /\ Notify(i, "tombstone", u, seen[i][u]))
    BY <1>7 DEF ReplaceGone, databaseVars
  <2>2. "tombstone" \in EventTypes
    BY DEF EventTypes
  <2>3. seen[i][u] <= seen[i][u]
    BY <1>5
  <2>4. QED
    BY <1>1, <1>2, <1>5, <2>1, <2>2, <2>3, OrderAfterInformer
<1>8. ASSUME NEW i \in Instances, NEW u \in Objects, WatchUpdate(i, u)
      PROVE  InOrder'
  <2>1. /\ UNCHANGED <<synced, table, abandoned>>
        /\ seen' = [seen EXCEPT ![i][u] = seen[i][u] + 1]
        /\ Watches(i, u) /\ KindOf[u] \in synced[i]
    BY <1>8 DEF WatchUpdate, databaseVars
  <2>2. PICK type \in EventTypes : Notify(i, type, u, seen[i][u] + 1)
    BY <1>8 DEF WatchUpdate, EventTypes
  <2>3. /\ seen[i][u] + 1 \in Nat
        /\ seen[i][u] <= seen[i][u] + 1 /\ seen[i][u] + 1 <= seen[i][u] + 1
        /\ table[u].rev <= seen[i][u] + 1
    BY <1>5, <2>1
  <2>4. QED
    BY <1>1, <1>2, <2>1, <2>2, <2>3, OrderAfterInformer
<1>9. ASSUME NEW i \in Instances, NEW u \in Objects, WatchDelete(i, u) \/ Resync(i, u)
      PROVE  InOrder'
  <2>1. /\ UNCHANGED <<synced, table, abandoned, seen>>
        /\ u \in cached[i]
    BY <1>9 DEF WatchDelete, Resync, databaseVars, informerVars
  <2>2. PICK type \in EventTypes : Notify(i, type, u, seen[i][u])
    BY <1>9 DEF WatchDelete, Resync, EventTypes
  <2>3. seen[i][u] <= seen[i][u] /\ seen' = [seen EXCEPT ![i][u] = seen[i][u]]
    BY <1>2, <1>5, <2>1 DEF TypeOK
  <2>4. QED
    BY <1>1, <1>2, <1>5, <2>1, <2>2, <2>3, OrderAfterInformer
<1>10. ASSUME NEW i \in Instances, NEW k \in Kinds, InitialSync(i, k)
       PROVE  InOrder'
  <2>1. /\ UNCHANGED <<seen, queue, table, abandoned>>
        /\ synced' = [synced EXCEPT ![i] = @ \union {k}]
    BY <1>10 DEF InitialSync, databaseVars
  <2>2. InformersAheadOfRows'
    <3>1. SUFFICES ASSUME NEW j \in Instances, NEW u \in Objects, Watches(j, u),
                          seen[j][u] > 0 \/ KindOf[u] \in synced'[j]
                   PROVE  table[u].rev <= seen[j][u]
      BY <2>1 DEF InformersAheadOfRows, Watches
    <3>2. CASE seen[j][u] > 0 \/ KindOf[u] \in synced[j]
      BY <1>1, <3>1, <3>2 DEF InOrder, InformersAheadOfRows
    <3>3. CASE j = i /\ KindOf[u] = k
      <4>1. u \in cached[i] \/ seen[i][u] = rev[u] \/ (rev[u] = 0 /\ u \notin gone)
        BY <1>5, <1>10, <3>1, <3>3 DEF InitialSync, Live
      <4>2. QED
        BY <1>5, <3>3, <4>1
    <3>4. QED
      BY <1>2, <2>1, <3>1, <3>2, <3>3 DEF TypeOK
  <2>3. QED
    BY <1>1, <2>1, <2>2 DEF InOrder, QueuesInOrder, QueuesAheadOfRows, Queued
<1>11. ASSUME NEW i \in Instances, NEW k \in Kinds, HandleApplied(i, k) \/ HandleFailed(i, k)
       PROVE  InOrder'
  <2> DEFINE head == Head(queue[i][k])
  <2>1. Take(i, k) /\ UNCHANGED <<seen, synced, abandoned>>
    BY <1>11 DEF HandleApplied, HandleFailed, Take, informerVars, databaseVars
  <2>2. head \in Event /\ head \in Queued(i, k)
    BY <1>2, <2>1, TakeType, QueuedAfterTake
  <2>3. /\ head.obj \in Objects /\ head.rev \in Nat
        /\ Watches(i, head.obj) /\ KindOf[head.obj] = k
        /\ head.rev <= seen[i][head.obj]
    BY <1>1, <2>2 DEF Truthful, QueueTruth, Genuine, InOrder, QueuesAheadOfRows, Event
  <2>4. \A u \in Objects :
           table'[u].rev = table[u].rev \/ (u = head.obj /\ table'[u].rev = head.rev)
    <3>1. CASE HandleApplied(i, k)
      <4>1. SUFFICES ASSUME NEW u \in Objects
                     PROVE  table'[u].rev = table[u].rev
                            \/ (u = head.obj /\ table'[u].rev = head.rev)
        OBVIOUS
      <4>2. table' = Written(ClusterOf[i], head, table) /\ table \in [Objects -> Row]
        BY <1>2, <3>1 DEF HandleApplied, TypeOK
      <4>3. QED
        BY <2>2, <4>2, WrittenRow
    <3>2. CASE HandleFailed(i, k)
      BY <3>2 DEF HandleFailed, databaseVars
    <3>3. QED
      BY <1>11, <3>1, <3>2
  <2>5. QueuesAheadOfRows'
    <3>1. SUFFICES ASSUME NEW j \in Instances, NEW l \in Kinds, NEW e \in Queued(j, l)'
                   PROVE  table'[e.obj].rev <= e.rev /\ e.rev <= seen[j][e.obj]
      BY <2>1 DEF QueuesAheadOfRows
    <3>2. e \in Queued(j, l)
      BY <1>2, <2>1, <3>1, QueuedAfterTake
    <3>3. table[e.obj].rev <= e.rev /\ e.rev <= seen[j][e.obj]
      BY <1>1, <3>2 DEF InOrder, QueuesAheadOfRows
    <3>4. e.obj \in Objects /\ Watches(j, e.obj) /\ KindOf[e.obj] = l
      BY <1>1, <1>2, <3>2, QueuedAreEvents DEF Truthful, QueueTruth, Genuine
    <3>5. CASE e.obj = head.obj /\ table'[e.obj].rev = head.rev
      <4>1. j = i /\ l = k
        BY <2>3, <3>4, <3>5 DEF Watches, OnePerCluster
      <4>2. head.rev <= e.rev
        BY <1>1, <1>2, <2>1, <3>1, <3>5, <4>1, OrderAfterTake
      <4>3. QED
        BY <3>3, <3>5, <4>2
    <3>6. QED
      BY <2>4, <3>3, <3>4, <3>5
  <2>6. InformersAheadOfRows'
    <3>1. SUFFICES ASSUME NEW j \in Instances, NEW u \in Objects, Watches(j, u),
                          seen[j][u] > 0 \/ KindOf[u] \in synced[j]
                   PROVE  table'[u].rev <= seen[j][u]
      BY <2>1 DEF InformersAheadOfRows, Watches
    <3>2. table[u].rev <= seen[j][u]
      BY <1>1, <3>1 DEF InOrder, InformersAheadOfRows
    <3>3. CASE u = head.obj /\ table'[u].rev = head.rev
      <4>1. j = i
        BY <2>3, <3>1, <3>3 DEF Watches, OnePerCluster
      <4>2. QED
        BY <2>3, <3>3, <4>1
    <3>4. QED
      BY <2>4, <3>2, <3>3
  <2>7. QED
    BY <1>1, <1>2, <2>1, <2>5, <2>6, OrderAfterTake DEF InOrder
<1>12. ASSUME NEW i \in Instances, NEW k \in Kinds
       PROVE  ~HandleAbandoned(i, k)
  <2>1. Cardinality(abandoned) = 0
    BY <1>1, FS_EmptySet DEF InOrder
  <2>2. QED
    BY <2>1 DEF HandleAbandoned
<1>13. ASSUME NEW s \in abandoned PROVE FALSE
  BY <1>1, <1>13 DEF InOrder
<1>14. ASSUME \/ \E i \in Instances :
                    \/ GCStart(i)
                    \/ \E t \in Tasks : GCList(i, t) \/ GCDeleted(i, t) \/ GCFailed(i, t)
              \/ \E s \in orphans : LandPass(s) \/ VanishPass(s)
       PROVE  InOrder'
  <2>1. UNCHANGED <<seen, synced, queue, abandoned>>
    BY <1>14
    DEF GCStart, GCList, GCDeleted, GCFailed, GCNext, LandPass, VanishPass, informerVars,
        databaseVars
  <2>2. \A u \in Objects : table'[u].rev = table[u].rev
    <3>1. CASE UNCHANGED table
      BY <3>1
    <3>2. ASSUME NEW c, NEW k, NEW keep, table' = DeleteObjects(table, c, k, keep)
          PROVE  \A u \in Objects : table'[u].rev = table[u].rev
      BY <3>2 DEF DeleteObjects
    <3>3. QED
      BY <1>14, <3>1, <3>2
      DEF GCStart, GCList, GCDeleted, GCFailed, LandPass, VanishPass, databaseVars
  <2>3. QueuesAheadOfRows'
    <3>1. SUFFICES ASSUME NEW j \in Instances, NEW k \in Kinds, NEW e \in Queued(j, k)
                   PROVE  table'[e.obj].rev <= e.rev /\ e.rev <= seen[j][e.obj]
      BY <2>1 DEF QueuesAheadOfRows, Queued
    <3>2. e.obj \in Objects
      BY <1>2, QueuedAreEvents
    <3>3. QED
      BY <1>1, <2>2, <3>2 DEF InOrder, QueuesAheadOfRows
  <2>4. QED
    BY <1>1, <2>1, <2>2, <2>3 DEF InOrder, QueuesInOrder, InformersAheadOfRows, Watches
<1>15. ASSUME NEW i \in Instances, Restart(i)
       PROVE  InOrder'
  <2>1. /\ UNCHANGED <<table, abandoned>>
        /\ synced'[i] = {} /\ queue'[i] = [k \in Kinds |-> <<>>]
        /\ seen'[i] = [u \in Objects |-> 0]
        /\ \A j \in Instances : j # i =>
              queue'[j] = queue[j] /\ seen'[j] = seen[j] /\ synced'[j] = synced[j]
    BY <1>2, <1>15 DEF Restart, TypeOK
  <2>2. \A k \in Kinds : Len(queue'[i][k]) = 0 /\ Queued(i, k)' = {}
    BY <2>1, EmptySeq DEF Queued
  <2>3. QueuesInOrder'
    BY <1>1, <2>1, <2>2 DEF InOrder, QueuesInOrder
  <2>4. QueuesAheadOfRows'
    BY <1>1, <2>1, <2>2 DEF InOrder, QueuesAheadOfRows, Queued
  <2>5. InformersAheadOfRows'
    BY <1>1, <2>1 DEF InOrder, InformersAheadOfRows, Watches
  <2>6. QED
    BY <1>1, <2>1, <2>3, <2>4, <2>5 DEF InOrder
<1>16. ASSUME UNCHANGED vars
       PROVE  InOrder'
  BY <1>1, <1>16
  DEF vars, InOrder, QueuesInOrder, QueuesAheadOfRows, InformersAheadOfRows, Queued, Watches
<1>17. QED
  BY <1>1, <1>3, <1>6, <1>7, <1>8, <1>9, <1>10, <1>11, <1>12, <1>13, <1>14, <1>15, <1>16
  DEF Next, Cluster, Informer, Handler, Database, Collector

LEMMA InOrderInit == Init => InOrder
<1>1. SUFFICES ASSUME Init PROVE InOrder
  OBVIOUS
<1>2. \A i \in Instances, k \in Kinds : Len(queue[i][k]) = 0 /\ Queued(i, k) = {}
  BY <1>1, EmptySeq DEF Init, Queued
<1>3. InformersAheadOfRows
  BY <1>1 DEF Init, InformersAheadOfRows, EmptyTable, NoRow
<1>4. QED
  BY <1>1, <1>2, <1>3 DEF Init, InOrder, QueuesInOrder, QueuesAheadOfRows

LEMMA NeverBackStep ==
    ASSUME Truthful, InOrder, [Next]_vars, NEW u \in Objects
    PROVE  table'[u].rev >= table[u].rev
<1>1. TypeOK /\ table[u].rev \in Nat
  BY DEF Truthful, TypeOK, Row
<1>2. ASSUME NEW i \in Instances, NEW k \in Kinds, HandleApplied(i, k)
      PROVE  table'[u].rev >= table[u].rev
  <2> DEFINE head == Head(queue[i][k])
  <2>1. head \in Event /\ head \in Queued(i, k)
    BY <1>1, <1>2, TakeType, QueuedAfterTake DEF HandleApplied
  <2>2. table[head.obj].rev <= head.rev /\ head.rev \in Nat
    BY <2>1 DEF InOrder, QueuesAheadOfRows, Event
  <2>3. table' = Written(ClusterOf[i], head, table) /\ table \in [Objects -> Row]
    BY <1>1, <1>2 DEF HandleApplied, TypeOK
  <2>4. head.obj # u => table'[u] = table[u]
    BY <2>1, <2>3, WrittenRow
  <2>5. table'[u].rev = table[u].rev \/ table'[u].rev = head.rev
    BY <2>1, <2>3, WrittenRow
  <2>6. QED
    BY <1>1, <2>2, <2>4, <2>5
<1>3. ASSUME NEW i \in Instances, NEW t \in Tasks, GCDeleted(i, t)
      PROVE  table'[u].rev >= table[u].rev
  BY <1>1, <1>3 DEF GCDeleted, DeleteObjects
<1>4. abandoned = {}
  BY DEF InOrder
<1>5. CASE UNCHANGED table
  BY <1>1, <1>5
<1>6. ASSUME NEW v \in Objects, Create(v) \/ Modify(v) \/ Remove(v) PROVE UNCHANGED table
  BY <1>6 DEF Create, Modify, Remove, databaseVars
<1>7. ASSUME NEW i \in Instances, Informer(i) \/ GCStart(i) \/ Restart(i) PROVE UNCHANGED table
  BY <1>7
  DEF Informer, ReplaceLive, ReplaceGone, WatchUpdate, WatchDelete, Resync, InitialSync,
      GCStart, Restart, databaseVars
<1>8. ASSUME NEW i \in Instances, NEW k \in Kinds, HandleFailed(i, k) \/ HandleAbandoned(i, k)
      PROVE  UNCHANGED table
  BY <1>8 DEF HandleFailed, HandleAbandoned, databaseVars
<1>9. ASSUME NEW i \in Instances, NEW t \in Tasks, GCList(i, t) \/ GCFailed(i, t)
      PROVE  UNCHANGED table
  BY <1>9 DEF GCList, GCFailed, databaseVars
<1>10. ASSUME NEW s \in orphans, LandPass(s) \/ VanishPass(s)
       PROVE  table'[u].rev >= table[u].rev
  BY <1>1, <1>10 DEF LandPass, VanishPass, DeleteObjects
<1>11. QED
  BY <1>2, <1>3, <1>4, <1>5, <1>6, <1>7, <1>8, <1>9, <1>10
  DEF Next, Cluster, Handler, Database, Collector, vars

\* With one instance per cluster, and no statement that runs after its handler
\* gave it up or died, the data of a row never goes back to an older revision: not
\* through a relist, a resync, a lost statement or a restart.
THEOREM RowsOnlyAdvance ==
    ASSUME OnePerCluster, MaxAbandoned = 0
    PROVE  Spec => RowNeverGoesBack
<1>1. Truthful /\ InOrder /\ [Next]_vars => InOrder'
  BY InOrderStep
<1>2. Truthful /\ InOrder /\ [Next]_vars => [\A u \in Objects : table'[u].rev >= table[u].rev]_vars
  BY NeverBackStep
<1>3. Spec => []Truthful
  BY NothingMadeUp
<1>4. QED
  BY <1>1, <1>2, <1>3, InOrderInit, PTL DEF Spec, RowNeverGoesBack
================================================================================
