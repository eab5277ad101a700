-------------------------- MODULE NodeTargetsProofs ---------------------------
(***************************************************************************)
(* Proofs about ScrapeManager and about NodeTargets, which uses it, for    *)
(* any number of targets, goroutines and nodes.                            *)
(*                                                                         *)
(* NoLeak and TargetsAreServed hold together: the map and the running      *)
(* goroutines that were not told to stop are two views of one relation.    *)
(* What makes them inductive is that an entry names the goroutine's own    *)
(* target, never a cancelled goroutine.                                    *)
(*                                                                         *)
(* The handler of node events and the goroutines, put together, use the    *)
(* manager only as ScrapeManager describes: what is proved of the manager  *)
(* under arbitrary callers holds of it in the running program.             *)
(***************************************************************************)
EXTENDS NodeTargets, TLAPS

--------------------------------------------------------------------------------
(* The manager, called by anybody.                                            *)

\* Every entry of the map is the uncancelled goroutine of its own target, which
\* runs.
EntriesAreOwned ==
    \A id \in Targets : targets[id] # NoScraper =>
        /\ job[targets[id]] = id
        /\ targets[id] \notin cancelled
        /\ Running(targets[id])

Inv == TypeOK /\ NoLeak /\ EntriesAreOwned

LEMMA TypeStep == TypeOK /\ [Next]_managerVars => TypeOK'
<1>1. SUFFICES ASSUME TypeOK, [Next]_managerVars PROVE TypeOK'
  OBVIOUS
<1> USE ScrapeManagerAssumption
<1>2. ASSUME NEW id \in Targets, NEW g \in Scrapers, Start(id, g)
      PROVE  TypeOK'
  BY <1>1, <1>2 DEF Start, TypeOK, Phases
<1>3. ASSUME NEW id \in Targets, RemoveTarget(id)
      PROVE  TypeOK'
  BY <1>1, <1>3 DEF RemoveTarget, TypeOK, managerVars
<1>5. ASSUME NEW g \in Scrapers, Goroutine(g)
      PROVE  TypeOK'
  BY <1>1, <1>5
  DEF Goroutine, DelayOver, DelayCancelled, ScrapeReturns, Tick, SelectTick, SelectDone, GoTo,
      TypeOK, Phases
<1>6. CASE UNCHANGED managerVars
  BY <1>1, <1>6 DEF managerVars, TypeOK
<1>7. QED
  BY <1>1, <1>2, <1>3, <1>5, <1>6 DEF Next, Caller, AddTarget

LEMMA InvInit == Init => Inv
BY ScrapeManagerAssumption
DEF Init, Inv, TypeOK, Phases, NoLeak, EntriesAreOwned, Running

LEMMA InvStep == Inv /\ [Next]_managerVars => Inv'
<1>1. SUFFICES ASSUME Inv, [Next]_managerVars PROVE (NoLeak /\ EntriesAreOwned)'
  BY TypeStep DEF Inv
<1>2. TypeOK /\ TypeOK'
  BY <1>1, TypeStep DEF Inv
<1> USE ScrapeManagerAssumption
<1>3. ASSUME NEW id \in Targets, targets[id] = NoScraper, NEW g \in Scrapers, Start(id, g)
      PROVE  (NoLeak /\ EntriesAreOwned)'
  <2>1. /\ targets' = [targets EXCEPT ![id] = g] /\ job' = [job EXCEPT ![g] = id]
        /\ cancelled' = cancelled \ {g}
        /\ phase'[g] # "ended" /\ \A h \in Scrapers : h # g => phase'[h] = phase[h]
        /\ \A i \in Targets : targets[i] # g
    BY <1>2, <1>3 DEF Start, Free, TypeOK
  <2>2. NoLeak'
    <3>1. SUFFICES ASSUME NEW h \in Scrapers, phase'[h] # "ended", h \notin cancelled'
                   PROVE  targets'[job'[h]] = h
      BY DEF NoLeak, Running
    <3>2. CASE h = g
      BY <1>2, <2>1, <3>2 DEF TypeOK
    <3>3. CASE h # g
      <4>1. targets[job[h]] = h /\ job[h] \in Targets
        BY <1>1, <1>2, <2>1, <3>1, <3>3 DEF Inv, NoLeak, Running, TypeOK
      <4>2. job[h] # id
        BY <1>3, <4>1
      <4>3. QED
        BY <1>2, <2>1, <3>3, <4>1, <4>2 DEF TypeOK
    <3>4. QED
      BY <3>2, <3>3
  <2>3. EntriesAreOwned'
    <3>1. SUFFICES ASSUME NEW i \in Targets, targets'[i] # NoScraper
                   PROVE  /\ job'[targets'[i]] = i
                          /\ targets'[i] \notin cancelled'
                          /\ phase'[targets'[i]] # "ended"
      BY DEF EntriesAreOwned, Running
    <3>2. CASE i = id
      BY <1>2, <2>1, <3>2 DEF TypeOK
    <3>3. CASE i # id
      <4>1. targets'[i] = targets[i] /\ targets[i] # g /\ targets[i] \in Scrapers
        BY <1>2, <2>1, <3>1, <3>3 DEF TypeOK
      <4>2. QED
        BY <1>1, <1>2, <2>1, <3>1, <4>1 DEF Inv, EntriesAreOwned, Running, TypeOK
    <3>4. QED
      BY <3>2, <3>3
  <2>4. QED
    BY <2>2, <2>3
<1>4. ASSUME NEW id \in Targets, RemoveTarget(id)
      PROVE  (NoLeak /\ EntriesAreOwned)'
  <2>1. CASE UNCHANGED managerVars
    BY <1>1, <2>1 DEF managerVars, Inv, NoLeak, EntriesAreOwned, Running
  <2>2. CASE targets[id] # NoScraper /\ ~UNCHANGED managerVars
    <3>1. /\ cancelled' = cancelled \union {targets[id]}
          /\ targets' = [targets EXCEPT ![id] = NoScraper]
          /\ UNCHANGED <<job, phase, ticks>>
      BY <1>4, <2>2 DEF RemoveTarget
    <3>2. NoLeak'
      BY <1>1, <1>2, <3>1 DEF Inv, NoLeak, Running, TypeOK
    <3>3. EntriesAreOwned'
      BY <1>1, <1>2, <2>2, <3>1 DEF Inv, EntriesAreOwned, Running, TypeOK
    <3>4. QED
      BY <3>2, <3>3
  <2>3. QED
    BY <1>4, <2>1, <2>2 DEF RemoveTarget
<1>6. ASSUME NEW g \in Scrapers, Goroutine(g)
      PROVE  (NoLeak /\ EntriesAreOwned)'
  <2>1. UNCHANGED <<targets, job, cancelled>>
    BY <1>6
    DEF Goroutine, DelayOver, DelayCancelled, ScrapeReturns, Tick, SelectTick, SelectDone, GoTo
  <2>2. \A h \in Scrapers :
            \/ Running(h)' = Running(h)
            \/ ~Running(h)' /\ h \in cancelled
    BY <1>2, <1>6
    DEF Goroutine, DelayOver, DelayCancelled, ScrapeReturns, Tick, SelectTick, SelectDone, GoTo,
        Running, Done, TypeOK
  <2>3. NoLeak'
    BY <1>1, <2>1, <2>2 DEF Inv, NoLeak
  <2>4. EntriesAreOwned'
    BY <1>1, <1>2, <2>1, <2>2 DEF Inv, EntriesAreOwned, TypeOK
  <2>5. QED
    BY <2>3, <2>4
<1>7. CASE UNCHANGED managerVars
  BY <1>1, <1>7 DEF managerVars, Inv, NoLeak, EntriesAreOwned, Running
<1>8. ASSUME NEW id \in Targets, targets[id] # NoScraper, AddTarget(id)
      PROVE  UNCHANGED managerVars
  BY <1>8 DEF AddTarget
<1>9. QED
  BY <1>1, <1>3, <1>4, <1>6, <1>7, <1>8 DEF Next, Caller, AddTarget

\* A goroutine that runs and was not told to stop is the one RemoveTarget of its
\* target would cancel, for every interleaving of callers and goroutines.
THEOREM NothingLeaks == Spec => []NoLeak
<1>1. Inv => NoLeak
  BY DEF Inv
<1>2. QED
  BY <1>1, InvInit, InvStep, PTL DEF Spec

\* A target in the map has its goroutine, which runs and was not told to stop.
THEOREM TargetsServed == Spec => []TargetsAreServed
<1>1. Inv => TargetsAreServed
  BY DEF Inv, EntriesAreOwned, TargetsAreServed
<1>2. QED
  BY <1>1, InvInit, InvStep, PTL DEF Spec

--------------------------------------------------------------------------------
(* The manager, called by the handler.                                        *)

\* A step of the composition is one of the manager's, or does not concern it.
LEMMA ManagerStep == [NodeNext]_vars => [Next]_managerVars
<1>1. SUFFICES ASSUME [NodeNext]_vars PROVE [Next]_managerVars
  OBVIOUS
<1>2. ASSUME NEW n \in Nodes, Join(n) \/ Leave(n) \/ Informer(n) \/ OnUpdate(n) \/ OnTombstone(n)
      PROVE  UNCHANGED managerVars
  BY <1>2
  DEF Join, Leave, Informer, WatchAdd, WatchDelete, ListAlive, ListGone, OnUpdate, OnTombstone
<1>3. ASSUME NEW n \in Nodes, OnAdd(n) \/ OnDelete(n)
      PROVE  Next
  BY <1>3 DEF OnAdd, OnDelete, Nodes, Next, Caller
<1>4. ASSUME NEW g \in Scrapers, Run(g)
      PROVE  Next
  BY <1>4 DEF Run, Next
<1>6. CASE UNCHANGED vars
  BY <1>6 DEF vars
<1>7. QED
  BY <1>1, <1>2, <1>3, <1>4, <1>6 DEF NodeNext, Handler

\* The program's use of the manager implements the manager's specification.
THEOREM UsesManager == NodeSpec => Spec
<1>1. NodeInit => Init
  BY DEF NodeInit
<1>2. QED
  BY <1>1, ManagerStep, PTL DEF NodeSpec, Spec

\* So no goroutine is leaked, whatever the informer replays, merges or loses.
THEOREM NodesLeakNoScraper == NodeSpec => []NoLeak
BY UsesManager, NothingLeaks, PTL

--------------------------------------------------------------------------------
(* TargetsFollowCache is inductive, given the types.  A notification that is  *)
(* queued decides what its node will be; one that is handled makes true what  *)
(* it had decided.                                                            *)

LEMMA NodeTypeStep == NodeTypeOK /\ [NodeNext]_vars => NodeTypeOK'
<1>1. SUFFICES ASSUME NodeTypeOK, [NodeNext]_vars PROVE NodeTypeOK'
  OBVIOUS
<1>2. TypeOK'
  BY <1>1, ManagerStep, TypeStep DEF NodeTypeOK
<1>3. ASSUME NEW n \in Nodes, Join(n) \/ Leave(n) PROVE NodeTypeOK'
  <2>1. births' \in [Nodes -> Nat]
    BY <1>1, <1>3 DEF NodeTypeOK, Join, Leave
  <2>2. alive' \in SUBSET Nodes
    BY <1>1, <1>3 DEF NodeTypeOK, Join, Leave
  <2>3. UNCHANGED <<known, cached, events, unheard>>
    BY <1>3 DEF Join, Leave, informerVars
  <2>4. QED
    BY <1>1, <1>2, <2>1, <2>2, <2>3 DEF NodeTypeOK
<1>4. ASSUME NEW n \in Nodes, Informer(n) PROVE NodeTypeOK'
  <2>1. PICK type \in {"add", "update", "delete", "tombstone"} : Notify(type, n)
    BY <1>4 DEF Informer, WatchAdd, WatchDelete, ListAlive, ListGone
  <2>2. events' \in Seq(NodeEvent)
    BY <1>1, <2>1 DEF NodeTypeOK, Notify, NodeEvent
  <2>3. UNCHANGED <<births, alive, unheard>>
    BY <1>4 DEF Informer, WatchAdd, WatchDelete, ListAlive, ListGone, clusterVars
  <2>4. known' \in [Nodes -> Nat] /\ cached' \in SUBSET Nodes
    <3>1. \/ known' = [known EXCEPT ![n] = @ + 1]
          \/ known' = [known EXCEPT ![n] = births[n]]
          \/ known' = known
      BY <1>4 DEF Informer, WatchAdd, WatchDelete, ListAlive, ListGone
    <3>2. cached' \in {cached \union {n}, cached \ {n}}
      BY <1>4 DEF Informer, WatchAdd, WatchDelete, ListAlive, ListGone
    <3>3. QED
      BY <1>1, <3>1, <3>2 DEF NodeTypeOK
  <2>5. QED
    BY <1>1, <1>2, <2>2, <2>3, <2>4 DEF NodeTypeOK
<1>5. ASSUME NEW n \in Nodes, Handler(n) PROVE NodeTypeOK'
  <2>1. events' \in Seq(NodeEvent) /\ UNCHANGED <<births, alive, known, cached>>
    <3>1. PICK type : Take(type, n)
      BY <1>5 DEF Handler, OnAdd, OnUpdate, OnDelete, OnTombstone
    <3>2. QED
      BY <1>1, <3>1 DEF NodeTypeOK, Take, clusterVars
  <2>2. unheard' \in {unheard, unheard \ {n}, unheard \union {n}}
    BY <1>5 DEF Handler, OnAdd, OnUpdate, OnDelete, OnTombstone
  <2>3. QED
    BY <1>1, <1>2, <2>1, <2>2 DEF NodeTypeOK
<1>6. CASE (\E g \in Scrapers : Run(g)) \/ UNCHANGED vars
  BY <1>1, <1>2, <1>6 DEF NodeTypeOK, Run, nodeVars, vars
<1>7. QED
  BY <1>1, <1>3, <1>4, <1>5, <1>6 DEF NodeNext

\* Queueing a notification of n: the other nodes are not concerned.
LEMMA Queued ==
  ASSUME NodeTypeOK, UNCHANGED <<targets, unheard>>,
         NEW type \in {"add", "update", "delete", "tombstone"}, NEW n \in Nodes, Notify(type, n)
  PROVE  /\ \A m \in Nodes \ {n} :
               (WillBeTarget(m)' <=> WillBeTarget(m)) /\ (Ignored(m) => Ignored(m)')
         /\ type = "add" => WillBeTarget(n)'
         /\ type = "delete" => ~WillBeTarget(n)'
         /\ type \in {"update", "tombstone"} => (WillBeTarget(n)' <=> WillBeTarget(n))
         /\ type = "update" => (Ignored(n) => Ignored(n)')
         /\ type = "tombstone" => Ignored(n)'
<1> DEFINE L == Len(events)
<1>1. /\ L \in Nat /\ Len(events') = L + 1
      /\ \A k \in 1..L : events'[k] = events[k]
      /\ events'[L + 1] = [type |-> type, node |-> n]
  BY DEF NodeTypeOK, Notify, NodeEvent
<1>2. \A m : Decisive(m) \subseteq 1..L /\ Decisive(m) \subseteq Decisive(m)'
             /\ Decisive(m)' \subseteq Decisive(m) \union {L + 1}
  BY <1>1 DEF Decisive
<1>3. \A m \in Nodes : (m # n \/ type \in {"update", "tombstone"}) => Decisive(m)' = Decisive(m)
  BY <1>1 DEF Decisive
<1>4. ASSUME NEW m \in Nodes, Decisive(m)' = Decisive(m)
      PROVE  (WillBeTarget(m)' <=> WillBeTarget(m)) /\ (Ignored(m) => Ignored(m)')
  <2>1. WillBeTarget(m)' <=> WillBeTarget(m)
    BY <1>1, <1>2, <1>4 DEF WillBeTarget
  <2>2. ASSUME Ignored(m) PROVE Ignored(m)'
    <3>1. \A k \in 1..L : k \in 1..Len(events')
      BY <1>1
    <3>2. QED
      BY <1>1, <1>4, <2>2, <3>1 DEF Ignored
  <2>3. QED
    BY <2>1, <2>2
<1>5. type \in {"add", "delete"} => L + 1 \in Decisive(n)'
  BY <1>1 DEF Decisive
<1>6. \A l \in Decisive(n)' : l <= L + 1
  BY <1>1, <1>2
<1>7. type = "add" => WillBeTarget(n)'
  BY <1>1, <1>5, <1>6 DEF WillBeTarget
<1>8. type = "delete" => ~WillBeTarget(n)'
  <2>1. SUFFICES ASSUME type = "delete",
                        NEW k \in Decisive(n)', events'[k].type = "add",
                        \A l \in Decisive(n)' : l <= k
                 PROVE  FALSE
    BY <1>5 DEF WillBeTarget
  <2>2. k = L + 1
    BY <1>1, <1>2, <1>5, <2>1
  <2>3. QED
    BY <1>1, <2>1, <2>2
<1>9. type = "tombstone" => Ignored(n)'
  <2>1. L + 1 \in 1..Len(events')
    BY <1>1
  <2>2. type = "tombstone" => \A l \in Decisive(n)' : l < L + 1
    BY <1>1, <1>2, <1>3
  <2>3. QED
    BY <1>1, <2>1, <2>2 DEF Ignored
<1>10. QED
  BY <1>3, <1>4, <1>7, <1>8, <1>9

\* Handling a notification moves the others one place forward.
LEMMA Moved ==
  ASSUME NodeTypeOK, NEW type, NEW n \in Nodes, Take(type, n)
  PROVE  /\ Len(events) \in Nat \ {0} /\ Len(events') = Len(events) - 1
         /\ events[1] = [type |-> type, node |-> n]
         /\ \A k \in 1..Len(events') : events'[k] = events[k + 1]
         /\ \A m \in Nodes : \A k \in Nat : k \in Decisive(m)' <=> k # 0 /\ k + 1 \in Decisive(m)
         /\ \A m \in Nodes : Decisive(m) \subseteq 1..Len(events)
         /\ \A m \in Nodes : Decisive(m)' \subseteq 1..Len(events')
<1>1. /\ Len(events) \in Nat \ {0} /\ Len(events') = Len(events) - 1
      /\ events[1] = [type |-> type, node |-> n]
      /\ \A k \in 1..Len(events') : events'[k] = events[k + 1]
  BY DEF NodeTypeOK, Take
<1>2. \A m \in Nodes : \A k \in Nat : k \in Decisive(m)' <=> k # 0 /\ k + 1 \in Decisive(m)
  BY <1>1 DEF Decisive
<1>3. QED
  BY <1>1, <1>2 DEF Decisive

\* The last of the numbers in D, moved one place with the others.
LEMMA Shifted ==
  ASSUME NEW D \in SUBSET (Nat \ {0}), NEW F \in SUBSET (Nat \ {0}), F # {},
         \A k \in Nat : k \in F <=> k # 0 /\ k + 1 \in D,
         NEW P, NEW Q, \A k \in F : Q[k] = P[k + 1]
  PROVE  (\E k \in F : Q[k] = "add" /\ \A l \in F : l <= k)
            <=> (\E k \in D : P[k] = "add" /\ \A l \in D : l <= k)
<1>1. ASSUME NEW k \in F, \A l \in F : l <= k
      PROVE  k + 1 \in D /\ \A l \in D : l <= k + 1
  <2>1. ASSUME NEW l \in D PROVE l <= k + 1
    <3>1. CASE l = 1
      BY <3>1
    <3>2. CASE l # 1
      <4>1. l - 1 \in Nat /\ l - 1 # 0 /\ (l - 1) + 1 = l
        BY <3>2
      <4>2. l - 1 \in F
        BY <4>1
      <4>3. QED
        BY <1>1, <4>2
    <3>3. QED
      BY <3>1, <3>2
  <2>2. QED
    BY <2>1
<1>2. ASSUME NEW k \in D, \A l \in D : l <= k
      PROVE  k - 1 \in F /\ (k - 1) + 1 = k /\ \A l \in F : l <= k - 1
  <2>1. \A l \in F : l + 1 \in D
    OBVIOUS
  <2>2. \A l \in F : l <= k - 1
    BY <1>2, <2>1
  <2>3. PICK l \in F : TRUE
    OBVIOUS
  <2>4. k \in Nat /\ l \in Nat \ {0} /\ l <= k - 1
    BY <2>2, <2>3
  <2>5. k - 1 \in Nat \ {0} /\ (k - 1) + 1 = k
    BY <2>4
  <2>6. QED
    BY <2>2, <2>5
<1>3. QED
  BY <1>1, <1>2

\* What becomes of a node of which a notification is handled.
LEMMA TakenOfNode ==
  ASSUME NodeTypeOK, NEW type, NEW n \in Nodes, Take(type, n),
         type = "add" => targets'[n] # NoScraper,
         type = "delete" => targets'[n] = NoScraper,
         type \in {"update", "tombstone"} => targets'[n] = targets[n],
         type \in {"add", "delete", "update", "tombstone"}
  PROVE  WillBeTarget(n)' <=> WillBeTarget(n)
<1> DEFINE D == Decisive(n)
           F == Decisive(n)'
<1>1. /\ D \subseteq Nat \ {0} /\ F \subseteq Nat \ {0}
      /\ \A k \in Nat : k \in F <=> k # 0 /\ k + 1 \in D
      /\ events[1] = [type |-> type, node |-> n] /\ 1 \in 1..Len(events)
      /\ \A k \in F : events'[k] = events[k + 1]
  BY Moved
<1>2. 1 \in D <=> type \in {"add", "delete"}
  BY <1>1 DEF Decisive
<1> HIDE DEF D, F
<1>3. CASE F = {}
  <2>1. D \subseteq {1}
    <3>1. SUFFICES ASSUME NEW k \in D, k # 1 PROVE FALSE
      OBVIOUS
    <3>2. k - 1 \in Nat /\ k - 1 # 0 /\ (k - 1) + 1 = k
      BY <1>1, <3>1
    <3>3. QED
      BY <1>1, <1>3, <3>1, <3>2
  <2>2. WillBeTarget(n)' <=> targets'[n] # NoScraper
    BY <1>3 DEF WillBeTarget, F
  <2>3. CASE D = {}
    BY <1>2, <2>2, <2>3 DEF WillBeTarget, D
  <2>4. CASE D = {1}
    BY <1>1, <1>2, <2>2, <2>4 DEF WillBeTarget, D
  <2>5. QED
    BY <2>1, <2>3, <2>4
<1>4. CASE F # {}
  <2>1. WillBeTarget(n)' <=> \E k \in F : events'[k].type = "add" /\ \A l \in F : l <= k
    BY <1>4 DEF WillBeTarget, F
  <2>2. D # {}
    BY <1>1, <1>4
  <2>3. WillBeTarget(n) <=> \E k \in D : events[k].type = "add" /\ \A l \in D : l <= k
    BY <2>2 DEF WillBeTarget, D
  <2> DEFINE P == [k \in D |-> events[k].type]
             Q == [k \in F |-> events'[k].type]
  <2>4. \A k \in F : Q[k] = P[k + 1]
    BY <1>1
  <2>5. (\E k \in F : Q[k] = "add" /\ \A l \in F : l <= k)
           <=> (\E k \in D : P[k] = "add" /\ \A l \in D : l <= k)
    <3>1. /\ D \in SUBSET (Nat \ {0}) /\ F \in SUBSET (Nat \ {0})
          /\ \A k \in Nat : k \in F <=> k # 0 /\ k + 1 \in D
      BY <1>1
    <3> HIDE DEF P, Q
    <3>2. \A p, q : (\A k \in F : q[k] = p[k + 1]) =>
              ((\E k \in F : q[k] = "add" /\ \A l \in F : l <= k)
                  <=> (\E k \in D : p[k] = "add" /\ \A l \in D : l <= k))
      BY <1>4, <3>1, Shifted
    <3>3. QED
      BY <2>4, <3>2
  <2>6. QED
    BY <2>1, <2>3, <2>5
<1>5. QED
  BY <1>3, <1>4

\* What becomes of another node.
LEMMA TakenOfOther ==
  ASSUME NodeTypeOK, NEW type, NEW n \in Nodes, Take(type, n),
         NEW m \in Nodes \ {n}, targets'[m] = targets[m]
  PROVE  WillBeTarget(m)' <=> WillBeTarget(m)
<1> DEFINE D == Decisive(m)
           F == Decisive(m)'
<1>1. /\ D \subseteq Nat \ {0} /\ F \subseteq Nat \ {0}
      /\ \A k \in Nat : k \in F <=> k # 0 /\ k + 1 \in D
      /\ events[1] = [type |-> type, node |-> n]
      /\ \A k \in F : events'[k] = events[k + 1]
  BY Moved
<1>2. 1 \notin D
  BY <1>1 DEF Decisive
<1> HIDE DEF D, F
<1>3. \A k \in D : k - 1 \in F
  <2>1. SUFFICES ASSUME NEW k \in D PROVE k - 1 \in F
    OBVIOUS
  <2>2. k - 1 \in Nat /\ k - 1 # 0 /\ (k - 1) + 1 = k
    BY <1>1, <1>2
  <2>3. QED
    BY <1>1, <2>2
<1>4. CASE F = {}
  BY <1>3, <1>4 DEF WillBeTarget, D, F
<1>5. CASE F # {}
  <2>1. WillBeTarget(m)' <=> \E k \in F : events'[k].type = "add" /\ \A l \in F : l <= k
    BY <1>5 DEF WillBeTarget, F
  <2>2. WillBeTarget(m) <=> \E k \in D : events[k].type = "add" /\ \A l \in D : l <= k
    BY <1>1, <1>5 DEF WillBeTarget, D
  <2> DEFINE P == [k \in D |-> events[k].type]
             Q == [k \in F |-> events'[k].type]
  <2>3. \A k \in F : Q[k] = P[k + 1]
    BY <1>1
  <2>4. (\E k \in F : Q[k] = "add" /\ \A l \in F : l <= k)
           <=> (\E k \in D : P[k] = "add" /\ \A l \in D : l <= k)
    <3>1. /\ D \in SUBSET (Nat \ {0}) /\ F \in SUBSET (Nat \ {0})
          /\ \A k \in Nat : k \in F <=> k # 0 /\ k + 1 \in D
      BY <1>1
    <3> HIDE DEF P, Q
    <3>2. \A p, q : (\A k \in F : q[k] = p[k + 1]) =>
              ((\E k \in F : q[k] = "add" /\ \A l \in F : l <= k)
                  <=> (\E k \in D : p[k] = "add" /\ \A l \in D : l <= k))
      BY <1>5, <3>1, Shifted
    <3>3. QED
      BY <2>3, <3>2
  <2>5. QED
    BY <2>1, <2>2, <2>4
<1>6. QED
  BY <1>4, <1>5

\* An ignored removal stays ignored until the node is heard of again.
LEMMA TakenIgnored ==
  ASSUME NodeTypeOK, NEW type, NEW n \in Nodes, Take(type, n), NEW m \in Nodes, Ignored(m),
         m \in unheard => m \in unheard' \/ (m = n /\ type = "add"),
         m = n /\ type = "tombstone" => m \in unheard'
  PROVE  Ignored(m)'
<1>1. /\ Len(events) \in Nat \ {0} /\ Len(events') = Len(events) - 1
      /\ events[1] = [type |-> type, node |-> n]
      /\ \A k \in 1..Len(events') : events'[k] = events[k + 1]
      /\ \A k \in Nat : k \in Decisive(m)' <=> k # 0 /\ k + 1 \in Decisive(m)
      /\ Decisive(m) \subseteq 1..Len(events) /\ Decisive(m)' \subseteq 1..Len(events')
  BY Moved
<1>2. CASE m \in unheard /\ Decisive(m) = {}
  <2>1. ~(m = n /\ type = "add")
    BY <1>1, <1>2 DEF Decisive
  <2>2. Decisive(m)' = {}
    BY <1>1, <1>2
  <2>3. QED
    BY <1>2, <2>1, <2>2 DEF Ignored
<1>3. ASSUME NEW k \in 1..Len(events), events[k] = [type |-> "tombstone", node |-> m],
             \A l \in Decisive(m) : l < k
      PROVE  Ignored(m)'
  <2>1. \A l \in Decisive(m)' : l + 1 \in Decisive(m) /\ l + 1 < k
    BY <1>1, <1>3
  <2>2. CASE k = 1
    <3>1. Decisive(m)' = {}
      BY <1>1, <2>1, <2>2
    <3>2. m = n /\ type = "tombstone"
      BY <1>1, <1>3, <2>2
    <3>3. QED
      BY <3>1, <3>2 DEF Ignored
  <2>3. CASE k # 1
    <3>1. k - 1 \in 1..Len(events') /\ (k - 1) + 1 = k
      BY <1>1, <2>3
    <3>2. events'[k - 1] = [type |-> "tombstone", node |-> m]
      BY <1>1, <1>3, <3>1
    <3>3. \A l \in Decisive(m)' : l < k - 1
      BY <1>1, <2>1
    <3>4. QED
      BY <3>1, <3>2, <3>3 DEF Ignored
  <2>4. QED
    BY <2>2, <2>3
<1>4. QED
  BY <1>2, <1>3 DEF Ignored

LEMMA FollowInit == NodeInit => NodeTypeOK /\ TargetsFollowCache
<1>1. SUFFICES ASSUME NodeInit PROVE NodeTypeOK /\ TargetsFollowCache
  OBVIOUS
<1>2. TypeOK
  BY <1>1, InvInit DEF NodeInit, Inv
<1>3. NodeTypeOK
  BY <1>1, <1>2 DEF NodeInit, NodeTypeOK
<1>4. \A n \in Nodes : Decisive(n) = {} /\ targets[n] = NoScraper
  <2>1. Len(events) = 0
    BY <1>1 DEF NodeInit
  <2>2. \A n \in Nodes : Decisive(n) = {}
    BY <2>1 DEF Decisive
  <2>3. \A n \in Nodes : targets[n] = NoScraper
    BY <1>1 DEF NodeInit, Init, Nodes
  <2>4. QED
    BY <2>2, <2>3
<1>5. QED
  BY <1>1, <1>3, <1>4 DEF NodeInit, TargetsFollowCache, WillBeTarget

LEMMA InformerFollows ==
  ASSUME NodeTypeOK, TargetsFollowCache, NEW n \in Nodes, Informer(n)
  PROVE  TargetsFollowCache'
<1>1. UNCHANGED <<targets, unheard>>
  BY DEF Informer, WatchAdd, WatchDelete, ListAlive, ListGone, managerVars
<1>2. ASSUME NEW type \in {"add", "update", "delete", "tombstone"}, Notify(type, n),
             \/ type = "add" /\ cached' = cached \union {n}
             \/ type = "update" /\ n \in cached /\ cached' = cached
             \/ type = "delete" /\ cached' = cached \ {n}
             \/ type = "tombstone" /\ cached' = cached \ {n}
      PROVE  TargetsFollowCache'
  <2>1. ASSUME NEW m \in Nodes, m # n
        PROVE  /\ m \in cached' => WillBeTarget(m)'
               /\ m \notin cached' => (WillBeTarget(m)' => Ignored(m)')
    BY <1>1, <1>2, <2>1, Queued DEF TargetsFollowCache
  <2>2. /\ n \in cached' => WillBeTarget(n)'
        /\ n \notin cached' => (WillBeTarget(n)' => Ignored(n)')
    BY <1>1, <1>2, Queued DEF TargetsFollowCache
  <2>3. cached' \subseteq Nodes
    BY <1>2 DEF NodeTypeOK
  <2>4. QED
    BY <2>1, <2>2, <2>3 DEF TargetsFollowCache
<1>3. CASE WatchAdd(n)
  BY <1>2, <1>3 DEF WatchAdd
<1>4. CASE WatchDelete(n)
  BY <1>2, <1>4 DEF WatchDelete
<1>5. CASE ListAlive(n) /\ n \in cached
  BY <1>2, <1>5 DEF ListAlive
<1>6. CASE ListAlive(n) /\ n \notin cached
  BY <1>2, <1>6 DEF ListAlive
<1>7. CASE ListGone(n)
  BY <1>2, <1>7 DEF ListGone
<1>8. QED
  BY <1>3, <1>4, <1>5, <1>6, <1>7 DEF Informer

LEMMA HandlerFollows ==
  ASSUME NodeTypeOK, TargetsFollowCache, NEW n \in Nodes, Handler(n)
  PROVE  TargetsFollowCache'
<1>1. targets \in [Nodes -> Scrapers \union {NoScraper}]
  BY DEF NodeTypeOK, TypeOK, Nodes
<1>2. PICK type \in {"add", "delete", "update", "tombstone"} :
          /\ Take(type, n)
          /\ type = "add" => AddTarget(n) /\ unheard' = unheard \ {n}
          /\ type = "delete" => RemoveTarget(n) /\ unheard' = unheard
          /\ type = "update" => UNCHANGED <<managerVars, unheard>>
          /\ type = "tombstone" => UNCHANGED managerVars /\ unheard' = unheard \union {n}
  BY DEF Handler, OnAdd, OnUpdate, OnDelete, OnTombstone
<1>3. type = "add" => targets'[n] # NoScraper /\ \A m \in Nodes \ {n} : targets'[m] = targets[m]
  BY <1>1, <1>2, ScrapeManagerAssumption DEF AddTarget, Start, managerVars
<1>4. type = "delete" => targets'[n] = NoScraper /\ \A m \in Nodes \ {n} : targets'[m] = targets[m]
  BY <1>1, <1>2 DEF RemoveTarget, managerVars
<1>5. type \in {"update", "tombstone"} => targets' = targets
  BY <1>2 DEF managerVars
<1>6. \A m \in Nodes : WillBeTarget(m)' <=> WillBeTarget(m)
  <2>1. WillBeTarget(n)' <=> WillBeTarget(n)
    BY <1>2, <1>3, <1>4, <1>5, TakenOfNode
  <2>2. ASSUME NEW m \in Nodes \ {n} PROVE WillBeTarget(m)' <=> WillBeTarget(m)
    <3>1. targets'[m] = targets[m]
      BY <1>3, <1>4, <1>5
    <3>2. QED
      BY <1>2, <3>1, TakenOfOther
  <2>3. QED
    BY <2>1, <2>2
<1>7. ASSUME NEW m \in Nodes, Ignored(m) PROVE Ignored(m)'
  <2>1. m \in unheard => m \in unheard' \/ (m = n /\ type = "add")
    BY <1>2
  <2>2. m = n /\ type = "tombstone" => m \in unheard'
    BY <1>2
  <2>3. QED
    BY <1>2, <1>7, <2>1, <2>2, TakenIgnored
<1>8. cached' = cached
  BY <1>2 DEF Take
<1>9. QED
  BY <1>6, <1>7, <1>8 DEF TargetsFollowCache, NodeTypeOK

\* A step that leaves the map, the cache and the notifications alone.
LEMMA OthersFollow ==
  ASSUME TargetsFollowCache, UNCHANGED <<targets, cached, events, unheard>>
  PROVE  TargetsFollowCache'
BY DEF TargetsFollowCache, WillBeTarget, Ignored, Decisive

LEMMA FollowStep ==
  NodeTypeOK /\ TargetsFollowCache /\ [NodeNext]_vars => (NodeTypeOK /\ TargetsFollowCache)'
<1>1. SUFFICES ASSUME NodeTypeOK, TargetsFollowCache, [NodeNext]_vars
               PROVE  TargetsFollowCache'
  BY NodeTypeStep
<1>2. ASSUME NEW n \in Nodes, Join(n) \/ Leave(n) PROVE TargetsFollowCache'
  BY <1>1, <1>2, OthersFollow DEF Join, Leave, managerVars, informerVars
<1>3. ASSUME NEW g \in Scrapers, Run(g) PROVE TargetsFollowCache'
  <2>1. targets' = targets
    BY <1>3
    DEF Run, Goroutine, DelayOver, DelayCancelled, ScrapeReturns, Tick, SelectTick, SelectDone,
        GoTo
  <2>2. QED
    BY <1>1, <1>3, <2>1, OthersFollow DEF Run, nodeVars
<1>5. CASE UNCHANGED vars
  BY <1>1, <1>5, OthersFollow DEF vars, managerVars, nodeVars
<1>6. QED
  BY <1>1, <1>2, <1>3, <1>5, InformerFollows, HandlerFollows DEF NodeNext

\* Every node the informer holds is or is about to be a target, and no other is
\* unless its removal came as a tombstone, for any number of nodes and births.
THEOREM TargetsFollow == NodeSpec => []TargetsFollowCache
BY FollowInit, FollowStep, PTL DEF NodeSpec
================================================================================
