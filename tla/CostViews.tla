------------------------------- MODULE CostViews -------------------------------
(***************************************************************************)
(* The views that turn object and pod_usage_hourly into costs: node_hourly,*)
(* pod_usage_request_hourly and cost_hourly, evaluated at any moment of    *)
(* the life of the tables they read.                                       *)
(*                                                                         *)
(* Time is counted in ticks, Hour of them to the hour; a row's "hours" are *)
(* given in ticks and its cost in thousandths of a core times ticks (the   *)
(* price of a core, which config holds, is a common factor).  Two nodes of *)
(* one name are a node that was replaced, or nodes of two clusters: the    *)
(* views join on the name alone.  What they ask of object.data is the last *)
(* that was stored, whatever the hour.  Memory and storage are not priced  *)
(* here, and the clocks of database and nodes agree.                       *)
(***************************************************************************)
EXTENDS Quantities, FiniteSets, FiniteSetsExt, Functions

CONSTANTS
    Nodes,          \* objects of kind Node
    Pods,           \* objects of kind Pod
    NameOf,         \* metadata.name of each node
    Sizes,          \* status of a node: its cpu capacity and allocatable, quantities
    Specs,          \* spec of a pod: its cpu request, a quantity, and nodeName
    Averages,       \* cpu_cores_avg, in thousandths, of a usage row
    Hour,           \* ticks to the hour
    MaxNow,         \* bound: ticks
    Null            \* SQL's null

\* Of the quantities only those that parse_cores reads: on another the views fail.
ASSUME CostViewsAssumption ==
    /\ DOMAIN NameOf = Nodes
    /\ Nodes \intersect Pods = {} /\ IsFiniteSet(Pods)
    /\ Hour \in Nat \ {0} /\ MaxNow \in Nat
    /\ Averages \subseteq Int /\ Null \notin Int \union Sizes \union Specs
    /\ \A s \in Specs : Readable(s.request)
    /\ \A s \in Sizes : /\ Readable(s.capacity) /\ Readable(s.allocatable)
                        /\ ParseCores(s.allocatable) <= ParseCores(s.capacity)

VARIABLES
    now,        \* now()
    created,    \* created[n]: creation_timestamp of n's row, Null if there is no row
    size,       \* size[n]: what data of n's row says of it, or Null
    spec,       \* spec[p]: what data of p's row says of it, Null if there is no row
    deleted,    \* deleted_at of nodes and pods
    left,       \* left[p]: when the scraper's cache lost the pod, or Null
    usage       \* usage[p][h]: cpu_cores_avg of p's row for the hour h, or Null

vars == <<now, created, size, spec, deleted, left, usage>>

Time == 0 .. MaxNow
Trunc(t) == t - (t % Hour)                  \* date_trunc('hour', t)
HourStarts == {t \in Time : t = Trunc(t)}
NonNull(S) == S \ {Null}
Least(S) == Min(NonNull(S))                 \* least() and greatest() skip nulls
Greatest(S) == Max(NonNull(S))

-----------------------------------------------------------------------------
(* What the rest of pgkube does to the tables.                             *)

Init ==
    /\ now = 0
    /\ created = [n \in Nodes |-> Null]
    /\ size = [n \in Nodes |-> Null]
    /\ spec = [p \in Pods |-> Null]
    /\ deleted = [o \in Nodes \union Pods |-> Null]
    /\ left = [p \in Pods |-> Null]
    /\ usage = [p \in Pods |-> [h \in HourStarts |-> Null]]

Tick ==
    /\ now < MaxNow
    /\ now' = now + 1
    /\ UNCHANGED <<created, size, spec, deleted, left, usage>>

\* UpsertObject: a node that is first seen, at any age, gets a row; of one that has
\* a row, marked or not, the data is replaced.
StoreNode(n, s) ==
    /\ \E t \in 0 .. now :
         /\ created[n] # Null => t = created[n]
         /\ created' = [created EXCEPT ![n] = t]
    /\ size' = [size EXCEPT ![n] = s]
    /\ UNCHANGED <<now, spec, deleted, left, usage>>

\* UpsertObject of a pod, the first or another.
StorePod(p, s) ==
    /\ spec' = [spec EXCEPT ![p] = s]
    /\ UNCHANGED <<now, created, size, deleted, left, usage>>

Node == {n \in Nodes : created[n] # Null}       \* view node: the rows of that kind
Pod == {p \in Pods : spec[p] # Null}            \* view pod

\* Mutated form of MarkDeleted: a row that is marked is marked again.
MarkDeleted_Again(o) ==
    /\ o \in Node \union Pod
    /\ deleted' = [deleted EXCEPT ![o] = now]
    /\ UNCHANGED <<now, created, size, spec, left, usage>>

\* Mutated form of MarkDeleted: an object without a row is given one, deleted.
MarkDeleted_Unseen(o) ==
    /\ deleted[o] = Null
    /\ deleted' = [deleted EXCEPT ![o] = now]
    /\ UNCHANGED <<now, created, size, spec, left, usage>>

\* update object set deleted_at = now() where ... deleted_at is null: before or after
\* the scraper's cache lost the pod, or by mistake, of a pod that stays.
MarkDeleted(o) ==
    /\ o \in Node \union Pod
    /\ deleted[o] = Null
    /\ deleted' = [deleted EXCEPT ![o] = now]
    /\ UNCHANGED <<now, created, size, spec, left, usage>>

\* The pod is gone, and no scraper's cache will have it again.
Leave(p) ==
    /\ left[p] = Null
    /\ left' = [left EXCEPT ![p] = now]
    /\ UNCHANGED <<now, created, size, spec, deleted, usage>>

\* A reading is stored in the hour of its sample, at any later time: the sample may
\* be old and the statement late.  The scraper asks nothing but its cache for the
\* pod, after the sample was taken; a row of the pod's own may not be there yet.
Record(p, average) ==
    /\ \E sampled \in 0 .. now :
         /\ left[p] # Null => sampled <= left[p]
         /\ usage' = [usage EXCEPT ![p][Trunc(sampled)] = average]
    /\ UNCHANGED <<now, created, size, spec, deleted, left>>

Next ==
    \/ Tick
    \/ \E n \in Nodes, s \in Sizes : StoreNode(n, s)
    \/ \E p \in Pods, s \in Specs : StorePod(p, s)
    \/ \E o \in Nodes \union Pods : MarkDeleted(o)
    \/ \E p \in Pods : Leave(p)
    \/ \E p \in Pods, average \in Averages : Record(p, average)

Spec == Init /\ [][Next]_vars

-----------------------------------------------------------------------------
(* The views.                                                              *)

\* Mutated form of HasHour: no where clause.
HasHour_AfterDeletion(n, h) ==
    /\ n \in Node
    /\ h >= Trunc(Min({created[m] : m \in Node}))
    /\ h <= now

\* n has a row for h in view node_hourly: every node is given every hour since the
\* first node of all was created, except those that start after it was deleted.
HasHour(n, h) ==
    /\ n \in Node
    /\ h >= Trunc(Min({created[m] : m \in Node}))
    /\ h <= now
    /\ deleted[n] # Null => h < deleted[n]

NodeHourly == {row \in Node \X HourStarts : HasHour(row[1], row[2])}

\* Mutated form of NodeTicks: a node's first hour counts in full.
NodeTicks_FromTheHour(n, h) ==
    Least({h + Hour, deleted[n], now}) - h

\* node_hourly.hours
NodeTicks(n, h) ==
    Least({h + Hour, deleted[n], now}) - Greatest({h, created[n]})

\* view pod_usage_request_hourly: inner join pod.
PodHourly == {row \in Pod \X HourStarts : usage[row[1]][row[2]] # Null}

\* pod_usage_request_hourly.hours.  pod.start_time is null (the view asks for
\* 'starttime' and Kubernetes writes 'startTime'), so the hour's start stands alone.
PodTicks(p, h) == Least({h + Hour, deleted[p], now}) - h

RequestCores(p) == ParseCores(spec[p].request)
UsedCores(p, h) == usage[p][h]

\* The rows of an hour that carry a node's name.
PodsOf(name, h) == {p \in Pod : usage[p][h] # Null /\ spec[p].nodeName = name}
NodesOf(name, h) == {n \in Node : HasHour(n, h) /\ NameOf[n] = name}

\* The sums over pods that cost_node_idle_hourly joins by the name.
RequestSum(name, h) == SumFunction([p \in PodsOf(name, h) |-> RequestCores(p) * PodTicks(p, h)])
UsedSum(name, h) == SumFunction([p \in PodsOf(name, h) |-> UsedCores(p, h) * PodTicks(p, h)])

\* Mutated form of IdleCost: what pods only requested counts as idle.
IdleCost_UsedOnly(n, h) ==
    ParseCores(size[n].allocatable) * Hour - Greatest({UsedSum(NameOf[n], h), 0})

\* cost_node_idle_hourly.cpu_cost: the allocatable cores, not times the row's
\* hours, less the core hours of the pods.
IdleCost(n, h) ==
    ParseCores(size[n].allocatable) * Hour - Greatest({RequestSum(NameOf[n], h), UsedSum(NameOf[n], h), 0})

\* cost_node_system_hourly.cpu_cost
SystemCost(n, h) ==
    NodeTicks(n, h) * (ParseCores(size[n].capacity) - ParseCores(size[n].allocatable))

\* cost_pod_hourly.cpu_cost
PodCost(p, h) == Greatest({RequestCores(p), UsedCores(p, h)}) * PodTicks(p, h)

\* cost_hourly, summed over the rows of a node name for the hour.
CostOf(name, h) ==
    SumFunction([p \in PodsOf(name, h) |-> PodCost(p, h)])
        + SumFunction([n \in NodesOf(name, h) |-> IdleCost(n, h) + SystemCost(n, h)])

-----------------------------------------------------------------------------
(* Correctness.                                                            *)

\* The variables' types; and a node's row was never deleted before its node was
\* created, nor in the future (object.deleted_at against creationTimestamp).
TypeOK ==
    /\ now \in Time
    /\ created \in [Nodes -> Time \union {Null}]
    /\ size \in [Nodes -> Sizes \union {Null}]
    /\ spec \in [Pods -> Specs \union {Null}]
    /\ deleted \in [Nodes \union Pods -> Time \union {Null}]
    /\ left \in [Pods -> Time \union {Null}]
    /\ usage \in [Pods -> [HourStarts -> Averages \union {Null}]]
    /\ \A n \in Nodes : deleted[n] # Null =>
           created[n] # Null /\ created[n] <= deleted[n] /\ deleted[n] <= now

\* The hours of n in node_hourly from the one it was created in.
HoursFromCreation(n) == {h \in HourStarts : HasHour(n, h) /\ h >= Trunc(created[n])}

\* From the hour of its creation on, the hours of a node's rows in node_hourly add
\* up to the time it existed, whatever nodes came before it.
NodeHoursAddUp ==
    \A n \in Node :
        SumFunction([h \in HoursFromCreation(n) |-> NodeTicks(n, h)])
            = Least({deleted[n], now}) - created[n]

\* The only negative hours the views report are those of a node in an hour that
\* ended before it was created (an older node's hours are given to it too), and of
\* a pod in an hour that began after its row was marked deleted, while the scraper's
\* cache still had the pod: a mark that comes once the cache lost it leaves none.  A
\* pod that lives on, marked by mistake, gets them for as long as it lives.
NegativeOnlyOutsideLife ==
    /\ \A row \in NodeHourly :
           NodeTicks(row[1], row[2]) < 0 <=> row[2] + Hour < created[row[1]]
    /\ \A row \in PodHourly :
           LET mark == deleted[row[1]]
               lost == left[row[1]]
           IN  /\ PodTicks(row[1], row[2]) < 0 <=> mark # Null /\ mark < row[2]
               /\ lost # Null /\ mark # Null /\ lost <= mark => PodTicks(row[1], row[2]) >= 0

\* What is billed for a node, alone of its name in an hour of its life: never less
\* than its capacity for as long as it was there, and exactly its capacity when it
\* was there for the full hour and no pod used more than it requested.  Idle, system
\* and pod rows then share the node without gap or overlap.
CapacityIsPaid ==
    \A row \in NodeHourly :
        LET n == row[1]
            h == row[2]
            name == NameOf[n]
        IN  ( /\ NodesOf(name, h) = {n}
              /\ h >= Trunc(created[n])
              /\ \A p \in PodsOf(name, h) : PodTicks(p, h) >= 0 )
            => /\ CostOf(name, h) >= NodeTicks(n, h) * ParseCores(size[n].capacity)
               /\ ( /\ NodeTicks(n, h) = Hour
                    /\ \A p \in PodsOf(name, h) : UsedCores(p, h) <= RequestCores(p) )
                  => CostOf(name, h) = Hour * ParseCores(size[n].capacity)

\* A step stores something that the cost of name in the hour h is computed from: a
\* node of that name, new or with other data, other data of a pod that has usage in
\* the hour, or usage in the hour.
Touched(name, h) ==
    \/ \E n \in Nodes : NameOf[n] = name /\ <<created[n], size[n]>>' # <<created[n], size[n]>>
    \/ \E p \in Pods : /\ usage[p][h] # Null /\ spec[p]' # spec[p]
                       /\ \E s \in {spec[p], spec[p]'} \ {Null} : s.nodeName = name
    \/ \E p \in Pods : usage[p][h]' # usage[p][h]

\* What is billed for an hour that is over changes only with what is stored: no
\* clock, no deletion, no node of another name and no other hour's reading changes
\* it.  It is no more final than that: a node that is resized, a pod that is moved
\* or asks for more, and an old sample price the hour anew.
PastHoursFollowData ==
    [][\A h \in HourStarts : h + Hour <= now =>
          \A name \in {NameOf[n] : n \in {m \in Node : HasHour(m, h)}} :
              \/ Touched(name, h)
              \/ NodesOf(name, h)' = NodesOf(name, h) /\ CostOf(name, h)' = CostOf(name, h)]_vars
================================================================================
