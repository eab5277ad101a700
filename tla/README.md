# A verification development for pgkube

pgkube watches Kubernetes clusters and stores what it sees in PostgreSQL: the
objects of ten kinds, as rows of the table `object`, and the CPU and memory
usage of pods, as rows of `pod_usage_hourly`.  SQL views turn both into costs,
which a small web page shows.  What can go wrong, and what no test of the
repository exercises, is in the timing and at the edges: informers, handlers, an
hourly collector, one goroutine per node, statements that time out, restarts,
processes that start or run at the same time, hours that turn while a page is
rendered, and hours in which a node or a pod was there for a part only.

This directory models the program in TLA+, checks it with TLC on small
instances, and proves the central properties with TLAPS for every value of the
constants.  Paths below are relative to the repository's root.

## 1. Inventory

| component | source | state | operations | hard behaviour |
|---|---|---|---|---|
| Object mirroring | `app/scraper/scraper.go`, `persist_object_handler.go` | informer caches and notification queues (client-go), the collector's pass | OnAdd, OnUpdate, OnDelete, CollectGarbage | lagging caches, tombstones, statements that fail or run late, restarts, several instances |
| Object table | `app/queries/queries.go:15-80`, `migrations` 8-17 | table `object` | UpsertObject, DeleteObject, DeleteObjects | shared by clusters; `deleted_at` is never cleared |
| Scrape manager | `app/scraper/manager.go` | map of targets, a goroutine each | AddTarget, RemoveTarget | cancellation against delay, scrape and tick |
| Node event handler | `app/scraper/node_event_handler.go:177-230` | none of its own | OnAdd, OnUpdate, OnDelete | node names that come back, merged or missed notifications |
| Node scraper | `node_event_handler.go:23-175`, `app/k8s/client.go` | the previous counters and cores, by pod name | Scrape | names that pass to another pod, counters that begin anew, failing upserts, coarse division |
| Usage table | `queries.go:92-188`, `222-236`, `migrations` 19-42 | table `pod_usage_hourly` | UpsertPodUsedCPU, UpsertPodUsedMemory, execBatch | concurrent batches, row locks, deadlocks, defaults |
| Startup | `app/main.go`, `queries.go:190-216`, `migrations` 1-7 | version and lock of the schema, table `cluster`, the id a process works under | Execute, Migrate, GetOrCreateCluster | processes that start at once, or die half way through a migration; ids that run out |
| Cost views | `migrations` 62-75, 142-290 | none; they read the tables at any moment | the views | hours outside a life, rows that come late or change, two nodes of one name |
| Quantity parsers | `migrations` 78-140 | none | parse_bytes, parse_cores | suffixes |
| Workload query builder | `app/queries/workload_agg.go` | none | workloadQuery, Validate | which columns are selected and what PostgreSQL refuses |
| Workload page | `app/server/workload.go`, `app/templates`, `app/assets/script.js` | the page, the browser's URL | links, parsing, HandleWorkload | an hour that turns while a page is rendered, typed URLs and orders, errors |
| HTTP server, logging | `app/server/server.go`, `logging_middleware.go` | none | routing, HTTPError | errors keep the old page |
| Database helpers | `app/queries/db.go`, `app/scraper/helpers.go` | none | conversions | none |
| Build, manifests, tests | `magefiles`, `kube`, mocks | none | | `kube/pgkube.yaml` has one replica and the default rolling update, so two instances overlap |

How they interact.  `Execute` migrates the database, finds or creates the row of
its cluster, calls `StartScraper` and then serves HTTP.  `StartScraper` registers
a PersistObjectHandler with each of the ten informers and the NodeEventHandler
with the one of nodes, starts the informers, waits for their first lists and
starts the collector.  Handlers and collector share nothing but the caches and
the database.  The NodeEventHandler calls the manager, whose goroutines call
NodeScraper.Scrape; a scrape reads the kubelet, the pod cache and its own
previous values, and sends two batches to the database.  The views join the two
tables by pod uid and by node name.  The page reads the views through the query
that `workloadQuery` builds; between two requests all of its state is in the
browser.

What makes each component correct:

* Object mirroring: a row tells the truth about its object (a revision it had);
  a row is marked deleted only when its object is gone; every object that is
  gone is marked, every living one is brought up to date, in the end; data does
  not go back in time.
* Object table: rows never vanish, a set `deleted_at` stays, clusters do not
  touch each other's rows.
* Scrape manager: one goroutine per target, none that RemoveTarget cannot
  reach, none that survives its cancellation; a kept target is scraped on and on.
* Node event handler: the targets are the nodes the informer holds.
* Node scraper: a reading is what one pod consumed in an interval, and the
  intervals of different readings do not overlap.
* Usage table: the columns summarise the committed readings, a batch is stored
  as a whole or not at all, and every batch ends.
* Startup: no process touches a schema that is half made, none works under
  another cluster's id, and each serves in the end.
* Cost views: a node's hours add up to its life, its capacity is billed once,
  and what an hour that is over costs changes only with the data it is computed
  from.
* Quantity parsers: a suffix means what it means in Kubernetes.
* Workload page: the URL tells the page, windows touch, a control changes what
  it names and keeps the rest, and leads to a page unless what the user asks for
  cannot be had.

## 2. Modules

```
ObjectTable <--- ObjectSync ......> ObjectArchive     (refinement)
                   ^   ^
      MCObjectSync-+   +-ObjectSyncProofs
ScrapeManager <--- NodeTargets <--- MCNodeTargets, NodeTargetsProofs
      ^-- MCScrapeManager
NodeScraper   <--- MCNodeScraper, NodeScraperProofs
UsageTable    <--- UsageBatches <--- MCUsageBatches, UsageBatchesProofs
Startup ..........> ClusterRegistry                   (refinement)
   ^-- MCStartup, StartupProofs
Quantities    <--- CostViews <--- MCCostViews, CostViewsProofs
SumTheorems   <--- UsageBatchesProofs, CostViewsProofs
WorkloadPage  <--- MCWorkloadPage, WorkloadPageProofs
```

An arrow is EXTENDS, a dotted one INSTANCE ... WITH.  NodeTargetsProofs holds the
proofs about the manager too, and carries them to the composition.

**ObjectTable** holds the row of an object and the three statements as
operators on the table.  A row is `absent`, `active` or `deleted` and carries
the revision that its `data` column holds; cluster and kind are functions of
the uid, as every upsert of a uid writes the same values.

**ObjectSync** is the core: API server, informers, handlers, database and
collector.  An informer observes an object revision by revision (`WatchUpdate`,
`WatchDelete`) or through a list that shows the present only (`ReplaceLive`,
`ReplaceGone`); every observation changes the cache first and queues a
notification (`Notify`), as client-go does.  A handler takes the notifications
of its kind in order and makes one statement of each: it may be applied, fail,
or be given up after 5 seconds, in which case the database still runs or drops
it at any later moment (`Land`, `Vanish`).  A pass of the collector lists and
marks kind after kind (`GCTable` is `CollectGarbage`, line by line), and the two
steps of a kind are separate actions.  A restart empties caches, queues and pass;
the statement a pass was at may be left behind (`orphans`) and be run or dropped at
any later moment (`LandPass`, `VanishPass`), and a handler's likewise, given up
(`HandleAbandoned`) before the restart.

**ObjectArchive** is the promise to whoever queries the table: a row holds a
revision that its object had, never vanishes, and once deleted stays deleted.
`Archived` states that ObjectSync implements it, with `rev`, `gone` and `table`
mapped to themselves and all other variables hidden.

**ScrapeManager** has an action for each call of the manager and for each step
of a target's goroutine: delay, scrape, the one-place channel of the ticker and
the branches of `select`.  The manager's own context has no action: `Execute` hands
`StartScraper` the context it was given itself (`main.go:104`) and cancels another,
so a process that is told to stop ends with all its goroutines as they are.
`job[g]` is the target that goroutine `g` was started for; `Free` goroutines
stand for those not yet started.

**NodeTargets** extends it with the informer of nodes and the NodeEventHandler
as the manager's only caller.  A target is named after its node, so nodes are
names, and a name may be born several times.

**NodeScraper** follows a scrape: `Fetch` (NodeMetrics), `CpuData` (cpuData,
under the mutex, with the cache lookups), the CPU upsert, and memoryData with
its own lookups and upsert.  Around it pods are created, run, are measured by
the kubelet, stop and are deleted, and names pass on; the pod cache follows at
moments of its own.  The node may reboot: its pods keep their names and uids, and
their counters start at 0 again, while the scraper, whose requests fail meanwhile,
keeps the previous ones.  Samples carry the pod and the boot they were measured on,
which only the properties read.

**UsageTable** and **UsageBatches** are the row of a pod and hour with its two
halves, and the transactions that write them.  An upsert (`Execute`) waits for the
lock of its row, computes a version from the row it then finds and keeps both lock
and version to itself; `Commit`, a later step, replaces the rows by the versions
of the whole batch.  A batch takes its rows in the order of a map iteration, and
PostgreSQL breaks circles of waiting transactions.  `log` records what was
committed.

**Startup** follows each process through `Execute`.  Of golang-migrate, which is
not part of the repository, it has what `Migrate` depends on: the advisory lock,
the version that is written dirty before and clean after the one migration file,
and the file as one statement.  GetOrCreateCluster is a select and an insert with
everything in between; an insert draws from the sequence of a `smallserial` even
when it fails.  `Fail` is any error, or a kill, at any stage.

**ClusterRegistry** is what every query restricted to a `cluster_id` relies on: a
name gets one id, for ever, no other name gets it, and a process works under the
id of its own name or under none.  `Registered` states that Startup implements
it, with the table and the ids held by the processes as its two variables.

**Quantities** has the two parsers as the factor that each suffix is given, and
beside them what the suffix means.  **CostViews** uses it, and evaluates the views
for nodes, pods, hours and the cost of CPU at every moment of tables that change:
a node is first seen at any age, each upsert may replace the data of a row, marked
or not, and with it sizes, requests and the node's name (`StoreNode`, `StorePod`);
rows are marked deleted at any time, of a living pod as well; and a reading is
stored at any time after its sample, in the sample's hour, provided the scraper's
cache still had the pod after the sample (`Leave` and `Record`: `cpuData` asks
nothing else of the pod).  `HasHour` and `NodeTicks` are the rows and the `hours`
of `node_hourly`, `PodTicks` those of `pod_usage_request_hourly`, and `IdleCost`,
`SystemCost` and `PodCost` the three parts of `cost_hourly`.

**WorkloadPage** has the browser, the handler and the clock.  `Link` and
`UnmarshalWorkloadRequest` write and read a URL; the page keeps its request and
the parts that were rendered from a clock which may turn between any two of its
readings (`Rendered`); `refreshContent` is htmx with the header HX-Replace-Url,
`Visit` a URL that is typed, `AddLabel` and `UpdateStartEnd` the script, which
starts from the browser's URL and not from the page's request; after dates were
refused the inputs keep what was set.  `Rejected` says for which requests
`workloadQuery` or PostgreSQL answers with an error.  A URL may carry any text as
a column or an order.  `workloadQuery` hands the order on as it is, so what
PostgreSQL makes of a text that is no column, a position or an expression, is a
constant (`Sorts`: with which selections it takes it).

Definitions named `X_...` beside a definition `X` are mutated forms of it: each
is a plausible error in the code, and for each property of each passing run
there is one under which TLC finds the property violated.

## 3. Runs

| run | instance | checks |
|---|---|---|
| sync_safe | 2 clusters with an instance and a pod each, 2 revisions, queue of 2, failing statements, 1 restart, a collector's late statement | TypeOK, RowsAreCached, RowNeverGoesBack, OnlyNewcomersMisjudged |
| sync_live | 1 instance, 1 pod, late statements of handler and collector, restart, fair | Truthful, Archived, GoneEventuallyMarked, EventuallyCurrent |
| sync_node | 1 instance, 1 node, 1 restart, fair | NodesEventuallyMarked: **violated** |
| nodes | 1 name born three times, 3 goroutines, queue of 3, fair | NoLeak, TargetsAreServed, TargetsFollowCache, DoneScrapersEnd, KeptTargetsAreScraped, StayingNodesAreScraped |
| manager_remove | 1 target, 1 goroutine | NoScrapeAfterRemove: **violated** |
| scrape_reuse | 2 pods with one name, 3 ticks of half a second, 1 reboot | TypeOK, RepeatedCoresAreCurrent, IntervalsAreDisjoint, NegativeNeedsNewCounter |
| scrape_rate | 1 pod, 3 ticks | CoresAreRates: **violated** |
| usage_rows | 1 row, 4 batches, values -1, 0, 1, 2 | TypeOK, TotalsAreExact, MaxIsGreatest, MinIsLeastSinceZero |
| usage_live | 2 rows, 3 batches, fair | AllOrNothing, BatchesEnd |
| startup | 3 processes of 2 clusters, 2 ids, 3 failures, fair | TypeOK, NobodyUsesHalfASchema, DirtyOnlyIfInterrupted, Registered, EventuallyServes |
| page | 2 columns, 2 labels, 2 ranges, 3 other texts, 9 typed URLs, 2 half hours | TypeOK, ReloadShowsTheSame, PagesTouch, ControlsChangeOneThing, ControlsAreAccepted |
| costs | 2 nodes of one name, 1 pod, 2 sizes, 3 specs, 3 ticks of half an hour | TypeOK, NodeHoursAddUp, NegativeOnlyOutsideLife, CapacityIsPaid, PastHoursFollowData |

Each takes at most about two and a half minutes.

What each property says stands above its definition.  In short: *Truthful*,
everything that waits to be written is true of the cluster; *RowsAreCached*, what
the collector keeps covers the rows of living objects; *OnlyNewcomersMisjudged*,
the race, and the crash, by which a living object is marked deleted;
*RowNeverGoesBack*, no older data over newer; *Archived*, the refinement;
*GoneEventuallyMarked* and *EventuallyCurrent*, the collector and the resync
repair what was lost. *NoLeak*, no goroutine runs that RemoveTarget cannot cancel;
*TargetsAreServed*, *KeptTargetsAreScraped* and *DoneScrapersEnd* say what a
target's goroutine does until it is cancelled and afterwards; *TargetsFollowCache*
and *StayingNodesAreScraped* carry this to the nodes.  The properties of
NodeScraper say that different readings are of disjoint intervals (one reading may
be stored again and again, until the kubelet measures anew) and what a negative
one needs; those of UsageBatches say how the columns of a row follow from the
readings committed and, in *BatchesEnd*, that batches that wait for each other go
on.  Those of Startup say what a process that got past a stage may rely on, and
that the races cost restarts and nothing else, unless a migration was cut off or
the ids ran out.  Those of CostViews say which hours the views give to whom, that
a node alone of its name is billed its capacity exactly once when its pods stay
within their requests, and never less, and that an hour that is over changes only
with the data its cost is computed from: it is not settled for good.  Those of
WorkloadPage say that URL, page and controls agree but for orders by an
expression, and which controls lead to a refused request.

### What the violated ones show

* **sync_node.** Nodes are stored as kind `Node` (`scraper.go:29`) and collected
  as kind `Nodes` (`scraper.go:106`).  A node that goes away while pgkube is
  down keeps `deleted_at` null, and `node_hourly` gives it an hour every hour.
* **manager_remove.** A target that is removed during its initial delay is
  scraped once more, and a tick that waits may win against the cancelled context.
* **scrape_rate.** The time between two samples is cut to whole seconds before
  the division; with less than a second between them the divisor is zero.

### Other flaws met on the way

These have no violated run, because a property that holds bounds them, because
a theorem names them, or because their cause is not modelled.

* A pod whose first upsert is handled between the listing of the cache and the
  statement that marks the rest (`scraper.go:117-129`) is marked deleted while it
  lives, and no later upsert clears the mark (`queries.go:44-49`); the same if the
  collector dies in between and its statement is run after the next process has
  stored the pod.  With one instance per cluster there is no other way
  (`OnlyNewcomersMisjudged`).
  Scraping goes on for such a pod, and each hour that begins after the mark has
  negative hours and a negative cost, without bound (`NegativeOnlyOutsideLife`).
* Counters are remembered by pod name (`node_event_handler.go:102`), and a scrape
  that fails leaves them (71-74): a pod that replaces another, or whose node
  rebooted between two successful scrapes, is charged the difference of two
  counters, which may be negative.  `NegativeNeedsNewCounter` says that nothing
  else makes a reading negative.
* While the kubelet does not measure, each scrape stores the last cores again
  (`node_event_handler.go:116-120`), so an interval enters readings and total as
  often as it was scraped.  This is intended (`node_event_handler_test.go:198`);
  the model has it, and no property says that an interval is counted once.
* When the CPU readings cannot be stored, `Scrape` returns and the memory readings
  of that scrape are dropped too.
* DaemonSets and StatefulSets are stored but not collected (`scraper.go:104`),
  with the effect that `sync_node` shows for nodes.
* A process that dies between the dirty and the clean version of the migration
  leaves a database that every later start refuses, until somebody repairs it by
  hand (`main.go:141`).  Inserts that fail on a cluster's name use up ids of a
  `smallserial`.
* In the views (`202308010_init_schema.up.sql`, by line): a node is given hours
  before it was created, negative ones, when another node is older (206, 211); the
  idle cost is not multiplied by the row's hours, so a node's first, last and
  current hour are billed above its capacity (232); the idle cost of memory
  subtracts the allocatable memory instead of the used one, and is never positive
  (233); `start_time` asks for the key `starttime`, which Kubernetes does not
  write, and is null (144), so a pod's hours begin with the full hour; joins by
  the name of a node or a volume claim ignore the cluster (154-163, 244), and two
  nodes of one name in an hour are each relieved of the same pods.
* The views ask `object.data` for capacity, allocatable, requests and node name,
  and every upsert replaces it (`queries.go:44-49`): a node that is resized, or a
  pod whose data changes, is priced anew for all its past hours (145-150,
  191-196). `PastHoursFollowData` says what an hour that is over depends on.
* `orderby` is passed to PostgreSQL as it is (`workload_agg.go:143-145`), but
  `urlValues` keeps it only if what precedes a last ` asc` or ` desc` is a column
  of the URL (`workload.go:206-209`): of a typed order such as `namespace DESC` or
  `1` the page is shown, and every link, and the URL after any control, loses it.
  `ReloadShowsTheSame` and `ControlsChangeOneThing` state the exception.  A text
  that a URL has both as a column and as the order stays, though the columns it
  needs may be switched off (`OrdersByText`), which is then refused.
* parse_bytes takes `k`, fractions of a byte and exponents for plain bytes (100,
  107); parse_cores fails, and with it the query, on any suffix other than `m` and
  an exponent.
* A label of one letter, or with `-` or `.`, is refused with an error
  (`workload_agg.go:134`); columns that a URL names and `Cols()` does not know,
  the default request's own `request_cpu_cores` among them (`workload.go:47`), are
  skipped without one.

### Bounds, and why they are enough

Every bound is a constant or a size of a set.

*ObjectSync.*  `MaxRev = 2` lets a newer and an older revision meet; a third is
one more of the same.  `MaxQueue = 2` holds two successive notifications of an
object, an update and a delete for instance; a full queue only delays the
informer, which then merges what it missed.  `MaxAbandoned = 1` gives one
statement that may run at any later point, `MaxRestarts = 1` one start with a
filled database.  Two clusters are needed for a statement to reach the wrong rows
(they may be exchanged, a symmetry), and with a pod in each a pass always has a
row that it must not touch.  One restart leaves one statement of a collector
behind. `sync_safe` has no statement that a handler gave up, because
RowNeverGoesBack does not hold with one; what such statements may do is in
`sync_live` and the theorems. Two instances of one cluster, as in a rolling
update, are in no run: Truthful and Archived are proved for any number.

*Targets.*  A name that is born three times is removed, added and removed again
while its first goroutine has not ended, and its events fit a queue of three;
three goroutines leave one to start while two are told to stop.

*Readings.*  Three ticks give intervals of half a second, of one second and of one
and a half, and a repeated sample; two pods are a name that changes hands, and one
reboot may fall between any two samples.  Four batches on one row give three
readings of one half after a reading of the other, what a minimum that forgets
zero and a maximum that starts at the default need, and two positive values what a
least one needs; two rows are what a deadlock needs, three batches a circle of
waiting.

*Startup.*  Two processes of one cluster race for its row and a third, of another,
for the id; two ids run out as soon as one race was lost; three failures kill a
process in the migration, another before, and another after its insert.

*Page.*  The clock begins in the middle of an hour, which turns once, between any
two requests or any two readings of the clock for one page; the page's times are
half hours, so that typed dates and ranges may have minutes.  The typed URLs are
the default request with its unknown columns, a range that is not whole hours, a
window with minutes, one without its end, an order by a column that is not there,
one that names nothing the query knows, an order by a position and one by an
expression, which is in the URL as a column or not; dates may be set in the wrong
order.  Of the labels one is fit for SQL and one is not.

*Costs.*  Two ticks to the hour and three ticks are one full hour and one that has
begun, with nodes and a pod that come and go in the middle, and a late reading for
an hour that is over.  The nodes have the same name and may be exchanged (symmetry);
either may be resized between a size with a system share and one without.  The pod
asks for less or more than it uses, and may be on the nodes of that name or on
another.  There is one pod because its data, marks, losses and readings are free of
each other, and a second would multiply them; sums over several pods are what the
theorems are about.

The runs of NodeTargets, UsageBatches, Startup and CostViews do not check for
deadlock: with the births, the batches, the failures or the ticks used up, and all
processes serving, those systems may stop.

## 4. Fairness

* Informers go on: a list that was begun ends, and what an informer has to report
  is reported again and again until there is room in the queue (strong fairness:
  the queue may be full in between).  Resyncs come every hour.
* A handler takes what is in its queue (weak fairness); a statement tried over and
  over, at each resync, is applied in the end (strong fairness per object): the
  database is down now and then, not for ever.
* The collector's ticker and its passes go on, and its statement succeeds now and
  then.  A statement that was given up or left behind is run or dropped in the
  end.
* A goroutine that can run does, timers fire, scrapes return (a request ends with
  an error if not otherwise: an assumption, as `Scrape` sets no deadline), and
  `select` picks among ready cases at random, so the one of the cancelled context
  is picked in the end (strong fairness of `SelectDone`).  Nothing is assumed of
  the manager's callers.
* PostgreSQL runs what can run and looks for deadlocks (`deadlock_timeout`).
  Nothing makes a batch abort otherwise.
* A process that starts goes on, one that exited is started again by the kubelet
  (weak fairness of `Execute`), and PostgreSQL grants an advisory lock to those
  who wait in turn (strong fairness of `Lock`).

No fairness is assumed of the cluster, of restarts or of failures; none at all in
the runs that check only safety, which are those of the page, the costs and the
scraper.

## 5. Proofs

Proved by TLAPS, for all values of the constants under their `ASSUME`s:

| module | theorem | statement | rests on |
|---|---|---|---|
| ObjectSyncProofs | Typing | `Spec => []TypeOK` | |
| | NothingMadeUp | `Spec => []Truthful` | Typing |
| | CacheCoversRows | `Spec => []RowsAreCached` if `OnePerCluster` | NothingMadeUp |
| | OnlyNewcomers | `Spec => OnlyNewcomersMisjudged` if `OnePerCluster` | CacheCoversRows |
| | TableIsArchive | `Spec => Archived` | NothingMadeUp |
| | RowsOnlyAdvance | `Spec => RowNeverGoesBack` if `OnePerCluster` and `MaxAbandoned = 0` | NothingMadeUp |
| NodeTargetsProofs | NothingLeaks | `Spec => []NoLeak` | |
| | TargetsServed | `Spec => []TargetsAreServed` | |
| | UsesManager | `NodeSpec => Spec` | |
| | NodesLeakNoScraper | `NodeSpec => []NoLeak` | UsesManager, NothingLeaks |
| | TargetsFollow | `NodeSpec => []TargetsFollowCache` | |
| NodeScraperProofs | Typing | `Spec => []TypeOK` | |
| | Repetition | `Spec => []RepeatedCoresAreCurrent` | |
| | Disjointness | `Spec => []IntervalsAreDisjoint` | |
| | Negatives | `Spec => []NegativeNeedsNewCounter` | |
| UsageBatchesProofs | Typing | `Spec => []TypeOK` | |
| | BatchesAreAtomic | `Spec => []AllOrNothing` | |
| | TotalsExact | `Spec => []TotalsAreExact` | SumTheorems |
| | MaximumIsGreatest | `Spec => []MaxIsGreatest` | |
| | MinimumIsLeast | `Spec => []MinIsLeastSinceZero` | |
| StartupProofs | Typing | `Spec => []TypeOK` | |
| | SchemaIsWhole | `Spec => []NobodyUsesHalfASchema` | Typing |
| | NotDirtyByRace | `Spec => []DirtyOnlyIfInterrupted` | Typing |
| | OwnClusterAlways | `Spec => []Registry!OwnCluster` | Typing |
| | RegistryImplemented | `Spec => Registered` | Typing |
| WorkloadPageProofs | Typing | `Spec => []TypeOK` | |
| | LocationIsTrue | `Spec => []ReloadShowsTheSame` | |
| | ControlsWork | `Spec => []ControlsAreAccepted` | |
| | PagingIsGapless | `Spec => []PagesTouch` | |
| | ControlsKeepTheRest | `Spec => []ControlsChangeOneThing` | |
| CostViewsProofs | Bytes | `BytesAsMeant` | |
| | Cores | `CoresAsMeant` | |
| | Typing | `Spec => []TypeOK` | |
| | NegativeHours | `Spec => []NegativeOnlyOutsideLife` | |
| | HoursAddUp | `Spec => []NodeHoursAddUp` | SumTheorems |
| | CapacityPaid | `Spec => []CapacityIsPaid` | SumTheorems, HoursAddUp's lemmas |
| | PastFollowsData | `Spec => PastHoursFollowData` | SumTheorems |

**ObjectSync.** `RowsAreCached` is not inductive: a row may come from a
notification that waits, or from a statement that was given up, so the invariant
must speak of these.  `Truthful` says of each what it may tell: a notification is
about an object of the instance's cluster, in a revision that it had, and says
"delete" only of one that is gone; its object is gone or in the cache; passes run
on filled caches only.  `RecordedAreCached` strengthens `RowsAreCached` from rows
to statements that may still write one.  From these, a row that turns from active
while its object lives cannot have been marked by a handler, so it was marked by a
pass; the pass belongs to the object's cluster; the object was in the cache, by
`RowsAreCached`, and not in the list: it is a newcomer.  Or the pass had died, and
its object was not in the list it left behind: of such a list nothing else is
known, since the next process's cache is another.  That a row never goes back
needs an order: the notifications of an object in a queue carry ascending
revisions, not below the row's and not above what the informer has seen; a restart
empties the queue, and the list that follows shows the present.

`OnePerCluster` is what `kube/pgkube.yaml` asks for (one replica) outside of a
rollout.  It is needed: with two instances a pass of the one may mark an object
that only the other has seen.  `MaxAbandoned = 0` leaves out statements that run
after their handler gave them up or died; with one, TLC shows a row going back.
`TableIsArchive` needs neither.

**ScrapeManager, NodeTargets.** A map entry and its goroutine own each other:
the entry's goroutine runs for its target, and one that runs and was not
cancelled is in the map.  Every step of NodeTargets is a step of the manager or
leaves it alone, so this carries over.  `TargetsFollowCache` is inductive as it
stands, given the types: it says of every name that the last notification still
queued, or else the map, agrees with the cache; handling a notification makes true
what it said while it was queued.

**NodeScraper.** Every sample is genuine (of a pod of its name, at a time and with
a total that it had in that boot); of a name, the scraper's previous sample
precedes the one at hand, which precedes the kubelet's.  Two samples of one pod in
one boot have ascending counters, boots ascend, and of two pods of one name the
earlier's is deleted: this gives `Negatives`.  The interval of every reading that
is stored or about to be is over when the next begins, so that all of a name are
pairwise the same or apart; and a batch exists only between the lookup and the end
of the upsert, so that a failed one cannot be added to a later one.

**UsageBatches.** What a batch writes is fixed when it is sent; it commits after
the last of its rows, and nothing of it is in the log before.  The rows are finite
in number, by assumption: a batch is a finite list.

A commit puts in place what its batch computed when each statement ran.  That this
is still an upsert of the row that it replaces is `Current`: of a running batch,
every row that it has written is locked by it, and its version is the upsert of the
committed row as it is now.  Another's commit leaves such a row alone, because the
other holds the locks of all that it wrote.

What the columns say of the log is true from the start and kept by each commit,
which appends at most one reading to the log of a row (a batch has a row once) and
merges the same reading into one of its halves; the other half's readings and
columns stay.  `RowsFollowLog` is what this needs besides: a row exists if and only
if something is in its log, and a half without a reading has the column defaults.
For the totals, the sum over the
places of the readings grows by the new one; for the minimum, a reading of 0
empties the set of those since the last 0 and any other joins it.

**SumTheorems.** What the two proofs with sums rest on: the community modules' sum
over a finite set is 0 for the empty set, takes up and gives back one element, is
the same for functions that agree, and grows with each term.  Those modules define
it by recursion over an arbitrary choice of the next element, so that it depends
on no order is a fact to be proved.  The library's induction theorems take
operators as parameters, which the provers cannot instantiate; the lemmas argue by
a least counterexample instead, a natural number or a subset without a smaller one
(`LeastNatural`, `MinimalSubset`), which quantify over sets only.

**Startup.** Whoever is between "dirty" and "clean" holds the lock, and version
and tables advance together under it; only an exit in the middle separates them,
which sets `interrupted`.  A row's id is one that was drawn before, each is
drawn once, and a process that has one has its own name's.  Each action of Startup
is then an action of ClusterRegistry or a stutter.

**WorkloadPage.** A request that came through `UnmarshalWorkloadRequest` is in a
normal form (a range, or whole hours, not both) which every control keeps through
`Link` and back, and the page that is shown was accepted, so its order is by a
selected column or by an expression that goes with the selection.  An order that a
link keeps is by a column of the URL: either of the query, so selected, or a text,
where a selection that only grows stays good (`WorkloadPageAssumption`: what is
selected besides does not matter) and one that shrinks is exempt
(`OrdersByText`).  The readings of the clock that rendered it ascend by one half
hour at most; so a window that follows a range moves by one hour at most.

**CostViews.** The parsers are finite tables, so `Bytes` and `Cores` are a case
for each suffix.  The invariant says beside the types that no node was created in
the future, and that usage is of hours that had begun, before the scraper's cache
lost the pod; so a mark that comes after that is not before any of these hours
began.  Truncation is arithmetic on multiples of `Hour`, and the sum of a node's
hours telescopes: the hours from the one of its creation follow each other, and
for each of them the ticks counted so far are the part of the node's life before
that hour's end.  For `CapacityIsPaid`, a pod's row costs the greater of two
amounts, so the pods together pay at least the sum of either, and the idle row
takes away no more than the greater of those sums or nothing; with no pod above
its request both are the sum of the requests.  For `PastHoursFollowData`,
everything that enters the cost of an hour that is over, the rows, readings, marks
and the clock, both of which the hour's end cuts off, is shown to be the same
after a step that does not store what `Touched` names.

The assumptions on the constants: the quantities are such as `parse_cores` reads
(on another the query fails), in each size of a node the allocatable cores are at
most its capacity, pods are finite in number and nodes are no pods, as their uids
differ; averages are integers.

Only model-checked: liveness, which is out of the prover's reach.  These are
GoneEventuallyMarked, EventuallyCurrent, DoneScrapersEnd, KeptTargetsAreScraped,
StayingNodesAreScraped, BatchesEnd and EventuallyServes.  Every other property of a
passing run is a theorem, three of ObjectSync's under the conditions in the table.

## 6. Not modelled

* Two windows of NodeScraper are modelled but promised nothing about.  Between
  `NodeMetrics` and the lookups of the pods, and between the lookups for CPU and
  for memory, a name may pass to another pod; the readings then go to that pod's
  uid.
* Of the views: the cost of memory and storage, whose idle part is broken (above)
  and whose remaining arithmetic repeats that of CPU, and `object_controller`,
  which only labels rows.  Prices are a common factor.
* The CSV export reads the same request and changes nothing.  `Validate` and its
  column lists, `WithTransaction` and `WithTx` are not called by the program.
* Routing, logging, markup and the Kubernetes client's configuration keep no state
  and take no decision that the properties tell apart; the database helpers
  convert by reflection; build tasks, manifests, mocks and tests are not the
  program.
* Clocks: those of database, nodes and pgkube agree, and `creationTimestamp` is
  not in the future.  Times in URLs are of zones a whole number of hours from UTC:
  the page and its script write UTC.  In others, which only a typed URL has,
  `TruncateHour` cuts at an hour of the zone, which is none of UTC.
* Data at the edges: uids are well-formed; usage values are integers, so
  infinities and NaN, which `scrape_rate` shows can occur, are not followed into
  the table; `bigint` does not overflow in the parsers; the hour of a reading
  appears as the key of a row only.

## 7. Plan

1. (done) ObjectTable, ObjectArchive, ObjectSync; ScrapeManager, NodeTargets.
2. (done) NodeScraper, UsageTable, UsageBatches.
3. (done) Startup and ClusterRegistry; Quantities and CostViews; WorkloadPage.
4. (done) Proofs about each of them: every property of the passing runs but the
   liveness ones.
5. Left: the cost of memory and of storage, once it is decided what they should
   be; `object_controller` for chains of owners longer than it follows; and a
   composition of ObjectSync and CostViews, so that the costs rest on the rows as
   they are really marked.
