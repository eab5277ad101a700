------------------------------ MODULE NodeScraper ------------------------------
(***************************************************************************)
(* How the usage of the pods of one node is measured.  The kubelet samples *)
(* a cumulative CPU counter and the memory of every running pod; a scrape  *)
(* fetches the latest samples, turns two successive CPU samples of a name  *)
(* into a number of cores, looks up the pod of that name in the informer's *)
(* cache and stores the readings under its uid.  Pods come and go, and a   *)
(* name may pass to another pod (a StatefulSet's), at any moment.  The     *)
(* node may reboot, and its pods' counters start at 0 again.               *)
(*                                                                         *)
(* Samples and readings carry the pod they were measured on and the boot,  *)
(* which the program does not know: only properties read these fields.     *)
(***************************************************************************)
EXTENDS Integers

CONSTANTS
    Pods,               \* uids of the pods of the node, one after another
    Names,              \* namespaced names of pods: k8s.PodKey
    NameOf,             \* [Pods -> Names]
    None,               \* no pod, no sample, no reading
    TicksPerSecond,     \* the clock's ticks in a second
    MaxTime,            \* bound: ticks of the clock
    MaxBoots            \* bound: reboots of the node

ASSUME NodeScraperAssumption ==
    /\ NameOf \in [Pods -> Names]
    /\ None \notin Pods
    /\ TicksPerSecond \in Nat \ {0}
    /\ MaxTime \in Nat
    /\ MaxBoots \in Nat

VARIABLES
    now,            \* the clock
    phase,          \* phase[u]: where pod u is in its life
    used,           \* used[u]: u's CPU counter, in ticks of one core
    boots,          \* reboots of the node so far
    sample,         \* sample[n]: the kubelet's latest sample of name n
    cache,          \* cache[n]: the pod the informer's cache has under name n
    step,           \* what the scraper is about to do
    metrics,        \* the samples of the scrape under way
    prevTotal,      \* s.prevCPUSecondsTotal
    prevCores,      \* s.prevCores
    batch,          \* cpuData: the readings about to be stored
    cpuStored,      \* CPU readings stored so far
    memoryStored    \* memory readings the last scrape stored

vars == <<now, phase, used, boots, sample, cache, step, metrics, prevTotal,
          prevCores, batch, cpuStored, memoryStored>>
nodeVars == <<now, phase, used, boots, sample>>
scraperVars == <<step, metrics, prevTotal, prevCores, batch>>
storedVars == <<cpuStored, memoryStored>>

Phases == {"new", "created", "running", "stopped", "deleted"}
Steps == {"idle", "cpuData", "cpu", "memory"}

Sample == [pod : Pods, boot : Nat, total : Nat, ts : Nat]

\* cores = consumed / seconds; "to" is the timestamp of the value, "reboots" the
\* reboots between the two samples.
Cores == [consumed : Int, seconds : Nat, from : Nat, to : Nat,
          before : Pods, after : Pods, reboots : Nat]

CpuReading == [pod : Pods, cores : Cores]
MemoryReading == [pod : Pods, ts : Nat, measured : Pods]

TypeOK ==
    /\ now \in Nat
    /\ phase \in [Pods -> Phases]
    /\ used \in [Pods -> Nat]
    /\ boots \in Nat
    /\ sample \in [Names -> Sample \union {None}]
    /\ cache \in [Names -> Pods \union {None}]
    /\ step \in Steps
    /\ metrics \in [Names -> Sample \union {None}]
    /\ prevTotal \in [Names -> Sample \union {None}]
    /\ prevCores \in [Names -> Cores \union {None}]
    /\ batch \in SUBSET CpuReading
    /\ cpuStored \in SUBSET CpuReading
    /\ memoryStored \in SUBSET MemoryReading

Nothing == [n \in Names |-> None]

Init ==
    /\ now = 0
    /\ phase = [u \in Pods |-> "new"]
    /\ used = [u \in Pods |-> 0]
    /\ boots = 0
    /\ sample = Nothing
    /\ cache = Nothing
    /\ step = "idle"
    /\ metrics = Nothing
    /\ prevTotal = Nothing
    /\ prevCores = Nothing
    /\ batch = {}
    /\ cpuStored = {}
    /\ memoryStored = {}

--------------------------------------------------------------------------------
(* Pods, the kubelet and the informer of pods.                                *)

\* Each running pod has one core, and uses it for the whole tick or not at all.
Tick ==
    /\ now < MaxTime
    /\ now' = now + 1
    /\ \E busy \in SUBSET {u \in Pods : phase[u] = "running"} :
          used' = [u \in Pods |-> IF u \in busy THEN used[u] + 1 ELSE used[u]]
    /\ UNCHANGED <<phase, boots, sample, cache, scraperVars, storedVars>>

Exists(u) == phase[u] \in {"created", "running", "stopped"}

Live(u, from, to) ==
    /\ phase[u] = from
    /\ phase' = [phase EXCEPT ![u] = to]
    /\ UNCHANGED <<now, used, boots, cache, scraperVars, storedVars>>

\* One pod at a time has a name.
Create(u) ==
    /\ \A v \in Pods : Exists(v) => NameOf[v] # NameOf[u]
    /\ Live(u, "new", "created")
    /\ UNCHANGED sample

Run(u) == Live(u, "created", "running") /\ UNCHANGED sample

\* The kubelet forgets a pod that ended.
Stop(u) ==
    /\ Live(u, "running", "stopped")
    /\ sample' = [sample EXCEPT ![NameOf[u]] = None]

Delete(u) == Live(u, "stopped", "deleted") /\ UNCHANGED sample

\* The kubelet measures a pod, at moments of its own.
Housekeep(u) ==
    /\ phase[u] = "running"
    /\ sample' = [sample EXCEPT ![NameOf[u]] = [pod |-> u, boot |-> boots, total |-> used[u], ts |-> now]]
    /\ UNCHANGED <<now, phase, used, boots, cache, scraperVars, storedVars>>

\* The node reboots: its pods keep their uids, their counters start at 0, and the
\* kubelet has measured nothing yet.  Scrapes that fail meanwhile change nothing.
Reboot ==
    /\ boots < MaxBoots
    /\ boots' = boots + 1
    /\ used' = [u \in Pods |-> 0]
    /\ sample' = Nothing
    /\ UNCHANGED <<now, phase, cache, scraperVars, storedVars>>

\* The informer catches up with the pod that has the name now, if any.
Follow(n) ==
    /\ \E p \in Pods \union {None} :
          /\ p = None => \A u \in Pods : Exists(u) => NameOf[u] # n
          /\ p # None => Exists(p) /\ NameOf[p] = n
          /\ cache' = [cache EXCEPT ![n] = p]
    /\ UNCHANGED <<nodeVars, scraperVars, storedVars>>

--------------------------------------------------------------------------------
(* NodeScraper.Scrape.                                                        *)

\* NodeMetrics; when it fails, Scrape returns and nothing has changed.
Fetch ==
    /\ step = "idle"
    /\ metrics' = sample
    /\ step' = "cpuData"
    /\ memoryStored' = {}
    /\ UNCHANGED <<nodeVars, cache, prevTotal, prevCores, batch, cpuStored>>

\* Mutated form of Rate: the counters are subtracted the wrong way round.
Rate_SwappedTotals(prev, cur) ==
    [consumed |-> prev.total - cur.total,
     seconds  |-> (cur.ts - prev.ts) \div TicksPerSecond,
     from |-> prev.ts, to |-> cur.ts, before |-> prev.pod, after |-> cur.pod,
     reboots |-> cur.boot - prev.boot]

\* Mutated form of Rate: the timestamps are subtracted the wrong way round.
Rate_SwappedTimes(prev, cur) ==
    [consumed |-> cur.total - prev.total,
     seconds  |-> (prev.ts - cur.ts) \div TicksPerSecond,
     from |-> prev.ts, to |-> cur.ts, before |-> prev.pod, after |-> cur.pod,
     reboots |-> cur.boot - prev.boot]

\* The difference of the counters over the difference of the timestamps, the
\* latter an integer number of seconds.
Rate(prev, cur) ==
    [consumed |-> cur.total - prev.total,
     seconds  |-> (cur.ts - prev.ts) \div TicksPerSecond,
     from |-> prev.ts, to |-> cur.ts, before |-> prev.pod, after |-> cur.pod,
     reboots |-> cur.boot - prev.boot]

\* podCores: nothing for a name without a previous sample; the previous cores,
\* if any, when the kubelet has not measured since.
PodCores(n) ==
    IF metrics[n] = None \/ prevTotal[n] = None THEN None
    ELSE IF prevTotal[n].ts # metrics[n].ts THEN Rate(prevTotal[n], metrics[n])
    ELSE prevCores[n]

\* The cores of the names that are in the cache, under the uid found there.
Found(cores) ==
    {[pod |-> cache[n], cores |-> cores[n]] :
        n \in {m \in Names : cores[m] # None /\ cache[m] # None}}

\* What remains of CpuData when the two previous maps are left to the caller.
Computed(cores) ==
    /\ step = "cpuData"
    /\ batch' = Found(cores)
    /\ step' = IF Found(cores) = {} THEN "memory" ELSE "cpu"
    /\ UNCHANGED <<nodeVars, cache, metrics, storedVars>>

\* Mutated form of CpuData: the previous cores of names that are missing, or
\* new, are kept.
CpuData_KeepsCores ==
    LET cores == [n \in Names |-> PodCores(n)]
    IN  /\ Computed(cores)
        /\ prevTotal' = metrics
        /\ prevCores' = [n \in Names |-> IF cores[n] = None THEN prevCores[n] ELSE cores[n]]

\* Mutated form of CpuData: a previous sample is set once and then kept.
CpuData_KeepsTotal ==
    LET cores == [n \in Names |-> PodCores(n)]
    IN  /\ Computed(cores)
        /\ prevTotal' = [n \in Names |->
                            IF metrics[n] # None /\ prevTotal[n] # None THEN prevTotal[n]
                            ELSE metrics[n]]
        /\ prevCores' = cores

\* cpuData, under the mutex: the previous maps are replaced as a whole, whether
\* or not the readings will be stored.
CpuData ==
    LET cores == [n \in Names |-> PodCores(n)]
    IN  /\ Computed(cores)
        /\ prevTotal' = metrics
        /\ prevCores' = cores

\* UpsertPodUsedCPU, one transaction.
CpuUpserted ==
    /\ step = "cpu"
    /\ cpuStored' = cpuStored \union batch
    /\ batch' = {}
    /\ step' = "memory"
    /\ UNCHANGED <<nodeVars, cache, metrics, prevTotal, prevCores, memoryStored>>

\* UpsertPodUsedCPU fails: Scrape returns, the memory is not stored either.
CpuFailed ==
    /\ step = "cpu"
    /\ batch' = {}
    /\ step' = "idle"
    /\ UNCHANGED <<nodeVars, cache, metrics, prevTotal, prevCores, storedVars>>

\* memoryData, which looks the pods up anew, and UpsertPodUsedMemory.
MemoryDone ==
    /\ step = "memory"
    /\ step' = "idle"
    /\ UNCHANGED <<nodeVars, cache, metrics, prevTotal, prevCores, batch, cpuStored>>

MemoryUpserted ==
    /\ MemoryDone
    /\ memoryStored' =
          {[pod |-> cache[n], ts |-> metrics[n].ts, measured |-> metrics[n].pod] :
              n \in {m \in Names : metrics[m] # None /\ cache[m] # None}}

MemoryFailed == MemoryDone /\ UNCHANGED memoryStored

Scrape ==
    \/ Fetch \/ CpuData \/ CpuUpserted \/ CpuFailed
    \/ MemoryUpserted \/ MemoryFailed

Next ==
    \/ Tick \/ Reboot
    \/ \E u \in Pods : Create(u) \/ Run(u) \/ Stop(u) \/ Delete(u) \/ Housekeep(u)
    \/ \E n \in Names : Follow(n)
    \/ Scrape

Spec == Init /\ [][Next]_vars

--------------------------------------------------------------------------------
(* Properties.                                                                *)

\* Cores that are used again because the kubelet has not measured since are
\* those of the sample at hand: a name that was missing for a scrape never
\* brings back what it used before (cpuData replaces both maps together).
RepeatedCoresAreCurrent ==
    /\ \A n \in Names : prevCores[n] # None =>
          /\ prevTotal[n] # None
          /\ prevCores[n].to = prevTotal[n].ts
    /\ \A r \in batch : \E n \in Names :
          metrics[n] # None /\ r.cores.to = metrics[n].ts

\* The intervals of two readings that end on samples of one name are the same or
\* do not overlap, whatever scrapes failed, found nothing in the cache or were not
\* stored: two different readings never measure the same CPU time.  (One reading
\* may be stored again by every scrape until the kubelet measures anew.)
IntervalsAreDisjoint ==
    \A r, s \in cpuStored :
        NameOf[r.cores.after] = NameOf[s.cores.after] =>
            \/ r.cores = s.cores
            \/ r.cores.to <= s.cores.from
            \/ s.cores.to <= r.cores.from

\* A negative reading has one of two causes: between the two samples its name
\* passed to another pod, or the node rebooted while scrapes failed, which leaves
\* the previous counters in place.  It is never due to failed or repeated scrapes
\* alone, nor to the order in which scrapes, samples and the informer interleave.
NegativeNeedsNewCounter ==
    \A r \in cpuStored :
        r.cores.consumed < 0 =>
            \/ r.cores.before # r.cores.after /\ phase[r.cores.before] = "deleted"
            \/ r.cores.reboots > 0

\* The comment in cpuData: (current - previous) / (current timestamp - previous
\* timestamp).  It does not hold: the time is cut to whole seconds, a reading may
\* exceed what the pod could use, and within one second the divisor is zero.
CoresAreRates ==
    \A r \in cpuStored : r.cores.to - r.cores.from = r.cores.seconds * TicksPerSecond
================================================================================
