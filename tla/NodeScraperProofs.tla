--------------------------- MODULE NodeScraperProofs ---------------------------
(***************************************************************************)
(* Proofs about NodeScraper, for any pods, names and clock.                *)
(*                                                                         *)
(* The samples of a name that the scraper holds, and the kubelet's own,    *)
(* were taken in this order: prevTotal, metrics, sample.  Two of the same  *)
(* pod and boot have ascending counters; of two pods the earlier one is    *)
(* gone, since one pod at a time has a name.  No reading ends later than a *)
(* sample that may still begin another one.                                *)
(***************************************************************************)
EXTENDS NodeScraper, TLAPS

OneAtATime ==
    \A u, v \in Pods : Exists(u) /\ Exists(v) /\ NameOf[u] = NameOf[v] => u = v

\* A sample of name n was measured on a pod of that name.
Genuine(s, n) ==
    s # None =>
        /\ s \in Sample
        /\ NameOf[s.pod] = n
        /\ s.ts <= now
        /\ s.boot <= boots
        /\ s.boot = boots => s.total <= used[s.pod]
        /\ phase[s.pod] \in {"running", "stopped", "deleted"}

Before(s, t) ==
    s # None /\ t # None =>
        /\ s.ts <= t.ts
        /\ s.boot <= t.boot
        /\ s.pod = t.pod /\ s.boot = t.boot => s.total <= t.total
        /\ s.pod # t.pod => phase[s.pod] = "deleted"

AllGenuine ==
    \A n \in Names : Genuine(sample[n], n) /\ Genuine(metrics[n], n) /\ Genuine(prevTotal[n], n)

InOrder ==
    \A n \in Names :
        /\ Before(prevTotal[n], metrics[n])
        /\ Before(prevTotal[n], sample[n])
        /\ Before(metrics[n], sample[n])

\* Cores that were stored, are about to be, or may be repeated.
Known(c) ==
    \/ \E r \in cpuStored \union batch : r.cores = c
    \/ \E n \in Names : prevCores[n] # None /\ prevCores[n] = c

Over(c, s) == s # None => c.to <= s.ts

\* A negative reading was taken across two pods, or across a reboot.
Explained(c) ==
    c.consumed < 0 =>
        \/ c.before # c.after /\ phase[c.before] = "deleted"
        \/ c.reboots > 0

\* Their intervals are over.
KnownAreOver ==
    \A c \in Cores : Known(c) =>
        LET n == NameOf[c.after]
        IN  /\ c.to <= now
            /\ Over(c, sample[n]) /\ Over(c, metrics[n]) /\ Over(c, prevTotal[n])
            /\ Explained(c)

Apart(c, d) == c = d \/ c.to <= d.from \/ d.to <= c.from

KnownAreApart ==
    \A c, d \in Cores :
        Known(c) /\ Known(d) /\ NameOf[c.after] = NameOf[d.after] => Apart(c, d)

Repeatable ==
    \A n \in Names : prevCores[n] # None =>
        /\ NameOf[prevCores[n].after] = n
        /\ prevTotal[n] # None
        /\ prevCores[n].to = prevTotal[n].ts

Pending ==
    /\ batch # {} => step = "cpu"
    /\ \A r \in batch : \E n \in Names : metrics[n] # None /\ r.cores.to = metrics[n].ts

Inv ==
    /\ TypeOK
    /\ OneAtATime
    /\ AllGenuine
    /\ InOrder
    /\ KnownAreOver
    /\ KnownAreApart
    /\ Repeatable
    /\ Pending

--------------------------------------------------------------------------------
(* Steps of the pods, the kubelet and the informer.                           *)

\* What such a step may do to the samples and the lives of pods.
Environment ==
    /\ UNCHANGED <<scraperVars, storedVars>>
    /\ now <= now'
    /\ boots <= boots'
    /\ boots = boots' => \A u \in Pods : used[u] <= used'[u]
    /\ \A u \in Pods : phase[u] = "deleted" => phase'[u] = "deleted"
    /\ \A u \in Pods : phase[u] \in {"running", "stopped", "deleted"} =>
                          phase'[u] \in {"running", "stopped", "deleted"}
    /\ \A n \in Names :
          \/ sample'[n] = sample[n]
          \/ sample'[n] = None
          \/ \E u \in Pods :
                /\ phase[u] = "running" /\ phase' = phase /\ boots' = boots
                /\ NameOf[u] = n
                /\ sample'[n] = [pod |-> u, boot |-> boots, total |-> used[u], ts |-> now]

LEMMA EnvironmentKeeps ==
    ASSUME Inv, Environment, TypeOK', OneAtATime'
    PROVE  Inv'
<1> USE NodeScraperAssumption
<1>1. AllGenuine'
  <2> SUFFICES ASSUME NEW n \in Names
               PROVE  Genuine(sample[n], n)' /\ Genuine(metrics[n], n)' /\ Genuine(prevTotal[n], n)'
      BY DEF AllGenuine
  <2>1. Genuine(sample[n], n) /\ Genuine(metrics[n], n) /\ Genuine(prevTotal[n], n)
      BY DEF Inv, AllGenuine
  <2>2. metrics' = metrics /\ prevTotal' = prevTotal
      BY DEF Environment, scraperVars
  <2>3. Genuine(metrics[n], n)' /\ Genuine(prevTotal[n], n)'
      BY <2>1, <2>2 DEF Genuine, Environment, Inv, TypeOK, Sample
  <2>4. CASE sample'[n] = sample[n]
      BY <2>1, <2>3, <2>4 DEF Genuine, Environment, Inv, TypeOK, Sample
  <2>5. CASE sample'[n] = None
      BY <2>3, <2>5 DEF Genuine
  <2>6. ASSUME NEW u \in Pods, phase[u] = "running", boots' = boots, NameOf[u] = n,
               sample'[n] = [pod |-> u, boot |-> boots, total |-> used[u], ts |-> now]
        PROVE  Genuine(sample[n], n)'
      BY <2>6 DEF Genuine, Environment, Inv, TypeOK, Sample
  <2> QED
      BY <2>3, <2>4, <2>5, <2>6 DEF Environment
<1>2. InOrder'
  <2> SUFFICES ASSUME NEW n \in Names
               PROVE  /\ Before(prevTotal[n], metrics[n])'
                      /\ Before(prevTotal[n], sample[n])'
                      /\ Before(metrics[n], sample[n])'
      BY DEF InOrder
  <2>1. /\ Before(prevTotal[n], metrics[n])
        /\ Before(prevTotal[n], sample[n])
        /\ Before(metrics[n], sample[n])
        /\ Genuine(metrics[n], n) /\ Genuine(prevTotal[n], n)
      BY DEF Inv, InOrder, AllGenuine
  <2>2. metrics' = metrics /\ prevTotal' = prevTotal
      BY DEF Environment, scraperVars
  <2>3. Before(prevTotal[n], metrics[n])'
      BY <2>1, <2>2 DEF Before, Genuine, Environment, Sample
  <2>4. ASSUME NEW s, Genuine(s, n), Before(s, sample[n])
        PROVE  s # None /\ sample'[n] # None =>
                   /\ s.ts <= sample'[n].ts
                   /\ s.boot <= sample'[n].boot
                   /\ s.pod = sample'[n].pod /\ s.boot = sample'[n].boot =>
                         s.total <= sample'[n].total
                   /\ s.pod # sample'[n].pod => phase'[s.pod] = "deleted"
    <3> SUFFICES ASSUME s # None, sample'[n] # None
                 PROVE  /\ s.ts <= sample'[n].ts
                        /\ s.boot <= sample'[n].boot
                        /\ s.pod = sample'[n].pod /\ s.boot = sample'[n].boot =>
                              s.total <= sample'[n].total
                        /\ s.pod # sample'[n].pod => phase'[s.pod] = "deleted"
        OBVIOUS
    <3>1. CASE sample'[n] = sample[n]
        BY <2>4, <3>1 DEF Before, Genuine, Environment, Sample
    <3>2. ASSUME NEW u \in Pods, phase[u] = "running", phase' = phase, NameOf[u] = n,
                 sample'[n] = [pod |-> u, boot |-> boots, total |-> used[u], ts |-> now]
          PROVE  /\ s.ts <= sample'[n].ts
                 /\ s.boot <= sample'[n].boot
                 /\ s.pod = sample'[n].pod /\ s.boot = sample'[n].boot =>
                       s.total <= sample'[n].total
                 /\ s.pod # sample'[n].pod => phase'[s.pod] = "deleted"
      <4>1. /\ s.pod \in Pods /\ NameOf[s.pod] = n /\ s.ts <= now
            /\ s.boot <= boots /\ (s.boot = boots => s.total <= used[s.pod])
            /\ phase[s.pod] \in {"running", "stopped", "deleted"}
          BY <2>4 DEF Genuine, Sample
      <4>2. s.pod # u => ~Exists(s.pod)
          BY <3>2, <4>1 DEF Inv, OneAtATime, Exists
      <4> QED
          BY <3>2, <4>1, <4>2 DEF Exists
    <3>3. \/ sample'[n] = sample[n]
          \/ \E u \in Pods :
                /\ phase[u] = "running" /\ phase' = phase /\ NameOf[u] = n
                /\ sample'[n] = [pod |-> u, boot |-> boots, total |-> used[u], ts |-> now]
        BY <2>4 DEF Environment
    <3> QED
        BY <3>1, <3>2, <3>3
  <2> QED
      BY <2>1, <2>2, <2>3, <2>4 DEF Before
<1>3. \A c : Known(c)' <=> Known(c)
    BY DEF Known, Environment, scraperVars, storedVars
<1>4. KnownAreOver'
  <2> SUFFICES ASSUME NEW c \in Cores, Known(c)
               PROVE  /\ c.to <= now'
                      /\ Over(c, sample'[NameOf[c.after]])
                      /\ Over(c, metrics[NameOf[c.after]]) /\ Over(c, prevTotal[NameOf[c.after]])
                      /\ c.consumed < 0 =>
                            \/ c.before # c.after /\ phase'[c.before] = "deleted"
                            \/ c.reboots > 0
      BY <1>3 DEF KnownAreOver, Over, Explained, Environment, scraperVars
  <2> DEFINE n == NameOf[c.after]
  <2>1. /\ c.to <= now
        /\ Over(c, sample[n]) /\ Over(c, metrics[n]) /\ Over(c, prevTotal[n])
        /\ Explained(c)
      BY DEF Inv, KnownAreOver
  <2>2. c.to \in Nat /\ now \in Nat /\ now' \in Nat /\ n \in Names /\ c.before \in Pods
      BY DEF Cores, Inv, TypeOK
  <2> HIDE DEF n
  <2>3. Over(c, sample'[n])
    <3>1. CASE sample'[n] = sample[n]
        BY <2>1, <3>1
    <3>2. CASE sample'[n] = None
        BY <3>2 DEF Over
    <3>3. ASSUME NEW u \in Pods, sample'[n] = [pod |-> u, boot |-> boots, total |-> used[u], ts |-> now]
          PROVE  Over(c, sample'[n])
        BY <2>1, <3>3 DEF Over
    <3>4. \/ sample'[n] = sample[n]
          \/ sample'[n] = None
          \/ \E u \in Pods : sample'[n] = [pod |-> u, boot |-> boots, total |-> used[u], ts |-> now]
        BY <2>2 DEF Environment
    <3> QED
        BY <3>1, <3>2, <3>3, <3>4
  <2> QED
      BY <2>1, <2>2, <2>3 DEF Environment, Explained, n
<1>5. KnownAreApart'
    BY <1>3 DEF KnownAreApart, Apart, Inv
<1>6. Repeatable' /\ Pending'
    BY DEF Repeatable, Pending, Inv, Environment, scraperVars, storedVars
<1> QED
    BY <1>1, <1>2, <1>4, <1>5, <1>6 DEF Inv

LEMMA TickKeeps == ASSUME Inv, Tick PROVE Inv'
<1>1. TypeOK'
    BY DEF Inv, TypeOK, Tick, scraperVars, storedVars
<1>2. OneAtATime'
    BY DEF Inv, OneAtATime, Exists, Tick
<1>3. Environment
    BY DEF Environment, Inv, TypeOK, Tick
<1> QED
    BY <1>1, <1>2, <1>3, EnvironmentKeeps

\* Create, Run, Stop and Delete.
LEMMA LiveKeeps ==
    ASSUME Inv, NEW u \in Pods, Create(u) \/ Run(u) \/ Stop(u) \/ Delete(u)
    PROVE  Inv'
<1> USE NodeScraperAssumption
<1>1. TypeOK'
    BY DEF Inv, TypeOK, Create, Run, Stop, Delete, Live, Phases, scraperVars, storedVars
<1>2. OneAtATime'
  <2>1. CASE Create(u)
      BY <2>1 DEF Inv, TypeOK, OneAtATime, Exists, Create, Live
  <2>2. CASE Run(u) \/ Stop(u) \/ Delete(u)
      BY <2>2 DEF Inv, TypeOK, OneAtATime, Exists, Run, Stop, Delete, Live
  <2> QED
      BY <2>1, <2>2
<1>3. Environment
  <2>1. /\ UNCHANGED <<scraperVars, storedVars>>
        /\ now <= now'
        /\ boots' = boots /\ used' = used
        /\ \A v \in Pods : used[v] \in Nat
        /\ boots \in Nat
      BY DEF Inv, TypeOK, Create, Run, Stop, Delete, Live
  <2>2. /\ \A v \in Pods : phase[v] = "deleted" => phase'[v] = "deleted"
        /\ \A v \in Pods : phase[v] \in {"running", "stopped", "deleted"} =>
                              phase'[v] \in {"running", "stopped", "deleted"}
      BY DEF Inv, TypeOK, Create, Run, Stop, Delete, Live
  <2>3. \A n \in Names : sample'[n] = sample[n] \/ sample'[n] = None
      BY DEF Inv, TypeOK, Create, Run, Stop, Delete, Live
  <2> QED
      BY <2>1, <2>2, <2>3 DEF Environment
<1> QED
    BY <1>1, <1>2, <1>3, EnvironmentKeeps

LEMMA HousekeepKeeps == ASSUME Inv, NEW u \in Pods, Housekeep(u) PROVE Inv'
<1> USE NodeScraperAssumption
<1>1. TypeOK'
    BY DEF Inv, TypeOK, Housekeep, Sample, scraperVars, storedVars
<1>2. OneAtATime'
    BY DEF Inv, OneAtATime, Exists, Housekeep
<1>3. Environment
  <2>1. \A n \in Names :
            \/ sample'[n] = sample[n]
            \/ NameOf[u] = n /\ sample'[n] = [pod |-> u, boot |-> boots, total |-> used[u], ts |-> now]
      BY DEF Inv, TypeOK, Housekeep
  <2>2. phase[u] = "running" /\ UNCHANGED <<now, phase, used, boots, scraperVars, storedVars>>
      BY DEF Housekeep
  <2> QED
      BY <2>1, <2>2 DEF Environment, Inv, TypeOK
<1> QED
    BY <1>1, <1>2, <1>3, EnvironmentKeeps

LEMMA RebootKeeps == ASSUME Inv, Reboot PROVE Inv'
<1>1. TypeOK'
    BY DEF Inv, TypeOK, Reboot, Nothing, scraperVars, storedVars
<1>2. OneAtATime'
    BY DEF Inv, OneAtATime, Exists, Reboot
<1>3. Environment
    BY DEF Environment, Inv, TypeOK, Reboot, Nothing
<1> QED
    BY <1>1, <1>2, <1>3, EnvironmentKeeps

LEMMA FollowKeeps == ASSUME Inv, NEW n \in Names, Follow(n) PROVE Inv'
<1> USE NodeScraperAssumption
<1>1. TypeOK'
    BY DEF Inv, TypeOK, Follow, nodeVars, scraperVars, storedVars
<1>2. OneAtATime'
    BY DEF Inv, OneAtATime, Exists, Follow, nodeVars
<1>3. Environment
    BY DEF Environment, Inv, TypeOK, Follow, nodeVars
<1> QED
    BY <1>1, <1>2, <1>3, EnvironmentKeeps

--------------------------------------------------------------------------------
(* Steps of the scraper.                                                      *)

LEMMA FetchKeeps == ASSUME Inv, Fetch PROVE Inv'
<1>1. TypeOK'
    BY DEF Inv, TypeOK, Fetch, Steps, nodeVars
<1>2. OneAtATime'
    BY DEF Inv, OneAtATime, Exists, Fetch, nodeVars
<1>3. batch = {} /\ batch' = {}
    BY DEF Inv, Pending, Fetch
<1>4. AllGenuine'
    BY DEF Inv, AllGenuine, Genuine, Fetch, nodeVars
<1>5. InOrder'
  <2> SUFFICES ASSUME NEW n \in Names
               PROVE  /\ Before(prevTotal[n], metrics[n])'
                      /\ Before(prevTotal[n], sample[n])'
                      /\ Before(metrics[n], sample[n])'
      BY DEF InOrder
  <2>1. Before(prevTotal[n], sample[n]) /\ Genuine(sample[n], n)
      BY DEF Inv, InOrder, AllGenuine
  <2>2. sample' = sample /\ metrics' = sample /\ prevTotal' = prevTotal /\ phase' = phase
      BY DEF Fetch, nodeVars
  <2> QED
      BY <2>1, <2>2 DEF Before, Genuine, Sample
<1>6. \A c : Known(c)' <=> Known(c)
    BY DEF Known, Fetch
<1>7. KnownAreOver'
    BY <1>6 DEF Inv, KnownAreOver, Over, Explained, Fetch, nodeVars
<1>8. KnownAreApart'
    BY <1>6 DEF Inv, KnownAreApart, Apart
<1>9. Repeatable' /\ Pending'
    BY <1>3 DEF Inv, Repeatable, Pending, Fetch
<1> QED
    BY <1>1, <1>2, <1>4, <1>5, <1>7, <1>8, <1>9 DEF Inv

\* The steps after CpuData forget or store what is known already.
LEMMA StoreKeeps ==
    ASSUME Inv, CpuUpserted \/ CpuFailed \/ MemoryUpserted \/ MemoryFailed
    PROVE  Inv'
<1>1. UNCHANGED <<nodeVars, cache, metrics, prevTotal, prevCores>>
    BY DEF CpuUpserted, CpuFailed, MemoryUpserted, MemoryFailed, MemoryDone
<1>2. memoryStored' \in SUBSET MemoryReading
  <2>1. CASE MemoryUpserted
    <3> SUFFICES ASSUME NEW n \in Names, metrics[n] # None, cache[n] # None
                 PROVE  [pod |-> cache[n], ts |-> metrics[n].ts, measured |-> metrics[n].pod]
                            \in MemoryReading
        BY <2>1 DEF MemoryUpserted
    <3> QED
        BY DEF Inv, TypeOK, Sample, MemoryReading
  <2> QED
      BY <2>1 DEF Inv, TypeOK, CpuUpserted, CpuFailed, MemoryFailed, storedVars
<1>3. TypeOK'
    BY <1>1, <1>2 DEF Inv, TypeOK, nodeVars, Steps, storedVars,
       CpuUpserted, CpuFailed, MemoryUpserted, MemoryFailed, MemoryDone
<1>4. OneAtATime' /\ AllGenuine' /\ InOrder'
    BY <1>1 DEF Inv, OneAtATime, Exists, AllGenuine, Genuine, InOrder, Before, nodeVars
<1>5. ASSUME NEW c, Known(c)' PROVE Known(c)
    BY <1>1, <1>5 DEF Known, CpuUpserted, CpuFailed, MemoryUpserted, MemoryFailed,
       MemoryDone, storedVars
<1>6. KnownAreOver'
    BY <1>1, <1>5 DEF Inv, KnownAreOver, Over, Explained, nodeVars
<1>7. KnownAreApart'
    BY <1>5 DEF Inv, KnownAreApart, Apart
<1>8. Repeatable' /\ Pending'
    BY <1>1 DEF Inv, Repeatable, Pending, CpuUpserted, CpuFailed, MemoryUpserted,
       MemoryFailed, MemoryDone
<1> QED
    BY <1>3, <1>4, <1>6, <1>7, <1>8 DEF Inv

\* The kubelet has measured name n again since the last scrape.
Fresh(n) ==
    metrics[n] # None /\ prevTotal[n] # None /\ prevTotal[n].ts # metrics[n].ts

FreshCores(n) == Rate(prevTotal[n], metrics[n])

LEMMA FreshCoresFacts ==
    ASSUME Inv, NEW n \in Names, Fresh(n)
    PROVE  /\ FreshCores(n) \in Cores
           /\ NameOf[FreshCores(n).after] = n
           /\ FreshCores(n).from = prevTotal[n].ts
           /\ FreshCores(n).to = metrics[n].ts
           /\ FreshCores(n).to <= now
           /\ Over(FreshCores(n), sample[n])
           /\ Explained(FreshCores(n))
<1> DEFINE p == prevTotal[n]
           m == metrics[n]
           c == FreshCores(n)
<1>1. p \in Sample /\ m \in Sample /\ NameOf[m.pod] = n /\ m.ts <= now
    BY DEF Inv, AllGenuine, Genuine, Fresh
<1>2. /\ p.ts <= m.ts /\ p.boot <= m.boot
      /\ p.pod = m.pod /\ p.boot = m.boot => p.total <= m.total
      /\ p.pod # m.pod => phase[p.pod] = "deleted"
    BY DEF Inv, InOrder, Before, Fresh
<1>3. Over(c, sample[n])
    BY DEF Inv, InOrder, Before, Over, Fresh, FreshCores, Rate
<1>4. /\ p.pod \in Pods /\ p.total \in Nat /\ p.ts \in Nat
      /\ m.pod \in Pods /\ m.total \in Nat /\ m.ts \in Nat
      /\ p.boot \in Nat /\ m.boot \in Nat
    BY <1>1 DEF Sample
<1>5. (m.ts - p.ts) \div TicksPerSecond \in Nat
    BY <1>2, <1>4, NodeScraperAssumption
<1>6. c = [consumed |-> m.total - p.total, seconds |-> (m.ts - p.ts) \div TicksPerSecond,
           from |-> p.ts, to |-> m.ts, before |-> p.pod, after |-> m.pod,
           reboots |-> m.boot - p.boot]
    BY DEF FreshCores, Rate
<1>7. c \in Cores
  <2>1. m.boot - p.boot \in Nat /\ m.total - p.total \in Int
      BY <1>2, <1>4
  <2> QED
      BY <1>4, <1>5, <1>6, <2>1 DEF Cores
<1>8. Explained(c)
  <2>1. CASE p.pod # m.pod
      BY <1>2, <1>6, <2>1 DEF Explained
  <2>2. CASE p.boot # m.boot
    <3>1. m.boot - p.boot > 0
        BY <1>2, <1>4, <2>2
    <3> QED
        BY <1>6, <3>1 DEF Explained
  <2>3. CASE p.pod = m.pod /\ p.boot = m.boot
    <3>1. ~(m.total - p.total < 0)
        BY <1>2, <1>4, <2>3
    <3> QED
        BY <1>6, <3>1 DEF Explained
  <2> QED
      BY <2>1, <2>2, <2>3
<1> QED
    BY <1>1, <1>3, <1>6, <1>7, <1>8

LEMMA CpuDataKeeps == ASSUME Inv, CpuData PROVE Inv'
<1> USE NodeScraperAssumption
<1> DEFINE cores == [n \in Names |-> PodCores(n)]
<1>1. /\ step = "cpuData" /\ batch = {}
      /\ batch' = Found(cores) /\ prevTotal' = metrics /\ prevCores' = cores
      /\ step' = IF batch' = {} THEN "memory" ELSE "cpu"
      /\ UNCHANGED <<nodeVars, cache, metrics, storedVars>>
    BY DEF CpuData, Computed, Inv, Pending
<1>2. \A n \in Names : cores[n] # None =>
          /\ metrics[n] # None /\ prevTotal[n] # None
          /\ \/ Fresh(n) /\ cores[n] = FreshCores(n)
             \/ /\ prevTotal[n].ts = metrics[n].ts
                /\ prevCores[n] # None /\ cores[n] = prevCores[n] /\ Known(cores[n])
    BY DEF PodCores, Fresh, FreshCores, Known
<1>3. \A r \in batch' : \E n \in Names :
          cores[n] # None /\ cache[n] # None /\ r = [pod |-> cache[n], cores |-> cores[n]]
    BY <1>1 DEF Found
<1> HIDE DEF cores
<1>4. \A n \in Names : cores[n] # None =>
          /\ cores[n] \in Cores /\ NameOf[cores[n].after] = n
          /\ metrics[n] # None /\ cores[n].to = metrics[n].ts
  <2> SUFFICES ASSUME NEW n \in Names, cores[n] # None
               PROVE  /\ cores[n] \in Cores /\ NameOf[cores[n].after] = n
                      /\ metrics[n] # None /\ cores[n].to = metrics[n].ts
      OBVIOUS
  <2>1. CASE Fresh(n) /\ cores[n] = FreshCores(n)
      BY <1>2, <2>1, FreshCoresFacts
  <2>2. CASE prevTotal[n].ts = metrics[n].ts /\ prevCores[n] # None /\ cores[n] = prevCores[n]
      BY <1>2, <2>2 DEF Inv, TypeOK, Repeatable
  <2> QED
      BY <1>2, <2>1, <2>2
<1>5. TypeOK'
  <2>1. prevCores' \in [Names -> Cores \union {None}]
    <3>1. prevCores' = [n \in Names |-> PodCores(n)]
        BY <1>1 DEF cores
    <3>2. \A n \in Names : PodCores(n) \in Cores \union {None}
        BY <1>4 DEF cores
    <3> QED
        BY <3>1, <3>2
  <2>2. batch' \in SUBSET CpuReading
      BY <1>3, <1>4 DEF Inv, TypeOK, CpuReading
  <2> QED
      BY <1>1, <2>1, <2>2 DEF Inv, TypeOK, Steps, nodeVars, storedVars
<1>6. OneAtATime' /\ AllGenuine'
    BY <1>1 DEF Inv, OneAtATime, Exists, AllGenuine, Genuine, nodeVars
<1>7. InOrder'
  <2>1. \A n \in Names : Before(metrics[n], metrics[n])
      BY DEF Inv, AllGenuine, Genuine, Before, Sample
  <2> QED
      BY <1>1, <2>1 DEF Inv, InOrder, Before, nodeVars
\* What becomes known is known already, or is fresh.
<1>8. ASSUME NEW c, Known(c)'
      PROVE  Known(c) \/ \E n \in Names : Fresh(n) /\ c = FreshCores(n)
  <2>1. CASE \E r \in cpuStored : r.cores = c
      BY <2>1 DEF Known
  <2>2. CASE \E n \in Names : cores[n] # None /\ cores[n] = c
      BY <1>2, <2>2
  <2>3. (\E r \in batch' : r.cores = c) => \E n \in Names : cores[n] # None /\ cores[n] = c
      BY <1>3
  <2> QED
      BY <1>1, <1>8, <2>1, <2>2, <2>3 DEF Known, storedVars
<1>9. KnownAreOver'
  <2> SUFFICES ASSUME NEW c \in Cores, Known(c)'
               PROVE  /\ c.to <= now
                      /\ Over(c, sample[NameOf[c.after]])
                      /\ Over(c, metrics[NameOf[c.after]])
                      /\ Explained(c)
      BY <1>1 DEF KnownAreOver, Over, Explained, nodeVars
  <2>1. CASE Known(c)
      BY <2>1 DEF Inv, KnownAreOver
  <2>2. ASSUME NEW n \in Names, Fresh(n), c = FreshCores(n)
        PROVE  /\ c.to <= now
               /\ Over(c, sample[NameOf[c.after]])
               /\ Over(c, metrics[NameOf[c.after]])
               /\ Explained(c)
      BY <2>2, FreshCoresFacts DEF Over, Cores
  <2> QED
      BY <1>8, <2>1, <2>2
<1>10. KnownAreApart'
  <2> SUFFICES ASSUME NEW c \in Cores, NEW d \in Cores, Known(c)', Known(d)',
                      NameOf[c.after] = NameOf[d.after]
               PROVE  Apart(c, d)
      BY DEF KnownAreApart, Apart
  <2>1. CASE Known(c) /\ Known(d)
      BY <2>1 DEF Inv, KnownAreApart
  <2>2. ASSUME NEW a \in Cores, NEW b \in Cores, Known(a), NameOf[a.after] = NameOf[b.after],
               NEW n \in Names, Fresh(n), b = FreshCores(n)
        PROVE  a.to <= b.from
    <3>1. NameOf[b.after] = n /\ b.from = prevTotal[n].ts
        BY <2>2, FreshCoresFacts
    <3>2. Over(a, prevTotal[n])
        BY <2>2, <3>1 DEF Inv, KnownAreOver
    <3> QED
        BY <2>2, <3>1, <3>2 DEF Over, Fresh
  <2>3. ASSUME NEW n \in Names, Fresh(n), c = FreshCores(n),
               NEW k \in Names, Fresh(k), d = FreshCores(k)
        PROVE  c = d
      BY <2>3, FreshCoresFacts
  <2> QED
      BY <1>8, <2>1, <2>2, <2>3 DEF Apart
<1>11. Repeatable'
    BY <1>1, <1>4 DEF Repeatable
<1>12. Pending'
    BY <1>1, <1>3, <1>4 DEF Pending
<1> QED
    BY <1>5, <1>6, <1>7, <1>9, <1>10, <1>11, <1>12 DEF Inv

--------------------------------------------------------------------------------
LEMMA InitKeeps == ASSUME Init PROVE Inv
<1>1. TypeOK
    BY NodeScraperAssumption DEF Init, TypeOK, Phases, Steps, Nothing
<1>2. OneAtATime
    BY DEF Init, OneAtATime, Exists
<1>3. \A n \in Names : /\ sample[n] = None /\ metrics[n] = None
                       /\ prevTotal[n] = None /\ prevCores[n] = None
    BY DEF Init, Nothing
<1>4. \A c : ~Known(c)
    BY <1>3 DEF Init, Known
<1> QED
    BY <1>1, <1>2, <1>3, <1>4 DEF Inv, AllGenuine, Genuine, InOrder, Before, KnownAreOver,
       KnownAreApart, Repeatable, Pending, Init

LEMMA UnchangedKeeps == ASSUME Inv, UNCHANGED vars PROVE Inv'
    BY DEF Inv, vars, TypeOK, OneAtATime, Exists, AllGenuine, Genuine, InOrder, Before,
       KnownAreOver, Known, Over, Explained, KnownAreApart, Apart, Repeatable, Pending

LEMMA Inductive == Spec => []Inv
<1>1. Init => Inv
    BY InitKeeps
<1>2. Inv /\ [Next]_vars => Inv'
  <2> SUFFICES ASSUME Inv, [Next]_vars PROVE Inv'
      OBVIOUS
  <2>1. CASE Tick
      BY <2>1, TickKeeps
  <2>2. ASSUME NEW u \in Pods, Create(u) \/ Run(u) \/ Stop(u) \/ Delete(u)
        PROVE  Inv'
      BY <2>2, LiveKeeps
  <2>3. ASSUME NEW u \in Pods, Housekeep(u) PROVE Inv'
      BY <2>3, HousekeepKeeps
  <2>4. ASSUME NEW n \in Names, Follow(n) PROVE Inv'
      BY <2>4, FollowKeeps
  <2>7. CASE Reboot
      BY <2>7, RebootKeeps
  <2>5. CASE Scrape
      BY <2>5, FetchKeeps, CpuDataKeeps, StoreKeeps DEF Scrape
  <2>6. CASE UNCHANGED vars
      BY <2>6, UnchangedKeeps
  <2> QED
      BY <2>1, <2>2, <2>3, <2>4, <2>5, <2>6, <2>7 DEF Next
<1> QED
    BY <1>1, <1>2, PTL DEF Spec

\* Every variable keeps its type: the seconds between two samples of a name are
\* never negative, however the scrapes and the kubelet interleave.
THEOREM Typing == Spec => []TypeOK
<1>1. Inv => TypeOK
    BY DEF Inv
<1> QED
    BY <1>1, Inductive, PTL

\* Cores that cpuData uses again belong to the sample at hand.
THEOREM Repetition == Spec => []RepeatedCoresAreCurrent
<1>1. Inv => RepeatedCoresAreCurrent
    BY DEF Inv, Repeatable, Pending, RepeatedCoresAreCurrent
<1> QED
    BY <1>1, Inductive, PTL

\* Two stored readings that end on samples of one name are the same or cover
\* disjoint intervals: no CPU time is measured by two different readings.
THEOREM Disjointness == Spec => []IntervalsAreDisjoint
<1>1. Inv => IntervalsAreDisjoint
  <2> SUFFICES ASSUME Inv, NEW r \in cpuStored, NEW s \in cpuStored,
                      NameOf[r.cores.after] = NameOf[s.cores.after]
               PROVE  Apart(r.cores, s.cores)
      BY DEF IntervalsAreDisjoint, Apart
  <2>1. r.cores \in Cores /\ s.cores \in Cores
      BY DEF Inv, TypeOK, CpuReading
  <2>2. Known(r.cores) /\ Known(s.cores)
      BY DEF Known
  <2> QED
      BY <2>1, <2>2 DEF Inv, KnownAreApart
<1> QED
    BY <1>1, Inductive, PTL

\* A stored reading is negative only if its name passed to another pod, or the
\* node rebooted, between the two samples it was computed from: the scraper's own
\* failures, repetitions and interleavings never make one.
THEOREM Negatives == Spec => []NegativeNeedsNewCounter
<1>1. Inv => NegativeNeedsNewCounter
  <2> SUFFICES ASSUME Inv, NEW r \in cpuStored
               PROVE  Explained(r.cores)
      BY DEF NegativeNeedsNewCounter, Explained
  <2>1. r.cores \in Cores
      BY DEF Inv, TypeOK, CpuReading
  <2>2. Known(r.cores)
      BY DEF Known
  <2> QED
      BY <2>1, <2>2 DEF Inv, KnownAreOver
<1> QED
    BY <1>1, Inductive, PTL
================================================================================
