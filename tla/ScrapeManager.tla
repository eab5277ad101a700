----------------------------- MODULE ScrapeManager -----------------------------
(***************************************************************************)
(* scraper.Manager: a map of targets, each scraped by a goroutine of its   *)
(* own.  The map is guarded by a mutex; a goroutine is told to stop        *)
(* through its context only, which it looks at while it waits for its      *)
(* start or for the next tick, and never while it scrapes.  The manager's  *)
(* own context is never cancelled: Execute hands StartScraper the context  *)
(* it was given, not the one it cancels, and the process ends with all its *)
(* goroutines.                                                             *)
(***************************************************************************)
EXTENDS Naturals

CONSTANTS
    Targets,        \* ids of targets
    Scrapers,       \* bound: goroutines that exist at the same time
    NoScraper,      \* a target that is not in the map
    Delayed         \* TRUE unless disableScrapingDelay

ASSUME ScrapeManagerAssumption ==
    /\ NoScraper \notin Scrapers
    /\ Delayed \in BOOLEAN

VARIABLES
    targets,    \* m.targets: the goroutine whose cancel function the map holds
    job,        \* job[g]: the target goroutine g scrapes
    phase,      \* phase[g]: what goroutine g is doing, "ended" if it has returned
    cancelled,  \* goroutines whose own context was cancelled by RemoveTarget
    ticks       \* goroutines with a tick in the one-place channel ticker.C

managerVars == <<targets, job, phase, cancelled, ticks>>

Phases == {"delay", "scrape", "wait", "ended"}

TypeOK ==
    /\ targets \in [Targets -> Scrapers \union {NoScraper}]
    /\ job \in [Scrapers -> Targets]
    /\ phase \in [Scrapers -> Phases]
    /\ cancelled \in SUBSET Scrapers
    /\ ticks \in SUBSET Scrapers

Init ==
    /\ targets = [id \in Targets |-> NoScraper]
    /\ job \in [Scrapers -> Targets]
    /\ phase = [g \in Scrapers |-> "ended"]
    /\ cancelled = {}
    /\ ticks = {}

\* scrapeCtx.Done() is closed.
Done(g) == g \in cancelled

--------------------------------------------------------------------------------
(* The callers of the manager.                                                *)

\* A goroutine that has returned and to which the map does not refer.
Free(g) == phase[g] = "ended" /\ \A id \in Targets : targets[id] # g

\* The goroutine begins with randomDelay, or at once with the first scrape.
Start(id, g) ==
    /\ Free(g)
    /\ targets' = [targets EXCEPT ![id] = g]
    /\ job' = [job EXCEPT ![g] = id]
    /\ phase' = [phase EXCEPT ![g] = IF Delayed THEN "delay" ELSE "scrape"]
    /\ cancelled' = cancelled \ {g}
    /\ UNCHANGED ticks

\* Mutated form of AddTarget: the target is not looked up first.
AddTarget_Overwrites(id) == \E g \in Scrapers : Start(id, g)

AddTarget(id) ==
    \/ targets[id] # NoScraper /\ UNCHANGED managerVars
    \/ targets[id] = NoScraper /\ \E g \in Scrapers : Start(id, g)

\* Mutated form of RemoveTarget: the target is cancelled and stays in the map.
RemoveTarget_KeepsEntry(id) ==
    \/ targets[id] = NoScraper /\ UNCHANGED managerVars
    \/ /\ targets[id] # NoScraper
       /\ cancelled' = cancelled \union {targets[id]}
       /\ UNCHANGED <<targets, job, phase, ticks>>

RemoveTarget(id) ==
    \/ targets[id] = NoScraper /\ UNCHANGED managerVars
    \/ /\ targets[id] # NoScraper
       /\ cancelled' = cancelled \union {targets[id]}
       /\ targets' = [targets EXCEPT ![id] = NoScraper]
       /\ UNCHANGED <<job, phase, ticks>>

--------------------------------------------------------------------------------
(* The goroutine of a target.                                                 *)

GoTo(g, from, to) ==
    /\ phase[g] = from
    /\ phase' = [phase EXCEPT ![g] = to]
    /\ UNCHANGED <<targets, job, cancelled>>

\* randomDelay returns because the time is over or because the context is done;
\* either way the ticker is created and the first scrape begins.
DelayOver(g) == GoTo(g, "delay", "scrape") /\ UNCHANGED ticks
DelayCancelled(g) == Done(g) /\ GoTo(g, "delay", "scrape") /\ UNCHANGED ticks

\* Mutated form of ScrapeReturns: the goroutine returns with the error.
ScrapeReturns_GivesUp(g) ==
    \/ GoTo(g, "scrape", "wait") /\ UNCHANGED ticks
    \/ GoTo(g, "scrape", "ended") /\ ticks' = ticks \ {g}

\* scrapeFunc returns; an error is logged and changes nothing.
ScrapeReturns(g) == GoTo(g, "scrape", "wait") /\ UNCHANGED ticks

\* The ticker fires; a tick that finds the channel full is dropped.
Tick(g) ==
    /\ phase[g] \in {"scrape", "wait"}
    /\ g \notin ticks
    /\ ticks' = ticks \union {g}
    /\ UNCHANGED <<targets, job, phase, cancelled>>

\* select: when a tick is there and the context is done, either may be chosen.
SelectTick(g) ==
    /\ g \in ticks
    /\ GoTo(g, "wait", "scrape")
    /\ ticks' = ticks \ {g}

\* Mutated form of SelectDone: the goroutine waits for m.ctx.Done(), a
\* context that nobody cancels.
SelectDone_ParentContext(g) ==
    /\ FALSE
    /\ GoTo(g, "wait", "ended")
    /\ ticks' = ticks \ {g}

SelectDone(g) ==
    /\ Done(g)
    /\ GoTo(g, "wait", "ended")
    /\ ticks' = ticks \ {g}

Goroutine(g) ==
    \/ DelayOver(g) \/ DelayCancelled(g)
    \/ ScrapeReturns(g) \/ Tick(g) \/ SelectTick(g) \/ SelectDone(g)

Caller == \E id \in Targets : AddTarget(id) \/ RemoveTarget(id)

Next == Caller \/ \E g \in Scrapers : Goroutine(g)

Spec == Init /\ [][Next]_managerVars

\* Timers fire, a scrape returns in the end (its requests end with the context
\* or with an error), a goroutine that can run does, and a select that is
\* executed again and again with a ready case chooses that case in the end.
\* Nothing is assumed of the callers.
GoroutineFairness(g) ==
    /\ WF_managerVars(DelayOver(g))
    /\ WF_managerVars(ScrapeReturns(g))
    /\ WF_managerVars(Tick(g))
    /\ WF_managerVars(SelectTick(g) \/ SelectDone(g))
    /\ SF_managerVars(SelectDone(g))

FairSpec == Spec /\ \A g \in Scrapers : GoroutineFairness(g)

--------------------------------------------------------------------------------
(* Properties.                                                                *)

Running(g) == phase[g] # "ended"

\* No goroutine is leaked: one that still runs and was not told to stop is the
\* one the map holds for its target, so RemoveTarget reaches it; in particular
\* no target has two of them, however calls of AddTarget and RemoveTarget and
\* the goroutines interleave.
NoLeak ==
    \A g \in Scrapers : Running(g) /\ g \notin cancelled => targets[job[g]] = g

\* A target in the map is being scraped: its goroutine runs, for this target,
\* and was not told to stop.
TargetsAreServed ==
    \A id \in Targets :
        targets[id] # NoScraper =>
            LET g == targets[id] IN Running(g) /\ job[g] = id /\ g \notin cancelled

\* A goroutine that was told to stop does.
DoneScrapersEnd ==
    \A g \in Scrapers : Running(g) /\ Done(g) ~> ~Running(g)

\* A target that stays in the map is scraped for ever.
KeptTargetsAreScraped ==
    \A id \in Targets :
        []<>(targets[id] = NoScraper \/ phase[targets[id]] = "scrape")

\* What TestManager_RemoveTarget asserts: no scrape begins after RemoveTarget.
\* It does not hold: randomDelay returns early when the context is cancelled and
\* the first scrape follows, and select may choose a tick over the context.
NoScrapeAfterRemove ==
    [][\A g \in cancelled : phase'[g] = "scrape" => phase[g] = "scrape"]_managerVars
================================================================================
