------------------------------ MODULE NodeTargets ------------------------------
(***************************************************************************)
(* How nodes become scrape targets: the informer of nodes notifies         *)
(* NodeEventHandler, which adds and removes the targets of a Manager whose *)
(* goroutines run meanwhile.  A target is named after its node, so a node  *)
(* that is deleted and created anew under its name has the same target.    *)
(***************************************************************************)
EXTENDS ScrapeManager, Sequences

CONSTANTS
    MaxBirths,  \* bound: how often a node of one name is created
    MaxEvents   \* bound: notifications waiting for the handler

ASSUME NodeTargetsAssumption == MaxBirths \in Nat /\ MaxEvents \in Nat

Nodes == Targets

VARIABLES
    births,     \* births[n]: how often a node named n was created
    alive,      \* nodes that exist
    known,      \* known[n]: births of n the informer observed
    cached,     \* nodes in the informer's cache
    events,     \* notifications waiting for NodeEventHandler
    unheard     \* nodes whose last removal reached the handler as a tombstone

nodeVars == <<births, alive, known, cached, events, unheard>>
clusterVars == <<births, alive>>
informerVars == <<known, cached, events>>
vars == <<managerVars, nodeVars>>

NodeEvent == [type : {"add", "update", "delete", "tombstone"}, node : Nodes]

NodeTypeOK ==
    /\ TypeOK
    /\ births \in [Nodes -> Nat]
    /\ alive \in SUBSET Nodes
    /\ known \in [Nodes -> Nat]
    /\ cached \in SUBSET Nodes
    /\ events \in Seq(NodeEvent)
    /\ unheard \in SUBSET Nodes

NodeInit ==
    /\ Init
    /\ births = [n \in Nodes |-> 0]
    /\ alive = {}
    /\ known = [n \in Nodes |-> 0]
    /\ cached = {}
    /\ events = <<>>
    /\ unheard = {}

--------------------------------------------------------------------------------
(* The cluster and the informer (client-go).                                  *)

Join(n) ==
    /\ n \notin alive
    /\ births[n] < MaxBirths
    /\ births' = [births EXCEPT ![n] = @ + 1]
    /\ alive' = alive \union {n}
    /\ UNCHANGED <<managerVars, informerVars, unheard>>

Leave(n) ==
    /\ n \in alive
    /\ alive' = alive \ {n}
    /\ UNCHANGED <<managerVars, births, informerVars, unheard>>

Notify(type, n) ==
    /\ Len(events) < MaxEvents
    /\ events' = Append(events, [type |-> type, node |-> n])

\* The watch replays every creation and every deletion, in their order.
WatchAdd(n) ==
    /\ n \notin cached
    /\ known[n] < births[n]
    /\ known' = [known EXCEPT ![n] = @ + 1]
    /\ cached' = cached \union {n}
    /\ Notify("add", n)
    /\ UNCHANGED <<managerVars, clusterVars, unheard>>

WatchDelete(n) ==
    /\ n \in cached
    /\ known[n] < births[n] \/ n \notin alive
    /\ cached' = cached \ {n}
    /\ Notify("delete", n)
    /\ UNCHANGED <<managerVars, clusterVars, known, unheard>>

\* A list shows what exists now: a node that was replaced under its name is an
\* update, one that vanished a tombstone.  Resyncs are updates as well.
ListAlive(n) ==
    /\ n \in alive
    /\ known' = [known EXCEPT ![n] = births[n]]
    /\ cached' = cached \union {n}
    /\ Notify(IF n \in cached THEN "update" ELSE "add", n)
    /\ UNCHANGED <<managerVars, clusterVars, unheard>>

ListGone(n) ==
    /\ n \notin alive
    /\ n \in cached
    /\ known' = [known EXCEPT ![n] = births[n]]
    /\ cached' = cached \ {n}
    /\ Notify("tombstone", n)
    /\ UNCHANGED <<managerVars, clusterVars, unheard>>

--------------------------------------------------------------------------------
(* NodeEventHandler: one notification at a time.                              *)

Take(type, n) ==
    /\ events # <<>>
    /\ Head(events) = [type |-> type, node |-> n]
    /\ events' = Tail(events)
    /\ UNCHANGED <<clusterVars, known, cached>>

OnAdd(n) ==
    /\ Take("add", n)
    /\ AddTarget(n)
    /\ unheard' = unheard \ {n}

OnUpdate(n) ==
    /\ Take("update", n)
    /\ UNCHANGED <<managerVars, unheard>>

\* Mutated form of OnDelete: the target is named otherwise than in OnAdd.
OnDelete_OtherName(n) ==
    /\ Take("delete", n)
    /\ UNCHANGED <<managerVars, unheard>>

OnDelete(n) ==
    /\ Take("delete", n)
    /\ RemoveTarget(n)
    /\ UNCHANGED unheard

\* Not a *v1.Node: OnDelete logs it and returns.
OnTombstone(n) ==
    /\ Take("tombstone", n)
    /\ unheard' = unheard \union {n}
    /\ UNCHANGED managerVars

Handler(n) == OnAdd(n) \/ OnUpdate(n) \/ OnDelete(n) \/ OnTombstone(n)

Informer(n) == WatchAdd(n) \/ WatchDelete(n) \/ ListAlive(n) \/ ListGone(n)

Run(g) == Goroutine(g) /\ UNCHANGED nodeVars

NodeNext ==
    \/ \E n \in Nodes : Join(n) \/ Leave(n) \/ Informer(n) \/ Handler(n)
    \/ \E g \in Scrapers : Run(g)

NodeSpec == NodeInit /\ [][NodeNext]_vars

\* The fairness of the goroutines is that of ScrapeManager; informer and handler
\* go on (the handler waits only for a goroutine of a removed target to return,
\* a limit of the model: AddTarget starts a new one at once).
NodeFairSpec ==
    /\ NodeSpec
    /\ \A g \in Scrapers :
          /\ WF_vars(DelayOver(g) /\ UNCHANGED nodeVars)
          /\ WF_vars(ScrapeReturns(g) /\ UNCHANGED nodeVars)
          /\ WF_vars(Tick(g) /\ UNCHANGED nodeVars)
          /\ WF_vars((SelectTick(g) \/ SelectDone(g)) /\ UNCHANGED nodeVars)
          /\ SF_vars(SelectDone(g) /\ UNCHANGED nodeVars)
    /\ WF_vars(\E n \in Nodes : Handler(n))
    /\ \A n \in Nodes :
          /\ SF_vars(WatchAdd(n) \/ (n \notin cached /\ ListAlive(n)))
          /\ SF_vars(WatchDelete(n) \/ ListGone(n))

--------------------------------------------------------------------------------
(* Properties.                                                                *)

\* Whether n will be a target once the waiting notifications are handled: as the
\* last addition or deletion among them says, or as it is now.
Decisive(n) ==
    {k \in 1..Len(events) : events[k].node = n /\ events[k].type \in {"add", "delete"}}
WillBeTarget(n) ==
    IF Decisive(n) = {} THEN targets[n] # NoScraper
    ELSE \E k \in Decisive(n) :
            events[k].type = "add" /\ \A l \in Decisive(n) : l <= k

\* Whether the last removal of n is, or will be, ignored as a tombstone.
Ignored(n) ==
    \/ n \in unheard /\ Decisive(n) = {}
    \/ \E k \in 1..Len(events) :
          /\ events[k] = [type |-> "tombstone", node |-> n]
          /\ \A l \in Decisive(n) : l < k

\* Whatever is replayed, listed, merged into an update or lost: every node the
\* informer holds is, or is about to be, a target; and a node it does not hold
\* stays a target only if its removal came as a tombstone.
TargetsFollowCache ==
    /\ \A n \in cached : WillBeTarget(n)
    /\ \A n \in Nodes \ cached : WillBeTarget(n) => Ignored(n)

\* A node that stays is scraped for ever, even if its deletion and creation anew
\* were seen together, late or not at all.
StayingNodesAreScraped ==
    \A n \in Nodes :
        <>[](n \in alive) =>
            []<>(\E g \in Scrapers : job[g] = n /\ phase[g] = "scrape" /\ ~Done(g))
================================================================================
