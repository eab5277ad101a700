----------------------------- MODULE ObjectArchive -----------------------------
(***************************************************************************)
(* What the "object" table promises to the SQL views and to the users who  *)
(* query it, whatever the timing of informers, handlers, garbage           *)
(* collection, lost statements and restarts:                               *)
(*   - a row appears only for an object that exists or existed, and its    *)
(*     data is always a revision that object really had;                   *)
(*   - a row never disappears;                                             *)
(*   - deleted_at, once set, stays set: an object's history has one end.   *)
(* Nothing is promised about WHEN a row is written or marked.              *)
(***************************************************************************)
EXTENDS Naturals

CONSTANT Objects

VARIABLES
    rev,     \* rev[u]: the latest revision of object u, 0 before its creation
    gone,    \* objects deleted from their cluster
    table    \* table[u]: the row of u

vars == <<rev, gone, table>>

Init ==
    /\ rev = [u \in Objects |-> 0]
    /\ gone = {}
    /\ table = [u \in Objects |-> [state |-> "absent", rev |-> 0]]

\* The cluster moves: an object is created, modified or deleted.
Evolve(u) ==
    /\ u \notin gone
    /\ \/ rev' = [rev EXCEPT ![u] = @ + 1] /\ UNCHANGED gone
       \/ rev[u] > 0 /\ gone' = gone \union {u} /\ UNCHANGED rev
    /\ UNCHANGED table

\* A revision of u is recorded; recording does not revive a deleted row.
Record(u) ==
    \E r \in 1..rev[u] :
        /\ table' = [table EXCEPT ![u] =
                        [state |-> IF table[u].state = "absent" THEN "active"
                                   ELSE table[u].state,
                         rev   |-> r]]
        /\ UNCHANGED <<rev, gone>>

\* Some active rows are marked deleted; their data is kept.
Mark(S) ==
    /\ \A u \in S : table[u].state = "active"
    /\ table' = [u \in Objects |->
                    IF u \in S THEN [state |-> "deleted", rev |-> table[u].rev]
                    ELSE table[u]]
    /\ UNCHANGED <<rev, gone>>

Next ==
    \/ \E u \in Objects : Evolve(u) \/ Record(u)
    \/ \E S \in SUBSET Objects : Mark(S)

Spec == Init /\ [][Next]_vars
================================================================================
