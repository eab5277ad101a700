------------------------------ MODULE UsageBatches -----------------------------
(***************************************************************************)
(* The batches of readings that the scrapers send to "pod_usage_hourly".   *)
(* execBatch queues one upsert for each reading, in the order in which a   *)
(* Go map happened to be iterated, and sends them at once; PostgreSQL runs *)
(* them in one implicit transaction.  An upsert waits for the lock of its  *)
(* row, computes the new version from the committed one that it then finds *)
(* and keeps the lock until the transaction ends; the version is seen by   *)
(* nobody else before that.  The scrapers of two nodes never share a row,  *)
(* but those of a node that was removed and added, and of two pgkube       *)
(* processes, do.                                                          *)
(***************************************************************************)
EXTENDS UsageTable, Sequences, FiniteSets, SequencesExt

CONSTANTS
    Rows,       \* keys of rows: a pod and an hour
    Batches,    \* batches that are sent
    Values,     \* values of readings
    NoBatch     \* the owner of a row that nobody has locked

ASSUME UsageBatchesAssumption ==
    /\ IsFiniteSet(Rows)
    /\ Values \subseteq Int
    /\ NoBatch \notin Batches

VARIABLES
    table,      \* the committed rows
    state,      \* state[b]: what became of batch b
    metric,     \* metric[b]: which of the two upserts b consists of
    order,      \* order[b]: the rows b writes, in their order
    value,      \* value[b]: the readings of b, by row
    done,       \* done[b]: how many upserts of b have run
    write,      \* write[b][r]: the version of row r that b has written
    owner,      \* owner[r]: the transaction that has locked row r
    log         \* log[r]: the committed readings of row r, in their order

vars == <<table, state, metric, order, value, done, write, owner, log>>

States == {"unsent", "running", "committed", "aborted"}
Logged == [batch : Batches, metric : Metrics, value : Values]

TypeOK ==
    /\ table \in [Rows -> Row]
    /\ state \in [Batches -> States]
    /\ metric \in [Batches -> Metrics]
    /\ order \in [Batches -> Seq(Rows)]
    /\ value \in [Batches -> UNION {[S -> Values] : S \in SUBSET Rows}]
    /\ done \in [Batches -> Nat]
    /\ write \in [Batches -> [Rows -> Row]]
    /\ owner \in [Rows -> Batches \union {NoBatch}]
    /\ log \in [Rows -> Seq(Logged)]

\* No version of any row.
Nothing == [r \in Rows |-> NoRow]

Init ==
    /\ table = Nothing
    /\ state = [b \in Batches |-> "unsent"]
    /\ metric = [b \in Batches |-> "cpu"]
    /\ order = [b \in Batches |-> <<>>]
    /\ value = [b \in Batches |-> <<>>]
    /\ done = [b \in Batches |-> 0]
    /\ write = [b \in Batches |-> Nothing]
    /\ owner = [r \in Rows |-> NoBatch]
    /\ log = [r \in Rows |-> <<>>]

\* The rows b writes: each once, as the keys of a map.
Written(b) == {order[b][n] : n \in DOMAIN order[b]}
Running(b) == state[b] = "running"
Finished(b) == done[b] = Len(order[b])

\* A scrape has readings, at least one, of pods of its node.
Send(b) ==
    /\ state[b] = "unsent"
    /\ state' = [state EXCEPT ![b] = "running"]
    /\ \E m \in Metrics : metric' = [metric EXCEPT ![b] = m]
    /\ \E S \in (SUBSET Rows) \ {{}} :
          /\ \E s \in SetToSeqs(S) : order' = [order EXCEPT ![b] = s]
          /\ \E v \in [S -> Values] : value' = [value EXCEPT ![b] = v]
    /\ UNCHANGED <<table, done, write, owner, log>>

\* The next upsert of b.
NextRow(b) == order[b][done[b] + 1]
Upsert(b, r) == UpsertPodUsed(table[r], metric[b], value[b][r])

\* Mutated form of Execute: a select reads the row, and the statement writes what
\* was computed from it.
Execute_WithoutLock(b) ==
    /\ Running(b)
    /\ ~Finished(b)
    /\ write' = [write EXCEPT ![b][NextRow(b)] = Upsert(b, NextRow(b))]
    /\ done' = [done EXCEPT ![b] = @ + 1]
    /\ UNCHANGED <<table, state, metric, order, value, owner, log>>

\* It runs once nobody else has its row.
Execute(b) ==
    /\ Running(b)
    /\ ~Finished(b)
    /\ owner[NextRow(b)] = NoBatch
    /\ owner' = [owner EXCEPT ![NextRow(b)] = b]
    /\ write' = [write EXCEPT ![b][NextRow(b)] = Upsert(b, NextRow(b))]
    /\ done' = [done EXCEPT ![b] = @ + 1]
    /\ UNCHANGED <<table, state, metric, order, value, log>>

\* The transaction of b is over, and its locks and versions with it.
End(b, how) ==
    /\ Running(b)
    /\ state' = [state EXCEPT ![b] = how]
    /\ owner' = [r \in Rows |-> IF owner[r] = b THEN NoBatch ELSE owner[r]]
    /\ write' = [write EXCEPT ![b] = Nothing]
    /\ UNCHANGED <<metric, order, value, done>>

\* b has upserted row r.
Wrote(b, r) == \E k \in 1..done[b] : order[b][k] = r

\* The rows with the versions of b in place of the committed ones.
Committed(b) == [r \in Rows |-> IF Wrote(b, r) THEN write[b][r] ELSE table[r]]
Extended(b) ==
    [r \in Rows |->
        IF Wrote(b, r)
        THEN Append(log[r], [batch |-> b, metric |-> metric[b], value |-> value[b][r]])
        ELSE log[r]]

\* Mutated form of Commit: the batch runs in a transaction that nobody commits.
Commit_LeftOpen(b) == Finished(b) /\ Running(b) /\ UNCHANGED vars

Commit(b) ==
    /\ Finished(b)
    /\ End(b, "committed")
    /\ table' = Committed(b)
    /\ log' = Extended(b)

\* Mutated form of Abort: each upsert is sent and committed on its own.
Abort_OneByOne(b) ==
    /\ End(b, "aborted")
    /\ table' = Committed(b)
    /\ log' = Extended(b)

\* The scraper's context is cancelled, a statement fails, a process dies.
Abort(b) == End(b, "aborted") /\ UNCHANGED <<table, log>>

\* Whom b waits for: itself if nobody.
WaitsFor(b) ==
    IF Running(b) /\ ~Finished(b) /\ owner[NextRow(b)] # NoBatch
    THEN owner[NextRow(b)] ELSE b

InCircle(b) ==
    \E S \in SUBSET Batches :
        /\ b \in S
        /\ \A c \in S : WaitsFor(c) # c
        /\ {WaitsFor(c) : c \in S} = S

\* PostgreSQL looks for a circle of waiting transactions and aborts one of them;
\* execBatch returns its error, and nobody sends the readings again.
DeadlockDetected(b) == InCircle(b) /\ Abort(b)

Next ==
    \E b \in Batches :
        Send(b) \/ Execute(b) \/ Commit(b) \/ Abort(b) \/ DeadlockDetected(b)

Spec == Init /\ [][Next]_vars

\* PostgreSQL goes on with what can run and looks for deadlocks.
FairSpec ==
    /\ Spec
    /\ \A b \in Batches :
          /\ WF_vars(Execute(b))
          /\ WF_vars(Commit(b))
          /\ WF_vars(DeadlockDetected(b))

--------------------------------------------------------------------------------
(* Properties.                                                                *)

\* The committed readings of one half of row r, by their places in its log.
Readings(r, m) == {n \in DOMAIN log[r] : log[r][n].metric = m}
Reading(r) == [n \in DOMAIN log[r] |-> log[r][n].value]

\* Readings and total count every committed reading of a half once: no version of
\* a row is computed from one that another batch then replaces, and no half
\* disturbs the other.
TotalsAreExact ==
    \A r \in Rows, m \in Metrics :
        LET h == table[r].half[m]
        IN  /\ h.readings = Cardinality(Readings(r, m))
            /\ h.total = SumFunctionOnSet(Reading(r), Readings(r, m))

\* The maximum is the greatest reading; only if no reading is above 0 and the
\* other half created the row is it the column's default instead.
MaxIsGreatest ==
    \A r \in Rows, m \in Metrics :
        LET max == table[r].half[m].max
        IN  Readings(r, m) # {} =>
            /\ \A n \in Readings(r, m) : Reading(r)[n] <= max
            /\ \/ \E n \in Readings(r, m) : Reading(r)[n] = max
               \/ max = 0 /\ log[r][1].metric # m

\* Those of row r since its last reading of 0.
SinceZero(r, m) ==
    {n \in Readings(r, m) : \A k \in Readings(r, m) : k >= n => Reading(r)[k] # 0}

\* The minimum of readings that are not negative is the least of those since the
\* last reading of 0, and 0 if none came since: an idle pod's 0 does not last.
MinIsLeastSinceZero ==
    \A r \in Rows, m \in Metrics :
        LET min == table[r].half[m].min
        IN  (\A n \in Readings(r, m) : Reading(r)[n] >= 0) =>
            /\ SinceZero(r, m) = {} => min = 0
            /\ SinceZero(r, m) # {} =>
                  /\ \A n \in SinceZero(r, m) : min <= Reading(r)[n]
                  /\ \E n \in SinceZero(r, m) : min = Reading(r)[n]

\* A batch is stored as a whole or not at all, whatever interrupts it.
AllOrNothing ==
    \A b \in Batches, r \in Rows :
        LET mine == {n \in DOMAIN log[r] : log[r][n].batch = b}
        IN  IF state[b] = "committed" /\ r \in Written(b)
            THEN Cardinality(mine) = 1 ELSE mine = {}

\* Every batch ends: batches that lock the same rows in different orders do not
\* wait for each other for ever.
BatchesEnd == \A b \in Batches : Running(b) ~> ~Running(b)
================================================================================
