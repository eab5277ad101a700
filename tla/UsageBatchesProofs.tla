--------------------------- MODULE UsageBatchesProofs --------------------------
(***************************************************************************)
(* Proofs about UsageBatches, for any rows, batches and readings.          *)
(*                                                                         *)
(* That a batch is stored as a whole or not at all rests on what it writes *)
(* being fixed when it is sent, on a commit coming after its last upsert,  *)
(* and on nothing of it being in the log before.  That what it commits is  *)
(* computed from the rows it replaces rests on the locks: a row that it    *)
(* has written is its own until it ends.                                   *)
(***************************************************************************)
EXTENDS UsageBatches, SumTheorems

\* A batch has a reading for each row it writes, and commits when it has
\* written them all.
Complete ==
    \A b \in Batches :
        /\ state[b] # "unsent" => value[b] \in [Written(b) -> Values]
        /\ state[b] = "unsent" => done[b] = 0
        /\ done[b] <= Len(order[b])
        /\ state[b] = "committed" => Finished(b)

Entries(r, b) == {n \in DOMAIN log[r] : log[r][n].batch = b}

\* AllOrNothing without the cardinality.
Whole ==
    \A b \in Batches, r \in Rows :
        /\ state[b] = "committed" /\ r \in Written(b) => \E n : Entries(r, b) = {n}
        /\ ~(state[b] = "committed" /\ r \in Written(b)) => Entries(r, b) = {}

\* A running batch has the locks of the rows it wrote, and its versions of them are
\* upserts of the committed ones.
Current ==
    \A b \in Batches : Running(b) =>
        \A k \in 1..done[b] :
            LET r == order[b][k] IN owner[r] = b /\ write[b][r] = Upsert(b, r)

Inv == TypeOK /\ Complete /\ Whole /\ Current

--------------------------------------------------------------------------------
\* The statements keep the type of a row.
LEMMA UpsertType ==
    ASSUME NEW row \in Row, NEW m \in Metrics, NEW v \in Int
    PROVE  UpsertPodUsed(row, m, v) \in Row
<1>1. row.half \in [Metrics -> Half]
    BY DEF Row
<1>2. \A h \in Half : Merged(h, v) \in Half
    BY DEF Merged, Half
<1>3. Inserted(v) \in Half
    BY DEF Inserted, Half
<1>4. (IF row.exists THEN Merged(row.half[m], v) ELSE Inserted(v)) \in Half
    BY <1>1, <1>2, <1>3
<1> DEFINE h == IF row.exists THEN Merged(row.half[m], v) ELSE Inserted(v)
<1>5. UpsertPodUsed(row, m, v) = [exists |-> TRUE, half |-> [row.half EXCEPT ![m] = h]]
    BY DEF UpsertPodUsed
<1> HIDE DEF h
<1>6. [row.half EXCEPT ![m] = h] \in [Metrics -> Half]
    BY <1>1, <1>4 DEF h
<1> QED
    BY <1>5, <1>6 DEF Row

LEMMA NothingType == NoRow \in Row /\ Nothing \in [Rows -> Row]
BY DEF Nothing, NoRow, Row, DefaultHalf, Half

\* A map is iterated in some order, which goes over all of it.
LEMMA IterationOrder ==
    ASSUME NEW S \in SUBSET Rows, NEW s \in SetToSeqs(S)
    PROVE  s \in Seq(Rows) /\ {s[n] : n \in DOMAIN s} = S
<1>1. IsFiniteSet(S) /\ Cardinality(S) \in Nat
    BY UsageBatchesAssumption, FS_Subset, FS_CardinalityType
<1> DEFINE D == 1..Cardinality(S)
<1>2. s \in [D -> S] /\ \A i, j \in D : i # j => s[i] # s[j]
    BY DEF SetToSeqs
<1>3. Cardinality(D) = Cardinality(S)
    BY <1>1, FS_Interval
<1>4. s \in Injection(D, S)
    BY <1>2 DEF Injection, IsInjective
<1>5. s \in Surjection(D, S)
    BY <1>1, <1>3, <1>4, FS_Injection
<1>6. s \in Seq(Rows)
    BY <1>1, <1>2
<1> QED
    BY <1>2, <1>5, <1>6 DEF Surjection

--------------------------------------------------------------------------------
LEMMA InitKeeps == ASSUME Init PROVE Inv
<1> USE UsageBatchesAssumption
<1>1. Nothing \in [Rows -> Row]
    BY NothingType
<1>2. <<>> \in UNION {[S -> Values] : S \in SUBSET Rows}
  <2>1. <<>> \in [1..0 -> Values] /\ 1..0 = {}
      OBVIOUS
  <2> QED
      BY <2>1
<1>3. TypeOK
  <2>1. order \in [Batches -> Seq(Rows)] /\ log \in [Rows -> Seq(Logged)]
      BY DEF Init
  <2>2. value \in [Batches -> UNION {[S -> Values] : S \in SUBSET Rows}]
      BY <1>2 DEF Init
  <2> QED
      BY <1>1, <2>1, <2>2 DEF Init, TypeOK, States, Metrics
<1>4. Complete
    BY DEF Init, Complete
<1>5. Whole
    BY DEF Init, Whole, Entries
<1>6. Current
    BY DEF Init, Current, Running
<1> QED
    BY <1>3, <1>4, <1>5, <1>6 DEF Inv

LEMMA SendKeeps == ASSUME Inv, NEW b \in Batches, Send(b) PROVE Inv'
<1> USE UsageBatchesAssumption
<1>1. PICK S \in SUBSET Rows :
          /\ \E s \in SetToSeqs(S) : order' = [order EXCEPT ![b] = s]
          /\ \E v \in [S -> Values] : value' = [value EXCEPT ![b] = v]
    BY DEF Send
<1>2. PICK s \in SetToSeqs(S) : order' = [order EXCEPT ![b] = s]
    BY <1>1
<1>3. PICK v \in [S -> Values] : value' = [value EXCEPT ![b] = v]
    BY <1>1
<1>4. s \in Seq(Rows) /\ {s[n] : n \in DOMAIN s} = S
    BY IterationOrder
<1>5. TypeOK'
  <2>1. order' \in [Batches -> Seq(Rows)]
      BY <1>2, <1>4 DEF Inv, TypeOK
  <2>2. value' \in [Batches -> UNION {[T -> Values] : T \in SUBSET Rows}]
      BY <1>3 DEF Inv, TypeOK
  <2> QED
      BY <2>1, <2>2 DEF Inv, TypeOK, Send, States
<1>6. /\ state[b] = "unsent" /\ state'[b] = "running"
      /\ order'[b] = s /\ value'[b] = v /\ done'[b] = 0
    BY <1>2, <1>3 DEF Inv, TypeOK, Complete, Send
<1>7. ASSUME NEW c \in Batches, c # b
      PROVE  /\ state'[c] = state[c] /\ order'[c] = order[c]
             /\ value'[c] = value[c] /\ done'[c] = done[c]
    BY <1>2, <1>3, <1>7 DEF Inv, TypeOK, Send
<1>8. Complete'
  <2> SUFFICES ASSUME NEW c \in Batches
               PROVE  /\ state'[c] # "unsent" => value'[c] \in [Written(c)' -> Values]
                      /\ state'[c] = "unsent" => done'[c] = 0
                      /\ done'[c] <= Len(order'[c])
                      /\ state'[c] = "committed" => done'[c] = Len(order'[c])
      BY DEF Complete, Finished
  <2>1. CASE c = b
    <3>1. Len(s) \in Nat
        BY <1>4
    <3>2. Written(b)' = S
        BY <1>4, <1>6 DEF Written
    <3> QED
        BY <1>6, <2>1, <3>1, <3>2
  <2>2. CASE c # b
    <3>1. Written(c)' = Written(c)
        BY <1>7, <2>2 DEF Written
    <3> QED
        BY <1>7, <2>2, <3>1 DEF Inv, Complete, Finished
  <2> QED
      BY <2>1, <2>2
<1>9. Whole'
  <2>1. \A c, r : Entries(r, c)' = Entries(r, c)
      BY DEF Entries, Send
  <2>2. \A c \in Batches : c # b => Written(c)' = Written(c)
      BY <1>7 DEF Written
  <2>3. \A c \in Batches : state'[c] = "committed" => c # b /\ state[c] = "committed"
      BY <1>6, <1>7
  <2>4. \A c \in Batches : state[c] = "committed" => state'[c] = "committed"
      BY <1>6, <1>7
  <2> QED
      BY <2>1, <2>2, <2>3, <2>4 DEF Inv, Whole
<1>10. Current'
  <2> SUFFICES ASSUME NEW c \in Batches, Running(c)', NEW k \in 1..done'[c]
               PROVE  /\ owner'[order'[c][k]] = c
                      /\ write'[c][order'[c][k]] = Upsert(c, order[c][k])'
      BY DEF Current, Upsert
  <2>1. c # b
      BY <1>6
  <2>2. Running(c) /\ k \in 1..done[c] /\ order'[c] = order[c] /\ value'[c] = value[c]
      BY <1>7, <2>1 DEF Running
  <2>3. UNCHANGED <<table, metric[c], owner, write>>
      BY <2>1 DEF Send, Inv, TypeOK
  <2>4. owner[order[c][k]] = c /\ write[c][order[c][k]] = Upsert(c, order[c][k])
      BY <2>2 DEF Inv, Current
  <2> QED
      BY <2>2, <2>3, <2>4 DEF Upsert
<1> QED
    BY <1>5, <1>8, <1>9, <1>10 DEF Inv

\* A step that sends nothing, and neither logs nor commits.
LEMMA WholeAsBefore ==
    ASSUME Inv, UNCHANGED <<order, log>>,
           \A c \in Batches : state'[c] = "committed" <=> state[c] = "committed"
    PROVE  Whole'
<1>1. \A c, r : Entries(r, c)' = Entries(r, c) /\ Written(c)' = Written(c)
    BY DEF Entries, Written
<1> QED
    BY <1>1 DEF Inv, Whole

\* What a batch writes stays as it was sent.
LEMMA CompleteAsBefore ==
    ASSUME Inv, UNCHANGED <<order, value>>,
           \A c \in Batches : /\ state'[c] = "unsent" <=> state[c] = "unsent"
                              /\ done'[c] = done[c]
                              /\ state'[c] = "committed" => state[c] = "committed" \/ Finished(c)
    PROVE  Complete'
<1>1. \A c : Written(c)' = Written(c)
    BY DEF Written
<1>2. \A c \in Batches : Finished(c)' = Finished(c)
    BY DEF Finished
<1> QED
    BY <1>1, <1>2 DEF Inv, Complete

LEMMA ExecuteKeeps == ASSUME Inv, NEW b \in Batches, Execute(b) PROVE Inv'
<1> DEFINE row == NextRow(b)
<1>1. /\ state[b] = "running" /\ done[b] # Len(order[b]) /\ done[b] \in Nat
      /\ done[b] <= Len(order[b]) /\ order[b] \in Seq(Rows)
      /\ done' = [done EXCEPT ![b] = @ + 1]
      /\ owner[row] = NoBatch /\ owner' = [owner EXCEPT ![row] = b]
      /\ write' = [write EXCEPT ![b][row] = Upsert(b, row)]
      /\ UNCHANGED <<table, state, metric, order, value, log>>
    BY DEF Execute, Running, Finished, Inv, TypeOK, Complete
<1>2. row \in Rows /\ row \in Written(b)
    BY <1>1 DEF NextRow, Written
<1>3. TypeOK'
  <2>1. /\ table[row] \in Row /\ metric[b] \in Metrics
        /\ value[b] \in [Written(b) -> Values]
      BY <1>1, <1>2 DEF Inv, TypeOK, Complete
  <2>2. value[b][row] \in Int
      BY <1>2, <2>1, UsageBatchesAssumption
  <2>3. Upsert(b, row) \in Row
      BY <2>1, <2>2, UpsertType DEF Upsert
  <2>4. write' \in [Batches -> [Rows -> Row]]
      BY <1>1, <1>2, <2>3 DEF Inv, TypeOK
  <2> QED
      BY <1>1, <1>2, <2>4 DEF Inv, TypeOK
<1>4. /\ done'[b] = done[b] + 1
      /\ \A c \in Batches : c # b => done'[c] = done[c]
    BY <1>1 DEF Inv, TypeOK
<1>5. Complete'
  <2>1. \A c : Written(c)' = Written(c)
      BY <1>1 DEF Written
  <2>2. Len(order[b]) \in Nat
      BY <1>1
  <2>3. done'[b] <= Len(order[b])
      BY <1>1, <1>4, <2>2
  <2> QED
      BY <1>1, <1>4, <2>1, <2>3 DEF Inv, Complete, Finished
<1>6. Whole'
    BY <1>1, WholeAsBefore
<1>7. Current'
  <2> SUFFICES ASSUME NEW c \in Batches, Running(c)', NEW k \in 1..done'[c]
               PROVE  /\ owner'[order[c][k]] = c
                      /\ write'[c][order[c][k]] = Upsert(c, order[c][k])
      BY <1>1 DEF Current, Upsert
  <2> DEFINE r == order[c][k]
  <2>1. Running(c) /\ c \notin {NoBatch}
      BY <1>1, UsageBatchesAssumption DEF Running
  <2>2. CASE c = b /\ k = done[b] + 1
    <3>1. r = row
        BY <2>2 DEF NextRow
    <3> QED
        BY <1>1, <1>2, <2>2, <3>1 DEF Inv, TypeOK
  <2>3. CASE ~(c = b /\ k = done[b] + 1)
    <3>1. k \in 1..done[c]
        BY <1>1, <1>4, <2>3
    <3>2. owner[r] = c /\ write[c][r] = Upsert(c, r)
        BY <2>1, <3>1 DEF Inv, Current
    <3>3. r # row
        BY <1>1, <2>1, <3>2
    <3> QED
        BY <1>1, <1>2, <3>2, <3>3 DEF Inv, TypeOK
  <2> QED
      BY <2>2, <2>3
<1> QED
    BY <1>3, <1>5, <1>6, <1>7 DEF Inv

\* Batches that still run after the end of b have what they had, if no row changes
\* but those that b has locked.
LEMMA CurrentAtEnd ==
    ASSUME Inv, NEW b \in Batches, NEW how \in {"committed", "aborted"}, End(b, how),
           \A r \in Rows : owner[r] # b => table'[r] = table[r]
    PROVE  Current'
<1>1. /\ state' = [state EXCEPT ![b] = how] /\ write' = [write EXCEPT ![b] = Nothing]
      /\ owner' = [r \in Rows |-> IF owner[r] = b THEN NoBatch ELSE owner[r]]
      /\ UNCHANGED <<metric, order, value, done>>
    BY DEF End
<1> SUFFICES ASSUME NEW c \in Batches, Running(c)', NEW k \in 1..done[c]
             PROVE  /\ owner'[order[c][k]] = c
                    /\ write'[c][order[c][k]] = Upsert(c, order[c][k])'
    BY <1>1 DEF Current
<1>2. c # b /\ Running(c) /\ write'[c] = write[c]
    BY <1>1 DEF Running, Inv, TypeOK
<1>3. order[c] \in Seq(Rows) /\ done[c] \in Nat /\ done[c] <= Len(order[c])
    BY DEF Inv, TypeOK, Complete
<1>4. order[c][k] \in Rows
    BY <1>3
<1>5. owner[order[c][k]] = c /\ write[c][order[c][k]] = Upsert(c, order[c][k])
    BY <1>2 DEF Inv, Current
<1> QED
    BY <1>1, <1>2, <1>4, <1>5 DEF Upsert

\* A batch whose log is left alone and that does not commit.
LEMMA AbortKeeps == ASSUME Inv, NEW b \in Batches, Abort(b) PROVE Inv'
<1>1. /\ state[b] = "running" /\ state' = [state EXCEPT ![b] = "aborted"]
      /\ owner' = [r \in Rows |-> IF owner[r] = b THEN NoBatch ELSE owner[r]]
      /\ write' = [write EXCEPT ![b] = Nothing]
      /\ UNCHANGED <<table, metric, order, value, done, log>>
    BY DEF Abort, End, Running
<1>2. TypeOK'
    BY <1>1, NothingType DEF Inv, TypeOK, States
<1>3. state'[b] = "aborted" /\ \A c \in Batches : c # b => state'[c] = state[c]
    BY <1>1 DEF Inv, TypeOK
<1>4. Complete'
    BY <1>1, <1>3, CompleteAsBefore
<1>5. Whole'
    BY <1>1, <1>3, WholeAsBefore
<1>6. Current'
    BY <1>1, CurrentAtEnd DEF Abort
<1> QED
    BY <1>2, <1>4, <1>5, <1>6 DEF Inv

\* A batch that commits has locked what it wrote, and its versions are upserts of the
\* rows that they replace.
LEMMA CommitUpserts ==
    ASSUME Inv, NEW b \in Batches, Commit(b), NEW r \in Rows
    PROVE  /\ Wrote(b, r) <=> r \in Written(b)
           /\ r \in Written(b) => owner[r] = b
           /\ table'[r] = IF r \in Written(b) THEN Upsert(b, r) ELSE table[r]
           /\ log'[r] = IF r \in Written(b)
                        THEN Append(log[r], [batch  |-> b, metric |-> metric[b],
                                             value  |-> value[b][r]])
                        ELSE log[r]
<1>1. /\ Running(b) /\ done[b] = Len(order[b]) /\ order[b] \in Seq(Rows)
      /\ table' = Committed(b) /\ log' = Extended(b)
    BY DEF Commit, End, Finished, Inv, TypeOK
<1>2. Wrote(b, r) <=> r \in Written(b)
    BY <1>1 DEF Wrote, Written
<1>3. Wrote(b, r) => owner[r] = b /\ write[b][r] = Upsert(b, r)
    BY <1>1 DEF Wrote, Inv, Current
<1> QED
    BY <1>1, <1>2, <1>3 DEF Committed, Extended

LEMMA CommitKeeps == ASSUME Inv, NEW b \in Batches, Commit(b) PROVE Inv'
<1>1. /\ state[b] = "running" /\ done[b] = Len(order[b])
      /\ state' = [state EXCEPT ![b] = "committed"]
      /\ owner' = [r \in Rows |-> IF owner[r] = b THEN NoBatch ELSE owner[r]]
      /\ write' = [write EXCEPT ![b] = Nothing]
      /\ UNCHANGED <<metric, order, value, done>>
      /\ table' = Committed(b) /\ log' = Extended(b)
    BY DEF Commit, End, Running, Finished
<1>2. order[b] \in Seq(Rows) /\ metric[b] \in Metrics /\ value[b] \in [Written(b) -> Values]
    BY <1>1 DEF Inv, TypeOK, Complete
<1> DEFINE entry(r) == [batch |-> b, metric |-> metric[b], value |-> value[b][r]]
<1>4. ASSUME NEW r \in Rows
      PROVE  /\ r \in Written(b) =>
                    /\ table'[r] = UpsertPodUsed(table[r], metric[b], value[b][r])
                    /\ log'[r] = Append(log[r], entry(r))
             /\ r \notin Written(b) => table'[r] = table[r] /\ log'[r] = log[r]
    BY CommitUpserts DEF Upsert
<1>5. \A r \in Rows : r \in Written(b) => value[b][r] \in Int /\ entry(r) \in Logged
    BY <1>2, UsageBatchesAssumption DEF Logged
<1> HIDE DEF entry
<1>6. TypeOK'
  <2>1. table' \in [Rows -> Row]
    <3>1. ASSUME NEW r \in Rows PROVE table'[r] \in Row
      <4>1. table[r] \in Row
          BY DEF Inv, TypeOK
      <4>2. r \in Written(b) => UpsertPodUsed(table[r], metric[b], value[b][r]) \in Row
          BY <1>2, <1>5, <4>1, UpsertType
      <4> QED
          BY <1>4, <4>1, <4>2
    <3>2. table' = [r \in Rows |-> table'[r]]
        BY <1>1 DEF Committed
    <3> QED
        BY <3>1, <3>2
  <2>2. log' \in [Rows -> Seq(Logged)]
    <3>1. \A r \in Rows : log'[r] \in Seq(Logged)
      <4> SUFFICES ASSUME NEW r \in Rows PROVE log'[r] \in Seq(Logged)
          OBVIOUS
      <4>1. log[r] \in Seq(Logged)
          BY DEF Inv, TypeOK
      <4>2. r \in Written(b) => Append(log[r], entry(r)) \in Seq(Logged)
          BY <1>5, <4>1
      <4> QED
          BY <1>4, <4>1, <4>2
    <3>2. \E f : log' = [r \in Rows |-> f[r]]
      <4> DEFINE f == [r \in Rows |-> log'[r]]
      <4>1. DOMAIN log' = Rows
          BY <1>1 DEF Extended
      <4>2. log' = [r \in Rows |-> f[r]]
          BY <1>1 DEF Extended
      <4> QED
          BY <4>2
    <3> QED
        BY <3>1, <3>2
  <2> QED
      BY <1>1, <2>1, <2>2, NothingType DEF Inv, TypeOK, States
<1>7. Complete'
  <2>1. state'[b] = "committed" /\ \A c \in Batches : c # b => state'[c] = state[c]
      BY <1>1 DEF Inv, TypeOK
  <2> QED
      BY <1>1, <2>1, CompleteAsBefore DEF Finished
<1>8. Whole'
  <2> SUFFICES ASSUME NEW c \in Batches, NEW r \in Rows
               PROVE  /\ state'[c] = "committed" /\ r \in Written(c) =>
                            \E n : Entries(r, c)' = {n}
                      /\ ~(state'[c] = "committed" /\ r \in Written(c)) => Entries(r, c)' = {}
    <3>1. \A d : Written(d)' = Written(d)
        BY <1>1 DEF Written
    <3> QED
        BY <3>1 DEF Whole
  <2>1. log[r] \in Seq(Logged)
      BY DEF Inv, TypeOK
  <2>2. CASE r \in Written(b)
    <3>1. /\ Len(log'[r]) = Len(log[r]) + 1
          /\ log'[r][Len(log[r]) + 1] = entry(r)
          /\ \A n \in 1..Len(log[r]) : log'[r][n] = log[r][n]
          /\ DOMAIN log'[r] = 1..(Len(log[r]) + 1) /\ DOMAIN log[r] = 1..Len(log[r])
        BY <1>4, <1>5, <2>1, <2>2
    <3>2. entry(r).batch = b
        BY DEF entry
    <3>3. CASE c = b
      <4>1. Entries(r, b) = {}
          BY <1>1 DEF Inv, Whole
      <4>2. Entries(r, b)' = {Len(log[r]) + 1}
          BY <2>1, <3>1, <3>2, <4>1 DEF Entries
      <4> QED
          BY <1>1, <2>2, <3>3, <4>2 DEF Inv, TypeOK
    <3>4. CASE c # b
      <4>1. Entries(r, c)' = Entries(r, c)
          BY <2>1, <3>1, <3>2, <3>4 DEF Entries
      <4> QED
          BY <1>1, <3>4, <4>1 DEF Inv, TypeOK, Whole
    <3> QED
        BY <3>3, <3>4
  <2>3. CASE r \notin Written(b)
    <3>1. Entries(r, c)' = Entries(r, c)
        BY <1>4, <2>3 DEF Entries
    <3> QED
        BY <1>1, <2>3, <3>1 DEF Inv, TypeOK, Whole
  <2> QED
      BY <2>2, <2>3
<1>9. Current'
  <2>1. \A r \in Rows : owner[r] # b => table'[r] = table[r]
      BY CommitUpserts
  <2> QED
      BY <2>1, CurrentAtEnd DEF Commit
<1> QED
    BY <1>6, <1>7, <1>8, <1>9 DEF Inv

LEMMA Inductive == Spec => []Inv
<1>1. Init => Inv
    BY InitKeeps
<1>2. Inv /\ [Next]_vars => Inv'
  <2> SUFFICES ASSUME Inv, [Next]_vars PROVE Inv'
      OBVIOUS
  <2>1. ASSUME NEW b \in Batches, Send(b) PROVE Inv'
      BY <2>1, SendKeeps
  <2>2. ASSUME NEW b \in Batches, Execute(b) PROVE Inv'
      BY <2>2, ExecuteKeeps
  <2>3. ASSUME NEW b \in Batches, Commit(b) PROVE Inv'
      BY <2>3, CommitKeeps
  <2>4. ASSUME NEW b \in Batches, Abort(b) \/ DeadlockDetected(b) PROVE Inv'
      BY <2>4, AbortKeeps DEF DeadlockDetected
  <2>5. CASE UNCHANGED vars
    <3>1. UNCHANGED <<table, state, metric, order, value, done, write, owner, log>>
        BY <2>5 DEF vars
    <3>2. TypeOK'
        BY <3>1 DEF Inv, TypeOK
    <3>3. Current'
        BY <3>1 DEF Inv, Current, Running, Upsert
    <3> QED
        BY <3>1, <3>2, <3>3, CompleteAsBefore, WholeAsBefore DEF Inv
  <2> QED
      BY <2>1, <2>2, <2>3, <2>4, <2>5 DEF Next
<1> QED
    BY <1>1, <1>2, PTL DEF Spec

\* Every variable keeps its type; the columns of a row stay numbers whatever
\* batches meet in it.
THEOREM Typing == Spec => []TypeOK
<1>1. Inv => TypeOK
    BY DEF Inv
<1> QED
    BY <1>1, Inductive, PTL

\* A batch that execBatch sends is stored as a whole, each reading once, or not
\* at all, whoever else writes its rows and whatever aborts it.
THEOREM BatchesAreAtomic == Spec => []AllOrNothing
<1>1. Inv => AllOrNothing
  <2> SUFFICES ASSUME Inv, NEW b \in Batches, NEW r \in Rows
               PROVE  IF state[b] = "committed" /\ r \in Written(b)
                      THEN Cardinality(Entries(r, b)) = 1 ELSE Entries(r, b) = {}
      BY DEF AllOrNothing, Entries
  <2>1. \A n : Cardinality({n}) = 1
      BY FS_Singleton
  <2>2. CASE state[b] = "committed" /\ r \in Written(b)
    <3>1. PICK n : Entries(r, b) = {n}
        BY <2>2 DEF Inv, Whole
    <3> QED
        BY <2>1, <2>2, <3>1
  <2>3. CASE ~(state[b] = "committed" /\ r \in Written(b))
      BY <2>3 DEF Inv, Whole
  <2> QED
      BY <2>2, <2>3
<1> QED
    BY <1>1, Inductive, PTL

--------------------------------------------------------------------------------
(* What the rows hold, compared with what was committed to them.              *)

\* A row exists once something was committed to it, and a half nobody wrote has
\* the columns' defaults.
RowsFollowLog ==
    \A r \in Rows :
        /\ table[r].exists <=> log[r] # <<>>
        /\ \A m \in Metrics : Readings(r, m) = {} => table[r].half[m] = DefaultHalf

Followed == Inv /\ RowsFollowLog

Entry(b, m, v) == [batch |-> b, metric |-> m, value |-> v]

\* The effect of a committed upsert on its row.
Upserts(r, b, m, v) ==
    /\ table'[r] = UpsertPodUsed(table[r], m, v)
    /\ log'[r] = Append(log[r], Entry(b, m, v))

\* A commit upserts each row of the batch once and leaves the others alone.
LEMMA CommitRow ==
    ASSUME Inv, NEW b \in Batches, Commit(b), NEW r \in Rows
    PROVE  \/ table'[r] = table[r] /\ log'[r] = log[r]
           \/ \E m \in Metrics, v \in Values : Upserts(r, b, m, v)
<1>1. metric[b] \in Metrics /\ value[b] \in [Written(b) -> Values]
    BY DEF Commit, End, Running, Inv, TypeOK, Complete
<1>2. CASE r \in Written(b)
  <2>1. value[b][r] \in Values
      BY <1>1, <1>2
  <2>2. Upserts(r, b, metric[b], value[b][r])
      BY <1>2, CommitUpserts DEF Upserts, Upsert, Entry
  <2> QED
      BY <1>1, <2>1, <2>2
<1>3. CASE r \notin Written(b)
    BY <1>3, CommitUpserts
<1> QED
    BY <1>2, <1>3

\* Nothing else writes.
LEMMA OnlyCommitWrites ==
    ASSUME [Next]_vars
    PROVE  UNCHANGED <<table, log>> \/ \E b \in Batches : Commit(b)
BY DEF Next, Send, Execute, Abort, DeadlockDetected, vars

\* The place after the last one of row r.
NextPlace(r) == Len(log[r]) + 1

LEMMA PlacesOfRow ==
    ASSUME Inv, NEW r \in Rows
    PROVE  /\ log[r] \in Seq(Logged) /\ NextPlace(r) \in Nat \ {0}
           /\ NextPlace(r) \notin DOMAIN log[r]
           /\ \A n \in DOMAIN log[r] :
                 /\ n \in Nat /\ n < NextPlace(r)
                 /\ Reading(r)[n] = log[r][n].value /\ Reading(r)[n] \in Int
           /\ IsFiniteSet(DOMAIN log[r])
<1>1. log[r] \in Seq(Logged)
    BY DEF Inv, TypeOK
<1>2. Len(log[r]) \in Nat /\ DOMAIN log[r] = 1..Len(log[r])
    BY <1>1
<1>3. \A n \in DOMAIN log[r] : log[r][n] \in Logged
    BY <1>1
<1>4. \A n \in DOMAIN log[r] : log[r][n].value \in Int
    BY <1>3, UsageBatchesAssumption DEF Logged
<1>5. IsFiniteSet(DOMAIN log[r])
    BY <1>2, FS_Interval
<1> QED
    BY <1>1, <1>2, <1>4, <1>5 DEF NextPlace, Reading

\* A committed reading adds a place to its half and leaves the other half and
\* the earlier readings as they were.
LEMMA ReadingAdded ==
    ASSUME Inv, NEW r \in Rows, NEW b \in Batches, NEW m \in Metrics, NEW v \in Values,
           log'[r] = Append(log[r], Entry(b, m, v))
    PROVE  /\ Readings(r, m)' = Readings(r, m) \union {NextPlace(r)}
           /\ \A k \in Metrics : k # m => Readings(r, k)' = Readings(r, k)
           /\ Reading(r)'[NextPlace(r)] = v
           /\ \A n \in DOMAIN log[r] : Reading(r)'[n] = Reading(r)[n]
           /\ v \in Int /\ log'[r] # <<>>
           /\ log'[r][1].metric = IF log[r] = <<>> THEN m ELSE log[r][1].metric
<1> DEFINE e == Entry(b, m, v)
<1>1. log[r] \in Seq(Logged)
    BY PlacesOfRow
<1>2. e \in Logged /\ e.metric = m /\ e.value = v
    BY DEF Entry, Logged
<1> HIDE DEF e
<1>3. /\ Len(log'[r]) = Len(log[r]) + 1 /\ Len(log[r]) \in Nat
      /\ DOMAIN log'[r] = 1..(Len(log[r]) + 1) /\ DOMAIN log[r] = 1..Len(log[r])
      /\ log'[r][Len(log[r]) + 1] = e
      /\ \A n \in 1..Len(log[r]) : log'[r][n] = log[r][n]
    BY <1>1, <1>2 DEF e
<1>4. v \in Int
    BY UsageBatchesAssumption
<1>5. log[r] = <<>> <=> Len(log[r]) = 0
    BY <1>1
<1>6. log'[r] # <<>>
    BY <1>3
<1>7. log'[r][1].metric = IF log[r] = <<>> THEN m ELSE log[r][1].metric
    BY <1>2, <1>3, <1>5
<1>8. \A k : Readings(r, k)' = Readings(r, k) \union (IF k = m THEN {Len(log[r]) + 1} ELSE {})
    BY <1>2, <1>3 DEF Readings
<1>9. Reading(r)'[Len(log[r]) + 1] = v
    BY <1>2, <1>3 DEF Reading
<1>10. \A n \in DOMAIN log[r] : Reading(r)'[n] = Reading(r)[n]
    BY <1>3 DEF Reading
<1> QED
    BY <1>4, <1>6, <1>7, <1>8, <1>9, <1>10 DEF NextPlace

\* What an upsert does to a row.
LEMMA UpsertHalves ==
    ASSUME Inv, NEW r \in Rows, NEW b \in Batches, NEW m \in Metrics, NEW v \in Values,
           Upserts(r, b, m, v)
    PROVE  /\ table'[r].exists
           /\ table'[r].half[m] = IF table[r].exists THEN Merged(table[r].half[m], v)
                                  ELSE Inserted(v)
           /\ \A k \in Metrics : k # m => table'[r].half[k] = table[r].half[k]
<1>1. table[r].half \in [Metrics -> Half]
    BY DEF Inv, TypeOK, Row
<1> QED
    BY <1>1 DEF Upserts, UpsertPodUsed

\* No row holds anything before the first commit.
LEMMA NothingWritten ==
    ASSUME Init, NEW r \in Rows, NEW m \in Metrics
    PROVE  Readings(r, m) = {} /\ table[r].half[m] = DefaultHalf
BY DEF Init, Readings, Nothing, NoRow

LEMMA HalfType ==
    ASSUME Inv, NEW r \in Rows, NEW m \in Metrics
    PROVE  table[r].half[m] \in Half
<1>1. table[r] \in Row
    BY DEF Inv, TypeOK
<1> QED
    BY <1>1 DEF Row

LEMMA FollowedKept ==
    ASSUME Followed, Inv', [Next]_vars
    PROVE  Followed'
<1>1. SUFFICES ASSUME NEW r \in Rows
               PROVE  /\ table'[r].exists <=> log'[r] # <<>>
                      /\ \A m \in Metrics :
                            Readings(r, m)' = {} => table'[r].half[m] = DefaultHalf
    BY DEF Followed, RowsFollowLog
<1>2. CASE table'[r] = table[r] /\ log'[r] = log[r]
  <2>1. \A m : Readings(r, m)' = Readings(r, m)
      BY <1>2 DEF Readings
  <2> QED
      BY <1>2, <2>1 DEF Followed, RowsFollowLog
<1>3. ASSUME NEW b \in Batches, NEW m \in Metrics, NEW v \in Values, Upserts(r, b, m, v)
      PROVE  /\ table'[r].exists <=> log'[r] # <<>>
             /\ \A k \in Metrics : Readings(r, k)' = {} => table'[r].half[k] = DefaultHalf
  <2>2. /\ table'[r].exists
        /\ \A k \in Metrics : k # m => table'[r].half[k] = table[r].half[k]
      BY <1>3, UpsertHalves DEF Followed
  <2>3. /\ Readings(r, m)' # {} /\ log'[r] # <<>>
        /\ \A k \in Metrics : k # m => Readings(r, k)' = Readings(r, k)
      BY <1>3, ReadingAdded DEF Followed, Upserts
  <2> QED
      BY <2>2, <2>3 DEF Followed, RowsFollowLog
<1> QED
    BY <1>2, <1>3, CommitRow, OnlyCommitWrites DEF Followed

LEMMA FollowedInductive == Spec => []Followed
<1>1. Init => RowsFollowLog
    BY DEF Init, RowsFollowLog, Readings, Nothing, NoRow
<1>2. Inv /\ Inv' /\ RowsFollowLog /\ [Next]_vars => RowsFollowLog'
    BY FollowedKept DEF Followed
<1>3. Inv /\ RowsFollowLog => Followed
    BY DEF Followed
<1> QED
    BY <1>1, <1>2, <1>3, Inductive, PTL DEF Spec

--------------------------------------------------------------------------------
(* Readings and total.                                                        *)

Exact(r, m) ==
    /\ table[r].half[m].readings = Cardinality(Readings(r, m))
    /\ table[r].half[m].total = SumFunctionOnSet(Reading(r), Readings(r, m))

LEMMA ReadingsFinite ==
    ASSUME Inv, NEW r \in Rows, NEW m
    PROVE  /\ Readings(r, m) \subseteq DOMAIN log[r]
           /\ IsFiniteSet(Readings(r, m)) /\ Cardinality(Readings(r, m)) \in Nat
<1>1. Readings(r, m) \subseteq DOMAIN log[r]
    BY DEF Readings
<1> QED
    BY <1>1, PlacesOfRow, FS_Subset, FS_CardinalityType

\* A sum over readings that were there before the step.
LEMMA SumOfEarlier ==
    ASSUME Inv, NEW r \in Rows, NEW S \in SUBSET DOMAIN log[r],
           \A n \in DOMAIN log[r] : Reading(r)'[n] = Reading(r)[n]
    PROVE  SumFunctionOnSet(Reading(r)', S) = SumFunctionOnSet(Reading(r), S)
<1>1. IsFiniteSet(S)
    BY PlacesOfRow, FS_Subset
<1>2. \A n \in S : Reading(r)'[n] = Reading(r)[n]
    OBVIOUS
<1> DEFINE new == Reading(r)'
           old == Reading(r)
<1> HIDE DEF new, old
<1>3. SumFunctionOnSet(new, S) = SumFunctionOnSet(old, S)
  <2>1. \A n \in S : new[n] = old[n]
      BY <1>2 DEF new, old
  <2> QED
      BY <1>1, <2>1, SumSame
<1> QED
    BY <1>3 DEF new, old

LEMMA ExactKept ==
    ASSUME Followed, [Next]_vars, NEW r \in Rows, \A m \in Metrics : Exact(r, m)
    PROVE  \A m \in Metrics : Exact(r, m)'
<1>1. CASE table'[r] = table[r] /\ log'[r] = log[r]
  <2>1. \A m : Readings(r, m)' = Readings(r, m)
      BY <1>1 DEF Readings
  <2>2. Reading(r)' = Reading(r)
      BY <1>1 DEF Reading
  <2> QED
      BY <1>1, <2>1, <2>2 DEF Exact
<1>2. ASSUME NEW b \in Batches, NEW m \in Metrics, NEW v \in Values, Upserts(r, b, m, v)
      PROVE  \A k \in Metrics : Exact(r, k)'
  <2> DEFINE p == NextPlace(r)
  <2>1. /\ Readings(r, m)' = Readings(r, m) \union {p}
        /\ \A k \in Metrics : k # m => Readings(r, k)' = Readings(r, k)
        /\ Reading(r)'[p] = v /\ v \in Int
        /\ \A n \in DOMAIN log[r] : Reading(r)'[n] = Reading(r)[n]
      BY <1>2, ReadingAdded DEF Upserts, Followed
  <2>2. \A k : SumFunctionOnSet(Reading(r)', Readings(r, k))
                = SumFunctionOnSet(Reading(r), Readings(r, k))
      BY <2>1, ReadingsFinite, SumOfEarlier DEF Followed
  <2>3. ASSUME NEW k \in Metrics, k # m PROVE Exact(r, k)'
    <3>1. table'[r].half[k] = table[r].half[k]
        BY <1>2, <2>3, UpsertHalves DEF Followed
    <3> QED
        BY <2>1, <2>2, <2>3, <3>1 DEF Exact
  <2>4. /\ Cardinality(Readings(r, m)') = Cardinality(Readings(r, m)) + 1
        /\ SumFunctionOnSet(Reading(r)', Readings(r, m)')
              = SumFunctionOnSet(Reading(r), Readings(r, m)) + v
        /\ SumFunctionOnSet(Reading(r), Readings(r, m)) \in Int
    <3> DEFINE S == Readings(r, m)
               f == Reading(r)'
    <3>1. IsFiniteSet(S) /\ p \notin S
        BY PlacesOfRow, ReadingsFinite DEF Followed
    <3>2. \A n \in S : f[n] \in Int
        BY <2>1, PlacesOfRow, ReadingsFinite DEF Followed
    <3>3. f[p] = v /\ v \in Int
        BY <2>1
    <3>4. SumFunctionOnSet(f, S) = SumFunctionOnSet(Reading(r), S)
        BY <2>2
    <3> HIDE DEF S, f, p
    <3>5. Cardinality(S \union {p}) = Cardinality(S) + 1
        BY <3>1, FS_AddElement
    <3>6. SumFunctionOnSet(f, S \union {p}) = SumFunctionOnSet(f, S) + v
        BY <3>1, <3>2, <3>3, SumAdd
    <3>7. SumFunctionOnSet(f, S) \in Int
        BY <3>1, <3>2, SumType
    <3> QED
        BY <2>1, <3>4, <3>5, <3>6, <3>7 DEF S, f
  <2>5. Exact(r, m)'
    <3>1. Exact(r, m)
        OBVIOUS
    <3>2. CASE table[r].exists
      <4>1. table'[r].half[m] = Merged(table[r].half[m], v)
          BY <1>2, <3>2, UpsertHalves DEF Followed
      <4> QED
          BY <2>4, <3>1, <4>1 DEF Exact, Merged
    <3>3. CASE ~ table[r].exists
      <4>1. table'[r].half[m] = Inserted(v)
          BY <1>2, <3>3, UpsertHalves DEF Followed
      <4>2. Readings(r, m) = {}
          BY <3>3 DEF Readings, Followed, RowsFollowLog
      <4>3. Cardinality(Readings(r, m)) = 0 /\ SumFunctionOnSet(Reading(r), Readings(r, m)) = 0
          BY <4>2, FS_EmptySet, SumEmpty
      <4> QED
          BY <2>1, <2>4, <4>1, <4>3 DEF Exact, Inserted
    <3> QED
        BY <3>2, <3>3
  <2> QED
      BY <2>3, <2>5
<1> QED
    BY <1>1, <1>2, CommitRow, OnlyCommitWrites DEF Followed

\* readings and total count every committed reading of a half once, although
\* each upsert adds to what it finds before its batch commits: no update is lost.
THEOREM TotalsExact == Spec => []TotalsAreExact
<1>1. TotalsAreExact <=> \A r \in Rows : \A m \in Metrics : Exact(r, m)
    BY DEF TotalsAreExact, Exact
<1>2. Init => TotalsAreExact
  <2>1. ASSUME Init, NEW r \in Rows, NEW m \in Metrics PROVE Exact(r, m)
    <3>1. Readings(r, m) = {} /\ table[r].half[m] = DefaultHalf
        BY <2>1, NothingWritten
    <3> QED
        BY <3>1, FS_EmptySet, SumEmpty DEF Exact, DefaultHalf
  <2> QED
      BY <1>1, <2>1
<1>3. Followed /\ TotalsAreExact /\ [Next]_vars => TotalsAreExact'
  <2> SUFFICES ASSUME Followed, TotalsAreExact, [Next]_vars,
                      NEW r \in Rows, NEW m \in Metrics
               PROVE  Exact(r, m)'
      BY DEF TotalsAreExact, Exact
  <2> QED
      BY <1>1, ExactKept
<1> QED
    BY <1>2, <1>3, FollowedInductive, PTL DEF Spec

--------------------------------------------------------------------------------
(* The maximum.                                                               *)

Greatest(r, m) ==
    Readings(r, m) # {} =>
        /\ \A n \in Readings(r, m) : Reading(r)[n] <= table[r].half[m].max
        /\ \/ \E n \in Readings(r, m) : Reading(r)[n] = table[r].half[m].max
           \/ table[r].half[m].max = 0 /\ log[r][1].metric # m

LEMMA GreatestKept ==
    ASSUME Followed, [Next]_vars, NEW r \in Rows, \A m \in Metrics : Greatest(r, m)
    PROVE  \A m \in Metrics : Greatest(r, m)'
<1>1. CASE table'[r] = table[r] /\ log'[r] = log[r]
  <2>1. \A m : Readings(r, m)' = Readings(r, m)
      BY <1>1 DEF Readings
  <2>2. Reading(r)' = Reading(r)
      BY <1>1 DEF Reading
  <2> QED
      BY <1>1, <2>1, <2>2 DEF Greatest
<1>2. ASSUME NEW b \in Batches, NEW m \in Metrics, NEW v \in Values, Upserts(r, b, m, v)
      PROVE  \A k \in Metrics : Greatest(r, k)'
  <2> DEFINE p == NextPlace(r)
  <2>1. /\ Readings(r, m)' = Readings(r, m) \union {p}
        /\ \A k \in Metrics : k # m => Readings(r, k)' = Readings(r, k)
        /\ Reading(r)'[p] = v /\ v \in Int
        /\ \A n \in DOMAIN log[r] : Reading(r)'[n] = Reading(r)[n]
        /\ log'[r][1].metric = IF log[r] = <<>> THEN m ELSE log[r][1].metric
      BY <1>2, ReadingAdded DEF Upserts, Followed
  <2>2. \A k : Readings(r, k) \subseteq DOMAIN log[r]
      BY DEF Readings
  <2>3. ASSUME NEW k \in Metrics, k # m PROVE Greatest(r, k)'
    <3>1. table'[r].half[k] = table[r].half[k]
        BY <1>2, <2>3, UpsertHalves DEF Followed
    <3>2. Readings(r, k) # {} => log[r] # <<>>
        BY DEF Readings
    <3> QED
        BY <2>1, <2>2, <2>3, <3>1, <3>2 DEF Greatest
  <2>4. Greatest(r, m)'
    <3> DEFINE old == table[r].half[m].max
               new == table'[r].half[m].max
    <3>1. old \in Int /\ \A n \in Readings(r, m) : Reading(r)[n] \in Int
      <4>1. table[r].half[m] \in Half
          BY HalfType DEF Followed
      <4> QED
          BY <2>2, <4>1, PlacesOfRow DEF Followed, Half
    <3>2. SUFFICES /\ \A n \in Readings(r, m) : Reading(r)[n] <= new
                   /\ v <= new
                   /\ \/ v = new
                      \/ \E n \in Readings(r, m) : Reading(r)[n] = new
                      \/ new = 0 /\ log'[r][1].metric # m
        BY <2>1, <2>2 DEF Greatest
    <3>3. CASE ~ table[r].exists
      <4>1. new = v
        <5>1. table'[r].half[m] = Inserted(v)
            BY <1>2, <3>3, UpsertHalves DEF Followed
        <5> QED
            BY <5>1 DEF Inserted
      <4>2. Readings(r, m) = {}
          BY <3>3 DEF Readings, Followed, RowsFollowLog
      <4> QED
          BY <2>1, <4>1, <4>2
    <3>4. CASE table[r].exists
      <4>1. new = IF old > v THEN old ELSE v
        <5>1. table'[r].half[m] = Merged(table[r].half[m], v)
            BY <1>2, <3>4, UpsertHalves DEF Followed
        <5> QED
            BY <5>1 DEF Merged
      <4>2. log[r] # <<>>
          BY <3>4 DEF Followed, RowsFollowLog
      <4>3. CASE Readings(r, m) = {}
        <5>1. old = 0
            BY <4>3 DEF Followed, RowsFollowLog, DefaultHalf
        <5>2. log[r][1].metric # m
          <6>1. 1 \in DOMAIN log[r]
              BY <4>2, PlacesOfRow DEF Followed
          <6> QED
              BY <4>3, <6>1 DEF Readings
        <5> QED
            BY <2>1, <4>1, <4>2, <4>3, <5>1, <5>2
      <4>4. CASE Readings(r, m) # {}
        <5>1. /\ \A n \in Readings(r, m) : Reading(r)[n] <= old
              /\ \/ \E n \in Readings(r, m) : Reading(r)[n] = old
                 \/ old = 0 /\ log[r][1].metric # m
            BY <4>4 DEF Greatest
        <5> HIDE DEF old, new
        <5> QED
            BY <2>1, <3>1, <4>1, <4>2, <5>1
      <4> QED
          BY <4>3, <4>4
    <3> QED
        BY <3>3, <3>4
  <2> QED
      BY <2>3, <2>4
<1> QED
    BY <1>1, <1>2, CommitRow, OnlyCommitWrites DEF Followed

\* The stored maximum is the greatest committed reading; only if the other half
\* created the row and no reading is above 0 is it the column's default.
THEOREM MaximumIsGreatest == Spec => []MaxIsGreatest
<1>1. MaxIsGreatest <=> \A r \in Rows : \A m \in Metrics : Greatest(r, m)
    BY DEF MaxIsGreatest, Greatest
<1>2. Init => MaxIsGreatest
    BY DEF Init, MaxIsGreatest, Readings
<1>3. Followed /\ MaxIsGreatest /\ [Next]_vars => MaxIsGreatest'
  <2> SUFFICES ASSUME Followed, MaxIsGreatest, [Next]_vars,
                      NEW r \in Rows, NEW m \in Metrics
               PROVE  Greatest(r, m)'
      BY DEF MaxIsGreatest, Greatest
  <2> QED
      BY <1>1, GreatestKept
<1> QED
    BY <1>2, <1>3, FollowedInductive, PTL DEF Spec

--------------------------------------------------------------------------------
(* The minimum.                                                               *)

Least(r, m) ==
    (\A n \in Readings(r, m) : Reading(r)[n] >= 0) =>
        /\ SinceZero(r, m) = {} => table[r].half[m].min = 0
        /\ SinceZero(r, m) # {} =>
              /\ \A n \in SinceZero(r, m) : table[r].half[m].min <= Reading(r)[n]
              /\ \E n \in SinceZero(r, m) : table[r].half[m].min = Reading(r)[n]

LEMMA LeastKept ==
    ASSUME Followed, [Next]_vars, NEW r \in Rows, \A m \in Metrics : Least(r, m)
    PROVE  \A m \in Metrics : Least(r, m)'
<1>1. CASE table'[r] = table[r] /\ log'[r] = log[r]
  <2>1. \A m : Readings(r, m)' = Readings(r, m)
      BY <1>1 DEF Readings
  <2>2. Reading(r)' = Reading(r)
      BY <1>1 DEF Reading
  <2>3. \A m : SinceZero(r, m)' = SinceZero(r, m)
      BY <2>1, <2>2 DEF SinceZero
  <2> QED
      BY <1>1, <2>1, <2>2, <2>3 DEF Least
<1>2. ASSUME NEW b \in Batches, NEW m \in Metrics, NEW v \in Values, Upserts(r, b, m, v)
      PROVE  \A k \in Metrics : Least(r, k)'
  <2> DEFINE p == NextPlace(r)
  <2>1. /\ Readings(r, m)' = Readings(r, m) \union {p}
        /\ \A k \in Metrics : k # m => Readings(r, k)' = Readings(r, k)
        /\ Reading(r)'[p] = v /\ v \in Int
        /\ \A n \in DOMAIN log[r] : Reading(r)'[n] = Reading(r)[n]
      BY <1>2, ReadingAdded DEF Upserts, Followed
  <2>2. \A k : Readings(r, k) \subseteq DOMAIN log[r]
      BY DEF Readings
  <2>3. ASSUME NEW k \in Metrics, k # m PROVE Least(r, k)'
    <3>1. table'[r].half[k] = table[r].half[k]
        BY <1>2, <2>3, UpsertHalves DEF Followed
    <3>2. SinceZero(r, k)' = SinceZero(r, k)
        BY <2>1, <2>2, <2>3 DEF SinceZero
    <3>3. SinceZero(r, k) \subseteq DOMAIN log[r]
        BY <2>2 DEF SinceZero
    <3> QED
        BY <2>1, <2>2, <2>3, <3>1, <3>2, <3>3 DEF Least
  <2>4. Least(r, m)'
    <3> DEFINE old == table[r].half[m].min
               new == table'[r].half[m].min
    <3>1. /\ old \in Int
          /\ \A n \in Readings(r, m) : Reading(r)[n] \in Int /\ n \in Nat /\ n < p
          /\ p \in Nat
      <4>1. table[r].half[m] \in Half
          BY HalfType DEF Followed
      <4> QED
          BY <2>2, <4>1, PlacesOfRow DEF Followed, Half
    <3>2. SUFFICES ASSUME v >= 0, \A n \in Readings(r, m) : Reading(r)[n] >= 0
                   PROVE  /\ SinceZero(r, m)' = {} => new = 0
                          /\ SinceZero(r, m)' # {} =>
                                /\ \A n \in SinceZero(r, m)' : new <= Reading(r)'[n]
                                /\ \E n \in SinceZero(r, m)' : new = Reading(r)'[n]
        BY <2>1, <2>2 DEF Least
    <3>3. /\ SinceZero(r, m) = {} => old = 0
          /\ SinceZero(r, m) # {} =>
                /\ \A n \in SinceZero(r, m) : old <= Reading(r)[n]
                /\ \E n \in SinceZero(r, m) : old = Reading(r)[n]
        BY <3>2 DEF Least
    <3>4. \A n \in SinceZero(r, m) : n \in Readings(r, m) /\ Reading(r)[n] # 0
        BY <3>1 DEF SinceZero
    <3>5. new = IF table[r].exists /\ old < v /\ old # 0 THEN old ELSE v
      <4>1. table'[r].half[m] = IF table[r].exists THEN Merged(table[r].half[m], v)
                                ELSE Inserted(v)
          BY <1>2, UpsertHalves DEF Followed
      <4> QED
          BY <4>1 DEF Merged, Inserted
    <3>6. ~ table[r].exists => Readings(r, m) = {}
        BY DEF Readings, Followed, RowsFollowLog
    <3>7. old >= 0
        BY <3>1, <3>2, <3>3, <3>4
    <3>8. CASE v = 0
      <4>1. SinceZero(r, m)' = {}
          BY <2>1, <3>1, <3>8 DEF SinceZero
      <4>2. new = 0
          BY <3>1, <3>5, <3>7, <3>8
      <4> QED
          BY <4>1, <4>2
    <3>9. CASE v # 0
      <4>1. SinceZero(r, m)' = SinceZero(r, m) \union {p}
          BY <2>1, <2>2, <3>1, <3>9 DEF SinceZero
      <4>2. \A n \in SinceZero(r, m) : Reading(r)'[n] = Reading(r)[n] /\ Reading(r)[n] \in Int
          BY <2>1, <2>2, <3>1, <3>4
      <4>3. CASE SinceZero(r, m) = {}
        <5>1. new = v
            BY <3>3, <3>5, <4>3
        <5> QED
            BY <2>1, <4>1, <4>3, <5>1
      <4>4. CASE SinceZero(r, m) # {}
        <5>1. table[r].exists /\ old # 0
            BY <3>3, <3>4, <3>6, <4>4
        <5> HIDE DEF old, new, p
        <5>2. new = IF old < v THEN old ELSE v
            BY <3>5, <5>1
        <5>3. new <= v /\ \A n \in SinceZero(r, m) : new <= Reading(r)[n]
            BY <2>1, <3>1, <3>3, <4>2, <4>4, <5>2
        <5>4. new = v \/ \E n \in SinceZero(r, m) : new = Reading(r)[n]
            BY <3>3, <4>4, <5>2
        <5> QED
            BY <2>1, <4>1, <4>2, <5>3, <5>4
      <4> QED
          BY <4>3, <4>4
    <3> QED
        BY <3>8, <3>9
  <2> QED
      BY <2>3, <2>4
<1> QED
    BY <1>1, <1>2, CommitRow, OnlyCommitWrites DEF Followed

\* The stored minimum of readings that are not negative is the least of those
\* since the last reading of 0, and 0 while none came since.
THEOREM MinimumIsLeast == Spec => []MinIsLeastSinceZero
<1>1. MinIsLeastSinceZero <=> \A r \in Rows : \A m \in Metrics : Least(r, m)
    BY DEF MinIsLeastSinceZero, Least
<1>2. Init => MinIsLeastSinceZero
  <2>1. Init => \A r \in Rows, m \in Metrics :
            SinceZero(r, m) = {} /\ table[r].half[m].min = 0
      BY NothingWritten DEF SinceZero, DefaultHalf
  <2> QED
      BY <1>1, <2>1 DEF Least
<1>3. Followed /\ MinIsLeastSinceZero /\ [Next]_vars => MinIsLeastSinceZero'
  <2> SUFFICES ASSUME Followed, MinIsLeastSinceZero, [Next]_vars,
                      NEW r \in Rows, NEW m \in Metrics
               PROVE  Least(r, m)'
      BY DEF MinIsLeastSinceZero, Least
  <2> QED
      BY <1>1, LeastKept
<1> QED
    BY <1>2, <1>3, FollowedInductive, PTL DEF Spec

================================================================================
