------------------------------- MODULE UsageTable ------------------------------
(***************************************************************************)
(* The table "pod_usage_hourly" and its two upserts.  A row is keyed by a  *)
(* pod and an hour and has two halves, for CPU and for memory, filled by   *)
(* different statements: the one that comes first creates the row and      *)
(* leaves the other half at the columns' default, which is 0.  Values are  *)
(* integers of some unit; the generated column avg is total / readings.    *)
(***************************************************************************)
EXTENDS Integers

Metrics == {"cpu", "memory"}

Half == [max : Int, min : Int, total : Int, readings : Nat]
Row == [exists : BOOLEAN, half : [Metrics -> Half]]

DefaultHalf == [max |-> 0, min |-> 0, total |-> 0, readings |-> 0]
NoRow == [exists |-> FALSE, half |-> [m \in Metrics |-> DefaultHalf]]

\* values (..., @v, @v, @v, 1)
Inserted(v) == [max |-> v, min |-> v, total |-> v, readings |-> 1]

\* Mutated form of Merged: a minimum of 0 is not taken for unset.
Merged_ZeroIsMinimum(h, v) ==
    [max      |-> IF h.max > v THEN h.max ELSE v,
     min      |-> IF h.min < v THEN h.min ELSE v,
     total    |-> h.total + v,
     readings |-> h.readings + 1]

\* Mutated form of Merged: the number of readings goes down.
Merged_Decrements(h, v) ==
    [max      |-> IF h.max > v THEN h.max ELSE v,
     min      |-> IF h.min < v /\ h.min # 0 THEN h.min ELSE v,
     total    |-> h.total + v,
     readings |-> h.readings - 1]

\* Mutated form of Merged: the maximum's clause compares the minimum's column.
Merged_ComparesMinimum(h, v) ==
    [max      |-> IF h.min > v THEN h.max ELSE v,
     min      |-> IF h.min < v /\ h.min # 0 THEN h.min ELSE v,
     total    |-> h.total + v,
     readings |-> h.readings + 1]

\* on conflict (pod_uid, timestamp) do update: a minimum of 0 counts as unset.
Merged(h, v) ==
    [max      |-> IF h.max > v THEN h.max ELSE v,
     min      |-> IF h.min < v /\ h.min # 0 THEN h.min ELSE v,
     total    |-> h.total + v,
     readings |-> h.readings + 1]

\* UpsertPodUsedCPU and UpsertPodUsedMemory, for one record.
UpsertPodUsed(row, metric, v) ==
    [exists |-> TRUE,
     half   |-> [row.half EXCEPT ![metric] =
                    IF row.exists THEN Merged(@, v) ELSE Inserted(v)]]
================================================================================
