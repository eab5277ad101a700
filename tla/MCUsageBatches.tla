---------------------------- MODULE MCUsageBatches -----------------------------
(* Instances of UsageBatches for TLC. *)
EXTENDS UsageBatches, TLC

CONSTANTS
    r1, r2,         \* rows
    b1, b2, b3, b4  \* batches

\* A cfg cannot write negative numbers.
Signed == {-1, 0, 1, 2}

BatchSymmetry == Permutations({b1, b2, b3, b4})
================================================================================
