----------------------------- MODULE MCNodeTargets -----------------------------
(* Instances of NodeTargets for TLC. *)
EXTENDS NodeTargets

CONSTANTS
    n1,         \* a node
    g1, g2, g3  \* goroutines
================================================================================
