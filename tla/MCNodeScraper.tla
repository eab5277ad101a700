----------------------------- MODULE MCNodeScraper -----------------------------
(* Instances of NodeScraper for TLC. *)
EXTENDS NodeScraper

CONSTANTS
    u1, u2,     \* pods
    a           \* a name

\* The pods have the same name one after the other.
SharedName == [u \in Pods |-> a]
================================================================================
