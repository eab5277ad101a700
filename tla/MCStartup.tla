------------------------------- MODULE MCStartup -------------------------------
(* Instances of Startup for TLC. *)
EXTENDS Startup

CONSTANTS
    i1, i2, i3,     \* processes
    a, b            \* names of clusters

\* Two processes of cluster a, one of cluster b.
TwoAndOne == [i \in Instances |-> IF i = i3 THEN b ELSE a]
================================================================================
