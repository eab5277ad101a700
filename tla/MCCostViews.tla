------------------------------ MODULE MCCostViews ------------------------------
(* Instances of CostViews for TLC. *)
EXTENDS CostViews, TLC

CONSTANTS
    n1, n2,     \* nodes
    p1,         \* a pod
    a, b        \* names

\* Two nodes of one name, and a pod that may be on them or elsewhere.
OneName == [n \in Nodes |-> a]
Replaceable == Permutations({n1, n2})

FourOrTwoCores ==
    { [capacity |-> <<4, "none">>, allocatable |-> <<3000, "m">>],
      [capacity |-> <<2, "none">>, allocatable |-> <<2, "none">>] }

\* A request below the average and one above it, and another node.
OneOrTwoCores ==
    { [request |-> <<1, "none">>, nodeName |-> a],
      [request |-> <<2000, "m">>, nodeName |-> a],
      [request |-> <<1, "none">>, nodeName |-> b] }
================================================================================
