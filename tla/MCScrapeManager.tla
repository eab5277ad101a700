---------------------------- MODULE MCScrapeManager ----------------------------
(* Instances of ScrapeManager for TLC. *)
EXTENDS ScrapeManager

CONSTANTS
    t1, t2,     \* targets
    g1, g2, g3  \* goroutines
================================================================================
