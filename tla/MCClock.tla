------------------------------ MODULE MCClock ------------------------------
(***************************************************************************)
(* A machine with overlapping outages, two vehicles, and releases that     *)
(* fall into outages, operations and waits.                                *)
(***************************************************************************)
EXTENDS FactoryClock, TLC

CONSTANTS j1, j2, m1, v1, v2

TwoReleases == j1 :> 0 @@ j2 :> 4

TwoOutages ==
    {[machine |-> m1, start |-> 3, end |-> 6], [machine |-> m1, start |-> 5, end |-> 7]}
=============================================================================
