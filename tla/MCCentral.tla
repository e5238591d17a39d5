------------------------------ MODULE MCCentral ------------------------------
(***************************************************************************)
(* A small factory for central control: two machines with unit buffers     *)
(* that two jobs visit in opposite orders.                                 *)
(***************************************************************************)
EXTENDS CentralControl, TLC

CONSTANTS j1, j2, m1, m2, v1, v2, in1, out1, pre1, post1, pre2, post2

PairPre == m1 :> pre1 @@ m2 :> pre2
PairPost == m1 :> post1 @@ m2 :> post2
PairCapacity == pre1 :> 1 @@ post1 :> 1 @@ pre2 :> 1 @@ post2 :> 1
                @@ in1 :> 2 @@ out1 :> 2
PairCapable == m1 :> {"a"} @@ m2 :> {"b"}
PairRoute == j1 :> <<"a", "b">> @@ j2 :> <<"b", "a">>
PairInputOf == j1 :> in1 @@ j2 :> in1
PairRank == j1 :> 1 @@ j2 :> 2
PairOutages == m1 :> 1 @@ m2 :> 0
=============================================================================
