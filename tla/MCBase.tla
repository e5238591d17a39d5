------------------------------- MODULE MCBase -------------------------------
(***************************************************************************)
(* Small factories for TLC.  "pair" is two machines with unit buffers, one *)
(* of which can execute everything, and four jobs: two with the same       *)
(* operations in opposite orders and two short ones, more than a station   *)
(* holds.  "live" is the same factory with two jobs, one for each machine. *)
(***************************************************************************)
EXTENDS BaseNegotiation, TLC

CONSTANTS j1, j2, j3, j4, m1, m2, v1, v2, in1, out1, pre1, post1, pre2, post2

PairPre == m1 :> pre1 @@ m2 :> pre2
PairPost == m1 :> post1 @@ m2 :> post2
PairCapacity == pre1 :> 1 @@ post1 :> 1 @@ pre2 :> 1 @@ post2 :> 1
                @@ in1 :> 1 @@ out1 :> 4
PairCapable == m1 :> {"a"} @@ m2 :> {"a", "b"}
PairRoute == j1 :> <<"a", "b">> @@ j2 :> <<"b", "a">> @@ j3 :> <<"b">> @@ j4 :> <<"a">>
PairInputOf == j1 :> in1 @@ j2 :> in1 @@ j3 :> in1 @@ j4 :> in1
PairRank == j1 :> 1 @@ j2 :> 2 @@ j3 :> 3 @@ j4 :> 4
PairOutages == m1 :> 1 @@ m2 :> 0

LiveCapable == m1 :> {"a"} @@ m2 :> {"b"}
LiveRoute == j1 :> <<"a">> @@ j2 :> <<"b">>
LiveInputOf == j1 :> in1 @@ j2 :> in1
LiveRank == j1 :> 1 @@ j2 :> 2
=============================================================================
