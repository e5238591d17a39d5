----------------------------- MODULE MCTraffic -----------------------------
(***************************************************************************)
(* Four vehicles and two owners on a ring of four cells with a dead end.   *)
(***************************************************************************)
EXTENDS Traffic

CONSTANTS v1, v2, v3, v4, left, right

FourVehicles == {v1, v2, v3, v4}

\* A road of 2 x 2 cells and a lane of one cell that leads into it.
Road == {<<0, 0>>, <<1, 0>>, <<0, 1>>, <<1, 1>>, <<2, 0>>}

\* Cells that differ by one step.
Beside ==
    [c \in Road |-> {d \in Road : <<d[1] - c[1], d[2] - c[2]>>
                                    \in {<<1, 0>>, <<-1, 0>>, <<0, 1>>, <<0, -1>>}}]

TwoPorts == left :> {<<0, 0>>, <<0, 1>>} @@ right :> {<<2, 0>>}

Symmetry == Permutations(FourVehicles)
=============================================================================
