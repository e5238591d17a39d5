----------------------------- MODULE JointMoves -----------------------------
(***************************************************************************)
(* How physics resolves the joint movement of all vehicles                 *)
(* (ProductionSimulator.step, engine/production.py): invalid moves, meeting*)
(* and swapping vehicles are rejected, and so is whoever follows a vehicle *)
(* that stays where it is, until nothing changes.  Any mover may propose   *)
(* anything; a vehicle in service is not asked to move.                    *)
(***************************************************************************)
EXTENDS Integers, Fleet

CONSTANTS
    Cells,       \* cells of the road, as pairs of coordinates
    Neighbors    \* [Cells -> cells one step away]

ASSUME RoadType == Neighbors \in [Cells -> SUBSET Cells]
ASSUME NoLoops == \A c \in Cells : c \notin Neighbors[c]

VARIABLES
    cell,        \* where each vehicle stands
    service,     \* vehicles being loaded or unloaded
    command      \* the cell each vehicle is sent to; its own cell is WAIT

moveVars == <<cell, service, command>>

MoveTypeOK ==
    /\ cell \in [Vehicles -> Cells]
    /\ service \subseteq Vehicles
    /\ command \in [Vehicles -> Cells]

----------------------------------------------------------------------------
\* mover_mask(): a move to a neighbouring cell, by a vehicle not in service.
Valid(v) == v \notin service /\ command[v] \in Neighbors[cell[v]]

\* `moves`: the valid moves of the joint command.
Moving == {v \in Vehicles : command[v] # cell[v] /\ Valid(v)}

\* Mutant: only meeting vehicles are noticed, not those that change places.
ConflictsMeeting == {v \in Moving : \E w \in Moving \ {v} : command[w] = command[v]}

\* Mutant: an occupied cell is closed, even when its occupant leaves it.
ConflictsOccupied ==
    {v \in Moving : \E w \in Vehicles \ {v} :
        cell[w] = command[v] \/ (w \in Moving /\ command[w] = command[v])}

\* Two vehicles that meet in a cell, or change places.
Conflicts ==
    {v \in Moving : \E w \in Moving \ {v} :
        command[w] = command[v] \/ (cell[w] = command[v] /\ command[w] = cell[v])}

\* w does not leave its cell.
Stays(w, R) == w \notin Moving \/ w \in R

\* Nobody outside R follows a vehicle that stays.
Closed(R) ==
    \A v \in Moving, w \in Vehicles : w # v /\ cell[w] = command[v] /\ Stays(w, R) => v \in R

\* Mutant: rejections do not cascade beyond the first pass.
RejectedOnce ==
    Conflicts \cup {v \in Moving : \E w \in Vehicles \ {v} :
                       cell[w] = command[v] /\ Stays(w, Conflicts)}

\* The loop of step(): the least set of rejections that is closed.
Rejected ==
    {v \in Moving : \A R \in SUBSET Moving : Conflicts \subseteq R /\ Closed(R) => v \in R}

CellAfter == [v \in Vehicles |-> IF v \in Moving \ Rejected THEN command[v] ELSE cell[v]]

----------------------------------------------------------------------------
\* Every vehicle awaits orders: the previous step is over.
Awaiting == command = cell /\ service = {}

\* A mover proposes a move for every vehicle, while some are in service.  A
\* cell that is no neighbour stands for a direction that leaves the road.
Propose ==
    /\ Awaiting
    /\ service' \in SUBSET Vehicles
    /\ command' \in [Vehicles -> Cells]
    /\ UNCHANGED cell

\* Physics executes what it does not reject.
Step ==
    /\ cell' = CellAfter
    /\ service' = {}
    /\ command' = CellAfter

MoveInit ==
    /\ cell \in [Vehicles -> Cells]
    /\ \A v, w \in Vehicles : cell[v] = cell[w] => v = w
    /\ service = {} /\ command = cell

MoveSpec == MoveInit /\ [][Propose \/ Step]_moveVars

----------------------------------------------------------------------------
\* No two vehicles ever stand in one cell, whatever the mover proposes.
NoCollision == \A v, w \in Vehicles : cell[v] = cell[w] => v = w

\* Vehicles never pass through each other.
NoSwap ==
    [][\A v, w \in Vehicles : v # w => ~(cell'[v] = cell[w] /\ cell'[w] = cell[v])]_moveVars

\* Safe following and non-swapping cycles are allowed
\* (docs/production-runtime.md:95): vehicles that only enter free cells or the
\* cells of one another, and neither meet nor change places, all move.
Following(S) ==
    \A v \in S :
        /\ \A w \in Vehicles : cell[w] = command[v] => w \in S /\ command[w] # cell[v]
        /\ \A w \in Moving \ {v} : command[w] # command[v]

FollowersMove ==
    [][\A S \in SUBSET Moving : Following(S) => \A v \in S : cell'[v] = command[v]]_moveVars
=============================================================================
