------------------------------ MODULE Traffic ------------------------------
(***************************************************************************)
(* SharedMover.moves (traffic/rule_mover.py) above the joint resolution of *)
(* physics: goals and next cells of all vehicles, with recursive           *)
(* displacement and rollback.  Who has precedence (rush, ready, due date   *)
(* against waiting time, rotation) is left open: any order of the vehicles *)
(* may come up, and so may any traffic view of targets and ready services. *)
(***************************************************************************)
EXTENDS JointMoves, Sequences, SequencesExt, TLC

CONSTANTS
    Owners,      \* targets of vehicles: sources, stations, outputs
    Ports,       \* [Owners -> their port cells]
    Ticks,       \* the tick, as far as choices among equal cells go (modulo 7)
    None         \* no target

ASSUME PortType == Ports \in [Owners -> SUBSET Cells] /\ None \notin Owners \cup Cells

VARIABLES
    mover,      \* the command comes from SharedMover
    plan,       \* view and goals of the call of moves(); None outside one
    order,      \* vehicles that moves() still has to serve
    assigned,   \* the cell each vehicle has, None as long as it has none
    stack       \* calls of reserve(): vehicle, choices tried, `saved`

vars == <<moveVars, mover, plan, order, assigned, stack>>

Nobody == [v \in Vehicles |-> None]

----------------------------------------------------------------------------
\* base_routes.py: breadth-first distances on the road.

Ball(goals) ==
    LET within[n \in 0..Cardinality(Cells)] ==
            IF n = 0 THEN goals
            ELSE within[n - 1] \cup UNION {Neighbors[c] : c \in within[n - 1]}
    IN within

\* distances(goals)[c], for a road that is connected.
Distances(goals) ==
    LET within == Ball(goals)
    IN [c \in Cells |-> CHOOSE n \in 0..Cardinality(Cells) :
                           c \in within[n] /\ \A i \in 0..(n - 1) : c \notin within[i]]

DistanceTo == [g \in Cells |-> Distances({g})]
DistanceToOwner == [o \in Owners |-> Distances(Ports[o])]

ASSUME Connected == \A g, c \in Cells : c \in Ball({g})[Cardinality(Cells)]

\* Tuples of coordinates in their order.
Place(c) == 8 * c[1] + c[2]

Best(S, Key(_)) == CHOOSE c \in S : \A d \in S \ {c} : Key(c) < Key(d)

PortCells == UNION {Ports[o] : o \in Owners}

----------------------------------------------------------------------------
\* A view is the part of traffic_view() that moves() uses: the target of
\* every vehicle, which services could start, and the vehicles in service.
Views ==
    {s \in [owner : [Vehicles -> Owners \cup {None}], ready : SUBSET Vehicles, service : SUBSET Vehicles] :
        /\ s.ready \cap s.service = {}
        /\ \A v \in s.ready \cup s.service : s.owner[v] # None
        /\ \A v \in s.service : cell[v] \in Ports[s.owner[v]]}

\* Free for v: not chosen by a vehicle before it, nor occupied by another one.
FreeFor(v, chosen) == {c \in Cells \ chosen : \A w \in Vehicles \ {v} : cell[w] # c}

\* The port, the parking cell or the current cell that v heads for.
Goal(v, view, chosen) ==
    LET free == FreeFor(v, chosen)
        ports == IF v \in view.ready THEN free \cap Ports[view.owner[v]] ELSE {}
        parking == free \ PortCells
        far(c) == 20 * DistanceTo[cell[v]][c]
                  + IF view.owner[v] = None THEN 0 ELSE 3 * DistanceToOwner[view.owner[v]][c]
    IN IF v \in view.service THEN cell[v]
       ELSE IF ports # {} THEN Best(ports, LAMBDA c : 64 * DistanceTo[c][cell[v]] + Place(c))
       ELSE IF parking # {} THEN Best(parking, LAMBDA c : 64 * far(c) + Place(c))
       ELSE cell[v]

Goals(view, vs) ==
    FoldLeft(LAMBDA g, v : g @@ (v :> Goal(v, view, {g[w] : w \in DOMAIN g})), <<>>, vs)

----------------------------------------------------------------------------
\* The choices of reserve(v), and how v likes them: the least comes first.
NextCells(v) == Neighbors[cell[v]] \cup {cell[v]}

Cost(v, c) ==
    10000 * DistanceTo[plan.goal[v]][c] + (IF c = cell[v] THEN 0 ELSE 1000)
    + 100 * ((c[1] + 3 * c[2] + plan.now) % 7) + Place(c)

Taken(c) == {k \in Vehicles : assigned[k] = c}

Occupant(v, c) == {w \in Vehicles \ {v} : cell[w] = c}

\* Calls of reserve() that wait for a call of it: `stack` without its top.
Waiting == {stack[i].vehicle : i \in 1..(Len(stack) - 1)}

\* Mutant: a vehicle in service may be displaced.
RevocableInService(k) == k \notin plan.ready /\ assigned[k] = cell[k]

\* A parked vehicle: its reservation of its own cell may be revoked.
Revocable(k) == k \notin plan.ready /\ k \notin plan.service /\ assigned[k] = cell[k]

\* v may enter c: whoever has it is parked, and who stands there neither waits
\* for v nor is on its way to the cell of v.
Open(v, c) ==
    /\ \A k \in Taken(c) : Revocable(k)
    /\ \A w \in Occupant(v, c) : w \notin Waiting /\ assigned[w] # cell[v]

\* `assigned` with c for v, and without the reservation of a parked vehicle.
Taking(v, c) ==
    [k \in Vehicles |-> IF k = v THEN c ELSE IF k \in Taken(c) THEN None ELSE assigned[k]]

\* The choices that v has not tried yet.
Untried(f) == {c \in NextCells(f.vehicle) \ f.tried : Open(f.vehicle, c)}

----------------------------------------------------------------------------
Searching == plan # None
Top == stack[Len(stack)]
Unassigned == {v \in Vehicles : assigned[v] = None}

\* moves() is called in the place of a policy: goals for all, and vehicles in
\* service keep their cells.
Plan ==
    /\ ~Searching /\ Awaiting
    /\ order' \in SetToSeqs(Vehicles)
    /\ \E view \in Views, now \in Ticks :
        /\ plan' = [ready |-> view.ready, service |-> view.service,
                    goal |-> Goals(view, order'), now |-> now]
        /\ assigned' = [v \in Vehicles |-> IF v \in view.service THEN cell[v] ELSE None]
    /\ UNCHANGED <<moveVars, mover, stack>>

\* The next vehicle in the order that has no cell yet calls reserve().
Serve ==
    /\ Searching /\ stack = <<>>
    /\ \E i \in DOMAIN order, v \in Unassigned :
        /\ order[i] = v
        /\ \A j \in 1..(i - 1) : order[j] \notin Unassigned
        /\ order' = SubSeq(order, i + 1, Len(order))
        /\ stack' = <<[vehicle |-> v, tried |-> {}, saved |-> assigned]>>
    /\ UNCHANGED <<moveVars, mover, plan, assigned>>

\* The best choice that is left: when nobody is in the way that has no cell yet,
\* all calls return, and else the one in the way has to find a cell first.
Try ==
    /\ Searching /\ stack # <<>>
    /\ \E c \in Untried(Top) :
        LET v == Top.vehicle
            displaced == {w \in Occupant(v, c) : Taking(v, c)[w] = None}
            calling == [vehicle |-> v, tried |-> Top.tried \cup {c}, saved |-> assigned]
        IN /\ \A d \in Untried(Top) \ {c} : Cost(v, c) < Cost(v, d)
           /\ assigned' = Taking(v, c)
           /\ \/ displaced = {} /\ stack' = <<>>
              \/ \E w \in displaced :
                    stack' = Append([stack EXCEPT ![Len(stack)] = calling],
                                    [vehicle |-> w, tried |-> {}, saved |-> assigned'])
    /\ UNCHANGED <<moveVars, mover, plan, order>>

\* Nothing is left to try: the caller takes its attempt back and goes on; a
\* vehicle that was not called by another one waits.
Fail ==
    /\ Searching /\ stack # <<>> /\ Untried(Top) = {}
    /\ IF Len(stack) = 1
       THEN assigned' = [assigned EXCEPT ![Top.vehicle] = cell[Top.vehicle]]
       ELSE assigned' = stack[Len(stack) - 1].saved
    /\ stack' = SubSeq(stack, 1, Len(stack) - 1)
    /\ UNCHANGED <<moveVars, mover, plan, order>>

\* moves() returns: its moves are the command.
Return ==
    /\ Searching /\ stack = <<>> /\ Unassigned = {}
    /\ command' = assigned /\ service' = plan.service /\ mover' = TRUE
    /\ plan' = None /\ order' = <<>> /\ assigned' = Nobody
    /\ UNCHANGED <<cell, stack>>

\* A movement policy that is not the shared mover.
PolicyPropose ==
    /\ ~Searching /\ Propose
    /\ mover' = FALSE /\ UNCHANGED <<plan, order, assigned, stack>>

Execute ==
    /\ ~Searching /\ Step
    /\ mover' = FALSE /\ UNCHANGED <<plan, order, assigned, stack>>

Init ==
    /\ MoveInit /\ mover = FALSE
    /\ plan = None /\ order = <<>>
    /\ assigned = Nobody /\ stack = <<>>

Next == Plan \/ Serve \/ Try \/ Fail \/ Return \/ PolicyPropose \/ Execute

Spec == Init /\ [][Next]_vars

----------------------------------------------------------------------------
\* What the mover asks for, physics does: nothing is invalid and nothing is
\* rejected, so no reservation was built on a vehicle that stays behind.
MoverObeyed == mover => Rejected = {} /\ CellAfter = command
=============================================================================
