--------------------------- MODULE CentralControl ---------------------------
(***************************************************************************)
(* Central control (engine/central_control.py): one controller assigns a   *)
(* job and a destination to a vehicle, or a job to a machine, as often as  *)
(* it likes within a boundary, and then lets physics advance.  A task      *)
(* holds room at its destination from the assignment to the delivery.  The *)
(* controller may choose any candidate it is offered.                      *)
(***************************************************************************)
EXTENDS FactoryCore

VARIABLES
    phase,    \* where decisions() and the driver loop are
    task,     \* assignments[v]: the job and the destination of a vehicle
    onsite    \* vehicles standing at a port of their target

vars == <<core, phase, task, onsite>>

Tasks == [job : Jobs, destination : PreBuffers \cup Outputs]

ASSUME TaskAssumption == None \notin Tasks

----------------------------------------------------------------------------
ReservedJobs == {task[v].job : v \in {w \in Vehicles : task[w] # None}}

\* commitments(): vehicles that head for an owner or hold it as destination.
Commitments(b) ==
    {v \in Vehicles : target[v] = b \/ (task[v] # None /\ task[v].destination = b)}

\* quota(destination) > 0
HasRoom(b) ==
    \/ b \in Outputs
    \/ \E m \in Machines :
          /\ Pre[m] = b
          /\ Cardinality(StationItems(m)) + Cardinality(Commitments(b)) < StationCapacity(m)

\* Mutant: a job that another vehicle is on its way to is offered again.
OfferedTwice(v, j) ==
    IF cargo[v] # None THEN j = cargo[v]
    ELSE \E b \in Sources : EligibleOwner(b) /\ j \in Ready(b)

\* Jobs that may be assigned to a vehicle: its cargo, or one ready at a source.
Offered(v, j) ==
    IF cargo[v] # None THEN j = cargo[v]
    ELSE /\ j \notin ReservedJobs
         /\ \E b \in Sources : EligibleOwner(b) /\ j \in Ready(b)

----------------------------------------------------------------------------
\* reconcile(), for tasks t and targets g, cargo `held` and locations `where`.

Broken(t, v) == t[v] # None /\ ~EligibleOwner(t[v].destination)

Aboard(t, held, v) == t[v] # None /\ held[v] = t[v].job

\* Mutant: an empty vehicle is taken to have delivered.
DeliveredWhenEmpty(t, held, where, v) == t[v] # None /\ held[v] = None

Delivered(t, held, where, v) ==
    t[v] # None /\ held[v] = None /\ where[t[v].job] = t[v].destination

TaskAfter(t, held, where) ==
    [v \in Vehicles |->
        IF Broken(t, v) \/ Delivered(t, held, where, v) THEN None ELSE t[v]]

\* Mutant: the destination of a job taken aboard is not targeted.
TargetAfterLoading(t, g, held) ==
    [v \in Vehicles |-> IF Broken(t, v) THEN None ELSE g[v]]

\* A job that came aboard sets the target of its vehicle to its destination.
TargetAfter(t, g, held) ==
    [v \in Vehicles |->
        IF Broken(t, v) THEN None
        ELSE IF Aboard(t, held, v) /\ g[v] = None THEN t[v].destination ELSE g[v]]

Reconcile ==
    /\ task' = TaskAfter(task, cargo, loc)
    /\ target' = TargetAfter(task, target, cargo)
    /\ service' = [v \in Vehicles |-> IF Broken(task, v) THEN None ELSE service[v]]
    /\ UNCHANGED physical

----------------------------------------------------------------------------
BeginBoundary ==
    /\ phase = "reconcile"
    /\ Reconcile
    /\ phase' = "assign"
    /\ UNCHANGED onsite

\* choose() of a processing task.
Process(m) ==
    /\ phase = "assign"
    /\ \E j \in Jobs \ ReservedJobs : StartOperation(m, j)
    /\ UNCHANGED <<phase, task, onsite>>

\* choose() of a transport task: an empty vehicle heads for the job.
Assign(v, j, b) ==
    /\ phase = "assign"
    /\ task[v] = None /\ service[v] = None /\ target[v] = None
    /\ Offered(v, j)
    /\ b \in DestinationOwners(j) /\ EligibleOwner(b) /\ HasRoom(b)
    /\ task' = [task EXCEPT ![v] = [job |-> j, destination |-> b]]
    /\ target' = [target EXCEPT ![v] = IF cargo[v] # None THEN b ELSE loc[j]]
    /\ UNCHANGED <<physical, service, phase, onsite>>

\* choose() of ADVANCE; the vehicles of `here` stand at their target.
ChooseAdvance ==
    /\ phase = "assign"
    /\ Reconcile
    /\ \E here \in SUBSET {v \in Vehicles : target'[v] # None} : onsite' = here
    /\ phase' = "service"

Serviceable(v) ==
    /\ v \in onsite /\ task[v] # None /\ service[v] = None
    /\ IF cargo[v] # None THEN FreeDrop(target[v]) ELSE task[v].job \in Ready(target[v])

StartTaskService(v) ==
    /\ phase = "service"
    /\ Serviceable(v)
    /\ StartService(v, IF cargo[v] # None THEN "drop_off" ELSE "pickup",
                    task[v].job, target[v])
    /\ UNCHANGED <<phase, task, onsite>>

\* before_services() and complete_services(): tasks whose destination is down
\* at the new tick, and unloading services of a machine that is.
Cancelled(dn) ==
    {v \in Vehicles :
        \E m \in dn :
            \/ task[v] # None /\ task[v].destination = Pre[m]
            \/ /\ service[v] # None /\ service[v].kind = "drop_off"
               /\ service[v].owner \in {Pre[m], Post[m]}}

\* advance(): one physical interval; after_services() reconciles.
Advance ==
    /\ phase = "service"
    /\ \A v \in Vehicles : ~Serviceable(v)
    /\ \E fin \in SUBSET Running, dn \in SUBSET Machines, rel \in Releasable :
          LET gone == Cancelled(dn)
              t == [v \in Vehicles |-> IF v \in gone THEN None ELSE task[v]]
              g == [v \in Vehicles |->
                      IF v \in gone \/ service[v] # None THEN None ELSE target[v]]
          IN  /\ Interval(gone, fin, dn, rel)
              /\ task' = TaskAfter(t, cargo', loc')
              /\ target' = TargetAfter(t, g, cargo')
    /\ onsite' = {}
    /\ phase' = IF shipped' = Jobs THEN "ended" ELSE "reconcile"

\* The driver leaves its loop when core.done holds.
Ended == phase = "ended" /\ UNCHANGED vars

----------------------------------------------------------------------------
Init ==
    /\ CoreInit
    /\ phase = "reconcile"
    /\ task = [v \in Vehicles |-> None]
    /\ onsite = {}

Next ==
    \/ BeginBoundary
    \/ \E m \in Machines : Process(m)
    \/ \E v \in Vehicles, j \in Jobs, b \in Buffers : Assign(v, j, b)
    \/ ChooseAdvance
    \/ \E v \in Vehicles : StartTaskService(v)
    \/ Advance
    \/ Ended

Spec == Init /\ [][Next]_vars

----------------------------------------------------------------------------
(* Properties.                                                             *)

TypeOK ==
    /\ CoreTypeOK
    /\ phase \in {"reconcile", "assign", "service", "ended"}
    /\ task \in [Vehicles -> Tasks \cup {None}]
    /\ onsite \subseteq Vehicles

\* A task owns its job: it is aboard, or it waits where the vehicle is heading;
\* no two tasks share a job, and only a vehicle with a task has a target.
TaskOwnsJob ==
    \A v \in Vehicles :
        /\ task[v] = None => target[v] = None
        /\ task[v] # None =>
              /\ \A w \in Vehicles \ {v} : task[w] # None => task[w].job # task[v].job
              /\ task[v].destination \in DestinationOwners(task[v].job)
              /\ \/ cargo[v] = task[v].job /\ target[v] = task[v].destination
                 \/ /\ cargo[v] = None
                    /\ target[v] \in Sources
                    /\ task[v].job \in store[target[v]]

\* The jobs at a station, the deliveries under way and those whose job is yet
\* to be collected fit the station (check_reservations).
StationAdmission ==
    \A m \in Machines :
        Cardinality(StationItems(m)) + Cardinality(Commitments(Pre[m]))
            <= StationCapacity(m)

\* A task survives from its assignment to its delivery; only a breakdown of
\* its destination ends it earlier, even if its job is being loaded.
TaskKept ==
    [][\A v \in Vehicles : task[v] # None /\ task'[v] # task[v] =>
          /\ task'[v] = None
          /\ \/ loc'[task[v].job] = task[v].destination
             \/ \E m \in down \cup down' : task[v].destination = Pre[m]]_vars

\* A job is not taken aboard for a destination that breaks at the very tick at
\* which its loading completes (before_services: "Cancel before a pending
\* pickup transfers").
NoPickupForBroken ==
    [][\A v \in Vehicles :
          task[v] # None /\ cargo[v] = None /\ cargo'[v] = task[v].job
          => \A m \in down' : task[v].destination # Pre[m]]_vars

\* While a delivery is promised to a station with a full pre buffer its machine
\* is not blocked, so the pre buffer drains.
ReservedDeliveryDrains ==
    \A m \in Machines :
        Commitments(Pre[m]) # {} /\ Cardinality(store[Pre[m]]) = Capacity[Pre[m]]
        => mstat[m] # "BLOCKED"

----------------------------------------------------------------------------
(* Liveness, for a controller that does not leave a machine unused for ever.*)

Finishes(m) == Advance /\ mstat[m] = "PROCESSING" /\ mstat'[m] # "PROCESSING"
Repairs(m) == Advance /\ m \in down /\ m \notin down'
Arrives(v) == ChooseAdvance /\ v \in onsite'

FairSpec ==
    /\ Spec /\ WF_vars(Next)
    /\ \A m \in Machines : SF_vars(Process(m)) /\ SF_vars(Finishes(m)) /\ SF_vars(Repairs(m))
    /\ \A v \in Vehicles : SF_vars(Arrives(v))

\* Every task is completed or cancelled, whatever the controller assigns.
TaskEnds == \A v \in Vehicles : task[v] # None ~> task[v] = None
=============================================================================
