---------------------------- MODULE FactoryCore ----------------------------
(***************************************************************************)
(* Production physics of the factory: engine/production.py and             *)
(* engine/physical_services.py.  Jobs, machines, buffers and vehicles, the *)
(* start of an operation, the one-tick loading and unloading services, and *)
(* the physical interval that completes services, finishes operations and  *)
(* crosses the next boundary.  Who reserves what is left to the modules    *)
(* that extend this one (BaseNegotiation, CentralControl).                 *)
(*                                                                         *)
(* Positions on the grid, processing durations and the calendar of outages *)
(* and releases are abstracted to nondeterministic choices; the slots of a *)
(* buffer are pooled into one capacity.                                    *)
(***************************************************************************)
EXTENDS Integers, FiniteSets, Sequences

CONSTANTS
    Jobs,        \* one job per demand: an attempt is never repeated
    Machines,
    Vehicles,
    Inputs,      \* buffers with role system_input
    Outputs,     \* buffers with role system_output
    Pre,         \* the machine_pre buffer of each machine
    Post,        \* the machine_post buffer of each machine
    Capacity,    \* slots of each buffer; an unlimited buffer has at least |Jobs|
    OpTypes,
    Route,       \* operation types of each job, in order
    Capable,     \* operation types of each machine
    InputOf,     \* the input each job arrives at
    Rank,        \* release order of the jobs (release tick, then demand id)
    Outages,     \* number of outages declared for each machine
    None

PreBuffers == {Pre[m] : m \in Machines}
PostBuffers == {Post[m] : m \in Machines}
Buffers == PreBuffers \cup PostBuffers \cup Inputs \cup Outputs

Unreleased == "unreleased"
Queued == "queue"
Locations == {Unreleased, Queued} \cup Buffers \cup Machines \cup Vehicles

Services == [kind : {"pickup", "drop_off"}, job : Jobs, owner : Buffers]

\* Identities of jobs, machines, buffers and vehicles never collide.
ASSUME IdentityAssumption ==
    /\ None \notin Jobs \cup Buffers \cup Services
    /\ Machines \cap Vehicles = {}
    /\ Buffers \cap (Machines \cup Vehicles) = {}
    /\ {Unreleased, Queued} \cap (Buffers \cup Machines \cup Vehicles) = {}

\* Every machine owns one pre and one post buffer, no buffer has two roles.
ASSUME LayoutAssumption ==
    /\ IsFiniteSet(Jobs) /\ IsFiniteSet(Vehicles) /\ Vehicles # {}
    /\ \A m, n \in Machines : m # n => Pre[m] # Pre[n] /\ Post[m] # Post[n]
    /\ PreBuffers \cap PostBuffers = {}
    /\ Inputs \cap (PreBuffers \cup PostBuffers \cup Outputs) = {}
    /\ Outputs \cap (PreBuffers \cup PostBuffers) = {}
    /\ Capacity \in [Buffers -> Nat]

\* Routes use declared operation types; every demand names one input.
ASSUME DemandAssumption ==
    /\ Route \in [Jobs -> Seq(OpTypes)]
    /\ InputOf \in [Jobs -> Inputs]
    /\ Rank \in [Jobs -> Nat]
    /\ \A j, k \in Jobs : Rank[j] = Rank[k] => j = k
    /\ Outages \in [Machines -> Nat]

VARIABLES
    loc,      \* jobs[j]["location"], and Unreleased before _enqueue creates the row
    step,     \* jobs[j]["step"]: operations completed
    store,    \* storage[b], as the set of jobs held in all its slots
    mstat,    \* machine_state[m]["status"]
    mjob,     \* machine_state[m]["job"]
    down,     \* machines whose machine_state[m]["down"] is true
    cargo,    \* agvs[v]["job"]
    target,   \* the owner in agvs[v]["target"]
    service,  \* agvs[v]["service"]
    shipped,  \* core.shipped, which is also core.completed
    outages   \* declared outages that have not started yet

physical == <<loc, step, store, mstat, mjob, down, cargo, shipped, outages>>
core == <<loc, step, store, mstat, mjob, down, cargo, target, service, shipped, outages>>

----------------------------------------------------------------------------
\* What the physics says about a state.

\* Operation s of job j can be executed by machine m.
Needs(j, s, m) == s < Len(Route[j]) /\ Route[j][s + 1] \in Capable[m]

RouteDone(j) == step[j] >= Len(Route[j])

MachineChoices(m) ==
    IF m \in down \/ mstat[m] \notin {"IDLE", "READY"} THEN {}
    ELSE {j \in IF mjob[m] # None THEN {mjob[m]} ELSE store[Pre[m]] :
             Needs(j, step[j], m)}

\* Mutant: any machine that occurs on the route, whatever is due next.
DestinationOwnersAnyOrder(j) ==
    IF RouteDone(j) THEN Outputs
    ELSE {Pre[m] : m \in {n \in Machines : \E s \in 0 .. Len(Route[j]) : Needs(j, s, n)}}

DestinationOwners(j) ==
    IF RouteDone(j) THEN Outputs
    ELSE {Pre[m] : m \in {n \in Machines : Needs(j, step[j], n)}}

Sources == Inputs \cup PostBuffers

\* Jobs at one station: in its pre buffer, its post buffer or on the machine.
StationItems(m) ==
    store[Pre[m]] \cup store[Post[m]] \cup ({mjob[m]} \ {None})

StationCapacity(m) == 1 + Capacity[Pre[m]] + Capacity[Post[m]]

\* The machine's own started job, not yet released to the post buffer.
Started(m) ==
    {j \in Jobs : /\ mjob[m] = j /\ loc[j] = m /\ mstat[m] # "IDLE"
                  /\ j \notin store[Post[m]]}

\* A down machine keeps only a post buffer that holds jobs as an owner.
EligibleOwner(b) ==
    \A m \in down : b # Pre[m] /\ (b = Post[m] => store[b] # {})

ServiceOf(kind, b) ==
    {v \in Vehicles : /\ service[v] # None
                      /\ service[v].kind = kind
                      /\ service[v].owner = b}

\* Mutant: no job is bound by a loading service.
BoundNever == {}

Bound ==
    {service[v].job : v \in {w \in Vehicles : /\ service[w] # None
                                              /\ service[w].kind = "pickup"}}

Ready(b) == store[b] \ Bound

FreeDrop(b) ==
    Cardinality(store[b]) + Cardinality(ServiceOf("drop_off", b)) < Capacity[b]

----------------------------------------------------------------------------
\* Starting an operation and starting a service.

\* ProductionSimulator._start: the job leaves the pre buffer, or is the one
\* retained on the machine.
StartOperation(m, j) ==
    /\ j \in MachineChoices(m)
    /\ store' = [store EXCEPT ![Pre[m]] = @ \ {j}]
    /\ loc' = [loc EXCEPT ![j] = m]
    /\ mjob' = [mjob EXCEPT ![m] = j]
    /\ mstat' = [mstat EXCEPT ![m] = "PROCESSING"]
    /\ UNCHANGED <<step, down, cargo, target, service, shipped, outages>>

StartService(v, kind, j, b) ==
    /\ service' = [service EXCEPT ![v] = [kind |-> kind, job |-> j, owner |-> b]]
    /\ UNCHANGED <<physical, target>>

----------------------------------------------------------------------------
\* The physical interval.  `gone` is the set of vehicles whose service is
\* cancelled at the new tick before any transfer happens.

Transferring(gone) == {v \in Vehicles \ gone : service[v] # None}

Loading(gone) == {v \in Transferring(gone) : service[v].kind = "pickup"}

Unloading(gone) == {v \in Transferring(gone) : service[v].kind = "drop_off"}

LoadedJobs(gone) == {service[v].job : v \in Loading(gone)}

UnloadedJobs(gone, b) ==
    {service[v].job : v \in {w \in Unloading(gone) : service[w].owner = b}}

\* Contents of buffer b once every service has been transferred.
AfterServices(gone, b) == (store[b] \ LoadedJobs(gone)) \cup UnloadedJobs(gone, b)

\* Operations that run in this interval and can complete at its end: the
\* machine was not down when the interval began.
Running == {m \in Machines \ down : mstat[m] = "PROCESSING"}

StepAfter(fin) ==
    [j \in Jobs |-> IF \E m \in fin : mjob[m] = j THEN step[j] + 1 ELSE step[j]]

Blocked(fin) == fin \cup {m \in Machines : mstat[m] = "BLOCKED"}

\* A job whose next operation its machine can execute stays on the machine.
Retained(fin) == {m \in Blocked(fin) : Needs(mjob[m], StepAfter(fin)[mjob[m]], m)}

Releasing(gone, fin) ==
    {m \in Blocked(fin) \ Retained(fin) :
        Cardinality(AfterServices(gone, Post[m])) < Capacity[Post[m]]}

\* Jobs waiting for admission, first in first out per input: a job enters if
\* fewer jobs of its input are ahead of it than the input has free slots.
Waiting(rel) == rel \cup {j \in Jobs : loc[j] = Queued}

Ahead(rel, j) == {k \in Waiting(rel) : InputOf[k] = InputOf[j] /\ Rank[k] < Rank[j]}

\* Mutant: the last free slot of an input is never used.
AdmittedOneShort(gone, rel) ==
    {j \in Waiting(rel) :
        Cardinality(Ahead(rel, j)) + Cardinality(AfterServices(gone, InputOf[j])) + 1
            < Capacity[InputOf[j]]}

Admitted(gone, rel) ==
    {j \in Waiting(rel) :
        Cardinality(Ahead(rel, j)) + Cardinality(AfterServices(gone, InputOf[j]))
            < Capacity[InputOf[j]]}

\* Demands are released in the order of their release tick.
Releasable ==
    {rel \in SUBSET {j \in Jobs : loc[j] = Unreleased} :
        \A j \in rel : \A k \in Jobs :
            loc[k] = Unreleased /\ Rank[k] < Rank[j] => k \in rel}

\* Where the job goes: to the vehicle that loads it, the buffer it is unloaded
\* into, the post buffer of its machine, its input, or the waiting queue.
Loader(gone, j) == CHOOSE v \in Loading(gone) : service[v].job = j
Receiver(gone, j) == CHOOSE b \in Buffers : j \in UnloadedJobs(gone, b)
Releaser(gone, fin, j) == CHOOSE m \in Releasing(gone, fin) : mjob[m] = j

LocationAfter(gone, fin, rel, j) ==
    IF \E v \in Loading(gone) : service[v].job = j THEN Loader(gone, j)
    ELSE IF \E v \in Unloading(gone) : service[v].job = j THEN Receiver(gone, j)
    ELSE IF \E m \in Releasing(gone, fin) : mjob[m] = j THEN Post[Releaser(gone, fin, j)]
    ELSE IF j \in Admitted(gone, rel) THEN InputOf[j]
    ELSE IF j \in rel THEN Queued
    ELSE loc[j]

\* For fin \subseteq Running and rel \in Releasable.
\* ProductionSimulator.step: the tick advances, remaining services transfer
\* (complete_services, _transfer), running operations may complete (_advance)
\* and the boundary is crossed (_boundary): machine availability becomes dn,
\* the demands of rel are released and admitted, finished jobs are retained or
\* released to the post buffer.
Interval(gone, fin, dn, rel) ==
    /\ \A m \in dn \ down : outages[m] > 0
    /\ cargo' = [v \in Vehicles |->
                    IF v \in Loading(gone) THEN service[v].job
                    ELSE IF v \in Unloading(gone) THEN None ELSE cargo[v]]
    /\ step' = StepAfter(fin)
    /\ mstat' = [m \in Machines |->
                    IF m \in Retained(fin) THEN "READY"
                    ELSE IF m \in Releasing(gone, fin) THEN "IDLE"
                    ELSE IF m \in fin THEN "BLOCKED" ELSE mstat[m]]
    /\ mjob' = [m \in Machines |->
                    IF m \in Releasing(gone, fin) THEN None ELSE mjob[m]]
    /\ store' = [b \in Buffers |->
                    AfterServices(gone, b)
                    \cup {mjob[m] : m \in {n \in Releasing(gone, fin) : Post[n] = b}}
                    \cup {j \in Admitted(gone, rel) : InputOf[j] = b}]
    /\ loc' = [j \in Jobs |-> LocationAfter(gone, fin, rel, j)]
    /\ shipped' = shipped \cup UNION {UnloadedJobs(gone, b) : b \in Outputs}
    /\ service' = [v \in Vehicles |-> None]
    /\ down' = dn
    /\ outages' = [m \in Machines |->
                    IF m \in dn \ down THEN outages[m] - 1 ELSE outages[m]]

\* The state after __init__: nothing has moved, the demands of rel are
\* released and admitted at tick 0, the machines of dn are down.
CoreInit ==
    \E rel \in SUBSET Jobs, dn \in SUBSET Machines :
        LET entered == {j \in rel :
                          Cardinality({k \in rel : InputOf[k] = InputOf[j]
                                                   /\ Rank[k] < Rank[j]})
                              < Capacity[InputOf[j]]}
        IN  /\ \A j \in rel, k \in Jobs : Rank[k] < Rank[j] => k \in rel
            /\ \A m \in dn : Outages[m] > 0
            /\ loc = [j \in Jobs |-> IF j \in entered THEN InputOf[j]
                                     ELSE IF j \in rel THEN Queued ELSE Unreleased]
            /\ step = [j \in Jobs |-> 0]
            /\ store = [b \in Buffers |-> {j \in entered : InputOf[j] = b}]
            /\ mstat = [m \in Machines |-> "IDLE"]
            /\ mjob = [m \in Machines |-> None]
            /\ down = dn
            /\ outages = [m \in Machines |-> IF m \in dn THEN Outages[m] - 1 ELSE Outages[m]]
            /\ cargo = [v \in Vehicles |-> None]
            /\ target = [v \in Vehicles |-> None]
            /\ service = [v \in Vehicles |-> None]
            /\ shipped = {}

----------------------------------------------------------------------------
(* Properties of the physical state.                                       *)

CoreTypeOK ==
    /\ loc \in [Jobs -> Locations]
    /\ step \in [Jobs -> Nat]
    /\ \A j \in Jobs : step[j] <= Len(Route[j])
    /\ store \in [Buffers -> SUBSET Jobs]
    /\ mstat \in [Machines -> {"IDLE", "READY", "PROCESSING", "BLOCKED"}]
    /\ mjob \in [Machines -> Jobs \cup {None}]
    /\ down \subseteq Machines
    /\ cargo \in [Vehicles -> Jobs \cup {None}]
    /\ target \in [Vehicles -> Buffers \cup {None}]
    /\ service \in [Vehicles -> Services \cup {None}]
    /\ shipped \subseteq Jobs
    /\ outages \in [Machines -> Nat]

\* A job has one physical owner, and its own location, the storage, the
\* machines and the vehicles agree on it (ProductionSimulator._check); it is
\* shipped exactly while it lies in an output.
Ownership ==
    /\ \A j \in Jobs :
          /\ \A b \in Buffers : j \in store[b] <=> loc[j] = b
          /\ \A m \in Machines : mjob[m] = j <=> loc[j] = m
          /\ \A v \in Vehicles : cargo[v] = j <=> loc[j] = v
    /\ shipped = {j \in Jobs : loc[j] \in Outputs}

\* A machine is idle exactly when it has no job, and what it processes or is
\* ready to process is an operation it can execute.
WorkFits ==
    \A m \in Machines :
        /\ mjob[m] = None <=> mstat[m] = "IDLE"
        /\ mstat[m] \in {"READY", "PROCESSING"} => Needs(mjob[m], step[mjob[m]], m)

\* A service serves the reservation of its vehicle; a loading service has a
\* job of its own that is still in the buffer, an unloading one the cargo.
ServiceBinding ==
    \A v \in Vehicles : service[v] # None =>
        /\ service[v].owner = target[v]
        /\ service[v].kind = "drop_off" => service[v].job = cargo[v]
        /\ service[v].kind = "pickup" =>
              /\ cargo[v] = None
              /\ service[v].job \in store[service[v].owner]
              /\ \A w \in Vehicles \ {v} :
                    service[w] # None => service[w].job # service[v].job

\* A reservation suits its vehicle: an empty one heads for a source, a loaded
\* one for a buffer that the next operation of its cargo calls for.
TargetSuitsCargo ==
    \A v \in Vehicles : target[v] # None =>
        IF cargo[v] = None THEN target[v] \in Sources
        ELSE target[v] \in DestinationOwners(cargo[v])

\* Jobs in a buffer and the unloading services that hold one of its slots fit
\* its capacity (check_reservations).
SlotLocks ==
    \A b \in Buffers :
        Cardinality(store[b]) + Cardinality(ServiceOf("drop_off", b)) <= Capacity[b]

\* Work waits on the right side of a machine: a job in the pre buffer has its
\* next operation there, one in the post buffer must leave the station.
BufferPurpose ==
    \A m \in Machines :
        /\ \A j \in store[Pre[m]] : Needs(j, step[j], m)
        /\ \A j \in store[Post[m]] : ~Needs(j, step[j], m)

\* A machine holds a finished job only because its post buffer is full.
BlockedMeansFull ==
    \A m \in Machines : mstat[m] = "BLOCKED" =>
        /\ Cardinality(store[Post[m]]) = Capacity[Post[m]]
        /\ ~Needs(mjob[m], step[mjob[m]], m)

\* Jobs of one input enter it in the order of their release.
AdmittedInOrder ==
    \A j, k \in Jobs :
        /\ InputOf[j] = InputOf[k] /\ Rank[j] < Rank[k]
        /\ loc[j] \in {Unreleased, Queued}
        => loc[k] \in {Unreleased, Queued}

\* Whatever reserves and assigns, every job lives the life of JobLifecycle:
\* routes are executed in order on capable machines, and only a job whose
\* route is complete is shipped.
Lifecycle == INSTANCE JobLifecycle WITH place <- loc, done <- step
LifecycleSpec == Lifecycle!Spec
=============================================================================
