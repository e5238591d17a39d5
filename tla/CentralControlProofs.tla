----------------------- MODULE CentralControlProofs -----------------------
(***************************************************************************)
(* The safety of central control, for every factory and every controller.  *)
(*                                                                         *)
(* The invariant says that a task owns its job, either waiting where the   *)
(* vehicle is heading or aboard, so that reconcile() finds exactly the     *)
(* tasks that a breakdown or a delivery has ended, and that a service is   *)
(* the service of a task, so that it ends with it.                         *)
(***************************************************************************)
EXTENDS CentralControl, FactoryCoreProofs

\* Services are started last in a boundary, each for the task of its vehicle.
TaskServices ==
    \A v \in Vehicles : service[v] # None =>
        phase = "service" /\ task[v] # None /\ service[v].job = task[v].job

Inv ==
    /\ TypeOK /\ Structure /\ SlotLocks /\ BlockedMeansFull
    /\ ReleasedInOrder /\ AdmittedInOrder
    /\ StationAdmission /\ TaskOwnsJob /\ TaskServices

----------------------------------------------------------------------------
\* Vehicles that hold room are finitely many.
LEMMA CommitmentsFinite ==
    ASSUME NEW b
    PROVE  /\ Commitments(b) \in SUBSET Vehicles
           /\ IsFiniteSet(Commitments(b)) /\ Cardinality(Commitments(b)) \in Nat
<1>1. Commitments(b) \in SUBSET Vehicles
  BY DEF Commitments
<1>2. IsFiniteSet(Commitments(b))
  BY <1>1, LayoutAssumption, FS_Subset
<1>. QED  BY <1>1, <1>2, FS_CardinalityType

\* A station into which nothing comes keeps its admission.
LEMMA QuietStations ==
    ASSUME Structure, Structure', StationAdmission,
           \A m \in Machines : /\ StationItems(m)' \subseteq StationItems(m)
                               /\ Commitments(Pre[m])' \subseteq Commitments(Pre[m])
    PROVE  StationAdmission'
<1>. SUFFICES ASSUME NEW m \in Machines
              PROVE  Cardinality(StationItems(m)') + Cardinality(Commitments(Pre[m])')
                       <= StationCapacity(m)
  BY DEF StationAdmission, StationCapacity
<1>1. /\ StationItems(m) \in SUBSET Jobs /\ StationCapacity(m) \in Nat
      /\ Cardinality(StationItems(m)) \in Nat
  BY StationCount
<1>2. /\ Cardinality(StationItems(m)') <= Cardinality(StationItems(m))
      /\ Cardinality(StationItems(m)') \in Nat
  <2>1. IsFiniteSet(StationItems(m)) /\ IsFiniteSet(StationItems(m)')
    BY <1>1, LayoutAssumption, FS_Subset
  <2>. QED  BY <2>1, FS_Subset, FS_CardinalityType
<1>3. /\ Cardinality(Commitments(Pre[m])') <= Cardinality(Commitments(Pre[m]))
      /\ Cardinality(Commitments(Pre[m])') \in Nat
      /\ Cardinality(Commitments(Pre[m])) \in Nat
  <2>1. IsFiniteSet(Commitments(Pre[m])) /\ IsFiniteSet(Commitments(Pre[m])')
    BY CommitmentsFinite, FS_Subset
  <2>. QED  BY <2>1, FS_Subset, FS_CardinalityType
<1>4. Cardinality(StationItems(m)) + Cardinality(Commitments(Pre[m])) <= StationCapacity(m)
  BY DEF StationAdmission
<1>. QED  BY <1>1, <1>2, <1>3, <1>4

\* What a task says about its vehicle and its job.
LEMMA TaskFacts ==
    ASSUME Inv, NEW v \in Vehicles, task[v] # None
    PROVE  /\ task[v] \in Tasks /\ task[v].job \in Jobs
           /\ task[v].destination \in PreBuffers \cup Outputs
           /\ task[v].destination \notin Sources /\ task[v].destination \in Buffers
           /\ task[v].destination \in DestinationOwners(task[v].job)
           /\ target[v] \in Buffers /\ target[v] # None
           /\ loc[task[v].job] \notin Machines
           /\ cargo[v] = None \/ cargo[v] = task[v].job
           /\ cargo[v] = None => /\ target[v] \in Sources
                                 /\ task[v].job \in store[target[v]]
                                 /\ loc[task[v].job] = target[v]
           /\ cargo[v] # None => /\ target[v] = task[v].destination
                                 /\ loc[task[v].job] = v
<1>1. /\ task[v] \in Tasks /\ task[v].job \in Jobs
      /\ task[v].destination \in PreBuffers \cup Outputs
  BY DEF Inv, TypeOK, Tasks
<1>2. task[v].destination \notin Sources /\ task[v].destination \in Buffers
  BY <1>1, BufferRoles DEF Sources
<1>3. /\ task[v].destination \in DestinationOwners(task[v].job)
      /\ \/ cargo[v] = task[v].job /\ target[v] = task[v].destination
         \/ /\ cargo[v] = None
            /\ target[v] \in Sources
            /\ task[v].job \in store[target[v]]
  BY DEF Inv, TaskOwnsJob
<1>4. task[v].job # None
  BY <1>1, IdentityAssumption
<1>5. target[v] \in Buffers /\ target[v] # None
  BY <1>2, <1>3, BufferRoles, IdentityAssumption DEF Sources
<1>6. cargo[v] # None => loc[task[v].job] = v
  BY <1>1, <1>3 DEF Inv, Structure, Ownership
<1>7. cargo[v] = None => loc[task[v].job] = target[v]
  BY <1>1, <1>3, <1>4, <1>5 DEF Inv, Structure, Ownership
<1>8. loc[task[v].job] \notin Machines
  BY <1>5, <1>6, <1>7, IdentityAssumption
<1>. QED  BY <1>1, <1>2, <1>3, <1>4, <1>5, <1>6, <1>7, <1>8

\* Two vehicles with tasks have different jobs.
LEMMA TasksApart ==
    ASSUME Inv, NEW v \in Vehicles, NEW w \in Vehicles \ {v},
           task[v] # None, task[w] # None
    PROVE  task[w].job # task[v].job
  BY DEF Inv, TaskOwnsJob

----------------------------------------------------------------------------
(* Each action preserves the invariant.                                    *)

LEMMA InitInv == Init => Inv
<1>. SUFFICES ASSUME Init PROVE Inv
  OBVIOUS
<1>1. /\ Structure /\ SlotLocks /\ BlockedMeansFull /\ ReleasedInOrder /\ AdmittedInOrder
  BY InitKeepsStructure DEF Init
<1>2. /\ phase = "reconcile" /\ onsite = {}
      /\ \A v \in Vehicles : task[v] = None /\ target[v] = None /\ service[v] = None
      /\ \A m \in Machines : mjob[m] = None /\ store[Pre[m]] = {} /\ store[Post[m]] = {}
  <2>1. /\ phase = "reconcile" /\ onsite = {} /\ task = [v \in Vehicles |-> None]
        /\ \A v \in Vehicles : target[v] = None /\ service[v] = None
        /\ \A m \in Machines : mjob[m] = None
        /\ \A b \in Buffers : \A j \in store[b] : j \in Jobs /\ InputOf[j] = b
    BY DEF Init, CoreInit
  <2>2. \A m \in Machines : /\ Pre[m] \in Buffers \ Inputs /\ Post[m] \in Buffers \ Inputs
    BY BufferRoles
  <2>. QED  BY <2>1, <2>2, DemandAssumption
<1>3. TypeOK
  BY <1>1, <1>2 DEF Init, TypeOK, Structure
<1>4. TaskOwnsJob /\ TaskServices
  BY <1>2 DEF TaskOwnsJob, TaskServices
<1>5. StationAdmission
  <2>. SUFFICES ASSUME NEW m \in Machines
                PROVE  Cardinality(StationItems(m)) + Cardinality(Commitments(Pre[m]))
                         <= StationCapacity(m)
    BY DEF StationAdmission
  <2>1. StationItems(m) = {} /\ Commitments(Pre[m]) = {}
    BY <1>2, BufferRoles, IdentityAssumption DEF StationItems, Commitments
  <2>2. StationCapacity(m) \in Nat
    BY <1>1, StationCount
  <2>. QED  BY <2>1, <2>2, FS_EmptySet
<1>. QED  BY <1>1, <1>3, <1>4, <1>5 DEF Inv

\* Between intervals reconcile() only ends the tasks whose destination broke.
ReconcileDrops ==
    \A v \in Vehicles :
        /\ task'[v] = IF Broken(task, v) THEN None ELSE task[v]
        /\ target'[v] = IF Broken(task, v) THEN None ELSE target[v]
        /\ service'[v] = IF Broken(task, v) THEN None ELSE service[v]

LEMMA ReconcileEffect ==
    ASSUME Inv, Reconcile
    PROVE  ReconcileDrops
<1>. SUFFICES ASSUME NEW v \in Vehicles
              PROVE  /\ task'[v] = IF Broken(task, v) THEN None ELSE task[v]
                     /\ target'[v] = IF Broken(task, v) THEN None ELSE target[v]
                     /\ service'[v] = IF Broken(task, v) THEN None ELSE service[v]
  BY DEF ReconcileDrops
<1>1. ~Delivered(task, cargo, loc, v)
  BY TaskFacts DEF Delivered
<1>2. task[v] # None => target[v] # None
  BY TaskFacts
<1>3. ~(Aboard(task, cargo, v) /\ target[v] = None)
  BY <1>2 DEF Aboard
<1>. QED  BY <1>1, <1>3 DEF Reconcile, TaskAfter, TargetAfter

LEMMA ReconcileInv ==
    ASSUME Inv, Reconcile,
           phase' = "assign" \/ phase' = "service", onsite' \in SUBSET Vehicles,
           phase # "service"
    PROVE  Inv'
<1>. ReconcileDrops /\ UNCHANGED physical
  BY ReconcileEffect DEF Reconcile
<1>. USE DEF ReconcileDrops
<1>0. \A v \in Vehicles : service[v] = None /\ service'[v] = None
  BY DEF Inv, TaskServices
<1>1. /\ task' \in [Vehicles -> Tasks \cup {None}]
      /\ target' \in [Vehicles -> Buffers \cup {None}]
      /\ service' \in [Vehicles -> Services \cup {None}]
  <2>1. /\ \A v \in Vehicles : /\ task'[v] \in Tasks \cup {None}
                               /\ target'[v] \in Buffers \cup {None}
    BY DEF Inv, TypeOK, CoreTypeOK
  <2>2. /\ task' = [v \in Vehicles |-> task'[v]] /\ target' = [v \in Vehicles |-> target'[v]]
        /\ service' = [v \in Vehicles |-> service'[v]]
    BY DEF Reconcile, TaskAfter, TargetAfter
  <2>. QED  BY <1>0, <2>1, <2>2
<1>2. Structure'
  <2>1. CoreTypeOK'
    BY <1>1 DEF Inv, Structure, CoreTypeOK, physical
  <2>2. Ownership'
    BY DEF Inv, Structure, Ownership, physical
  <2>3. WorkFits' /\ BufferPurpose'
    BY DEF Inv, Structure, WorkFits, BufferPurpose, Needs, physical
  <2>4. ServiceBinding'
    BY <1>0 DEF ServiceBinding
  <2>5. TargetSuitsCargo'
    BY DEF Inv, Structure, TargetSuitsCargo, DestinationOwners, RouteDone, Needs, physical
  <2>. QED  BY <2>1, <2>2, <2>3, <2>4, <2>5 DEF Structure
<1>3. SlotLocks' /\ BlockedMeansFull' /\ ReleasedInOrder' /\ AdmittedInOrder'
  <2>1. \A b \in Buffers : ServiceOf("drop_off", b)' = ServiceOf("drop_off", b)
    BY <1>0 DEF ServiceOf
  <2>2. SlotLocks'
    BY <2>1 DEF Inv, SlotLocks, physical
  <2>3. BlockedMeansFull'
    BY DEF Inv, BlockedMeansFull, Needs, physical
  <2>4. ReleasedInOrder' /\ AdmittedInOrder'
    BY DEF Inv, ReleasedInOrder, AdmittedInOrder, physical
  <2>. QED  BY <2>2, <2>3, <2>4
<1>4. TypeOK'
  BY <1>1, <1>2 DEF Inv, TypeOK, Structure
<1>5. TaskOwnsJob'
  <2>1. \A v \in Vehicles : /\ task'[v] = None => target'[v] = None
                            /\ task'[v] # None => task'[v] = task[v] /\ target'[v] = target[v]
    BY DEF Inv, TaskOwnsJob
  <2>2. \A j : DestinationOwners(j)' = DestinationOwners(j)
    BY DEF DestinationOwners, RouteDone, Needs, physical
  <2>3. UNCHANGED <<cargo, store>>
    BY DEF physical
  <2>. QED  BY <2>1, <2>2, <2>3 DEF Inv, TaskOwnsJob
<1>6. TaskServices'
  BY <1>0 DEF TaskServices
<1>7. StationAdmission'
  <2>1. \A m \in Machines : StationItems(m)' = StationItems(m)
    BY DEF StationItems, physical
  <2>2. \A m \in Machines : Commitments(Pre[m])' \subseteq Commitments(Pre[m])
    <3>1. \A m \in Machines : Pre[m] # None
      BY BufferRoles, IdentityAssumption
    <3>. QED  BY <3>1 DEF Commitments
  <2>. QED  BY <1>2, <2>1, <2>2, QuietStations DEF Inv
<1>. QED  BY <1>2, <1>3, <1>4, <1>5, <1>6, <1>7 DEF Inv

LEMMA ProcessInv ==
    ASSUME Inv, NEW m \in Machines, Process(m)
    PROVE  Inv'
<1>1. PICK j \in Jobs \ ReservedJobs : StartOperation(m, j)
  BY DEF Process
<1>2. UNCHANGED <<phase, task, onsite>>
  BY DEF Process
<1>3. Structure'
  BY <1>1, StartKeepsStructure DEF Inv
<1>4. SlotLocks' /\ BlockedMeansFull' /\ ReleasedInOrder' /\ AdmittedInOrder'
  BY <1>1, StartKeepsSlots DEF Inv
<1>5. UNCHANGED <<step, cargo, target, service>>
  BY <1>1 DEF StartOperation
<1>6. TypeOK'
  BY <1>2, <1>3 DEF Inv, TypeOK, Structure
<1>7. TaskServices'
  BY <1>2, <1>5 DEF Inv, TaskServices
<1>8. TaskOwnsJob'
  <2>1. \A k : DestinationOwners(k)' = DestinationOwners(k)
    BY <1>5 DEF DestinationOwners, RouteDone, Needs
  <2>2. \A b \in Sources : store'[b] = store[b]
    BY <1>1, BufferRoles DEF StartOperation, Inv, Structure, CoreTypeOK, Sources
  <2>. QED  BY <1>2, <1>5, <2>1, <2>2 DEF Inv, TaskOwnsJob
<1>9. StationAdmission'
  <2>1. \A n \in Machines : StationItems(n)' \subseteq StationItems(n)
    BY <1>1, StartKeepsStations DEF Inv
  <2>2. \A n \in Machines : Commitments(Pre[n])' = Commitments(Pre[n])
    BY <1>2, <1>5 DEF Commitments
  <2>. QED  BY <1>3, <2>1, <2>2, QuietStations DEF Inv
<1>. QED  BY <1>3, <1>4, <1>6, <1>7, <1>8, <1>9 DEF Inv

\* The new task of an assignment, and the effect on its vehicle alone.
LEMMA AssignFacts ==
    ASSUME Inv, NEW v \in Vehicles, NEW j \in Jobs, NEW b \in Buffers, Assign(v, j, b)
    PROVE  /\ task'[v] = [job |-> j, destination |-> b] /\ task'[v] \in Tasks
           /\ \A w \in Vehicles \ {v} : task'[w] = task[w] /\ target'[w] = target[w]
           /\ cargo[v] # None => cargo[v] = j /\ target'[v] = b
           /\ cargo[v] = None => /\ target'[v] \in Sources
                                 /\ j \in store[target'[v]] /\ j \notin ReservedJobs
           /\ target'[v] \in Buffers
           /\ b \in PreBuffers \cup Outputs /\ b \in DestinationOwners(j)
           /\ \A w \in Vehicles : service[w] = None
<1>1. b \in DestinationOwners(j) /\ b \in PreBuffers \cup Outputs
  BY DestinationRoles DEF Assign
<1>2. [job |-> j, destination |-> b] \in Tasks
  BY <1>1 DEF Tasks
<1>3. /\ task'[v] = [job |-> j, destination |-> b]
      /\ \A w \in Vehicles \ {v} : task'[w] = task[w] /\ target'[w] = target[w]
      /\ target'[v] = IF cargo[v] # None THEN b ELSE loc[j]
  BY DEF Assign, Inv, TypeOK, CoreTypeOK
<1>4. cargo[v] = None => /\ loc[j] \in Sources /\ loc[j] \in Buffers
                         /\ j \in store[loc[j]] /\ j \notin ReservedJobs
  <2>. SUFFICES ASSUME cargo[v] = None
                PROVE  /\ loc[j] \in Sources /\ loc[j] \in Buffers
                       /\ j \in store[loc[j]] /\ j \notin ReservedJobs
    OBVIOUS
  <2>1. j \notin ReservedJobs
    BY DEF Assign, Offered
  <2>2. PICK c \in Sources : j \in Ready(c)
    BY DEF Assign, Offered
  <2>3. c \in Buffers
    BY BufferRoles DEF Sources
  <2>. QED  BY <2>1, <2>2, <2>3 DEF Ready, Inv, Structure, Ownership
<1>5. cargo[v] # None => cargo[v] = j
  BY DEF Assign, Offered
<1>6. \A w \in Vehicles : service[w] = None
  BY DEF Assign, Inv, TaskServices
<1>. QED  BY <1>1, <1>2, <1>3, <1>4, <1>5, <1>6

LEMMA AssignInv ==
    ASSUME Inv, NEW v \in Vehicles, NEW j \in Jobs, NEW b \in Buffers, Assign(v, j, b)
    PROVE  Inv'
<1>1. /\ UNCHANGED <<physical, service, phase, onsite>>
      /\ task[v] = None /\ target[v] = None /\ HasRoom(b)
  BY DEF Assign
<1>2. /\ task'[v] = [job |-> j, destination |-> b] /\ task'[v] \in Tasks
      /\ \A w \in Vehicles \ {v} : task'[w] = task[w] /\ target'[w] = target[w]
      /\ cargo[v] # None => cargo[v] = j /\ target'[v] = b
      /\ cargo[v] = None => /\ target'[v] \in Sources
                            /\ j \in store[target'[v]] /\ j \notin ReservedJobs
      /\ target'[v] \in Buffers
      /\ b \in PreBuffers \cup Outputs /\ b \in DestinationOwners(j)
      /\ \A w \in Vehicles : service[w] = None
  BY AssignFacts
<1>3. \A k : DestinationOwners(k)' = DestinationOwners(k)
  BY <1>1 DEF DestinationOwners, RouteDone, Needs, physical
<1>4. /\ task' \in [Vehicles -> Tasks \cup {None}]
      /\ target' \in [Vehicles -> Buffers \cup {None}]
  BY <1>2 DEF Assign, Inv, TypeOK, CoreTypeOK
<1>5. Structure'
  <2>1. CoreTypeOK'
    BY <1>1, <1>4 DEF Inv, Structure, CoreTypeOK, physical
  <2>2. Ownership' /\ WorkFits'
    BY <1>1 DEF Inv, Structure, Ownership, WorkFits, Needs, physical
  <2>3. BufferPurpose'
    BY <1>1 DEF Inv, Structure, BufferPurpose, Needs, physical
  <2>4. ServiceBinding'
    BY <1>1, <1>2 DEF ServiceBinding
  <2>5. TargetSuitsCargo'
    <3>1. UNCHANGED cargo
      BY <1>1 DEF physical
    <3>. QED  BY <1>2, <1>3, <3>1 DEF Inv, Structure, TargetSuitsCargo
  <2>. QED  BY <2>1, <2>2, <2>3, <2>4, <2>5 DEF Structure
<1>6. SlotLocks' /\ BlockedMeansFull' /\ ReleasedInOrder' /\ AdmittedInOrder'
  <2>1. SlotLocks'
    BY <1>1 DEF Inv, SlotLocks, ServiceOf, physical
  <2>2. BlockedMeansFull'
    BY <1>1 DEF Inv, BlockedMeansFull, Needs, physical
  <2>3. ReleasedInOrder' /\ AdmittedInOrder'
    BY <1>1 DEF Inv, ReleasedInOrder, AdmittedInOrder, physical
  <2>. QED  BY <2>1, <2>2, <2>3
<1>7. TypeOK' /\ TaskServices'
  BY <1>1, <1>2, <1>4, <1>5 DEF Inv, TypeOK, TaskServices, Structure
<1>8. TaskOwnsJob'
  <2>0. UNCHANGED <<cargo, store>>
    BY <1>1 DEF physical
  <2>1. ASSUME NEW w \in Vehicles \ {v}, task[w] # None
        PROVE  task[w].job # j
    <3>1. CASE cargo[v] = None
      BY <1>2, <2>1, <3>1 DEF ReservedJobs
    <3>2. CASE cargo[v] # None
      <4>1. loc[j] = v
        BY <1>2, <3>2 DEF Inv, Structure, Ownership
      <4>2. loc[task[w].job] # v
        BY <2>1, TaskFacts, IdentityAssumption
      <4>. QED  BY <4>1, <4>2
    <3>. QED  BY <3>1, <3>2
  <2>2. task'[v] # None /\ task'[v].job = j /\ task'[v].destination = b
    BY <1>2, TaskAssumption
  <2>. QED  BY <1>2, <1>3, <2>0, <2>1, <2>2 DEF Inv, TaskOwnsJob
<1>9. StationAdmission'
  <2>. SUFFICES ASSUME NEW m \in Machines
                PROVE  Cardinality(StationItems(m)') + Cardinality(Commitments(Pre[m])')
                         <= StationCapacity(m)
    BY DEF StationAdmission, StationCapacity
  <2>1. StationItems(m)' = StationItems(m)
    BY <1>1 DEF StationItems, physical
  <2>2. Cardinality(StationItems(m)) + Cardinality(Commitments(Pre[m])) <= StationCapacity(m)
    BY DEF Inv, StationAdmission
  <2>3. Pre[m] \notin Sources /\ Pre[m] \notin Outputs
    BY BufferRoles DEF Sources
  <2>4. CASE b = Pre[m]
    <3>1. Commitments(Pre[m])' = Commitments(Pre[m]) \cup {v}
      BY <1>2, <2>4, TaskAssumption DEF Commitments
    <3>2. v \notin Commitments(Pre[m])
      <4>1. Pre[m] # None
        BY BufferRoles, IdentityAssumption
      <4>. QED  BY <1>1, <4>1 DEF Commitments
    <3>3. Cardinality(Commitments(Pre[m])') = Cardinality(Commitments(Pre[m])) + 1
      BY <3>1, <3>2, CommitmentsFinite, FS_AddElement
    <3>4. Cardinality(StationItems(m)) + Cardinality(Commitments(Pre[m])) < StationCapacity(m)
      <4>1. \A n \in Machines : Pre[n] = Pre[m] => n = m
        BY BufferRoles
      <4>. QED  BY <1>1, <2>3, <2>4, <4>1 DEF HasRoom
    <3>5. /\ Cardinality(StationItems(m)) \in Nat /\ StationCapacity(m) \in Nat
          /\ Cardinality(Commitments(Pre[m])) \in Nat
      BY StationCount, CommitmentsFinite DEF Inv
    <3>. QED  BY <2>1, <3>3, <3>4, <3>5
  <2>5. CASE b # Pre[m]
    <3>1. v \notin Commitments(Pre[m])'
      BY <1>2, <2>3, <2>5 DEF Commitments
    <3>2. Commitments(Pre[m])' = Commitments(Pre[m])
      <4>1. v \notin Commitments(Pre[m])
        <5>1. Pre[m] # None
          BY BufferRoles, IdentityAssumption
        <5>. QED  BY <1>1, <5>1 DEF Commitments
      <4>. QED  BY <1>2, <3>1, <4>1 DEF Commitments
    <3>. QED  BY <2>1, <2>2, <3>2
  <2>. QED  BY <2>4, <2>5
<1>. QED  BY <1>5, <1>6, <1>7, <1>8, <1>9 DEF Inv

LEMMA ServiceInv ==
    ASSUME Inv, NEW v \in Vehicles, StartTaskService(v)
    PROVE  Inv'
<1>. DEFINE kind == IF cargo[v] # None THEN "drop_off" ELSE "pickup"
<1>1. /\ StartService(v, kind, task[v].job, target[v]) /\ phase = "service"
      /\ task[v] # None /\ service[v] = None
      /\ IF cargo[v] # None THEN FreeDrop(target[v]) ELSE task[v].job \in Ready(target[v])
      /\ UNCHANGED <<phase, task, onsite>>
  BY DEF StartTaskService, Serviceable
<1>2. UNCHANGED <<physical, target>>
  BY <1>1 DEF StartService
<1>3. Structure' /\ SlotLocks'
  <2>1. target[v] # None /\ (cargo[v] = None => target[v] \in Sources)
    BY <1>1, TaskFacts
  <2>2. cargo[v] # None => target[v] \in PreBuffers \cup Outputs /\ task[v].job = cargo[v]
    BY <1>1, TaskFacts
  <2>. QED  BY <1>1, <2>1, <2>2, ServiceKeepsStructure DEF Inv
<1>4. BlockedMeansFull' /\ ReleasedInOrder' /\ AdmittedInOrder'
  <2>1. BlockedMeansFull'
    BY <1>2 DEF Inv, BlockedMeansFull, Needs, physical
  <2>2. ReleasedInOrder' /\ AdmittedInOrder'
    BY <1>2 DEF Inv, ReleasedInOrder, AdmittedInOrder, physical
  <2>. QED  BY <2>1, <2>2
<1>5. TypeOK'
  BY <1>1, <1>3 DEF Inv, TypeOK, Structure
<1>6. TaskServices'
  <2>1. service' = [service EXCEPT ![v] =
                       [kind |-> kind, job |-> task[v].job, owner |-> target[v]]]
    BY <1>1 DEF StartService
  <2>. HIDE DEF kind
  <2>. QED  BY <1>1, <2>1 DEF Inv, TaskServices, Structure, CoreTypeOK
<1>7. TaskOwnsJob'
  BY <1>1, <1>2 DEF Inv, TaskOwnsJob, DestinationOwners, RouteDone, Needs, physical
<1>8. StationAdmission'
  <2>1. \A m \in Machines : /\ StationItems(m)' = StationItems(m)
                            /\ Commitments(Pre[m])' = Commitments(Pre[m])
    BY <1>1, <1>2 DEF StationItems, Commitments, physical
  <2>. QED  BY <1>3, <2>1, QuietStations DEF Inv
<1>. QED  BY <1>3, <1>4, <1>5, <1>6, <1>7, <1>8 DEF Inv

----------------------------------------------------------------------------
(* The physical interval.                                                  *)

\* What advance() does to tasks and targets.
TasksFollow(gone) ==
    LET t == [w \in Vehicles |-> IF w \in gone THEN None ELSE task[w]]
        g == [w \in Vehicles |->
                IF w \in gone \/ service[w] # None THEN None ELSE target[w]]
    IN  task' = TaskAfter(t, cargo', loc') /\ target' = TargetAfter(t, g, cargo')

\* A task ends with its vehicle's target, is kept untouched, or gets its second
\* target because its job was loaded.
Ends(v) == task'[v] = None /\ target'[v] = None

Waits(v) ==
    /\ task[v] # None /\ service[v] = None
    /\ task'[v] = task[v] /\ target'[v] = target[v] /\ cargo'[v] = cargo[v]
    /\ loc'[task[v].job] = loc[task[v].job]

Loads(v) ==
    /\ task[v] # None /\ service[v] # None
    /\ service[v].kind = "pickup"
    /\ cargo[v] = None /\ cargo'[v] = task[v].job
    /\ task'[v] = task[v] /\ target'[v] = task[v].destination

\* Why a task may end.
Excused(v, dn) ==
    \/ loc'[task[v].job] = task[v].destination
    \/ \E m \in down \cup dn : task[v].destination = Pre[m]

LEMMA BrokenMeans ==
    ASSUME Inv, NEW v \in Vehicles, Broken(task, v)
    PROVE  \E m \in down : task[v].destination = Pre[m]
<1>1. task[v] # None /\ ~EligibleOwner(task[v].destination)
  BY DEF Broken
<1>2. task[v].destination \in PreBuffers \cup Outputs
  BY <1>1, TaskFacts
<1>3. down \subseteq Machines
  BY DEF Inv, Structure, CoreTypeOK
<1>. QED  BY <1>1, <1>2, <1>3, BufferRoles DEF EligibleOwner

LEMMA CancelledMeans ==
    ASSUME Inv, NEW dn \in SUBSET Machines, NEW v \in Cancelled(dn), task[v] # None
    PROVE  \E m \in dn : task[v].destination = Pre[m]
<1>1. v \in Vehicles
  BY DEF Cancelled
<1>2. PICK m \in dn : \/ task[v].destination = Pre[m]
                      \/ /\ service[v] # None /\ service[v].kind = "drop_off"
                         /\ service[v].owner \in {Pre[m], Post[m]}
  BY DEF Cancelled
<1>3. CASE /\ service[v] # None /\ service[v].kind = "drop_off"
           /\ service[v].owner \in {Pre[m], Post[m]}
  <2>1. service[v].owner = target[v] /\ cargo[v] = service[v].job /\ service[v].job \in Jobs
    BY <1>1, <1>3, ServiceFacts DEF Inv
  <2>2. cargo[v] # None
    BY <2>1, IdentityAssumption
  <2>3. service[v].owner = task[v].destination
    BY <1>1, <2>1, <2>2, TaskFacts
  <2>4. task[v].destination \in PreBuffers \cup Outputs
    BY <1>1, TaskFacts
  <2>. QED  BY <1>3, <2>3, <2>4, BufferRoles
<1>. QED  BY <1>2, <1>3

LEMMA AdvanceTask ==
    ASSUME Inv, NEW fin \in SUBSET Running, NEW dn \in SUBSET Machines,
           NEW rel \in Releasable, Interval(Cancelled(dn), fin, dn, rel),
           TasksFollow(Cancelled(dn)), NEW v \in Vehicles
    PROVE  /\ Ends(v) \/ Waits(v) \/ Loads(v)
           /\ task[v] # None /\ task'[v] # task[v] => Excused(v, dn)
           /\ Loads(v) => v \notin Cancelled(dn)
<1>. DEFINE gone == Cancelled(dn)
            t == [w \in Vehicles |-> IF w \in gone THEN None ELSE task[w]]
            g == [w \in Vehicles |->
                    IF w \in gone \/ service[w] # None THEN None ELSE target[w]]
<1>0. gone \in SUBSET Vehicles
  BY DEF Cancelled
<1>. USE <1>0
<1>1. /\ task'[v] = IF Broken(t, v) \/ Delivered(t, cargo', loc', v) THEN None ELSE t[v]
      /\ target'[v] = IF Broken(t, v) THEN None
                      ELSE IF Aboard(t, cargo', v) /\ g[v] = None
                           THEN t[v].destination ELSE g[v]
  BY DEF TasksFollow, TaskAfter, TargetAfter
<1>2. WaysApart(gone, fin, rel) /\ LocationFollows(gone, fin, rel)
  BY Ways, LocationCases DEF Inv
<1>3. /\ \A j \in Jobs : loc'[j] = LocationAfter(gone, fin, rel, j)
      /\ cargo'[v] = IF v \in Loading(gone) THEN service[v].job
                     ELSE IF v \in Unloading(gone) THEN None ELSE cargo[v]
  BY DEF Interval
<1>. HIDE DEF gone
<1>4. CASE v \in gone
  <2>1. t[v] = None /\ g[v] = None
    BY <1>4
  <2>2. Ends(v)
    BY <1>1, <2>1 DEF Ends, Broken, Delivered, Aboard
  <2>3. task[v] # None => Excused(v, dn)
    BY <1>4, CancelledMeans DEF gone, Excused
  <2>4. ~Loads(v)
    BY <2>2 DEF Ends, Loads
  <2>. QED  BY <2>2, <2>3, <2>4
<1>5. CASE v \notin gone /\ task[v] = None
  <2>1. t[v] = None /\ g[v] = None
    BY <1>5 DEF Inv, TaskOwnsJob
  <2>2. Ends(v)
    BY <1>1, <2>1 DEF Ends, Broken, Delivered, Aboard
  <2>. QED  BY <1>5, <2>2 DEF Loads, gone
<1>6. CASE v \notin gone /\ Broken(task, v) /\ task[v] # None
  <2>1. t[v] = task[v]
    BY <1>6
  <2>2. Broken(t, v)
    BY <1>6, <2>1 DEF Broken
  <2>3. Ends(v)
    BY <1>1, <2>2 DEF Ends
  <2>4. Excused(v, dn)
    BY <1>6, BrokenMeans DEF Excused
  <2>. QED  BY <1>6, <2>3, <2>4 DEF gone
<1>7. CASE v \notin gone /\ ~Broken(task, v) /\ task[v] # None /\ service[v] = None
  <2>1. t[v] = task[v] /\ ~Broken(t, v) /\ g[v] = target[v]
    BY <1>7 DEF Broken
  <2>2. cargo'[v] = cargo[v]
    BY <1>3, <1>7 DEF Loading, Unloading, Transferring
  <2>3. target[v] # None /\ task[v].job \in Jobs
    BY <1>7, TaskFacts
  <2>4. target'[v] = target[v]
    BY <1>1, <2>1, <2>3
  <2>5. \A w \in Vehicles : service[w] # None => service[w].job # task[v].job
    BY <1>7, TasksApart DEF Inv, TaskServices
  <2>6. loc'[task[v].job] = loc[task[v].job]
    <3>1. /\ ~ \E w \in Loading(gone) : service[w].job = task[v].job
          /\ ~ \E w \in Unloading(gone) : service[w].job = task[v].job
      BY <2>5 DEF Loading, Unloading, Transferring
    <3>2. ~ \E m \in Releasing(gone, fin) : mjob[m] = task[v].job
      BY <1>2, <1>7, TaskFacts DEF WaysApart
    <3>3. task[v].job \notin Admitted(gone, rel) \cup rel
      <4>1. loc[task[v].job] \in Buffers \cup Vehicles
        BY <1>7, TaskFacts
      <4>. QED  BY <1>2, <4>1, IdentityAssumption DEF WaysApart
    <3>. QED  BY <1>2, <1>3, <2>3, <3>1, <3>2, <3>3 DEF LocationFollows
  <2>7. ~Delivered(t, cargo', loc', v)
    BY <1>7, <2>1, <2>2, <2>6, TaskFacts DEF Delivered
  <2>8. task'[v] = task[v]
    BY <1>1, <2>1, <2>7
  <2>. QED  BY <1>7, <2>2, <2>4, <2>6, <2>8 DEF Waits, gone
<1>8. CASE v \notin gone /\ ~Broken(task, v) /\ task[v] # None /\ service[v] # None
  <2>1. t[v] = task[v] /\ ~Broken(t, v) /\ g[v] = None
    BY <1>8 DEF Broken
  <2>2. service[v].job = task[v].job /\ task[v].job \in Jobs /\ task[v].job # None
    BY <1>8, TaskFacts, IdentityAssumption DEF Inv, TaskServices
  <2>3. CASE service[v].kind = "pickup"
    <3>1. v \in Loading(gone)
      BY <1>8, <2>3 DEF Loading, Transferring
    <3>2. cargo'[v] = task[v].job /\ cargo[v] = None
      BY <1>3, <1>8, <2>2, <2>3, <3>1, ServiceFacts DEF Inv
    <3>3. task'[v] = task[v] /\ target'[v] = task[v].destination
      BY <1>1, <2>1, <2>2, <3>2, <1>8 DEF Delivered, Aboard
    <3>. QED  BY <1>8, <2>3, <3>2, <3>3 DEF Loads, gone
  <2>4. CASE service[v].kind = "drop_off"
    <3>1. v \in Unloading(gone) /\ v \notin Loading(gone)
      BY <1>8, <2>4 DEF Loading, Unloading, Transferring
    <3>2. cargo'[v] = None /\ cargo[v] = task[v].job
      BY <1>3, <1>8, <2>2, <2>4, <3>1, ServiceFacts DEF Inv
    <3>3. service[v].owner = target[v] /\ target[v] = task[v].destination
      BY <1>8, <2>2, <3>2, ServiceFacts, TaskFacts DEF Inv
    <3>4. loc'[task[v].job] = task[v].destination
      BY <1>2, <1>3, <2>2, <3>1, <3>3 DEF LocationFollows
    <3>5. Delivered(t, cargo', loc', v) /\ ~Aboard(t, cargo', v)
      BY <1>8, <2>1, <2>2, <3>2, <3>4 DEF Delivered, Aboard
    <3>6. Ends(v)
      BY <1>1, <2>1, <3>5 DEF Ends
    <3>. QED  BY <1>8, <3>4, <3>6 DEF Excused, gone
  <2>. QED  BY <1>8, <2>3, <2>4, ServiceFacts DEF Inv
<1>. QED  BY <1>4, <1>5, <1>6, <1>7, <1>8

LEMMA AdvanceInv ==
    ASSUME Inv, Advance
    PROVE  Inv'
<1>1. PICK fin \in SUBSET Running, dn \in SUBSET Machines, rel \in Releasable :
          Interval(Cancelled(dn), fin, dn, rel) /\ TasksFollow(Cancelled(dn))
  BY DEF Advance, TasksFollow
<1>. DEFINE gone == Cancelled(dn)
<1>2. gone \in SUBSET Vehicles /\ Interval(gone, fin, dn, rel)
  BY <1>1 DEF Cancelled
<1>3. \A v \in Vehicles : Ends(v) \/ Waits(v) \/ Loads(v)
  BY <1>1, AdvanceTask
<1>4. \A v \in Vehicles : service'[v] = None
  BY <1>2 DEF Interval
<1>5. /\ task' \in [Vehicles -> Tasks \cup {None}]
      /\ target' \in [Vehicles -> Buffers \cup {None}]
  <2>1. ASSUME NEW v \in Vehicles
        PROVE  task'[v] \in Tasks \cup {None} /\ target'[v] \in Buffers \cup {None}
    BY <1>3, <2>1, TaskFacts DEF Ends, Waits, Loads
  <2>2. task' = [v \in Vehicles |-> task'[v]] /\ target' = [v \in Vehicles |-> target'[v]]
    BY <1>1 DEF TasksFollow, TaskAfter, TargetAfter
  <2>. QED  BY <2>1, <2>2
<1>. HIDE DEF gone
<1>6. CoreTypeOK' /\ Ownership' /\ WorkFits' /\ BufferPurpose'
  BY <1>2, <1>5, IntervalKeepsType, IntervalKeepsOwnership, IntervalKeepsWork,
     IntervalKeepsPurpose DEF Inv
<1>. DEFINE D(j) == IF step'[j] >= Len(Route[j]) THEN Outputs
                    ELSE {Pre[m] : m \in {n \in Machines : Needs(j, step'[j], n)}}
<1>7. \A v \in Vehicles : task[v] # None => task[v].destination \in D(task[v].job)
  <2>. SUFFICES ASSUME NEW v \in Vehicles, task[v] # None
                PROVE  task[v].destination \in D(task[v].job)
    OBVIOUS
  <2>. DEFINE j == task[v].job
  <2>1. j \in Jobs /\ loc[j] \notin Machines /\ task[v].destination \in DestinationOwners(j)
    BY TaskFacts
  <2>. HIDE DEF j
  <2>2. step'[j] = step[j]
    <3>1. \A n \in fin : mjob[n] # j
      BY <2>1 DEF Inv, Structure, Ownership, Running
    <3>. QED  BY <1>2, <2>1, <3>1, StepUnmoved DEF Interval, Inv
  <2>3. task[v].destination \in D(j)
    BY <2>1, <2>2 DEF DestinationOwners, RouteDone
  <2>. QED  BY <2>3 DEF j
<1>8. TargetSuitsCargo'
  <2>. SUFFICES ASSUME NEW v \in Vehicles, target'[v] # None
                PROVE  IF cargo'[v] = None THEN target'[v] \in Sources
                       ELSE target'[v] \in D(cargo'[v])
    BY DEF TargetSuitsCargo, DestinationOwners, RouteDone, Needs
  <2>. HIDE DEF D
  <2>1. task[v] # None /\ (Waits(v) \/ Loads(v))
    BY <1>3 DEF Ends, Waits, Loads
  <2>2. task[v].job # None
    BY <2>1, TaskFacts, IdentityAssumption
  <2>. QED  BY <1>7, <2>1, <2>2, TaskFacts DEF Waits, Loads
<1>9. Structure'
  <2>1. ServiceBinding'
    BY <1>4 DEF ServiceBinding
  <2>. QED  BY <1>6, <1>8, <2>1 DEF Structure
<1>10. SlotLocks' /\ BlockedMeansFull' /\ ReleasedInOrder' /\ AdmittedInOrder'
  BY <1>2, IntervalKeepsSlots, IntervalKeepsBlocked, IntervalKeepsOrder DEF Inv
<1>11. TypeOK' /\ TaskServices'
  <2>1. onsite' = {} /\ phase' \in {"ended", "reconcile"}
    BY DEF Advance
  <2>. QED  BY <1>4, <1>5, <1>6, <2>1 DEF TypeOK, TaskServices
<1>12. TaskOwnsJob'
  <2>1. ASSUME NEW v \in Vehicles
        PROVE  task'[v] = None => target'[v] = None
    BY <1>3, <2>1 DEF Ends, Waits, Loads
  <2>2. ASSUME NEW v \in Vehicles, task'[v] # None
        PROVE  task[v] # None /\ task'[v] = task[v] /\ (Waits(v) \/ Loads(v))
    BY <1>3, <2>2 DEF Ends, Waits, Loads
  <2>3. ASSUME NEW v \in Vehicles, task'[v] # None
        PROVE  /\ \A w \in Vehicles \ {v} : task'[w] # None => task'[w].job # task'[v].job
               /\ task'[v].destination \in D(task'[v].job)
               /\ \/ cargo'[v] = task'[v].job /\ target'[v] = task'[v].destination
                  \/ /\ cargo'[v] = None
                     /\ target'[v] \in Sources
                     /\ task'[v].job \in store'[target'[v]]
    <3>1. \A w \in Vehicles \ {v} : task'[w] # None => task'[w].job # task'[v].job
      BY <2>2, <2>3, TasksApart
    <3>2. task'[v].destination \in D(task'[v].job)
      BY <1>7, <2>2, <2>3
    <3>3. CASE Loads(v)
      BY <2>2, <2>3, <3>1, <3>2, <3>3 DEF Loads
    <3>4. CASE Waits(v) /\ cargo[v] # None
      BY <2>2, <2>3, <3>1, <3>2, <3>4, TaskFacts DEF Waits
    <3>5. CASE Waits(v) /\ cargo[v] = None
      <4>1. /\ loc'[task[v].job] = target[v] /\ target[v] \in Sources
            /\ target[v] \in Buffers /\ task[v].job \in Jobs
        BY <2>2, <2>3, <3>5, TaskFacts DEF Waits
      <4>2. task[v].job \in store'[target[v]]
        BY <1>6, <4>1 DEF Ownership
      <4>. QED  BY <2>2, <2>3, <3>1, <3>2, <3>5, <4>1, <4>2 DEF Waits
    <3>. QED  BY <2>2, <2>3, <3>3, <3>4, <3>5
  <2>. QED  BY <2>1, <2>3 DEF TaskOwnsJob, DestinationOwners, RouteDone, Needs
<1>13. StationAdmission'
  <2>. SUFFICES ASSUME NEW m \in Machines
                PROVE  Cardinality(StationItems(m)') + Cardinality(Commitments(Pre[m])')
                         <= StationCapacity(m)
    BY DEF StationAdmission, StationCapacity
  <2>. DEFINE b == Pre[m]
              U == UnloadedJobs(gone, b)
              S == ServiceOf("drop_off", b)
              C == Commitments(b)
  <2>1. b \in Buffers /\ b # None /\ b \notin Sources
    BY BufferRoles, IdentityAssumption DEF Sources
  <2>2. StationItems(m)' \ U \subseteq StationItems(m)
    BY <1>2, StationGains DEF Inv
  <2>3. /\ StationItems(m) \in SUBSET Jobs /\ StationCapacity(m) \in Nat
        /\ Cardinality(StationItems(m)) \in Nat
    BY StationCount DEF Inv
  <2>4. U \in SUBSET Jobs /\ Cardinality(U) <= Cardinality(S) /\ S \in SUBSET Vehicles
    BY <1>2, <2>1, UnloadedBound DEF Inv
  <2>5. StationItems(m)' \in SUBSET Jobs
    BY <2>2, <2>3, <2>4
  <2>6. C \in SUBSET Vehicles /\ S \subseteq C
    BY ServiceFacts DEF Inv, ServiceOf, Commitments
  <2>7. C' \subseteq C \ S
    <3>. SUFFICES ASSUME NEW v \in Vehicles, v \in C'
                  PROVE  v \in C /\ v \notin S
      BY DEF Commitments
    <3>1. target'[v] = b \/ (task'[v] # None /\ task'[v].destination = b)
      BY DEF Commitments
    <3>2. Waits(v) \/ Loads(v)
      BY <1>3, <2>1, <3>1 DEF Ends
    <3>3. v \in C
      BY <3>1, <3>2 DEF Waits, Loads, Commitments
    <3>4. v \notin S
      BY <3>2 DEF Waits, Loads, ServiceOf
    <3>. QED  BY <3>3, <3>4
  <2>8. /\ IsFiniteSet(C) /\ IsFiniteSet(S) /\ IsFiniteSet(C \ S)
        /\ Cardinality(C) \in Nat /\ Cardinality(S) \in Nat /\ Cardinality(C \ S) \in Nat
        /\ Cardinality(C') \in Nat /\ Cardinality(C') <= Cardinality(C \ S)
    <3>. HIDE DEF C, S
    <3>1. C \ S \in SUBSET Vehicles /\ C' \in SUBSET Vehicles
      BY <2>6, <2>7
    <3>2. \A X \in SUBSET Vehicles : IsFiniteSet(X) /\ Cardinality(X) \in Nat
      BY LayoutAssumption, FS_Subset, FS_CardinalityType
    <3>. QED  BY <2>4, <2>6, <2>7, <3>1, <3>2, FS_Subset
  <2>9. Cardinality(C \ S) = Cardinality(C) - Cardinality(S)
    <3>1. C \cap S = S
      BY <2>6
    <3>. QED  BY <2>8, <3>1, FS_Difference
  <2>10. Cardinality(StationItems(m)) >= Cardinality(StationItems(m)') - Cardinality(S)
    <3>. HIDE DEF U, S
    <3>. QED  BY <2>2, <2>3, <2>4, <2>5, <2>8, Loses
  <2>11. Cardinality(StationItems(m)) + Cardinality(C) <= StationCapacity(m)
    BY DEF Inv, StationAdmission
  <2>12. Cardinality(StationItems(m)') \in Nat
    BY <2>5, LayoutAssumption, FS_Subset, FS_CardinalityType
  <2>13. Cardinality(StationItems(m)') + Cardinality(C') <= StationCapacity(m)
    <3>. HIDE DEF U, S, C
    <3>. QED  BY <2>3, <2>8, <2>9, <2>10, <2>11, <2>12
  <2>. QED  BY <2>13
<1>. QED  BY <1>9, <1>10, <1>11, <1>12, <1>13 DEF Inv

LEMMA NextInv == Inv /\ [Next]_vars => Inv'
<1>. SUFFICES ASSUME Inv, [Next]_vars PROVE Inv'
  OBVIOUS
<1>1. CASE BeginBoundary
  BY <1>1, ReconcileInv DEF BeginBoundary, Inv, TypeOK
<1>2. ASSUME NEW m \in Machines, Process(m) PROVE Inv'
  BY <1>2, ProcessInv
<1>3. ASSUME NEW v \in Vehicles, NEW j \in Jobs, NEW b \in Buffers, Assign(v, j, b)
      PROVE  Inv'
  BY <1>3, AssignInv
<1>4. CASE ChooseAdvance
  <2>1. phase = "assign" /\ phase' = "service" /\ onsite' \in SUBSET Vehicles
    BY <1>4 DEF ChooseAdvance
  <2>. QED  BY <1>4, <2>1, ReconcileInv DEF ChooseAdvance
<1>5. ASSUME NEW v \in Vehicles, StartTaskService(v) PROVE Inv'
  BY <1>5, ServiceInv
<1>6. CASE Advance
  BY <1>6, AdvanceInv
<1>7. CASE UNCHANGED vars
  <2>1. UNCHANGED <<core, phase, task, onsite>>
    BY <1>7 DEF vars
  <2>2. Structure'
    BY <2>1 DEF Inv, Structure, CoreTypeOK, Ownership, WorkFits, ServiceBinding,
               TargetSuitsCargo, BufferPurpose, DestinationOwners, RouteDone, Needs, core
  <2>3. SlotLocks' /\ BlockedMeansFull' /\ ReleasedInOrder' /\ AdmittedInOrder'
    BY <2>1 DEF Inv, SlotLocks, ServiceOf, BlockedMeansFull, Needs, ReleasedInOrder,
               AdmittedInOrder, core
  <2>4. StationAdmission'
    BY <2>1 DEF Inv, StationAdmission, StationItems, Commitments, core
  <2>5. TypeOK' /\ TaskServices' /\ TaskOwnsJob'
    BY <2>1, <2>2 DEF Inv, TypeOK, Structure, TaskServices, TaskOwnsJob,
                      DestinationOwners, RouteDone, Needs, core
  <2>. QED  BY <2>2, <2>3, <2>4, <2>5 DEF Inv
<1>. QED  BY <1>1, <1>2, <1>3, <1>4, <1>5, <1>6, <1>7 DEF Next, Ended

----------------------------------------------------------------------------
(* The theorems.                                                           *)

\* Inv is an inductive invariant of central control.
THEOREM Invariance == Spec => []Inv
  BY InitInv, NextInv, PTL DEF Spec

\* The state of central control is always well typed.
THEOREM TypeCorrect == Spec => []TypeOK
<1>1. Inv => TypeOK
  BY DEF Inv
<1>. QED  BY <1>1, Invariance, PTL

\* Every job has one physical owner under central control, too.
THEOREM OneOwner == Spec => []Ownership
<1>1. Inv => Ownership
  BY DEF Inv, Structure
<1>. QED  BY <1>1, Invariance, PTL

\* A task always owns its job, and no two tasks share one.
THEOREM TasksOwnJobs == Spec => []TaskOwnsJob
<1>1. Inv => TaskOwnsJob
  BY DEF Inv
<1>. QED  BY <1>1, Invariance, PTL

\* Jobs at a station and tasks that end there never exceed its places.
THEOREM StationsAdmit == Spec => []StationAdmission
<1>1. Inv => StationAdmission
  BY DEF Inv
<1>. QED  BY <1>1, Invariance, PTL

\* No buffer ever holds or has promised more than its capacity.
THEOREM SlotsHold == Spec => []SlotLocks
<1>1. Inv => SlotLocks
  BY DEF Inv
<1>. QED  BY <1>1, Invariance, PTL

\* A station that its machine blocks is full: no task is assigned to it.
LEMMA DrainsNow ==
    ASSUME Inv
    PROVE  ReservedDeliveryDrains
<1>. SUFFICES ASSUME NEW m \in Machines, Commitments(Pre[m]) # {},
                     Cardinality(store[Pre[m]]) = Capacity[Pre[m]], mstat[m] = "BLOCKED"
              PROVE  FALSE
  BY DEF ReservedDeliveryDrains
<1>1. /\ Cardinality(StationItems(m)) = StationCapacity(m) /\ StationCapacity(m) \in Nat
  BY FullStation, StationCount DEF Inv
<1>2. Cardinality(Commitments(Pre[m])) \in Nat /\ Cardinality(Commitments(Pre[m])) # 0
  BY CommitmentsFinite, FS_EmptySet
<1>3. Cardinality(StationItems(m)) + Cardinality(Commitments(Pre[m])) <= StationCapacity(m)
  BY DEF Inv, StationAdmission
<1>. QED  BY <1>1, <1>2, <1>3

\* A delivery that has been assigned never waits for a blocked machine.
THEOREM DeliveriesDrain == Spec => []ReservedDeliveryDrains
  BY DrainsNow, Invariance, PTL

----------------------------------------------------------------------------
(* What may end a task, and what may be loaded.                            *)

KeptStep ==
    \A v \in Vehicles : task[v] # None /\ task'[v] # task[v] =>
        /\ task'[v] = None
        /\ \/ loc'[task[v].job] = task[v].destination
           \/ \E m \in down \cup down' : task[v].destination = Pre[m]

PickupStep ==
    \A v \in Vehicles :
        task[v] # None /\ cargo[v] = None /\ cargo'[v] = task[v].job
        => \A m \in down' : task[v].destination # Pre[m]

LEMMA AdvanceKeeps ==
    ASSUME Inv, Advance
    PROVE  KeptStep /\ PickupStep
<1>1. PICK fin \in SUBSET Running, dn \in SUBSET Machines, rel \in Releasable :
          Interval(Cancelled(dn), fin, dn, rel) /\ TasksFollow(Cancelled(dn))
  BY DEF Advance, TasksFollow
<1>2. down' = dn
  BY <1>1 DEF Interval
<1>3. \A v \in Vehicles : /\ Ends(v) \/ Waits(v) \/ Loads(v)
                          /\ task[v] # None /\ task'[v] # task[v] => Excused(v, dn)
  BY <1>1, AdvanceTask
<1>4. KeptStep
  BY <1>2, <1>3 DEF KeptStep, Excused, Ends, Waits, Loads
<1>5. ASSUME NEW v \in Vehicles, task[v] # None, cargo[v] = None,
             cargo'[v] = task[v].job, NEW m \in down', task[v].destination = Pre[m]
      PROVE  FALSE
  <2>1. v \in Cancelled(dn)
    BY <1>2, <1>5 DEF Cancelled
  <2>2. cargo'[v] = None
    BY <1>1, <1>5, <2>1 DEF Interval, Loading, Unloading, Transferring
  <2>3. task[v].job \in Jobs
    BY <1>5, TaskFacts
  <2>. QED  BY <1>5, <2>2, <2>3, IdentityAssumption
<1>6. PickupStep
  BY <1>5 DEF PickupStep
<1>. QED  BY <1>4, <1>6

LEMMA StepsKeep == Inv /\ [Next]_vars => KeptStep /\ PickupStep
<1>. SUFFICES ASSUME Inv, [Next]_vars PROVE KeptStep /\ PickupStep
  OBVIOUS
<1>1. CASE Advance
  BY <1>1, AdvanceKeeps
<1>2. CASE Reconcile
  <2>1. KeptStep
    BY <1>2, ReconcileEffect, BrokenMeans DEF ReconcileDrops, KeptStep
  <2>2. UNCHANGED cargo
    BY <1>2 DEF Reconcile, physical
  <2>. QED  BY <2>1, <2>2, TaskFacts, IdentityAssumption DEF PickupStep
<1>3. ASSUME NEW v \in Vehicles, NEW j \in Jobs, NEW b \in Buffers, Assign(v, j, b)
      PROVE  KeptStep /\ PickupStep
  <2>1. /\ task[v] = None /\ UNCHANGED cargo
        /\ \A w \in Vehicles \ {v} : task'[w] = task[w]
    BY <1>3, AssignFacts DEF Assign, physical
  <2>. QED  BY <2>1, TaskFacts, IdentityAssumption DEF KeptStep, PickupStep
<1>4. CASE UNCHANGED <<task, cargo>>
  BY <1>4, TaskFacts, IdentityAssumption DEF KeptStep, PickupStep
<1>5. ASSUME NEW m \in Machines, Process(m) PROVE UNCHANGED <<task, cargo>>
  BY <1>5 DEF Process, StartOperation
<1>6. ASSUME NEW v \in Vehicles, StartTaskService(v) PROVE UNCHANGED <<task, cargo>>
  BY <1>6 DEF StartTaskService, StartService, physical
<1>7. UNCHANGED vars => UNCHANGED <<task, cargo>>
  BY DEF vars, core
<1>. QED
  BY <1>1, <1>2, <1>3, <1>4, <1>5, <1>6, <1>7 DEF Next, BeginBoundary, ChooseAdvance, Ended

\* Only its delivery or the breakdown of its destination ends a task.
THEOREM TasksKept == Spec => TaskKept
<1>1. Inv /\ [Next]_vars => [KeptStep]_vars
  BY StepsKeep
<1>2. Spec => [][KeptStep]_vars
  BY <1>1, Invariance, PTL DEF Spec
<1>3. TaskKept <=> [][KeptStep]_vars
  BY DEF TaskKept, KeptStep
<1>. QED  BY <1>2, <1>3

\* No job is taken aboard for a destination that breaks at that very tick.
THEOREM PickupsHeedBreakdowns == Spec => NoPickupForBroken
<1>1. Inv /\ [Next]_vars => [PickupStep]_vars
  BY StepsKeep
<1>2. Spec => [][PickupStep]_vars
  BY <1>1, Invariance, PTL DEF Spec
<1>3. NoPickupForBroken <=> [][PickupStep]_vars
  BY DEF NoPickupForBroken, PickupStep
<1>. QED  BY <1>2, <1>3

----------------------------------------------------------------------------
(* Every step of central control is a step of the life of its jobs.        *)

LEMMA RefineInit == Init => Lifecycle!Init
<1>. SUFFICES ASSUME Init PROVE Lifecycle!Init
  OBVIOUS
<1>1. Lifecycle!Exclusive(loc)
  BY InitInv, PlacesExclusive DEF Inv, Structure
<1>2. \A j \in Jobs : loc[j] \in {Unreleased, Queued, InputOf[j]} /\ step[j] = 0
  BY DEF Init, CoreInit
<1>. QED
  BY <1>1, <1>2 DEF Lifecycle!Init, Lifecycle!NotReleased, Lifecycle!InQueue,
                   Unreleased, Queued

LEMMA RefineStep == Inv /\ [Next]_vars => [Lifecycle!Next]_<<loc, step>>
<1>. SUFFICES ASSUME Inv, [Next]_vars
              PROVE  Lifecycle!Next \/ UNCHANGED <<loc, step>>
  OBVIOUS
<1>1. Lifecycle!Exclusive(loc')
  <2>1. Ownership' => Lifecycle!Exclusive(loc)'
    BY PlacesExclusive, PTL
  <2>2. Ownership'
    BY NextInv DEF Inv, Structure
  <2>. QED  BY <2>1, <2>2 DEF Lifecycle!Exclusive
<1>2. ASSUME NEW m \in Machines, Process(m)
      PROVE  Lifecycle!Next
  <2>1. PICK k \in Jobs \ ReservedJobs : StartOperation(m, k)
    BY <1>2 DEF Process
  <2>. QED  BY <1>1, <2>1, RefineStart DEF Lifecycle!Next, Inv
<1>3. CASE Advance
  <2>1. PICK fin \in SUBSET Running, dn \in SUBSET Machines, rel \in Releasable :
            Interval(Cancelled(dn), fin, dn, rel)
    BY <1>3 DEF Advance
  <2>2. Cancelled(dn) \in SUBSET Vehicles
    BY DEF Cancelled
  <2>. QED  BY <1>1, <2>1, <2>2, RefineInterval DEF Lifecycle!Next, Inv
<1>4. CASE BeginBoundary \/ ChooseAdvance \/ UNCHANGED vars
  BY <1>4 DEF BeginBoundary, ChooseAdvance, Reconcile, physical, core, vars
<1>5. ASSUME NEW v \in Vehicles, NEW j \in Jobs, NEW b \in Buffers, Assign(v, j, b)
      PROVE  UNCHANGED <<loc, step>>
  BY <1>5 DEF Assign, physical
<1>6. ASSUME NEW v \in Vehicles, StartTaskService(v)
      PROVE  UNCHANGED <<loc, step>>
  BY <1>6 DEF StartTaskService, StartService, physical
<1>. QED  BY <1>2, <1>3, <1>4, <1>5, <1>6 DEF Next, Ended

\* Whatever the controller assigns, every job lives the life of JobLifecycle.
THEOREM JobsLive == Spec => LifecycleSpec
<1>1. Spec => Lifecycle!Init /\ [][Lifecycle!Next]_<<loc, step>>
  BY RefineInit, RefineStep, Invariance, PTL DEF Spec
<1>. QED  BY <1>1 DEF LifecycleSpec, Lifecycle!Spec
=============================================================================
