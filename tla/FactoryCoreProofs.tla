------------------------- MODULE FactoryCoreProofs -------------------------
(***************************************************************************)
(* Lemmas about the production physics, for every factory: which part of   *)
(* the physical state each operation preserves.  The protocols that extend *)
(* FactoryCore cite them in their own inductive proofs.                    *)
(***************************************************************************)
EXTENDS FactoryCore, FiniteSetTheorems, TLAPS

\* The part of the physical state that is inductive on its own.
Structure ==
    /\ CoreTypeOK /\ Ownership /\ WorkFits
    /\ ServiceBinding /\ TargetSuitsCargo /\ BufferPurpose

----------------------------------------------------------------------------
\* A buffer is the pre buffer of one machine, the post buffer of one machine,
\* an input or an output, and only one of these.
LEMMA BufferRoles ==
    /\ \A m \in Machines : Pre[m] \in PreBuffers /\ Post[m] \in PostBuffers
    /\ \A m, n \in Machines : Pre[m] = Pre[n] \/ Post[m] = Post[n] => m = n
    /\ \A m, n \in Machines : Pre[m] # Post[n]
    /\ PreBuffers \cap PostBuffers = {}
    /\ \A b \in Inputs : b \notin PreBuffers \cup PostBuffers \cup Outputs
    /\ \A b \in Outputs : b \notin PreBuffers \cup PostBuffers \cup Inputs
    /\ Inputs \cup Outputs \cup PreBuffers \cup PostBuffers = Buffers
  BY LayoutAssumption DEF PreBuffers, PostBuffers, Buffers

\* Jobs are delivered to pre buffers and outputs only.
LEMMA DestinationRoles ==
    ASSUME NEW j
    PROVE  DestinationOwners(j) \subseteq PreBuffers \cup Outputs
  BY DEF DestinationOwners, PreBuffers

\* A job in a buffer is on no machine, on no vehicle and in no other buffer.
LEMMA OnePlace ==
    ASSUME CoreTypeOK, Ownership, NEW j \in Jobs, NEW b \in Buffers, j \in store[b]
    PROVE  /\ loc[j] = b
           /\ \A m \in Machines : mjob[m] # j
           /\ \A v \in Vehicles : cargo[v] # j
           /\ \A c \in Buffers : j \in store[c] => c = b
  BY IdentityAssumption DEF Ownership

\* A service belongs to the reservation of its vehicle.
LEMMA ServiceFacts ==
    ASSUME Structure, NEW v \in Vehicles, service[v] # None
    PROVE  /\ service[v] \in Services
           /\ service[v].job \in Jobs /\ service[v].owner \in Buffers
           /\ service[v].owner = target[v] /\ target[v] # None
           /\ service[v].kind = "pickup" \/ service[v].kind = "drop_off"
           /\ service[v].kind = "pickup" =>
                 /\ cargo[v] = None
                 /\ service[v].owner \in Sources
                 /\ service[v].job \in store[service[v].owner]
                 /\ loc[service[v].job] = service[v].owner
           /\ service[v].kind = "drop_off" =>
                 /\ cargo[v] = service[v].job
                 /\ service[v].owner \in DestinationOwners(service[v].job)
                 /\ loc[service[v].job] = v
<1>1. service[v] \in Services
  BY DEF Structure, CoreTypeOK
<1>2. /\ service[v].job \in Jobs /\ service[v].owner \in Buffers
      /\ service[v].kind = "pickup" \/ service[v].kind = "drop_off"
  BY <1>1 DEF Services
<1>3. service[v].owner = target[v]
  BY DEF Structure, ServiceBinding
<1>4. target[v] # None
  BY <1>2, <1>3, IdentityAssumption
<1>5. ASSUME service[v].kind = "pickup"
      PROVE  /\ cargo[v] = None
             /\ service[v].owner \in Sources
             /\ service[v].job \in store[service[v].owner]
             /\ loc[service[v].job] = service[v].owner
  <2>1. cargo[v] = None /\ service[v].job \in store[service[v].owner]
    BY <1>5 DEF Structure, ServiceBinding
  <2>2. service[v].owner \in Sources
    BY <2>1, <1>3, <1>4 DEF Structure, TargetSuitsCargo
  <2>3. loc[service[v].job] = service[v].owner
    BY <2>1, <1>2 DEF Structure, Ownership
  <2>. QED  BY <2>1, <2>2, <2>3
<1>6. ASSUME service[v].kind = "drop_off"
      PROVE  /\ cargo[v] = service[v].job
             /\ service[v].owner \in DestinationOwners(service[v].job)
             /\ loc[service[v].job] = v
  <2>1. cargo[v] = service[v].job /\ cargo[v] # None
    BY <1>6, <1>2, IdentityAssumption DEF Structure, ServiceBinding
  <2>2. service[v].owner \in DestinationOwners(service[v].job)
    BY <2>1, <1>3, <1>4 DEF Structure, TargetSuitsCargo
  <2>3. loc[service[v].job] = v
    BY <2>1, <1>2 DEF Structure, Ownership
  <2>. QED  BY <2>1, <2>2, <2>3
<1>. QED  BY <1>1, <1>2, <1>3, <1>4, <1>5, <1>6

\* A choice of a machine is a job it can work on, waiting in its pre buffer or
\* retained on it.
LEMMA ChoiceFits ==
    ASSUME Structure, NEW m \in Machines, NEW j \in MachineChoices(m)
    PROVE  /\ j \in Jobs
           /\ Needs(j, step[j], m)
           /\ \/ mjob[m] = j /\ mstat[m] = "READY"
              \/ mjob[m] = None /\ mstat[m] = "IDLE" /\ j \in store[Pre[m]]
  BY BufferRoles DEF Structure, CoreTypeOK, WorkFits, MachineChoices

\* Starting an operation keeps the physical state consistent.
LEMMA StartKeepsStructure ==
    ASSUME Structure, NEW m \in Machines, NEW j \in Jobs, StartOperation(m, j)
    PROVE  Structure'
<1>1. /\ Needs(j, step[j], m)
      /\ \/ mjob[m] = j /\ mstat[m] = "READY"
         \/ mjob[m] = None /\ mstat[m] = "IDLE" /\ j \in store[Pre[m]]
  BY ChoiceFits DEF StartOperation
<1>2. loc[j] = m \/ loc[j] = Pre[m]
  BY <1>1, BufferRoles DEF Structure, Ownership
<1>3. CoreTypeOK'
  BY DEF Structure, CoreTypeOK, StartOperation, Locations
<1>4. Ownership'
  <2>1. ASSUME NEW k \in Jobs, NEW b \in Buffers
        PROVE  k \in store'[b] <=> loc'[k] = b
    BY <1>1, <1>2, <2>1, BufferRoles, IdentityAssumption
       DEF Structure, CoreTypeOK, Ownership, StartOperation
  <2>2. ASSUME NEW k \in Jobs, NEW n \in Machines
        PROVE  mjob'[n] = k <=> loc'[k] = n
    BY <1>1, <1>2, <2>2, BufferRoles, IdentityAssumption
       DEF Structure, CoreTypeOK, Ownership, StartOperation
  <2>3. ASSUME NEW k \in Jobs, NEW v \in Vehicles
        PROVE  cargo'[v] = k <=> loc'[k] = v
    BY <1>1, <1>2, <2>3, BufferRoles, IdentityAssumption
       DEF Structure, CoreTypeOK, Ownership, StartOperation
  <2>4. shipped' = {k \in Jobs : loc'[k] \in Outputs}
    BY <1>2, BufferRoles, IdentityAssumption
       DEF Structure, CoreTypeOK, Ownership, StartOperation
  <2>. QED  BY <2>1, <2>2, <2>3, <2>4 DEF Ownership
<1>5. WorkFits'
  BY <1>1, IdentityAssumption
     DEF Structure, CoreTypeOK, WorkFits, StartOperation, Needs
<1>6. ServiceBinding'
  <2>2. \A b \in Sources : store'[b] = store[b]
    BY BufferRoles DEF Structure, CoreTypeOK, StartOperation, Sources
  <2>. QED
    BY <2>2, ServiceFacts DEF Structure, ServiceBinding, StartOperation
<1>7. TargetSuitsCargo'
  BY DEF Structure, TargetSuitsCargo, StartOperation, DestinationOwners, RouteDone,
         Needs, Sources, PostBuffers
<1>8. BufferPurpose'
  BY BufferRoles DEF Structure, CoreTypeOK, BufferPurpose, StartOperation, Needs
<1>. QED  BY <1>3, <1>4, <1>5, <1>6, <1>7, <1>8 DEF Structure

----------------------------------------------------------------------------
(* The physical interval.  Every job takes at most one of its ways: loaded *)
(* by a vehicle, unloaded from one, released by its machine, admitted to its*)
(* input, queued, or left alone.                                           *)

LEMMA LoadingFacts ==
    ASSUME Structure, NEW gone \in SUBSET Vehicles, NEW v \in Loading(gone)
    PROVE  /\ v \in Vehicles /\ cargo[v] = None
           /\ service[v].job \in Jobs /\ service[v].owner \in Sources
           /\ service[v].job \in store[service[v].owner]
           /\ loc[service[v].job] = service[v].owner
           /\ \A w \in Loading(gone) : service[w].job = service[v].job => w = v
  BY ServiceFacts DEF Loading, Transferring, Structure, ServiceBinding

LEMMA UnloadingFacts ==
    ASSUME Structure, NEW gone \in SUBSET Vehicles, NEW v \in Unloading(gone)
    PROVE  /\ v \in Vehicles /\ cargo[v] = service[v].job
           /\ service[v].job \in Jobs
           /\ service[v].owner \in DestinationOwners(service[v].job)
           /\ service[v].owner \in PreBuffers \cup Outputs
           /\ loc[service[v].job] = v
           /\ \A w \in Unloading(gone) : service[w].job = service[v].job => w = v
<1>1. \A w \in Unloading(gone) : /\ w \in Vehicles /\ service[w] # None
                                 /\ service[w].kind = "drop_off"
  BY DEF Unloading, Transferring
<1>2. \A w \in Unloading(gone) : loc[service[w].job] = w
  BY <1>1, ServiceFacts
<1>3. /\ v \in Vehicles /\ cargo[v] = service[v].job /\ service[v].job \in Jobs
      /\ service[v].owner \in DestinationOwners(service[v].job)
  BY <1>1, ServiceFacts
<1>. QED  BY <1>2, <1>3, DestinationRoles

LEMMA MachineFacts ==
    ASSUME Structure, NEW fin \in SUBSET Running, NEW m \in Blocked(fin)
    PROVE  /\ m \in Machines /\ mjob[m] \in Jobs
           /\ loc[mjob[m]] = m
           /\ \A n \in Machines : mjob[n] = mjob[m] => n = m
           /\ m \in fin => Needs(mjob[m], step[mjob[m]], m)
  BY DEF Structure, CoreTypeOK, Ownership, WorkFits, Blocked, Running

LEMMA AdmittedFacts ==
    ASSUME NEW gone, NEW rel \in Releasable, NEW j \in Waiting(rel)
    PROVE  j \in Jobs /\ loc[j] \in {Unreleased, Queued}
  BY DEF Waiting, Releasable

\* The ways are told apart by where the job is when the interval begins.
WaysApart(gone, fin, rel) ==
    /\ \A v \in Loading(gone) :
          /\ v \in Vehicles
          /\ service[v].job \in Jobs
          /\ loc[service[v].job] \in Buffers
          /\ loc[service[v].job] \in Sources
          /\ \A w \in Loading(gone) : service[w].job = service[v].job => w = v
    /\ \A v \in Unloading(gone) :
          /\ v \in Vehicles
          /\ service[v].job \in Jobs
          /\ loc[service[v].job] = v
          /\ service[v].owner \in Buffers
          /\ service[v].owner \in PreBuffers \cup Outputs
          /\ \A w \in Unloading(gone) : service[w].job = service[v].job => w = v
    /\ \A m \in Releasing(gone, fin) :
          /\ m \in Machines
          /\ mjob[m] \in Jobs
          /\ loc[mjob[m]] = m
          /\ \A n \in Releasing(gone, fin) : mjob[n] = mjob[m] => n = m
    /\ \A j \in Admitted(gone, rel) \cup rel :
          j \in Jobs /\ loc[j] \in {Unreleased, Queued}

LEMMA Ways ==
    ASSUME Structure, NEW gone \in SUBSET Vehicles, NEW fin \in SUBSET Running,
           NEW rel \in Releasable
    PROVE  WaysApart(gone, fin, rel)
<1>1. \A v \in Loading(gone) :
          /\ v \in Vehicles /\ service[v].job \in Jobs
          /\ loc[service[v].job] \in Buffers /\ loc[service[v].job] \in Sources
          /\ \A w \in Loading(gone) : service[w].job = service[v].job => w = v
  BY LoadingFacts, BufferRoles DEF Sources
<1>2. \A v \in Unloading(gone) :
          /\ v \in Vehicles /\ service[v].job \in Jobs /\ loc[service[v].job] = v
          /\ service[v].owner \in Buffers /\ service[v].owner \in PreBuffers \cup Outputs
          /\ \A w \in Unloading(gone) : service[w].job = service[v].job => w = v
  BY UnloadingFacts, BufferRoles
<1>3. \A m \in Releasing(gone, fin) :
          /\ m \in Machines /\ mjob[m] \in Jobs /\ loc[mjob[m]] = m
          /\ \A n \in Releasing(gone, fin) : mjob[n] = mjob[m] => n = m
  BY MachineFacts DEF Releasing
<1>4. \A j \in Admitted(gone, rel) \cup rel : j \in Jobs /\ loc[j] \in {Unreleased, Queued}
  BY AdmittedFacts DEF Admitted, Waiting
<1>. QED  BY <1>1, <1>2, <1>3, <1>4 DEF WaysApart

\* The location a job gets is the one its way through the interval implies.
LocationFollows(gone, fin, rel) ==
    /\ \A v \in Loading(gone) : LocationAfter(gone, fin, rel, service[v].job) = v
    /\ \A v \in Unloading(gone) :
          LocationAfter(gone, fin, rel, service[v].job) = service[v].owner
    /\ \A m \in Releasing(gone, fin) :
          LocationAfter(gone, fin, rel, mjob[m]) = Post[m]
    /\ \A j \in Admitted(gone, rel) : LocationAfter(gone, fin, rel, j) = InputOf[j]
    /\ \A j \in rel \ Admitted(gone, rel) : LocationAfter(gone, fin, rel, j) = Queued
    /\ \A j \in Jobs :
          \/ \E v \in Loading(gone) : service[v].job = j
          \/ \E v \in Unloading(gone) : service[v].job = j
          \/ \E m \in Releasing(gone, fin) : mjob[m] = j
          \/ j \in Admitted(gone, rel) \cup rel
          \/ LocationAfter(gone, fin, rel, j) = loc[j]

LEMMA LocationCases ==
    ASSUME Structure, NEW gone \in SUBSET Vehicles, NEW fin \in SUBSET Running,
           NEW rel \in Releasable
    PROVE  LocationFollows(gone, fin, rel)
<1>. WaysApart(gone, fin, rel)
  BY Ways
<1>. USE DEF WaysApart
<1>1. ASSUME NEW v \in Loading(gone)
      PROVE  Loader(gone, service[v].job) = v
  BY <1>1 DEF Loader
<1>2. ASSUME NEW v \in Unloading(gone)
      PROVE  Receiver(gone, service[v].job) = service[v].owner
  <2>1. \A b \in Buffers : service[v].job \in UnloadedJobs(gone, b) <=> b = service[v].owner
    BY DEF UnloadedJobs
  <2>. QED  BY <2>1 DEF Receiver
<1>3. ASSUME NEW m \in Releasing(gone, fin)
      PROVE  Releaser(gone, fin, mjob[m]) = m
  BY <1>3 DEF Releaser
<1>4. ASSUME NEW v \in Unloading(gone)
      PROVE  ~ \E w \in Loading(gone) : service[w].job = service[v].job
  BY IdentityAssumption
<1>5. ASSUME NEW m \in Releasing(gone, fin)
       PROVE  /\ ~ \E w \in Loading(gone) : service[w].job = mjob[m]
              /\ ~ \E w \in Unloading(gone) : service[w].job = mjob[m]
  BY IdentityAssumption
<1>6. ASSUME NEW j \in Admitted(gone, rel) \cup rel
       PROVE  /\ ~ \E v \in Loading(gone) : service[v].job = j
              /\ ~ \E v \in Unloading(gone) : service[v].job = j
              /\ ~ \E m \in Releasing(gone, fin) : mjob[m] = j
  BY IdentityAssumption
<1>7. \A v \in Loading(gone) : LocationAfter(gone, fin, rel, service[v].job) = v
  BY <1>1 DEF LocationAfter
<1>8. \A v \in Unloading(gone) :
          LocationAfter(gone, fin, rel, service[v].job) = service[v].owner
  BY <1>2, <1>4 DEF LocationAfter
<1>9. \A m \in Releasing(gone, fin) : LocationAfter(gone, fin, rel, mjob[m]) = Post[m]
  BY <1>3, <1>5 DEF LocationAfter
<1>10. /\ \A j \in Admitted(gone, rel) : LocationAfter(gone, fin, rel, j) = InputOf[j]
       /\ \A j \in rel \ Admitted(gone, rel) : LocationAfter(gone, fin, rel, j) = Queued
  BY <1>6 DEF LocationAfter
<1>11. ASSUME NEW j \in Jobs,
              ~ \E v \in Loading(gone) : service[v].job = j,
              ~ \E v \in Unloading(gone) : service[v].job = j,
              ~ \E m \in Releasing(gone, fin) : mjob[m] = j,
              j \notin Admitted(gone, rel) \cup rel
       PROVE  LocationAfter(gone, fin, rel, j) = loc[j]
  BY <1>11 DEF LocationAfter
<1>. QED  BY <1>7, <1>8, <1>9, <1>10, <1>11 DEF LocationFollows

\* After the interval every job still has exactly one owner.
LEMMA IntervalKeepsOwnership ==
    ASSUME Structure, NEW gone \in SUBSET Vehicles, NEW fin \in SUBSET Running,
           NEW dn \in SUBSET Machines, NEW rel \in Releasable,
           Interval(gone, fin, dn, rel)
    PROVE  Ownership'
<1>. WaysApart(gone, fin, rel) /\ LocationFollows(gone, fin, rel)
  BY Ways, LocationCases
<1>. USE IdentityAssumption, BufferRoles DEF WaysApart, LocationFollows
<1>1. /\ \A j \in Jobs : loc'[j] = LocationAfter(gone, fin, rel, j)
      /\ \A b \in Buffers, j \in Jobs : j \in store'[b] <=>
            \/ j \in store[b] /\ ~ \E v \in Loading(gone) : service[v].job = j
            \/ \E v \in Unloading(gone) : service[v].job = j /\ service[v].owner = b
            \/ \E m \in Releasing(gone, fin) : mjob[m] = j /\ Post[m] = b
            \/ j \in Admitted(gone, rel) /\ InputOf[j] = b
  BY DEF Interval, AfterServices, LoadedJobs, UnloadedJobs
<1>2. /\ \A m \in Machines :
            mjob'[m] = IF m \in Releasing(gone, fin) THEN None ELSE mjob[m]
      /\ \A v \in Vehicles :
            cargo'[v] = IF v \in Loading(gone) THEN service[v].job
                        ELSE IF v \in Unloading(gone) THEN None ELSE cargo[v]
      /\ \A j : j \in shipped' <=>
            \/ j \in shipped
            \/ \E v \in Unloading(gone) : service[v].job = j /\ service[v].owner \in Outputs
  BY DEF Interval, UnloadedJobs
<1>3. ASSUME NEW j \in Jobs PROVE InputOf[j] \in Buffers /\ InputOf[j] \in Inputs
  BY DemandAssumption
<1>4. ASSUME NEW j \in Jobs
      PROVE  /\ \A b \in Buffers : j \in store[b] <=> loc[j] = b
             /\ \A m \in Machines : mjob[m] = j <=> loc[j] = m
             /\ \A v \in Vehicles : cargo[v] = j <=> loc[j] = v
             /\ j \in shipped <=> loc[j] \in Outputs
  BY <1>4 DEF Structure, Ownership
<1>5. ASSUME NEW j \in Jobs
      PROVE  /\ \A b \in Buffers : j \in store'[b] <=> loc'[j] = b
             /\ \A m \in Machines : mjob'[m] = j <=> loc'[j] = m
             /\ \A v \in Vehicles : cargo'[v] = j <=> loc'[j] = v
             /\ j \in shipped' <=> loc'[j] \in Outputs
  <2>1. CASE \E v \in Loading(gone) : service[v].job = j
    BY <1>1, <1>2, <1>4, <2>1 DEF Sources
  <2>2. CASE \E v \in Unloading(gone) : service[v].job = j
    BY <1>1, <1>2, <1>4, <2>2
  <2>3. CASE \E m \in Releasing(gone, fin) : mjob[m] = j
    BY <1>1, <1>2, <1>4, <2>3
  <2>4. CASE j \in Admitted(gone, rel) \cup rel
    BY <1>1, <1>2, <1>3, <1>4, <2>4
  <2>5. CASE /\ ~ \E v \in Loading(gone) : service[v].job = j
             /\ ~ \E v \in Unloading(gone) : service[v].job = j
             /\ ~ \E m \in Releasing(gone, fin) : mjob[m] = j
             /\ j \notin Admitted(gone, rel) \cup rel
    <3>1. loc'[j] = loc[j]
      BY <1>1, <2>5
    <3>2. \A b \in Buffers : j \in store'[b] <=> j \in store[b]
      BY <1>1, <2>5
    <3>3. /\ \A m \in Machines : mjob'[m] = j <=> mjob[m] = j
          /\ \A v \in Vehicles : cargo'[v] = j <=> cargo[v] = j
      <4>1. \A v \in Unloading(gone) : cargo[v] = service[v].job
        BY UnloadingFacts
      <4>2. \A v \in Loading(gone) : cargo[v] # j
        BY LoadingFacts
      <4>. QED  BY <1>2, <2>5, <4>1, <4>2
    <3>4. j \in shipped' <=> j \in shipped
      BY <1>2, <2>5
    <3>. QED  BY <1>4, <3>1, <3>2, <3>3, <3>4
  <2>. QED  BY <2>1, <2>2, <2>3, <2>4, <2>5
<1>6. shipped' \subseteq Jobs
  <2>1. shipped \subseteq Jobs
    BY DEF Structure, CoreTypeOK
  <2>. QED  BY <1>2, <2>1
<1>. QED  BY <1>5, <1>6 DEF Ownership

\* Only a job on a machine that completes an operation advances on its route.
LEMMA StepUnmoved ==
    ASSUME Structure, NEW fin \in SUBSET Running, NEW j \in Jobs
    PROVE  /\ StepAfter(fin)[j] \in Nat
           /\ StepAfter(fin)[j] <= Len(Route[j])
           /\ (\A m \in fin : mjob[m] # j) => StepAfter(fin)[j] = step[j]
<1>1. step[j] \in Nat /\ step[j] <= Len(Route[j]) /\ Len(Route[j]) \in Nat
  BY DemandAssumption DEF Structure, CoreTypeOK
<1>2. ASSUME NEW m \in fin, mjob[m] = j
      PROVE  step[j] < Len(Route[j])
  BY <1>2, MachineFacts DEF Blocked, Needs
<1>. QED  BY <1>1, <1>2 DEF StepAfter

\* The interval keeps every machine on an operation it can execute.
LEMMA IntervalKeepsWork ==
    ASSUME Structure, NEW gone \in SUBSET Vehicles, NEW fin \in SUBSET Running,
           NEW dn \in SUBSET Machines, NEW rel \in Releasable,
           Interval(gone, fin, dn, rel)
    PROVE  WorkFits'
<1>. SUFFICES ASSUME NEW m \in Machines
              PROVE  /\ mjob'[m] = None <=> mstat'[m] = "IDLE"
                     /\ mstat'[m] \in {"READY", "PROCESSING"} =>
                           Needs(mjob'[m], step'[mjob'[m]], m)
  BY DEF WorkFits, Needs
<1>1. /\ mjob'[m] = IF m \in Releasing(gone, fin) THEN None ELSE mjob[m]
      /\ mstat'[m] = IF m \in Retained(fin) THEN "READY"
                     ELSE IF m \in Releasing(gone, fin) THEN "IDLE"
                     ELSE IF m \in fin THEN "BLOCKED" ELSE mstat[m]
      /\ step' = StepAfter(fin)
  BY DEF Interval
<1>2. /\ mjob[m] = None <=> mstat[m] = "IDLE"
      /\ mstat[m] \in {"READY", "PROCESSING"} => Needs(mjob[m], step[mjob[m]], m)
      /\ mjob[m] \in Jobs \cup {None}
      /\ mstat[m] \in {"IDLE", "READY", "PROCESSING", "BLOCKED"}
  BY DEF Structure, CoreTypeOK, WorkFits
<1>3. \A n \in Blocked(fin) : mjob[n] \in Jobs /\ mjob[n] # None
  BY MachineFacts, IdentityAssumption
<1>4. CASE m \in Retained(fin)
  BY <1>1, <1>3, <1>4 DEF Retained, Releasing
<1>5. CASE m \in Releasing(gone, fin)
  BY <1>1, <1>5 DEF Releasing
<1>6. CASE m \in fin \ (Retained(fin) \cup Releasing(gone, fin))
  BY <1>1, <1>3, <1>6 DEF Blocked
<1>7. CASE m \notin fin \cup Retained(fin) \cup Releasing(gone, fin)
  <2>1. ASSUME mjob[m] \in Jobs, NEW n \in fin PROVE mjob[n] # mjob[m]
    BY <1>7, <2>1, MachineFacts DEF Blocked
  <2>2. mjob[m] \in Jobs => step'[mjob[m]] = step[mjob[m]]
    BY <1>1, <2>1, StepUnmoved
  <2>. QED  BY <1>1, <1>2, <1>7, <2>2
<1>. QED  BY <1>4, <1>5, <1>6, <1>7

\* The interval keeps the physical state well typed.
LEMMA IntervalKeepsType ==
    ASSUME Structure, NEW gone \in SUBSET Vehicles, NEW fin \in SUBSET Running,
           NEW dn \in SUBSET Machines, NEW rel \in Releasable,
           Interval(gone, fin, dn, rel),
           target' \in [Vehicles -> Buffers \cup {None}]
    PROVE  CoreTypeOK'
<1>. WaysApart(gone, fin, rel) /\ LocationFollows(gone, fin, rel)
  BY Ways, LocationCases
<1>1. loc' \in [Jobs -> Locations]
  <2>. SUFFICES ASSUME NEW j \in Jobs
                PROVE  LocationAfter(gone, fin, rel, j) \in Locations
    BY DEF Interval
  <2>1. loc[j] \in Locations /\ InputOf[j] \in Locations /\ Queued \in Locations
    BY DemandAssumption, BufferRoles DEF Structure, CoreTypeOK, Locations
  <2>2. \A m \in Machines : Post[m] \in Locations
    BY BufferRoles DEF Locations
  <2>. QED  BY <2>1, <2>2 DEF WaysApart, LocationFollows, Locations
<1>2. step' \in [Jobs -> Nat] /\ \A j \in Jobs : step'[j] <= Len(Route[j])
  BY StepUnmoved DEF Interval, StepAfter
<1>3. store' \in [Buffers -> SUBSET Jobs]
  BY DEF Interval, Structure, CoreTypeOK, AfterServices, UnloadedJobs, WaysApart
<1>4. mstat' \in [Machines -> {"IDLE", "READY", "PROCESSING", "BLOCKED"}]
  BY DEF Interval, Structure, CoreTypeOK
<1>5. mjob' \in [Machines -> Jobs \cup {None}]
  BY DEF Interval, Structure, CoreTypeOK
<1>6. cargo' \in [Vehicles -> Jobs \cup {None}]
  BY DEF Interval, Structure, CoreTypeOK, WaysApart
<1>7. service' \in [Vehicles -> Services \cup {None}]
  BY DEF Interval
<1>8. shipped' \subseteq Jobs
  BY IntervalKeepsOwnership DEF Ownership
<1>9. outages' \in [Machines -> Nat] /\ down' \subseteq Machines
  BY DEF Interval, Structure, CoreTypeOK
<1>. QED  BY <1>1, <1>2, <1>3, <1>4, <1>5, <1>6, <1>7, <1>8, <1>9 DEF CoreTypeOK

\* The jobs that enter input i.
Entering(gone, rel, i) == {j \in Admitted(gone, rel) : InputOf[j] = i}

\* Buffers gain jobs from vehicles, from their machine or from the demand
\* queue only.
StoreFollows(gone, fin, rel) ==
    /\ \A b \in PreBuffers \cup Outputs : store'[b] = AfterServices(gone, b)
    /\ \A i \in Inputs :
          /\ AfterServices(gone, i) \subseteq store[i]
          /\ store'[i] = AfterServices(gone, i) \cup Entering(gone, rel, i)
    /\ \A m \in Machines :
          /\ AfterServices(gone, Post[m]) \subseteq store[Post[m]]
          /\ m \notin Releasing(gone, fin) =>
                store'[Post[m]] = AfterServices(gone, Post[m])
          /\ m \in Releasing(gone, fin) =>
                store'[Post[m]] = AfterServices(gone, Post[m]) \cup {mjob[m]}

LEMMA StoreAfter ==
    ASSUME Structure, NEW gone \in SUBSET Vehicles, NEW fin \in SUBSET Running,
           NEW dn \in SUBSET Machines, NEW rel \in Releasable,
           Interval(gone, fin, dn, rel)
    PROVE  StoreFollows(gone, fin, rel)
<1>. WaysApart(gone, fin, rel)
  BY Ways
<1>1. \A b \in Buffers : store'[b] =
          AfterServices(gone, b)
          \cup {mjob[m] : m \in {n \in Releasing(gone, fin) : Post[n] = b}}
          \cup {j \in Admitted(gone, rel) : InputOf[j] = b}
  BY DEF Interval
<1>2. \A m \in Releasing(gone, fin) : m \in Machines
  BY DEF WaysApart
<1>3. \A j \in Admitted(gone, rel) : InputOf[j] \in Inputs
  BY DemandAssumption DEF WaysApart
<1>4. \A b \in Inputs \cup PostBuffers : UnloadedJobs(gone, b) = {}
  BY BufferRoles DEF WaysApart, UnloadedJobs
<1>5. ASSUME NEW b \in PreBuffers \cup Outputs
      PROVE  store'[b] = AfterServices(gone, b)
  <2>1. {mjob[m] : m \in {n \in Releasing(gone, fin) : Post[n] = b}} = {}
    BY <1>2, BufferRoles
  <2>2. {j \in Admitted(gone, rel) : InputOf[j] = b} = {}
    BY <1>3, BufferRoles
  <2>3. b \in Buffers
    BY BufferRoles
  <2>. QED  BY <1>1, <2>1, <2>2, <2>3
<1>6. ASSUME NEW i \in Inputs
      PROVE  /\ AfterServices(gone, i) \subseteq store[i]
             /\ store'[i] = AfterServices(gone, i) \cup Entering(gone, rel, i)
  <2>1. ~ \E n \in Releasing(gone, fin) : Post[n] = i
    BY <1>2, BufferRoles
  <2>. QED  BY <1>1, <1>4, <2>1, BufferRoles DEF AfterServices, Entering
<1>7. ASSUME NEW m \in Machines
      PROVE  /\ AfterServices(gone, Post[m]) \subseteq store[Post[m]]
             /\ m \notin Releasing(gone, fin) =>
                   store'[Post[m]] = AfterServices(gone, Post[m])
             /\ m \in Releasing(gone, fin) =>
                   store'[Post[m]] = AfterServices(gone, Post[m]) \cup {mjob[m]}
  <2>1. \A n \in Releasing(gone, fin) : Post[n] = Post[m] <=> n = m
    BY <1>2, BufferRoles
  <2>2. \A j \in Admitted(gone, rel) : InputOf[j] # Post[m]
    BY <1>3, BufferRoles
  <2>. QED  BY <1>1, <1>4, <2>1, <2>2, BufferRoles DEF AfterServices
<1>. QED  BY <1>5, <1>6, <1>7 DEF StoreFollows

\* The interval leaves work on the right side of every machine.
LEMMA IntervalKeepsPurpose ==
    ASSUME Structure, NEW gone \in SUBSET Vehicles, NEW fin \in SUBSET Running,
           NEW dn \in SUBSET Machines, NEW rel \in Releasable,
           Interval(gone, fin, dn, rel)
    PROVE  BufferPurpose'
<1>. SUFFICES ASSUME NEW m \in Machines
              PROVE  /\ \A j \in store'[Pre[m]] : Needs(j, step'[j], m)
                     /\ \A j \in store'[Post[m]] : ~Needs(j, step'[j], m)
  BY DEF BufferPurpose, Needs
<1>1. step' = StepAfter(fin)
  BY DEF Interval
<1>2. ASSUME NEW j \in Jobs, NEW b \in Buffers, j \in store[b]
      PROVE  step'[j] = step[j]
  <2>1. \A n \in fin : mjob[n] # j
    BY <1>2, OnePlace DEF Structure, Running
  <2>. QED  BY <1>1, <2>1, StepUnmoved
<1>3. ASSUME NEW j \in store'[Pre[m]]
      PROVE  Needs(j, step'[j], m)
  <2>1. CASE j \in store[Pre[m]]
    BY <1>2, <2>1, BufferRoles DEF Structure, CoreTypeOK, BufferPurpose
  <2>2. CASE j \notin store[Pre[m]]
    <3>. store'[Pre[m]] = AfterServices(gone, Pre[m])
      BY StoreAfter, BufferRoles DEF StoreFollows
    <3>1. PICK v \in Unloading(gone) : service[v].job = j /\ service[v].owner = Pre[m]
      BY <1>3, <2>2 DEF AfterServices, UnloadedJobs
    <3>2. Pre[m] \in DestinationOwners(j) /\ loc[j] = v /\ j \in Jobs /\ v \in Vehicles
      BY <3>1, UnloadingFacts
    <3>3. Needs(j, step[j], m)
      BY <3>2, BufferRoles DEF DestinationOwners
    <3>4. \A n \in fin : mjob[n] # j
      BY <3>2, MachineFacts, IdentityAssumption DEF Blocked
    <3>. QED  BY <1>1, <3>2, <3>3, <3>4, StepUnmoved
  <2>. QED  BY <2>1, <2>2
<1>4. ASSUME NEW j \in store'[Post[m]]
      PROVE  ~Needs(j, step'[j], m)
  <2>1. CASE j \in store[Post[m]]
    BY <1>2, <2>1, BufferRoles DEF Structure, CoreTypeOK, BufferPurpose
  <2>2. CASE j \notin store[Post[m]]
    <3>. /\ AfterServices(gone, Post[m]) \subseteq store[Post[m]]
         /\ m \notin Releasing(gone, fin) =>
                store'[Post[m]] = AfterServices(gone, Post[m])
         /\ m \in Releasing(gone, fin) =>
                store'[Post[m]] = AfterServices(gone, Post[m]) \cup {mjob[m]}
      BY StoreAfter DEF StoreFollows
    <3>1. j = mjob[m] /\ m \in Releasing(gone, fin)
      BY <1>4, <2>2
    <3>. QED  BY <1>1, <3>1 DEF Releasing, Retained
  <2>. QED  BY <2>1, <2>2
<1>. QED  BY <1>3, <1>4

\* The interval does not change where the cargo of a vehicle may be delivered.
LEMMA IntervalKeepsDestinations ==
    ASSUME Structure, NEW gone \in SUBSET Vehicles, NEW fin \in SUBSET Running,
           NEW dn \in SUBSET Machines, NEW rel \in Releasable,
           Interval(gone, fin, dn, rel),
           NEW j \in Jobs, loc[j] \notin Machines
    PROVE  DestinationOwners(j)' = DestinationOwners(j)
<1>1. \A n \in fin : mjob[n] # j
  BY DEF Structure, Ownership, Running
<1>2. step'[j] = step[j]
  BY <1>1, StepUnmoved DEF Interval
<1>. QED  BY <1>2 DEF DestinationOwners, RouteDone, Needs

----------------------------------------------------------------------------
\* Capacity.

\* The image of a finite set has at most as many elements, and exactly as many
\* when no two elements have the same image.
LEMMA ImageBound ==
    ASSUME NEW W, IsFiniteSet(W), NEW T, NEW f,
           \A w \in W : f[w] \in T, \A t \in T : \E w \in W : f[w] = t
    PROVE  /\ IsFiniteSet(T) /\ Cardinality(T) <= Cardinality(W)
           /\ (\A v, w \in W : f[v] = f[w] => v = w) => Cardinality(T) = Cardinality(W)
<1>. DEFINE g == [w \in W |-> f[w]]
<1>1. g \in Surjection(W, T)
  BY DEF Surjection
<1>2. (\A v, w \in W : f[v] = f[w] => v = w) => g \in Injection(W, T)
  BY DEF Injection, IsInjective
<1>. QED  BY <1>1, <1>2, FS_Surjection

\* The contents of buffers and the sets of vehicles are finite.
LEMMA Finite ==
    ASSUME CoreTypeOK
    PROVE  /\ \A b \in Buffers : IsFiniteSet(store[b]) /\ Cardinality(store[b]) \in Nat
           /\ \A S \in SUBSET Vehicles : IsFiniteSet(S) /\ Cardinality(S) \in Nat
           /\ \A S \in SUBSET Jobs : IsFiniteSet(S) /\ Cardinality(S) \in Nat
<1>1. /\ \A S \in SUBSET Vehicles : IsFiniteSet(S)
      /\ \A S \in SUBSET Jobs : IsFiniteSet(S)
  BY FS_Subset, LayoutAssumption
<1>2. \A b \in Buffers : store[b] \in SUBSET Jobs
  BY DEF CoreTypeOK
<1>. QED  BY <1>1, <1>2, FS_CardinalityType

\* Unloading brings no more jobs into a buffer than it has slots locked.
LEMMA UnloadedBound ==
    ASSUME Structure, NEW gone \in SUBSET Vehicles, NEW b \in Buffers
    PROVE  /\ UnloadedJobs(gone, b) \in SUBSET Jobs
           /\ Cardinality(UnloadedJobs(gone, b)) <= Cardinality(ServiceOf("drop_off", b))
           /\ ServiceOf("drop_off", b) \in SUBSET Vehicles
<1>. DEFINE W == {w \in Unloading(gone) : service[w].owner = b}
            f == [w \in Vehicles |-> service[w].job]
<1>1. W \in SUBSET Vehicles /\ W \subseteq ServiceOf("drop_off", b)
  BY DEF Unloading, Transferring, ServiceOf
<1>2. ServiceOf("drop_off", b) \in SUBSET Vehicles
  BY DEF ServiceOf
<1>3. /\ \A w \in W : f[w] \in UnloadedJobs(gone, b)
      /\ \A j \in UnloadedJobs(gone, b) : \E w \in W : f[w] = j
  BY <1>1 DEF UnloadedJobs
<1>4. Cardinality(UnloadedJobs(gone, b)) <= Cardinality(W)
  BY <1>1, <1>3, ImageBound, Finite DEF Structure
<1>5. Cardinality(W) <= Cardinality(ServiceOf("drop_off", b))
  BY <1>1, <1>2, Finite, FS_Subset DEF Structure
<1>6. UnloadedJobs(gone, b) \in SUBSET Jobs
  BY UnloadingFacts DEF UnloadedJobs
<1>7. /\ Cardinality(W) \in Nat /\ Cardinality(UnloadedJobs(gone, b)) \in Nat
      /\ Cardinality(ServiceOf("drop_off", b)) \in Nat
  BY <1>1, <1>2, <1>6, Finite DEF Structure
<1>. QED  BY <1>2, <1>4, <1>5, <1>6, <1>7

\* Hence a buffer never overflows when services transfer.
LEMMA AfterServicesFits ==
    ASSUME Structure, SlotLocks, NEW gone \in SUBSET Vehicles, NEW b \in Buffers
    PROVE  /\ AfterServices(gone, b) \in SUBSET Jobs
           /\ Cardinality(AfterServices(gone, b)) \in Nat
           /\ Cardinality(AfterServices(gone, b)) <= Capacity[b]
<1>. DEFINE S == store[b] \ LoadedJobs(gone)
            U == UnloadedJobs(gone, b)
<1>1. store[b] \in SUBSET Jobs /\ S \in SUBSET Jobs /\ U \in SUBSET Jobs
  BY UnloadedBound DEF Structure, CoreTypeOK
<1>2. /\ IsFiniteSet(S) /\ IsFiniteSet(U) /\ IsFiniteSet(store[b])
      /\ Cardinality(S) \in Nat /\ Cardinality(U) \in Nat /\ Cardinality(store[b]) \in Nat
      /\ Cardinality(S \cap U) \in Nat /\ Cardinality(S \cup U) \in Nat
  BY <1>1, Finite DEF Structure
<1>3. Cardinality(S) <= Cardinality(store[b])
  BY <1>2, FS_Subset
<1>4. Cardinality(S \cup U) = Cardinality(S) + Cardinality(U) - Cardinality(S \cap U)
  BY <1>2, FS_Union
<1>5. /\ Cardinality(U) <= Cardinality(ServiceOf("drop_off", b))
      /\ Cardinality(ServiceOf("drop_off", b)) \in Nat
  BY UnloadedBound, Finite DEF Structure
<1>6. /\ Cardinality(store[b]) + Cardinality(ServiceOf("drop_off", b)) <= Capacity[b]
      /\ Capacity[b] \in Nat
  BY LayoutAssumption DEF SlotLocks
<1>7. AfterServices(gone, b) = S \cup U
  BY DEF AfterServices
<1>. QED  BY <1>1, <1>2, <1>3, <1>4, <1>5, <1>6, <1>7

\* Of the jobs W that wait at one input, at most `free` have fewer than `free`
\* ahead of them: the number of jobs ahead tells them apart.
AheadIn(W, j) == {k \in W : InputOf[k] = InputOf[j] /\ Rank[k] < Rank[j]}

LEMMA QueueBound ==
    ASSUME NEW W \in SUBSET Jobs, NEW A \in SUBSET W, NEW free \in Nat,
           \A j, k \in A : InputOf[j] = InputOf[k],
           \A j \in A : Cardinality(AheadIn(W, j)) < free
    PROVE  IsFiniteSet(A) /\ Cardinality(A) \in Nat /\ Cardinality(A) <= free
<1>. DEFINE f == [j \in A |-> Cardinality(AheadIn(W, j))]
<1>1. \A S \in SUBSET Jobs : IsFiniteSet(S) /\ Cardinality(S) \in Nat
  BY LayoutAssumption, FS_Subset, FS_CardinalityType
<1>2. \A j \in A : /\ AheadIn(W, j) \in SUBSET Jobs /\ j \in Jobs /\ j \in W
                   /\ IsFiniteSet(AheadIn(W, j)) /\ Cardinality(AheadIn(W, j)) \in Nat
  BY <1>1 DEF AheadIn
<1>3. \A j \in A : f[j] \in 0 .. free - 1
  BY <1>2
<1>4. ASSUME NEW j \in A, NEW k \in A, Rank[j] < Rank[k]
      PROVE  f[j] < f[k]
  <2>1. AheadIn(W, j) \cup {j} \subseteq AheadIn(W, k)
    BY <1>2, <1>4, DemandAssumption DEF AheadIn
  <2>2. j \notin AheadIn(W, j)
    BY <1>2, DemandAssumption DEF AheadIn
  <2>3. /\ IsFiniteSet(AheadIn(W, j) \cup {j})
        /\ Cardinality(AheadIn(W, j) \cup {j}) = Cardinality(AheadIn(W, j)) + 1
    BY <1>2, <2>2, FS_AddElement
  <2>4. Cardinality(AheadIn(W, j) \cup {j}) <= Cardinality(AheadIn(W, k))
    BY <1>2, <2>1, FS_Subset
  <2>. QED  BY <1>2, <2>3, <2>4
<1>5. \A j, k \in A : f[j] = f[k] => j = k
  <2>. SUFFICES ASSUME NEW j \in A, NEW k \in A, j # k PROVE f[j] # f[k]
    OBVIOUS
  <2>1. Rank[j] < Rank[k] \/ Rank[k] < Rank[j]
    BY <1>2, DemandAssumption
  <2>2. f[j] \in Nat /\ f[k] \in Nat
    BY <1>2
  <2>. QED  BY <1>4, <2>1, <2>2
<1>6. f \in Injection(A, 0 .. free - 1)
  BY <1>3, <1>5 DEF Injection, IsInjective
<1>7. /\ IsFiniteSet(0 .. free - 1)
      /\ Cardinality(0 .. free - 1) = free
  <2>1. 0 \in Int /\ free - 1 \in Int
    OBVIOUS
  <2>2. /\ IsFiniteSet(0 .. free - 1)
        /\ Cardinality(0 .. free - 1) = IF 0 > free - 1 THEN 0 ELSE (free - 1) - 0 + 1
    BY <2>1, FS_Interval
  <2>. QED  BY <2>2
<1>8. Cardinality(A) <= free
  <2>. HIDE DEF f
  <2>. QED  BY <1>6, <1>7, FS_Injection
<1>. QED  BY <1>1, <1>8

\* An input admits no more jobs than it has free slots.
LEMMA AdmissionBound ==
    ASSUME Structure, SlotLocks, NEW gone \in SUBSET Vehicles, NEW rel \in Releasable,
           NEW i \in Inputs
    PROVE  /\ Entering(gone, rel, i) \in SUBSET Jobs
           /\ Cardinality(Entering(gone, rel, i)) + Cardinality(AfterServices(gone, i))
                 <= Capacity[i]
<1>. DEFINE A == Entering(gone, rel, i)
            free == Capacity[i] - Cardinality(AfterServices(gone, i))
<1>1. i \in Buffers /\ Capacity[i] \in Nat
  BY BufferRoles, LayoutAssumption
<1>2. /\ Cardinality(AfterServices(gone, i)) \in Nat
      /\ Cardinality(AfterServices(gone, i)) <= Capacity[i]
  BY <1>1, AfterServicesFits
<1>3. free \in Nat
  BY <1>1, <1>2
<1>4. Waiting(rel) \in SUBSET Jobs
  BY AdmittedFacts DEF Releasable
<1>5. /\ A \in SUBSET Waiting(rel)
      /\ \A j \in A : InputOf[j] = i /\ Ahead(rel, j) = AheadIn(Waiting(rel), j)
  BY DEF Entering, Admitted, Ahead, AheadIn
<1>6. \A j \in A : Cardinality(AheadIn(Waiting(rel), j)) < free
  <2>. SUFFICES ASSUME NEW j \in A
                PROVE  Cardinality(Ahead(rel, j)) < free
    BY <1>5
  <2>1. Cardinality(Ahead(rel, j)) + Cardinality(AfterServices(gone, i)) < Capacity[i]
    BY DEF Entering, Admitted
  <2>2. Ahead(rel, j) \in SUBSET Jobs
    BY <1>4 DEF Ahead
  <2>3. Cardinality(Ahead(rel, j)) \in Nat
    BY <2>2, Finite DEF Structure
  <2>. QED  BY <1>1, <1>2, <2>1, <2>3
<1>7. Cardinality(A) \in Nat /\ Cardinality(A) <= free
  <2>. HIDE DEF A, free
  <2>. QED  BY <1>3, <1>4, <1>5, <1>6, QueueBound
<1>. QED  BY <1>1, <1>2, <1>4, <1>5, <1>7

\* No storage overflows in the interval.
LEMMA IntervalKeepsSlots ==
    ASSUME Structure, SlotLocks, NEW gone \in SUBSET Vehicles, NEW fin \in SUBSET Running,
           NEW dn \in SUBSET Machines, NEW rel \in Releasable,
           Interval(gone, fin, dn, rel)
    PROVE  SlotLocks' /\ \A b \in Buffers : Cardinality(store'[b]) <= Capacity[b]
<1>0. StoreFollows(gone, fin, rel)
  BY StoreAfter
<1>1. \A b \in Buffers : ServiceOf("drop_off", b)' = {}
  BY DEF Interval, ServiceOf
<1>2. ASSUME NEW b \in Buffers
      PROVE  Cardinality(store'[b]) \in Nat /\ Cardinality(store'[b]) <= Capacity[b]
  <2>. DEFINE S == AfterServices(gone, b)
  <2>1. /\ S \in SUBSET Jobs /\ IsFiniteSet(S) /\ Cardinality(S) \in Nat
        /\ Cardinality(S) <= Capacity[b] /\ Capacity[b] \in Nat
    BY AfterServicesFits, Finite, LayoutAssumption DEF Structure
  <2>2. CASE b \in PreBuffers \cup Outputs
    BY <1>0, <2>1, <2>2 DEF StoreFollows
  <2>3. CASE b \in Inputs
    <3>. DEFINE A == Entering(gone, rel, b)
    <3>1. A \in SUBSET Jobs /\ Cardinality(A) + Cardinality(S) <= Capacity[b]
      BY <2>3, AdmissionBound
    <3>2. IsFiniteSet(A) /\ Cardinality(A) \in Nat /\ Cardinality(S \cap A) \in Nat
      BY <2>1, <3>1, Finite DEF Structure
    <3>3. Cardinality(S \cup A) = Cardinality(S) + Cardinality(A) - Cardinality(S \cap A)
      BY <2>1, <3>2, FS_Union
    <3>4. store'[b] = S \cup A
      BY <1>0, <2>3 DEF StoreFollows
    <3>. QED  BY <2>1, <3>1, <3>2, <3>3, <3>4, Finite DEF Structure
  <2>4. CASE b \in PostBuffers
    <3>1. PICK m \in Machines : b = Post[m]
      BY <2>4 DEF PostBuffers
    <3>2. /\ m \in Releasing(gone, fin) => store'[b] = S \cup {mjob[m]}
          /\ m \notin Releasing(gone, fin) => store'[b] = S
      BY <1>0, <3>1 DEF StoreFollows
    <3>3. CASE m \in Releasing(gone, fin)
      <4>1. Cardinality(S) < Capacity[b]
        BY <3>1, <3>3 DEF Releasing
      <4>2. Cardinality(S \cup {mjob[m]})
              = IF mjob[m] \in S THEN Cardinality(S) ELSE Cardinality(S) + 1
        BY <2>1, FS_AddElement
      <4>3. /\ Cardinality(S \cup {mjob[m]}) \in Nat
            /\ Cardinality(S \cup {mjob[m]}) <= Capacity[b]
        BY <2>1, <4>1, <4>2
      <4>. QED  BY <3>2, <3>3, <4>3
    <3>4. CASE m \notin Releasing(gone, fin)
      BY <2>1, <3>2, <3>4
    <3>. QED  BY <3>3, <3>4
  <2>. QED  BY <2>2, <2>3, <2>4, BufferRoles
<1>3. Cardinality({}) = 0
  BY FS_EmptySet
<1>4. ASSUME NEW b \in Buffers
      PROVE  Cardinality(store'[b]) + Cardinality(ServiceOf("drop_off", b)') <= Capacity[b]
  BY <1>1, <1>2, <1>3, LayoutAssumption
<1>. QED  BY <1>2, <1>4 DEF SlotLocks

\* A machine that is still blocked after the interval found its buffer full.
LEMMA IntervalKeepsBlocked ==
    ASSUME Structure, SlotLocks, NEW gone \in SUBSET Vehicles, NEW fin \in SUBSET Running,
           NEW dn \in SUBSET Machines, NEW rel \in Releasable,
           Interval(gone, fin, dn, rel)
    PROVE  BlockedMeansFull'
<1>. SUFFICES ASSUME NEW m \in Machines, mstat'[m] = "BLOCKED"
              PROVE  /\ Cardinality(store'[Post[m]]) = Capacity[Post[m]]
                     /\ ~Needs(mjob'[m], step'[mjob'[m]], m)
  BY DEF BlockedMeansFull, Needs
<1>1. m \in Blocked(fin) \ Retained(fin) /\ m \notin Releasing(gone, fin)
  BY DEF Interval, Blocked
<1>2. mjob'[m] = mjob[m] /\ step' = StepAfter(fin)
  BY <1>1 DEF Interval
<1>3. store'[Post[m]] = AfterServices(gone, Post[m])
  BY <1>1, StoreAfter DEF StoreFollows
<1>4. ~(Cardinality(AfterServices(gone, Post[m])) < Capacity[Post[m]])
  BY <1>1 DEF Releasing
<1>5. /\ Cardinality(AfterServices(gone, Post[m])) \in Nat
      /\ Cardinality(AfterServices(gone, Post[m])) <= Capacity[Post[m]]
      /\ Capacity[Post[m]] \in Nat
  BY AfterServicesFits, BufferRoles, LayoutAssumption
<1>. QED  BY <1>1, <1>2, <1>3, <1>4, <1>5 DEF Retained

\* Demands are released in order, and the released ones of an input enter it
\* in order.
ReleasedInOrder ==
    \A j, k \in Jobs :
        Rank[j] < Rank[k] /\ loc[j] = Unreleased => loc[k] = Unreleased

LEMMA IntervalKeepsOrder ==
    ASSUME Structure, SlotLocks, ReleasedInOrder, AdmittedInOrder,
           NEW gone \in SUBSET Vehicles, NEW fin \in SUBSET Running,
           NEW dn \in SUBSET Machines, NEW rel \in Releasable,
           Interval(gone, fin, dn, rel)
    PROVE  ReleasedInOrder' /\ AdmittedInOrder'
<1>. DEFINE Outside(j) == j \in {Unreleased, Queued}
<1>1. WaysApart(gone, fin, rel) /\ LocationFollows(gone, fin, rel)
  BY Ways, LocationCases
<1>2. \A j \in Jobs : /\ loc'[j] = LocationAfter(gone, fin, rel, j)
                      /\ loc[j] \in Locations
                      /\ InputOf[j] \in Buffers
  BY DemandAssumption, BufferRoles DEF Interval, Structure, CoreTypeOK
<1>3. ASSUME NEW j \in Jobs, Outside(loc'[j])
      PROVE  Outside(loc[j]) /\ j \notin Admitted(gone, rel)
  BY <1>1, <1>2, <1>3, BufferRoles, IdentityAssumption DEF WaysApart, LocationFollows
<1>4. ASSUME NEW j \in Jobs, Outside(loc[j]), j \notin Admitted(gone, rel)
      PROVE  /\ Outside(loc'[j])
             /\ loc'[j] = Unreleased <=> loc[j] = Unreleased /\ j \notin rel
  BY <1>1, <1>2, <1>4, IdentityAssumption
     DEF WaysApart, LocationFollows, Unreleased, Queued
<1>5. ASSUME NEW j \in Jobs, NEW k \in Jobs, Rank[j] < Rank[k], loc'[j] = Unreleased
      PROVE  loc'[k] = Unreleased
  <2>1. loc[j] = Unreleased /\ j \notin rel
    BY <1>3, <1>4, <1>5
  <2>2. loc[k] = Unreleased /\ k \notin rel
    BY <1>5, <2>1 DEF ReleasedInOrder, Releasable
  <2>3. k \notin Waiting(rel)
    BY <2>2 DEF Waiting, Unreleased, Queued
  <2>. QED  BY <1>4, <2>2, <2>3 DEF Admitted
<1>6. ASSUME NEW j \in Jobs, NEW k \in Jobs, InputOf[j] = InputOf[k], Rank[j] < Rank[k],
             Outside(loc'[j])
      PROVE  Outside(loc'[k])
  <2>1. Outside(loc[j]) /\ j \notin Admitted(gone, rel)
    BY <1>3, <1>6
  <2>2. Outside(loc[k])
    BY <1>6, <2>1 DEF AdmittedInOrder
  <2>3. CASE k \in Admitted(gone, rel)
    <3>1. k \in Waiting(rel)
      BY <2>3 DEF Admitted
    <3>2. j \in Waiting(rel)
      BY <1>6, <2>1, <3>1 DEF Waiting, ReleasedInOrder, Releasable, Unreleased, Queued
    <3>3. Ahead(rel, j) \subseteq Ahead(rel, k) /\ Ahead(rel, k) \in SUBSET Jobs
      BY <1>6, AdmittedFacts, DemandAssumption DEF Ahead
    <3>4. /\ Cardinality(Ahead(rel, j)) <= Cardinality(Ahead(rel, k))
          /\ Cardinality(Ahead(rel, j)) \in Nat /\ Cardinality(Ahead(rel, k)) \in Nat
      BY <3>3, Finite, FS_Subset DEF Structure
    <3>5. Cardinality(AfterServices(gone, InputOf[j])) \in Nat /\ Capacity[InputOf[j]] \in Nat
      BY <1>2, AfterServicesFits, LayoutAssumption
    <3>6. Cardinality(Ahead(rel, k)) + Cardinality(AfterServices(gone, InputOf[j]))
            < Capacity[InputOf[j]]
      BY <1>6, <2>3 DEF Admitted
    <3>7. j \in Admitted(gone, rel)
      BY <3>2, <3>4, <3>5, <3>6 DEF Admitted
    <3>. QED  BY <2>1, <3>7
  <2>. QED  BY <1>4, <2>2, <2>3
<1>7. ReleasedInOrder'
  BY <1>5 DEF ReleasedInOrder
<1>8. AdmittedInOrder'
  BY <1>6 DEF AdmittedInOrder
<1>. QED  BY <1>7, <1>8

----------------------------------------------------------------------------
(* Starting operations and services.                                       *)

\* A set that holds one job less, or the same jobs, is not larger.
LEMMA StartKeepsSlots ==
    ASSUME Structure, SlotLocks, BlockedMeansFull, ReleasedInOrder, AdmittedInOrder,
           NEW m \in Machines, NEW j \in Jobs, StartOperation(m, j)
    PROVE  SlotLocks' /\ BlockedMeansFull' /\ ReleasedInOrder' /\ AdmittedInOrder'
<1>1. SlotLocks'
  <2>. SUFFICES ASSUME NEW b \in Buffers
                PROVE  Cardinality(store'[b]) + Cardinality(ServiceOf("drop_off", b)')
                         <= Capacity[b]
    BY DEF SlotLocks
  <2>1. ServiceOf("drop_off", b)' = ServiceOf("drop_off", b)
    BY DEF ServiceOf, StartOperation
  <2>2. store'[b] \subseteq store[b]
    BY DEF StartOperation, Structure, CoreTypeOK
  <2>3. /\ IsFiniteSet(store[b]) /\ Cardinality(store[b]) \in Nat
        /\ ServiceOf("drop_off", b) \in SUBSET Vehicles
        /\ store[b] \in SUBSET Jobs
    BY Finite DEF Structure, CoreTypeOK, ServiceOf
  <2>4. Cardinality(store'[b]) <= Cardinality(store[b]) /\ Cardinality(store'[b]) \in Nat
    BY <2>2, <2>3, FS_Subset, Finite DEF Structure
  <2>5. Cardinality(ServiceOf("drop_off", b)) \in Nat /\ Capacity[b] \in Nat
    BY <2>3, Finite, LayoutAssumption DEF Structure
  <2>. QED  BY <2>1, <2>3, <2>4, <2>5 DEF SlotLocks
<1>2. BlockedMeansFull'
  <2>. SUFFICES ASSUME NEW n \in Machines, mstat'[n] = "BLOCKED"
                PROVE  /\ Cardinality(store'[Post[n]]) = Capacity[Post[n]]
                       /\ ~Needs(mjob'[n], step'[mjob'[n]], n)
    BY DEF BlockedMeansFull, Needs
  <2>1. n # m /\ mstat[n] = "BLOCKED" /\ mjob'[n] = mjob[n] /\ step' = step
    BY DEF StartOperation, Structure, CoreTypeOK
  <2>2. store'[Post[n]] = store[Post[n]]
    BY BufferRoles DEF StartOperation, Structure, CoreTypeOK
  <2>. QED  BY <2>1, <2>2 DEF BlockedMeansFull
<1>3. \A k \in Jobs : /\ loc'[k] = Unreleased <=> loc[k] = Unreleased
                      /\ loc'[k] = Queued <=> loc[k] = Queued
  <2>1. loc[j] = m \/ loc[j] = Pre[m]
    BY ChoiceFits, BufferRoles DEF Structure, Ownership, StartOperation
  <2>2. loc[j] \notin {Unreleased, Queued} /\ m \notin {Unreleased, Queued}
    BY <2>1, BufferRoles, IdentityAssumption
  <2>. QED  BY <2>2 DEF StartOperation, Structure, CoreTypeOK
<1>4. ReleasedInOrder'
  BY <1>3 DEF ReleasedInOrder
<1>5. AdmittedInOrder'
  BY <1>3 DEF AdmittedInOrder
<1>. QED  BY <1>1, <1>2, <1>4, <1>5

\* A vehicle on site begins a loading service with a job no other vehicle is
\* loading, or an unloading service with a slot no other vehicle has locked.
LEMMA ServiceKeepsStructure ==
    ASSUME Structure, SlotLocks,
           NEW v \in Vehicles, target[v] # None, service[v] = None,
           NEW kind, NEW j,
           \/ kind = "pickup" /\ target[v] \in Sources /\ j \in Ready(target[v])
           \/ /\ kind = "drop_off" /\ target[v] \in PreBuffers \cup Outputs
              /\ j = cargo[v] /\ FreeDrop(target[v]),
           StartService(v, kind, j, target[v])
    PROVE  Structure' /\ SlotLocks'
<1>. DEFINE s == [kind |-> kind, job |-> j, owner |-> target[v]]
<1>1. /\ UNCHANGED <<physical, target>>
      /\ service' = [service EXCEPT ![v] = s]
      /\ service'[v] = s
      /\ \A w \in Vehicles \ {v} : service'[w] = service[w]
  BY DEF StartService, Structure, CoreTypeOK
<1>2. target[v] \in Buffers
  BY DEF Structure, CoreTypeOK
<1>3. target[v] \in PreBuffers \cup Outputs => cargo[v] # None /\ target[v] \notin Sources
  BY <1>2, BufferRoles DEF Structure, TargetSuitsCargo, Sources
<1>4. target[v] \in Sources => cargo[v] = None
  <2>1. target[v] \in DestinationOwners(cargo[v]) => target[v] \in PreBuffers \cup Outputs
    BY DestinationRoles
  <2>. QED  BY <1>3, <2>1 DEF Structure, TargetSuitsCargo
<1>5. j \in Jobs /\ kind \in {"pickup", "drop_off"}
  BY <1>2, <1>3 DEF Structure, CoreTypeOK, Ready
<1>6. s \in Services
  BY <1>2, <1>5 DEF Services
<1>7. CoreTypeOK'
  BY <1>1, <1>6 DEF Structure, CoreTypeOK, physical
<1>8. Ownership' /\ WorkFits' /\ BufferPurpose' /\ TargetSuitsCargo'
  <2>1. Ownership'
    BY <1>1 DEF Structure, Ownership, physical
  <2>2. WorkFits' /\ BufferPurpose'
    BY <1>1 DEF Structure, WorkFits, BufferPurpose, Needs, physical
  <2>3. TargetSuitsCargo'
    BY <1>1 DEF Structure, TargetSuitsCargo, DestinationOwners, RouteDone, Needs, physical
  <2>. QED  BY <2>1, <2>2, <2>3
<1>9. ServiceBinding'
  <2>. SUFFICES ASSUME NEW w \in Vehicles, service'[w] # None
                PROVE  /\ service'[w].owner = target[w]
                       /\ service'[w].kind = "drop_off" => service'[w].job = cargo[w]
                       /\ service'[w].kind = "pickup" =>
                             /\ cargo[w] = None
                             /\ service'[w].job \in store[service'[w].owner]
                             /\ \A u \in Vehicles \ {w} :
                                   service'[u] # None => service'[u].job # service'[w].job
    BY <1>1 DEF ServiceBinding, physical
  <2>1. CASE kind = "pickup"
    <3>1. j \in store[target[v]] /\ target[v] \in Sources /\ j \notin Bound /\ cargo[v] = None
      BY <1>3, <1>4, <2>1 DEF Ready
    <3>2. \A u \in Vehicles : cargo[u] # j
      BY <1>2, <1>5, <3>1, OnePlace DEF Structure
    <3>3. \A u \in Vehicles \ {v} : service[u] # None => service[u].job # j
      BY <3>1, <3>2, ServiceFacts DEF Bound
    <3>. QED  BY <1>1, <2>1, <3>1, <3>2, <3>3 DEF Structure, ServiceBinding
  <2>2. CASE kind = "drop_off"
    <3>1. j = cargo[v] /\ cargo[v] # None
      BY <1>3, <1>2, <2>2, BufferRoles
    <3>2. \A b \in Buffers : j \notin store[b]
      BY <1>5, <3>1, OnePlace DEF Structure
    <3>3. ASSUME NEW u \in Vehicles, service[u] # None, service[u].kind = "pickup"
          PROVE  service[u].job # j
      BY <3>2, <3>3, ServiceFacts
    <3>. QED  BY <1>1, <2>2, <3>1, <3>3 DEF Structure, ServiceBinding
  <2>. QED  BY <1>5, <2>1, <2>2
<1>10. SlotLocks'
  <2>. SUFFICES ASSUME NEW b \in Buffers
                PROVE  Cardinality(store[b]) + Cardinality(ServiceOf("drop_off", b)')
                         <= Capacity[b]
    BY <1>1 DEF SlotLocks, physical
  <2>1. Cardinality(store[b]) + Cardinality(ServiceOf("drop_off", b)) <= Capacity[b]
    BY DEF SlotLocks
  <2>2. CASE kind = "drop_off" /\ b = target[v]
    <3>1. ServiceOf("drop_off", b)' = ServiceOf("drop_off", b) \cup {v}
      <4>1. service'[v].kind = "drop_off" /\ service'[v].owner = b /\ service'[v] # None
        BY <1>1, <1>6, <2>2, IdentityAssumption
      <4>. QED  BY <1>1, <4>1 DEF ServiceOf
    <3>2. v \notin ServiceOf("drop_off", b) /\ ServiceOf("drop_off", b) \in SUBSET Vehicles
      BY DEF ServiceOf
    <3>3. IsFiniteSet(ServiceOf("drop_off", b)) /\ Cardinality(ServiceOf("drop_off", b)) \in Nat
      BY <3>2, Finite DEF Structure
    <3>4. Cardinality(ServiceOf("drop_off", b)') = Cardinality(ServiceOf("drop_off", b)) + 1
      BY <3>1, <3>2, <3>3, FS_AddElement
    <3>5. Cardinality(store[b]) + Cardinality(ServiceOf("drop_off", b)) < Capacity[b]
      BY <2>2 DEF FreeDrop
    <3>6. Cardinality(store[b]) \in Nat /\ Capacity[b] \in Nat
      BY Finite, LayoutAssumption DEF Structure
    <3>. QED  BY <3>3, <3>4, <3>5, <3>6
  <2>3. CASE ~(kind = "drop_off" /\ b = target[v])
    <3>1. ServiceOf("drop_off", b)' = ServiceOf("drop_off", b)
      BY <1>1, <2>3 DEF ServiceOf
    <3>. QED  BY <2>1, <3>1
  <2>. QED  BY <2>2, <2>3
<1>. QED  BY <1>7, <1>8, <1>9, <1>10 DEF Structure

----------------------------------------------------------------------------
(* Jobs at a station.                                                      *)

\* A machine has one started job exactly when it is occupied.
LEMMA StartedJob ==
    ASSUME Structure, NEW m \in Machines
    PROVE  /\ Started(m) = {mjob[m]} \ {None}
           /\ Started(m) \cap store[Post[m]] = {}
           /\ Started(m) \cap store[Pre[m]] = {}
           /\ Started(m) \subseteq Jobs
<1>1. /\ mjob[m] \in Jobs \cup {None}
      /\ mjob[m] = None <=> mstat[m] = "IDLE"
      /\ mjob[m] \in Jobs => loc[mjob[m]] = m
      /\ \A j \in Jobs : mjob[m] = j => loc[j] = m
  BY DEF Structure, CoreTypeOK, WorkFits, Ownership
<1>2. \A j \in Jobs : /\ j \in store[Post[m]] => loc[j] = Post[m]
                      /\ j \in store[Pre[m]] => loc[j] = Pre[m]
  BY BufferRoles DEF Structure, Ownership
<1>3. m # Post[m] /\ m # Pre[m]
  BY BufferRoles, IdentityAssumption
<1>. QED  BY <1>1, <1>2, <1>3, IdentityAssumption DEF Started

\* What backs the pickups of a machine: its post buffer and its started job.
Backing(m) == store[Post[m]] \cup ({mjob[m]} \ {None})

LEMMA BackingCount ==
    ASSUME Structure, NEW m \in Machines
    PROVE  /\ Backing(m) \in SUBSET Jobs
           /\ Cardinality(Backing(m)) = Cardinality(store[Post[m]]) + Cardinality(Started(m))
<1>1. Started(m) \in SUBSET Jobs /\ store[Post[m]] \in SUBSET Jobs
  BY StartedJob, BufferRoles DEF Structure, CoreTypeOK
<1>2. /\ IsFiniteSet(Started(m)) /\ IsFiniteSet(store[Post[m]])
      /\ Cardinality(Started(m)) \in Nat /\ Cardinality(store[Post[m]]) \in Nat
  BY <1>1, Finite DEF Structure
<1>3. store[Post[m]] \cap Started(m) = {} /\ Backing(m) = store[Post[m]] \cup Started(m)
  BY StartedJob DEF Backing
<1>4. Cardinality(Backing(m)) = Cardinality(store[Post[m]]) + Cardinality(Started(m)) - 0
  BY <1>2, <1>3, FS_Union, FS_EmptySet
<1>. QED  BY <1>1, <1>2, <1>3, <1>4

\* The jobs of a station are counted once each.
LEMMA StationCount ==
    ASSUME Structure, NEW m \in Machines
    PROVE  /\ StationItems(m) \in SUBSET Jobs
           /\ Cardinality(StationItems(m)) \in Nat
           /\ StationCapacity(m) \in Nat
           /\ Cardinality(StationItems(m))
                = Cardinality(store[Pre[m]]) + Cardinality(store[Post[m]])
                  + Cardinality(Started(m))
<1>1. store[Pre[m]] \in SUBSET Jobs /\ Backing(m) \in SUBSET Jobs
  BY BackingCount, BufferRoles DEF Structure, CoreTypeOK
<1>2. /\ IsFiniteSet(Backing(m)) /\ IsFiniteSet(store[Pre[m]])
      /\ Cardinality(Backing(m)) \in Nat /\ Cardinality(store[Pre[m]]) \in Nat
  BY <1>1, Finite DEF Structure
<1>3. store[Pre[m]] \cap Backing(m) = {}
  <2>1. \A j \in store[Pre[m]] : j \notin store[Post[m]]
    BY <1>1, BufferRoles, OnePlace DEF Structure
  <2>. QED  BY <2>1, StartedJob DEF Backing
<1>4. StationItems(m) = store[Pre[m]] \cup Backing(m)
  BY DEF StationItems, Backing
<1>5. Cardinality(StationItems(m)) = Cardinality(store[Pre[m]]) + Cardinality(Backing(m)) - 0
  BY <1>2, <1>3, <1>4, FS_Union, FS_EmptySet
<1>6. StationCapacity(m) \in Nat
  BY BufferRoles, LayoutAssumption DEF StationCapacity
<1>7. /\ Cardinality(Started(m)) \in Nat /\ Cardinality(store[Post[m]]) \in Nat
  <2>1. Started(m) \in SUBSET Jobs
    BY StartedJob
  <2>. QED  BY <2>1, BufferRoles, Finite DEF Structure
<1>. QED  BY <1>1, <1>2, <1>4, <1>5, <1>6, <1>7, BackingCount

\* A set that loses at most the jobs of L keeps the rest of its size.
LEMMA Loses ==
    ASSUME NEW A \in SUBSET Jobs, NEW B \in SUBSET Jobs, NEW L \in SUBSET Jobs,
           A \ L \subseteq B, NEW k \in Nat, Cardinality(L) <= k
    PROVE  Cardinality(B) >= Cardinality(A) - k
<1>1. \A S \in SUBSET Jobs : IsFiniteSet(S) /\ Cardinality(S) \in Nat
  BY LayoutAssumption, FS_Subset, FS_CardinalityType
<1>2. Cardinality(A) <= Cardinality(B \cup L)
  BY <1>1, FS_Subset
<1>3. Cardinality(B \cup L) = Cardinality(B) + Cardinality(L) - Cardinality(B \cap L)
  BY <1>1, FS_Union
<1>4. /\ Cardinality(A) \in Nat /\ Cardinality(B) \in Nat /\ Cardinality(L) \in Nat
      /\ Cardinality(B \cap L) \in Nat /\ Cardinality(B \cup L) \in Nat
  BY <1>1
<1>. QED  BY <1>2, <1>3, <1>4

\* A blocked machine with a full pre buffer fills its whole station.
LEMMA FullStation ==
    ASSUME Structure, BlockedMeansFull, NEW m \in Machines,
           Cardinality(store[Pre[m]]) = Capacity[Pre[m]], mstat[m] = "BLOCKED"
    PROVE  Cardinality(StationItems(m)) = StationCapacity(m)
<1>1. Cardinality(store[Post[m]]) = Capacity[Post[m]]
  BY DEF BlockedMeansFull
<1>2. Cardinality(Started(m)) = 1
  <2>1. mjob[m] # None
    BY DEF Structure, WorkFits
  <2>2. Started(m) = {mjob[m]}
    BY <2>1, StartedJob
  <2>. QED  BY <2>2, FS_Singleton
<1>3. Capacity[Pre[m]] \in Nat /\ Capacity[Post[m]] \in Nat
  BY BufferRoles, LayoutAssumption
<1>. QED  BY <1>1, <1>2, <1>3, StationCount DEF StationCapacity

\* An operation starts on a job of the station.
LEMMA StartKeepsStations ==
    ASSUME Structure, NEW m \in Machines, NEW j \in Jobs, StartOperation(m, j),
           NEW n \in Machines
    PROVE  StationItems(n)' \subseteq StationItems(n)
<1>1. /\ j = mjob[m] \/ j \in store[Pre[m]]
      /\ \A b \in Buffers : store'[b] \subseteq store[b]
      /\ mjob' = [mjob EXCEPT ![m] = j]
  BY ChoiceFits DEF StartOperation, Structure, CoreTypeOK
<1>2. store'[Pre[n]] \subseteq store[Pre[n]] /\ store'[Post[n]] \subseteq store[Post[n]]
  BY <1>1, BufferRoles
<1>. QED  BY <1>1, <1>2 DEF StationItems, Structure, CoreTypeOK

\* A station gains jobs in an interval only by the unloading services of its
\* pre buffer.
LEMMA StationGains ==
    ASSUME Structure, NEW gone \in SUBSET Vehicles, NEW fin \in SUBSET Running,
           NEW dn \in SUBSET Machines, NEW rel \in Releasable,
           Interval(gone, fin, dn, rel), NEW m \in Machines
    PROVE  StationItems(m)' \ UnloadedJobs(gone, Pre[m]) \subseteq StationItems(m)
<1>. StoreFollows(gone, fin, rel) /\ WaysApart(gone, fin, rel)
  BY StoreAfter, Ways
<1>1. store'[Pre[m]] = AfterServices(gone, Pre[m])
  BY BufferRoles DEF StoreFollows
<1>2. /\ m \in Releasing(gone, fin) =>
            mjob[m] \in Jobs /\ store'[Post[m]] \subseteq store[Post[m]] \cup {mjob[m]}
      /\ m \notin Releasing(gone, fin) => store'[Post[m]] \subseteq store[Post[m]]
  BY DEF StoreFollows, WaysApart
<1>3. mjob'[m] = mjob[m] \/ mjob'[m] = None
  BY DEF Interval
<1>. QED  BY <1>1, <1>2, <1>3, IdentityAssumption DEF StationItems, AfterServices

----------------------------------------------------------------------------
(* Every start and every interval is a step of the life of the jobs.       *)

LEMMA PlacesExclusive ==
    Ownership => Lifecycle!Exclusive(loc)
  BY DEF Ownership, Lifecycle!Exclusive

LEMMA RefineStart ==
    ASSUME Structure, NEW m \in Machines, NEW k \in Jobs, StartOperation(m, k), NEW j \in Jobs
    PROVE  Lifecycle!Stay(j) \/ Lifecycle!Start(j)
<1>1. /\ Needs(k, step[k], m) /\ step' = step
      /\ loc[k] = m \/ loc[k] = Pre[m]
      /\ loc' = [loc EXCEPT ![k] = m] /\ loc \in [Jobs -> Locations]
  BY ChoiceFits, BufferRoles
     DEF StartOperation, Structure, CoreTypeOK, Ownership
<1>. QED
  BY <1>1 DEF Lifecycle!Stay, Lifecycle!Start, Lifecycle!NextOpOn, Needs

\* The way of a job through an interval is one event of its life.
LEMMA RefineInterval ==
    ASSUME Structure, NEW gone \in SUBSET Vehicles, NEW fin \in SUBSET Running,
           NEW dn \in SUBSET Machines, NEW rel \in Releasable,
           Interval(gone, fin, dn, rel), NEW j \in Jobs
    PROVE  \/ Lifecycle!Stay(j) \/ Lifecycle!Arrive(j) \/ Lifecycle!Collect(j)
           \/ Lifecycle!Deliver(j) \/ Lifecycle!Work(j) \/ Lifecycle!Leave(j)
<1>. WaysApart(gone, fin, rel) /\ LocationFollows(gone, fin, rel)
  BY Ways, LocationCases
<1>1. loc'[j] = LocationAfter(gone, fin, rel, j) /\ step'[j] = StepAfter(fin)[j]
  BY DEF Interval
<1>2. loc[j] \notin Machines => step'[j] = step[j]
  <2>1. \A n \in fin : mjob[n] = j => loc[j] = n
    BY DEF Structure, Ownership, Running
  <2>2. fin \subseteq Machines
    BY DEF Running
  <2>. QED  BY <1>1, <2>1, <2>2, StepUnmoved
<1>3. CASE \E v \in Loading(gone) : service[v].job = j
  <2>1. PICK v \in Loading(gone) : service[v].job = j
    BY <1>3
  <2>2. loc[j] \in Sources /\ loc'[j] = v /\ v \in Vehicles /\ loc[j] \in Buffers
    BY <1>1, <2>1 DEF WaysApart, LocationFollows
  <2>3. step'[j] = step[j]
    BY <1>2, <2>2, IdentityAssumption
  <2>. QED  BY <2>2, <2>3 DEF Lifecycle!Collect, Sources, PostBuffers
<1>4. CASE \E v \in Unloading(gone) : service[v].job = j
  <2>1. PICK v \in Unloading(gone) : service[v].job = j
    BY <1>4
  <2>2. loc[j] = v /\ v \in Vehicles /\ loc'[j] = service[v].owner
    BY <1>1, <2>1 DEF WaysApart, LocationFollows
  <2>3. step'[j] = step[j]
    BY <1>2, <2>2, IdentityAssumption
  <2>4. service[v].owner \in DestinationOwners(j)
    BY <2>1, UnloadingFacts
  <2>5. step[j] \in Nat /\ step[j] <= Len(Route[j]) /\ Len(Route[j]) \in Nat
    BY DemandAssumption DEF Structure, CoreTypeOK
  <2>6. CASE RouteDone(j)
    <3>1. step[j] = Len(Route[j]) /\ loc'[j] \in Outputs
      BY <2>2, <2>4, <2>5, <2>6 DEF RouteDone, DestinationOwners
    <3>. QED  BY <2>2, <2>3, <3>1 DEF Lifecycle!Deliver
  <2>7. CASE ~RouteDone(j)
    <3>1. PICK m \in Machines : Needs(j, step[j], m) /\ loc'[j] = Pre[m]
      BY <2>2, <2>4, <2>7 DEF DestinationOwners
    <3>. QED  BY <2>2, <2>3, <3>1 DEF Lifecycle!Deliver, Lifecycle!NextOpOn, Needs
  <2>. QED  BY <2>6, <2>7
<1>5. CASE \E m \in Releasing(gone, fin) : mjob[m] = j
  <2>1. PICK m \in Releasing(gone, fin) : mjob[m] = j
    BY <1>5
  <2>2. m \in Machines /\ loc[j] = m /\ loc'[j] = Post[m]
    BY <1>1, <2>1 DEF WaysApart, LocationFollows
  <2>3. ~Needs(j, StepAfter(fin)[j], m)
    BY <2>1 DEF Releasing, Retained
  <2>4. CASE m \in fin
    <3>1. step'[j] = step[j] + 1
      BY <1>1, <2>1, <2>4 DEF StepAfter
    <3>2. Needs(j, step[j], m)
      BY <2>1, <2>4, MachineFacts DEF Blocked
    <3>. QED
      BY <1>1, <2>2, <2>3, <3>1, <3>2 DEF Lifecycle!Work, Lifecycle!NextOpOn, Needs
  <2>5. CASE m \notin fin
    <3>1. \A n \in fin : mjob[n] # j
      BY <2>1, <2>5, MachineFacts DEF Releasing, Blocked
    <3>2. step'[j] = step[j]
      BY <1>1, <3>1, StepUnmoved
    <3>. QED
      BY <1>1, <2>2, <2>3, <3>2 DEF Lifecycle!Leave, Lifecycle!NextOpOn, Needs
  <2>. QED  BY <2>4, <2>5
<1>6. CASE j \in Admitted(gone, rel)
  <2>1. loc[j] \in {Unreleased, Queued} /\ loc'[j] = InputOf[j]
    BY <1>1, <1>6 DEF WaysApart, LocationFollows
  <2>2. step'[j] = step[j]
    BY <1>2, <2>1, IdentityAssumption
  <2>. QED
    BY <2>1, <2>2 DEF Lifecycle!Arrive, Lifecycle!NotReleased, Lifecycle!InQueue,
                      Unreleased, Queued
<1>7. CASE j \in rel \ Admitted(gone, rel)
  <2>1. loc[j] = Unreleased /\ loc'[j] = Queued
    BY <1>1, <1>7 DEF LocationFollows, Releasable
  <2>2. step'[j] = step[j]
    BY <1>2, <2>1, IdentityAssumption
  <2>. QED
    BY <2>1, <2>2 DEF Lifecycle!Arrive, Lifecycle!NotReleased, Lifecycle!InQueue,
                      Unreleased, Queued
<1>8. CASE LocationAfter(gone, fin, rel, j) = loc[j]
  <2>1. CASE \E m \in fin : mjob[m] = j
    <3>1. PICK m \in fin : mjob[m] = j
      BY <2>1
    <3>2. step'[j] = step[j] + 1
      BY <1>1, <3>1 DEF StepAfter
    <3>3. m \in Machines /\ loc[j] = m /\ Needs(j, step[j], m)
      BY <3>1, MachineFacts DEF Blocked
    <3>. QED  BY <1>1, <1>8, <3>2, <3>3 DEF Lifecycle!Work, Lifecycle!NextOpOn, Needs
  <2>2. CASE ~ \E m \in fin : mjob[m] = j
    BY <1>1, <1>8, <2>2, StepUnmoved DEF Lifecycle!Stay
  <2>. QED  BY <2>1, <2>2
<1>. QED  BY <1>3, <1>4, <1>5, <1>6, <1>7, <1>8 DEF LocationFollows

----------------------------------------------------------------------------
(* The initial state.                                                      *)

LEMMA InitKeepsStructure ==
    ASSUME CoreInit
    PROVE  /\ Structure /\ SlotLocks /\ BlockedMeansFull
           /\ ReleasedInOrder /\ AdmittedInOrder
<1>1. PICK rel \in SUBSET Jobs, dn \in SUBSET Machines :
        /\ \A j \in rel, k \in Jobs : Rank[k] < Rank[j] => k \in rel
        /\ \A m \in dn : Outages[m] > 0
        /\ loc = [j \in Jobs |->
                    IF j \in {i \in rel : Cardinality(AheadIn(rel, i)) < Capacity[InputOf[i]]}
                    THEN InputOf[j] ELSE IF j \in rel THEN Queued ELSE Unreleased]
        /\ step = [j \in Jobs |-> 0]
        /\ store = [b \in Buffers |->
                      {j \in {i \in rel : Cardinality(AheadIn(rel, i)) < Capacity[InputOf[i]]} :
                          InputOf[j] = b}]
        /\ mstat = [m \in Machines |-> "IDLE"]
        /\ mjob = [m \in Machines |-> None]
        /\ down = dn
        /\ outages = [m \in Machines |-> IF m \in dn THEN Outages[m] - 1 ELSE Outages[m]]
        /\ cargo = [v \in Vehicles |-> None]
        /\ target = [v \in Vehicles |-> None]
        /\ service = [v \in Vehicles |-> None]
        /\ shipped = {}
  BY Zenon DEF CoreInit, AheadIn
<1>. DEFINE entered == {i \in rel : Cardinality(AheadIn(rel, i)) < Capacity[InputOf[i]]}
<1>2. /\ entered \in SUBSET Jobs
      /\ loc = [j \in Jobs |-> IF j \in entered THEN InputOf[j]
                               ELSE IF j \in rel THEN Queued ELSE Unreleased]
      /\ store = [b \in Buffers |-> {j \in entered : InputOf[j] = b}]
  BY <1>1
<1>3. \A j \in Jobs : InputOf[j] \in Inputs /\ InputOf[j] \in Buffers
  BY DemandAssumption, BufferRoles
<1>. HIDE DEF entered
<1>4. CoreTypeOK
  BY <1>1, <1>2, <1>3, DemandAssumption DEF CoreTypeOK, Locations
<1>5. Ownership
  <2>1. ASSUME NEW j \in Jobs
        PROVE  /\ \A b \in Buffers : j \in store[b] <=> loc[j] = b
               /\ \A m \in Machines : mjob[m] = j <=> loc[j] = m
               /\ \A v \in Vehicles : cargo[v] = j <=> loc[j] = v
               /\ loc[j] \notin Outputs
    <3>1. InputOf[j] \in Buffers /\ InputOf[j] \notin Outputs
      BY <1>3, BufferRoles
    <3>2. Outputs \subseteq Buffers
      BY BufferRoles
    <3>. QED  BY <1>1, <1>2, <3>1, <3>2, IdentityAssumption
  <2>. QED  BY <1>1, <2>1 DEF Ownership
<1>6. WorkFits /\ ServiceBinding /\ TargetSuitsCargo /\ BlockedMeansFull
  BY <1>1 DEF WorkFits, ServiceBinding, TargetSuitsCargo, BlockedMeansFull
<1>7. BufferPurpose
  <2>1. \A b \in PreBuffers \cup PostBuffers : store[b] = {}
    BY <1>2, <1>3, BufferRoles
  <2>. QED  BY <2>1, BufferRoles DEF BufferPurpose
<1>8. SlotLocks
  <2>. SUFFICES ASSUME NEW b \in Buffers
                PROVE  Cardinality(store[b]) + Cardinality(ServiceOf("drop_off", b))
                         <= Capacity[b]
    BY DEF SlotLocks
  <2>1. ServiceOf("drop_off", b) = {}
    BY <1>1 DEF ServiceOf
  <2>2. Capacity[b] \in Nat
    BY LayoutAssumption
  <2>3. /\ store[b] \in SUBSET rel
        /\ \A j \in store[b] : InputOf[j] = b /\ Cardinality(AheadIn(rel, j)) < Capacity[b]
    BY <1>2 DEF entered
  <2>4. Cardinality(store[b]) \in Nat /\ Cardinality(store[b]) <= Capacity[b]
    BY <2>2, <2>3, QueueBound
  <2>. QED  BY <2>1, <2>2, <2>4, FS_EmptySet
<1>9. ReleasedInOrder
  BY <1>1, <1>2, <1>3, IdentityAssumption DEF ReleasedInOrder, Unreleased, Queued, entered
<1>10. AdmittedInOrder
  <2>. SUFFICES ASSUME NEW j \in Jobs, NEW k \in Jobs, InputOf[j] = InputOf[k],
                       Rank[j] < Rank[k], k \in entered
                PROVE  j \in entered
    BY <1>2, <1>3, IdentityAssumption DEF AdmittedInOrder
  <2>1. k \in rel /\ j \in rel
    BY <1>1 DEF entered
  <2>2. /\ AheadIn(rel, j) \subseteq AheadIn(rel, k)
        /\ AheadIn(rel, k) \in SUBSET Jobs /\ AheadIn(rel, j) \in SUBSET Jobs
    BY DemandAssumption DEF AheadIn
  <2>3. /\ Cardinality(AheadIn(rel, j)) <= Cardinality(AheadIn(rel, k))
        /\ Cardinality(AheadIn(rel, j)) \in Nat /\ Cardinality(AheadIn(rel, k)) \in Nat
    BY <1>4, <2>2, Finite, FS_Subset
  <2>4. Cardinality(AheadIn(rel, k)) < Capacity[InputOf[j]] /\ Capacity[InputOf[j]] \in Nat
    BY <1>3, LayoutAssumption DEF entered
  <2>. QED  BY <2>1, <2>3, <2>4 DEF entered
<1>. QED  BY <1>4, <1>5, <1>6, <1>7, <1>8, <1>9, <1>10 DEF Structure
=============================================================================
