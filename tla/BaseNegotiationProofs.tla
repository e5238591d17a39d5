----------------------- MODULE BaseNegotiationProofs -----------------------
(***************************************************************************)
(* The safety of the Base reservation protocol, for every factory, every   *)
(* number of vehicles and every answer of the policies.                    *)
(*                                                                         *)
(* StationAdmission and PickupBacked are not inductive alone: a delivery   *)
(* turns a commitment into an item of the station only because a service   *)
(* belongs to a reservation (ServiceBinding) that ends with it, and a      *)
(* loaded job leaves the supply together with exactly one commitment       *)
(* because no two loading services share a job.  Inv adds what they rest   *)
(* on: the structure of the physical state, the slot locks, and what the   *)
(* phases of a boundary guarantee.                                         *)
(***************************************************************************)
EXTENDS BaseNegotiation, FactoryCoreProofs

\* Services are selected last in a boundary and all transferred by advance().
QuietService ==
    phase # "service" => \A v \in Vehicles : service[v] = None

\* A vehicle that negotiates has no reservation.
ActiveIdle == \A v \in active : target[v] = None

Inv ==
    /\ TypeOK /\ Structure /\ SlotLocks /\ BlockedMeansFull
    /\ ReleasedInOrder /\ AdmittedInOrder
    /\ StationAdmission /\ PickupBacked
    /\ QuietService /\ ActiveIdle

----------------------------------------------------------------------------
(* Supply, commitments and quota.                                          *)

\* The supply of every owner that has a quota.
LEMMA SupplyCases ==
    /\ \A i \in Inputs : Supply(i) = Cardinality(store[i])
    /\ \A m \in Machines :
          /\ Supply(Post[m]) = Cardinality(store[Post[m]]) + Cardinality(Started(m))
          /\ Supply(Pre[m]) = StationCapacity(m) - Cardinality(StationItems(m))
<1>1. \A i \in Inputs : Supply(i) = Cardinality(store[i])
  BY BufferRoles DEF Supply
<1>2. ASSUME NEW m \in Machines
      PROVE  /\ Supply(Post[m]) = Cardinality(store[Post[m]]) + Cardinality(Started(m))
             /\ Supply(Pre[m]) = StationCapacity(m) - Cardinality(StationItems(m))
  <2>1. (CHOOSE n \in Machines : Post[n] = Post[m]) = m
    BY BufferRoles
  <2>2. (CHOOSE n \in Machines : Pre[n] = Pre[m]) = m
    BY BufferRoles
  <2>3. /\ Post[m] \notin Outputs \cup Inputs /\ Post[m] \in PostBuffers
        /\ Pre[m] \notin Outputs \cup Inputs \cup PostBuffers
    BY BufferRoles
  <2>. QED  BY <2>1, <2>2, <2>3 DEF Supply
<1>. QED  BY <1>1, <1>2

\* Commitments are finite sets of vehicles.
LEMMA CommitmentsFinite ==
    ASSUME NEW b
    PROVE  /\ Commitments(b) \in SUBSET Vehicles
           /\ IsFiniteSet(Commitments(b)) /\ Cardinality(Commitments(b)) \in Nat
<1>1. Commitments(b) \in SUBSET Vehicles
  BY DEF Commitments
<1>2. IsFiniteSet(Commitments(b))
  BY <1>1, LayoutAssumption, FS_Subset
<1>. QED  BY <1>1, <1>2, FS_CardinalityType

\* Both invariants say: an owner's commitments stay within its supply.
Overcommitted(b) == Cardinality(Commitments(b)) > Supply(b)

StationsWithin == \A m \in Machines : ~Overcommitted(Pre[m])
SourcesWithin == \A b \in Sources : ~Overcommitted(b)
SupplyKnown == \A b \in Buffers \ Outputs : Supply(b) \in Int

LEMMA WithinSupply ==
    Structure => /\ StationAdmission <=> StationsWithin
                 /\ PickupBacked <=> SourcesWithin
                 /\ SupplyKnown
<1>. SUFFICES ASSUME Structure
              PROVE  /\ StationAdmission <=> StationsWithin
                     /\ PickupBacked <=> SourcesWithin
                     /\ SupplyKnown
  OBVIOUS
<1>. USE SupplyCases DEF StationsWithin, SourcesWithin, SupplyKnown
<1>1. \A m \in Machines : Supply(Pre[m]) \in Int
  BY StationCount
<1>2. \A m \in Machines : Supply(Post[m]) \in Int
  <2>. SUFFICES ASSUME NEW m \in Machines PROVE Supply(Post[m]) \in Int
    OBVIOUS
  <2>1. Backing(m) \in SUBSET Jobs
    BY BackingCount
  <2>2. Cardinality(Backing(m)) \in Nat
    BY <2>1, Finite DEF Structure
  <2>. QED  BY <2>2, BackingCount
<1>3. \A i \in Inputs : Supply(i) \in Int
  BY Finite, BufferRoles DEF Structure
<1>4. StationAdmission <=> \A m \in Machines : ~Overcommitted(Pre[m])
  <2>1. ASSUME NEW m \in Machines
        PROVE  ~Overcommitted(Pre[m]) <=>
                 Cardinality(StationItems(m)) + Cardinality(Commitments(Pre[m]))
                   <= StationCapacity(m)
    <3>1. Cardinality(StationItems(m)) \in Nat /\ StationCapacity(m) \in Nat
      BY StationCount
    <3>2. Cardinality(Commitments(Pre[m])) \in Nat
      BY CommitmentsFinite
    <3>. QED  BY <3>1, <3>2 DEF Overcommitted
  <2>. QED  BY <2>1 DEF StationAdmission
<1>5. PickupBacked <=> \A b \in Sources : ~Overcommitted(b)
  <2>1. ASSUME NEW b \in Sources
        PROVE  ~Overcommitted(b) <=> Cardinality(Commitments(b)) <= Supply(b)
    BY <1>2, <1>3, CommitmentsFinite DEF Overcommitted, Sources, PostBuffers
  <2>2. PickupBacked <=> /\ \A i \in Inputs : Cardinality(Commitments(i)) <= Supply(i)
                         /\ \A m \in Machines : Cardinality(Commitments(Post[m])) <= Supply(Post[m])
    BY DEF PickupBacked
  <2>. QED  BY <2>1, <2>2 DEF Sources, PostBuffers
<1>. QED  BY <1>1, <1>2, <1>3, <1>4, <1>5 DEF Buffers, PreBuffers, PostBuffers

\* If the supply of an owner does not shrink by more than its commitments, it
\* stays within its supply.
LEMMA StaysWithin ==
    ASSUME NEW b, Supply(b) \in Int, Supply(b)' \in Int, ~Overcommitted(b),
           NEW k \in Nat,
           Supply(b)' >= Supply(b) - k,
           Cardinality(Commitments(b)') <= Cardinality(Commitments(b)) - k
    PROVE  ~Overcommitted(b)'
<1>1. Cardinality(Commitments(b)) \in Nat
  BY CommitmentsFinite
<1>2. Cardinality(Commitments(b)') \in Nat
  <2>1. Commitments(b)' \in SUBSET Vehicles
    BY DEF Commitments
  <2>. QED  BY <2>1, LayoutAssumption, FS_Subset, FS_CardinalityType
<1>. QED  BY <1>1, <1>2 DEF Overcommitted

\* Dropping commitments only frees supply.
LEMMA FewerCommitments ==
    ASSUME NEW b, Supply(b) \in Int, Supply(b)' \in Int, ~Overcommitted(b),
           Supply(b)' >= Supply(b), Commitments(b)' \subseteq Commitments(b)
    PROVE  ~Overcommitted(b)'
<1>1. Cardinality(Commitments(b)') <= Cardinality(Commitments(b))
  BY CommitmentsFinite, FS_Subset
<1>2. Cardinality(Commitments(b)) \in Nat /\ Cardinality(Commitments(b)') \in Nat
  <2>1. Commitments(b)' \in SUBSET Vehicles
    BY DEF Commitments
  <2>. QED  BY <2>1, CommitmentsFinite, LayoutAssumption, FS_Subset, FS_CardinalityType
<1>. QED  BY <1>1, <1>2 DEF Overcommitted

LEMMA KeepsWithin ==
    ASSUME Structure, Structure', StationAdmission, PickupBacked,
           \A b \in Buffers \ Outputs : ~Overcommitted(b) => ~Overcommitted(b)'
    PROVE  StationAdmission' /\ PickupBacked'
<1>1. StationsWithin /\ SourcesWithin
  BY WithinSupply
<1>2. StationsWithin' /\ SourcesWithin'
  BY <1>1, BufferRoles DEF StationsWithin, SourcesWithin, Sources
<1>3. Structure' => /\ StationAdmission' <=> StationsWithin'
                    /\ PickupBacked' <=> SourcesWithin'
  BY WithinSupply, PTL
<1>. QED  BY <1>2, <1>3

\* The same facts about the next state.
LEMMA SupplyKnownNow == ASSUME Structure PROVE SupplyKnown
  BY WithinSupply

LEMMA SupplyKnownNext == ASSUME Structure' PROVE SupplyKnown'
<1>1. Structure' => SupplyKnown'
  BY WithinSupply, PTL
<1>. QED  BY <1>1

LEMMA SupplyCasesNext ==
    /\ \A i \in Inputs : Supply(i)' = Cardinality(store'[i])
    /\ \A m \in Machines :
          /\ Supply(Post[m])' = Cardinality(store'[Post[m]]) + Cardinality(Started(m)')
          /\ Supply(Pre[m])' = StationCapacity(m) - Cardinality(StationItems(m)')
<1>1. (/\ \A i \in Inputs : Supply(i) = Cardinality(store[i])
       /\ \A m \in Machines :
             /\ Supply(Post[m]) = Cardinality(store[Post[m]]) + Cardinality(Started(m))
             /\ Supply(Pre[m]) = StationCapacity(m) - Cardinality(StationItems(m)))'
  BY SupplyCases, PTL
<1>. QED  BY <1>1 DEF StationCapacity

\* The supply of a post buffer counts its backing, now and in the next state.
BackedSupply ==
    \A m \in Machines : /\ Supply(Post[m]) = Cardinality(Backing(m))
                        /\ Backing(m) \in SUBSET Jobs

LEMMA BackingSupply == Structure => BackedSupply
  BY SupplyCases, BackingCount DEF BackedSupply

LEMMA BackingGrows ==
    ASSUME Structure, Structure', NEW m \in Machines, NEW S \in SUBSET Backing(m)',
           Cardinality(S) = Cardinality(Backing(m))
    PROVE  Supply(Post[m])' >= Supply(Post[m])
<1>1. Structure' => BackedSupply'
  BY BackingSupply, PTL
<1>2. BackedSupply
  BY BackingSupply
<1>3. Cardinality(S) <= Cardinality(Backing(m)') /\ S \in SUBSET Jobs
  <2>1. Backing(m)' \in SUBSET Jobs
    BY <1>1 DEF BackedSupply
  <2>2. IsFiniteSet(Backing(m)')
    BY <2>1, LayoutAssumption, FS_Subset
  <2>. QED  BY <2>1, <2>2, FS_Subset
<1>4. Cardinality(S) \in Nat /\ Cardinality(Backing(m)') \in Nat
  BY <1>1, <1>3, Finite DEF Structure, BackedSupply
<1>. QED  BY <1>1, <1>2, <1>3, <1>4 DEF BackedSupply

----------------------------------------------------------------------------
(* Each action preserves the invariant.                                    *)

LEMMA InitInv == Init => Inv
<1>. SUFFICES ASSUME Init PROVE Inv
  OBVIOUS
<1>1. /\ Structure /\ SlotLocks /\ BlockedMeansFull
      /\ ReleasedInOrder /\ AdmittedInOrder
  BY InitKeepsStructure DEF Init
<1>2. /\ target = [v \in Vehicles |-> None] /\ service = [v \in Vehicles |-> None]
      /\ mjob = [m \in Machines |-> None]
  BY DEF Init, CoreInit
<1>3. TypeOK /\ QuietService /\ ActiveIdle
  BY <1>1, <1>2 DEF Init, TypeOK, QuietService, ActiveIdle, Structure
<1>4. \A b \in Buffers : Commitments(b) = {}
  BY <1>2, IdentityAssumption DEF Commitments
<1>5. \A b \in Buffers : Cardinality(Commitments(b)) = 0
  BY <1>4, FS_EmptySet
<1>6. PickupBacked
  <2>1. \A b \in Sources : Supply(b) >= 0
    <3>1. \A i \in Inputs : Supply(i) >= 0
      BY <1>1, SupplyCases, Finite, BufferRoles DEF Structure
    <3>2. ASSUME NEW m \in Machines PROVE Supply(Post[m]) >= 0
      <4>1. Backing(m) \in SUBSET Jobs
        BY <1>1, BackingCount
      <4>2. Cardinality(Backing(m)) \in Nat
        BY <1>1, <4>1, Finite DEF Structure
      <4>. QED  BY <1>1, <4>2, BackingCount, SupplyCases
    <3>. QED  BY <3>1, <3>2 DEF Sources, PostBuffers
  <2>2. \A b \in Sources : ~Overcommitted(b)
    BY <1>1, <1>5, <2>1, WithinSupply, BufferRoles DEF Overcommitted, Sources, SupplyKnown
  <2>. QED  BY <1>1, <2>2, WithinSupply DEF SourcesWithin
<1>7. StationAdmission
  <2>. SUFFICES ASSUME NEW m \in Machines
                PROVE  Cardinality(StationItems(m)) + Cardinality(Commitments(Pre[m]))
                         <= StationCapacity(m)
    BY DEF StationAdmission
  <2>1. \A j \in Jobs : loc[j] \in Inputs \cup {Queued, Unreleased}
    BY DemandAssumption DEF Init, CoreInit
  <2>2. store[Pre[m]] = {} /\ store[Post[m]] = {}
    BY <1>1, <2>1, BufferRoles, IdentityAssumption DEF Structure, CoreTypeOK, Ownership
  <2>3. StationItems(m) = {}
    BY <1>2, <2>2 DEF StationItems
  <2>. QED  BY <1>1, <1>5, <2>3, FS_EmptySet, StationCount, BufferRoles
<1>. QED  BY <1>1, <1>3, <1>6, <1>7 DEF Inv

LEMMA CancelInv ==
    ASSUME Inv, CancelIneligible
    PROVE  Inv'
<1>1. /\ UNCHANGED <<physical, active, rejected, emptyWait, onsite>>
      /\ phase' = "start"
      /\ \A v \in Vehicles : target'[v] = target[v] \/ target'[v] = None
      /\ target' \in [Vehicles -> Buffers \cup {None}]
      /\ service' \in [Vehicles -> Services \cup {None}]
  BY DEF CancelIneligible, Inv, TypeOK, CoreTypeOK
<1>2. \A v \in Vehicles : service'[v] = None
  BY DEF CancelIneligible, Inv, QuietService
<1>3. TypeOK' /\ QuietService'
  BY <1>1, <1>2 DEF Inv, TypeOK, CoreTypeOK, QuietService, physical
<1>4. Structure'
  <2>1. Ownership'
    BY <1>1 DEF Inv, Structure, Ownership, physical
  <2>2. WorkFits' /\ BufferPurpose'
    BY <1>1 DEF Inv, Structure, WorkFits, BufferPurpose, Needs, physical
  <2>3. ServiceBinding'
    BY <1>2 DEF ServiceBinding
  <2>4. TargetSuitsCargo'
    BY <1>1 DEF Inv, Structure, TargetSuitsCargo, DestinationOwners, RouteDone, Needs, physical
  <2>. QED  BY <1>3, <2>1, <2>2, <2>3, <2>4 DEF Structure, TypeOK
<1>5. SlotLocks'
  <2>. SUFFICES ASSUME NEW b \in Buffers
                PROVE  Cardinality(store[b]) + Cardinality(ServiceOf("drop_off", b)')
                         <= Capacity[b]
    BY <1>1 DEF SlotLocks, physical
  <2>1. ServiceOf("drop_off", b)' = {}
    BY <1>2 DEF ServiceOf
  <2>2. /\ Cardinality(store[b]) + Cardinality(ServiceOf("drop_off", b)) <= Capacity[b]
        /\ Cardinality(store[b]) \in Nat /\ Capacity[b] \in Nat
    BY Finite, LayoutAssumption DEF Inv, SlotLocks, Structure
  <2>3. Cardinality(ServiceOf("drop_off", b)) \in Nat
    <3>1. ServiceOf("drop_off", b) \in SUBSET Vehicles
      BY DEF ServiceOf
    <3>. QED  BY <3>1, Finite DEF Inv, Structure
  <2>. QED  BY <2>1, <2>2, <2>3, FS_EmptySet
<1>6. BlockedMeansFull' /\ ReleasedInOrder' /\ AdmittedInOrder'
  BY <1>1 DEF Inv, BlockedMeansFull, ReleasedInOrder, AdmittedInOrder, Needs, physical
<1>7. StationAdmission' /\ PickupBacked'
  <2>1. \A b \in Buffers : /\ Supply(b)' = Supply(b)
                           /\ Commitments(b)' \subseteq Commitments(b)
    BY <1>1, IdentityAssumption
       DEF Supply, Commitments, Started, StationItems, StationCapacity, physical
  <2>2. ASSUME NEW b \in Buffers \ Outputs, ~Overcommitted(b)
        PROVE  ~Overcommitted(b)'
    BY <2>1, <2>2, FewerCommitments, WithinSupply DEF Inv, SupplyKnown
  <2>. QED  BY <1>4, <2>2, KeepsWithin DEF Inv
<1>8. ActiveIdle'
  BY <1>1 DEF Inv, TypeOK, ActiveIdle
<1>. QED  BY <1>3, <1>4, <1>5, <1>6, <1>7, <1>8 DEF Inv

\* Starting an operation moves a job within its station.
LEMMA StartInv ==
    ASSUME Inv, NEW m \in Machines, StartMachine(m)
    PROVE  Inv'
<1>1. PICK j \in Jobs : StartOperation(m, j)
  BY DEF StartMachine
<1>2. UNCHANGED <<phase, active, rejected, emptyWait, onsite, target, service>>
  BY <1>1 DEF StartMachine, StartOperation, negotiation
<1>3. Structure' /\ SlotLocks' /\ BlockedMeansFull' /\ ReleasedInOrder' /\ AdmittedInOrder'
  BY <1>1, StartKeepsStructure, StartKeepsSlots DEF Inv
<1>4. TypeOK' /\ QuietService' /\ ActiveIdle'
  BY <1>2, <1>3 DEF Inv, TypeOK, Structure, QuietService, ActiveIdle
<1>5. \A b : Commitments(b)' = Commitments(b)
  BY <1>2 DEF Commitments
<1>6. /\ \/ mjob[m] = j
         \/ mjob[m] = None /\ j \in store[Pre[m]]
      /\ store' = [store EXCEPT ![Pre[m]] = @ \ {j}]
      /\ mjob' = [mjob EXCEPT ![m] = j]
      /\ mjob \in [Machines -> Jobs \cup {None}] /\ store \in [Buffers -> SUBSET Jobs]
      /\ mjob[m] = j => loc[j] = m
  BY <1>1, ChoiceFits DEF StartOperation, Inv, Structure, CoreTypeOK, Ownership
<1>7. \A n \in Machines : StationItems(n)' = StationItems(n)
  <2>. SUFFICES ASSUME NEW n \in Machines
                PROVE  StationItems(n)' = StationItems(n)
    OBVIOUS
  <2>1. store'[Post[n]] = store[Post[n]]
    BY <1>6, BufferRoles
  <2>2. CASE n # m
    <3>1. store'[Pre[n]] = store[Pre[n]] /\ mjob'[n] = mjob[n]
      BY <1>6, <2>2, BufferRoles
    <3>. QED  BY <2>1, <3>1 DEF StationItems
  <2>3. CASE n = m
    <3>1. /\ store'[Pre[m]] = store[Pre[m]] \ {j} /\ mjob'[m] = j /\ j # None
      BY <1>6, BufferRoles, IdentityAssumption
    <3>. QED  BY <1>6, <2>1, <2>3, <3>1, IdentityAssumption DEF StationItems
  <2>. QED  BY <2>2, <2>3
<1>8. \A n \in Machines : Backing(n) \subseteq Backing(n)'
  BY <1>6, BufferRoles, IdentityAssumption DEF Backing
<1>9. \A i \in Inputs : store'[i] = store[i]
  BY <1>6, BufferRoles
<1>10. ASSUME NEW b \in Buffers \ Outputs, ~Overcommitted(b)
       PROVE  ~Overcommitted(b)'
  <2>1. Supply(b) \in Int /\ Supply(b)' \in Int
    BY <1>3, SupplyKnownNow, SupplyKnownNext DEF Inv, SupplyKnown
  <2>2. Supply(b)' >= Supply(b)
    <3>1. CASE b \in Inputs
      BY <1>9, <2>1, <3>1, SupplyCases, SupplyCasesNext
    <3>2. ASSUME NEW n \in Machines, b = Pre[n]
          PROVE  Supply(b)' >= Supply(b)
      BY <1>7, <2>1, <3>2, SupplyCases, SupplyCasesNext DEF StationCapacity
    <3>3. ASSUME NEW n \in Machines, b = Post[n]
          PROVE  Supply(b)' >= Supply(b)
      BY <1>3, <1>8, <3>3, BackingGrows DEF Inv
    <3>. QED  BY <3>1, <3>2, <3>3 DEF Buffers, PreBuffers, PostBuffers
  <2>. QED  BY <1>10, <2>1, <2>2, FewerCommitments, <1>5
<1>11. StationAdmission' /\ PickupBacked'
  BY <1>3, <1>10, KeepsWithin DEF Inv
<1>. QED  BY <1>3, <1>4, <1>11 DEF Inv

\* What the physical state and the reservations leave alone, the invariant
\* does not notice.
LEMMA CoreUnchanged ==
    ASSUME Inv, UNCHANGED core
    PROVE  /\ CoreTypeOK' /\ Structure' /\ SlotLocks' /\ BlockedMeansFull'
           /\ ReleasedInOrder' /\ AdmittedInOrder' /\ StationAdmission' /\ PickupBacked'
<1>. USE DEF core
<1>1. CoreTypeOK' /\ Ownership' /\ WorkFits' /\ ServiceBinding' /\ TargetSuitsCargo'
      /\ BufferPurpose'
  <2>1. CoreTypeOK' /\ Ownership'
    BY DEF Inv, Structure, CoreTypeOK, Ownership
  <2>2. WorkFits' /\ BufferPurpose'
    BY DEF Inv, Structure, WorkFits, BufferPurpose, Needs
  <2>3. ServiceBinding'
    BY DEF Inv, Structure, ServiceBinding
  <2>4. TargetSuitsCargo'
    BY DEF Inv, Structure, TargetSuitsCargo, DestinationOwners, RouteDone, Needs
  <2>. QED  BY <2>1, <2>2, <2>3, <2>4
<1>2. SlotLocks'
  <2>1. \A b \in Buffers : ServiceOf("drop_off", b)' = ServiceOf("drop_off", b)
    BY DEF ServiceOf
  <2>. QED  BY <2>1 DEF Inv, SlotLocks
<1>3. BlockedMeansFull' /\ ReleasedInOrder' /\ AdmittedInOrder'
  BY DEF Inv, BlockedMeansFull, ReleasedInOrder, AdmittedInOrder, Needs
<1>4. StationAdmission' /\ PickupBacked'
  <2>1. /\ \A b : Commitments(b)' = Commitments(b)
        /\ \A m \in Machines : StationItems(m)' = StationItems(m) /\ Started(m)' = Started(m)
    BY DEF Commitments, StationItems, Started
  <2>. QED  BY <2>1 DEF Inv, StationAdmission, PickupBacked, StationCapacity
<1>. QED  BY <1>1, <1>2, <1>3, <1>4 DEF Structure

LEMMA WakeInv ==
    ASSUME Inv, Wake
    PROVE  Inv'
<1>1. UNCHANGED core
  BY DEF Wake
<1>2. /\ active' \subseteq Idle /\ emptyWait' \subseteq emptyWait
      /\ phase = "start" /\ phase' = "negotiate" /\ UNCHANGED <<rejected, onsite>>
  BY DEF Wake
<1>3. TypeOK' /\ QuietService' /\ ActiveIdle'
  <2>1. CoreTypeOK'
    BY <1>1, CoreUnchanged
  <2>2. service' = service /\ target' = target
    BY <1>1 DEF core
  <2>. QED  BY <1>2, <2>1, <2>2 DEF Inv, TypeOK, QuietService, ActiveIdle, Idle
<1>. QED  BY <1>1, <1>3, CoreUnchanged DEF Inv

LEMMA EndNegotiationInv ==
    ASSUME Inv, EndNegotiation
    PROVE  Inv'
<1>1. UNCHANGED core
  BY DEF EndNegotiation
<1>2. TypeOK' /\ QuietService' /\ ActiveIdle'
  <2>1. CoreTypeOK'
    BY <1>1, CoreUnchanged
  <2>2. /\ active' = {} /\ rejected' = [v \in Vehicles |-> {}] /\ phase' = "service"
        /\ onsite' \subseteq Vehicles
    BY DEF EndNegotiation
  <2>3. emptyWait' \subseteq Vehicles
    <3>1. PICK app \in Answers : emptyWait' = emptyWait \cup Waiters(app)
      BY DEF EndNegotiation
    <3>2. DOMAIN app \subseteq active
      BY <3>1 DEF Answers
    <3>. QED  BY <3>1, <3>2 DEF Waiters, Inv, TypeOK
  <2>. QED  BY <2>1, <2>2, <2>3 DEF TypeOK, QuietService, ActiveIdle
<1>. QED  BY <1>1, <1>2, CoreUnchanged DEF Inv

\* Selecting a service changes no supply and no commitment.
LEMMA ServiceInv ==
    ASSUME Inv, phase = "service", UNCHANGED negotiation, Structure', SlotLocks',
           UNCHANGED <<physical, target>>
    PROVE  Inv'
<1>1. TypeOK' /\ QuietService' /\ ActiveIdle'
  BY DEF Inv, TypeOK, Structure, QuietService, ActiveIdle, negotiation
<1>2. BlockedMeansFull' /\ ReleasedInOrder' /\ AdmittedInOrder'
  BY DEF Inv, BlockedMeansFull, ReleasedInOrder, AdmittedInOrder, Needs, physical
<1>3. StationAdmission' /\ PickupBacked'
  <2>1. /\ \A b : Commitments(b)' = Commitments(b)
        /\ \A m \in Machines : StationItems(m)' = StationItems(m) /\ Started(m)' = Started(m)
        /\ UNCHANGED store
    BY DEF Commitments, StationItems, Started, physical
  <2>. QED  BY <2>1 DEF Inv, StationAdmission, PickupBacked, StationCapacity
<1>. QED  BY <1>1, <1>2, <1>3 DEF Inv

LEMMA SelectLoadInv ==
    ASSUME Inv, SelectLoad
    PROVE  Inv'
<1>1. PICK v \in Vehicles, j \in Jobs :
         CanLoad(v, j) /\ StartService(v, "pickup", j, target[v])
  BY DEF SelectLoad
<1>2. /\ target[v] \in Sources /\ target[v] # None /\ service[v] = None
      /\ j \in Ready(target[v])
  BY <1>1, BufferRoles, IdentityAssumption DEF CanLoad, Unserved, Sources
<1>3. Structure' /\ SlotLocks'
  BY <1>1, <1>2, ServiceKeepsStructure DEF Inv
<1>. QED  BY <1>1, <1>3, ServiceInv DEF SelectLoad, StartService

LEMMA SelectUnloadInv ==
    ASSUME Inv, SelectUnload
    PROVE  Inv'
<1>1. PICK v \in Vehicles :
         CanUnload(v) /\ StartService(v, "drop_off", cargo[v], target[v])
  BY DEF SelectUnload
<1>2. /\ target[v] \in PreBuffers \cup Outputs /\ target[v] # None /\ service[v] = None
      /\ FreeDrop(target[v])
  BY <1>1, BufferRoles, IdentityAssumption DEF CanUnload, Unserved
<1>3. Structure' /\ SlotLocks'
  BY <1>1, <1>2, ServiceKeepsStructure DEF Inv
<1>. QED  BY <1>1, <1>3, ServiceInv DEF SelectUnload, StartService

----------------------------------------------------------------------------
(* A round of negotiation: every owner accepts within its quota.           *)

LEMMA RoundInv ==
    ASSUME Inv, NegotiationRound
    PROVE  Inv'
<1>0. PICK app \in Answers : \E chosen \in Choices(app) :
          /\ target' = [v \in Vehicles |-> IF v \in chosen THEN app[v] ELSE target[v]]
          /\ rejected' = RejectedAfter(app, chosen)
          /\ active' = active \ (chosen \cup Waiters(app))
          /\ emptyWait' = emptyWait \cup Waiters(app)
  BY DEF NegotiationRound
<1>1. PICK chosen \in SUBSET (DOMAIN app \ Waiters(app)) :
          /\ \A b \in Buffers :
                Acceptable(b, Applicants(app, b), Applicants(app, b) \cap chosen)
          /\ target' = [v \in Vehicles |-> IF v \in chosen THEN app[v] ELSE target[v]]
          /\ rejected' = RejectedAfter(app, chosen)
          /\ active' = active \ (chosen \cup Waiters(app))
          /\ emptyWait' = emptyWait \cup Waiters(app)
  BY <1>0 DEF Choices
<1>2. UNCHANGED <<physical, service, phase, onsite>>
  BY DEF NegotiationRound
<1>3. /\ DOMAIN app \subseteq active
      /\ active \subseteq Vehicles
      /\ \A v \in DOMAIN app \ Waiters(app) : app[v] \in CandidateOwners(v)
  BY <1>1 DEF Answers, Options, Waiters, Inv, TypeOK
<1>4. \A v \in DOMAIN app \ Waiters(app) :
          /\ target[v] = None /\ app[v] \in Buffers
          /\ IF cargo[v] = None THEN app[v] \in Sources
             ELSE app[v] \in DestinationOwners(cargo[v])
  <2>1. \A v \in DOMAIN app : target[v] = None
    BY <1>3 DEF Inv, ActiveIdle
  <2>2. Sources \subseteq Buffers
    BY BufferRoles DEF Sources
  <2>3. \A j : DestinationOwners(j) \subseteq Buffers
    BY DestinationRoles, BufferRoles
  <2>. QED  BY <1>3, <2>1, <2>2, <2>3 DEF CandidateOwners
<1>5. /\ chosen \subseteq Vehicles
      /\ \A v \in Vehicles : target'[v] = IF v \in chosen THEN app[v] ELSE target[v]
      /\ \A v \in chosen : /\ target[v] = None /\ app[v] \in Buffers
                           /\ v \in DOMAIN app \ Waiters(app)
  BY <1>1, <1>3, <1>4
<1>6. CoreTypeOK'
  BY <1>1, <1>2, <1>5 DEF Inv, TypeOK, CoreTypeOK, physical
<1>7. Structure'
  <2>1. Ownership'
    BY <1>2 DEF Inv, Structure, Ownership, physical
  <2>2. WorkFits' /\ BufferPurpose'
    BY <1>2 DEF Inv, Structure, WorkFits, BufferPurpose, Needs, physical
  <2>3. ServiceBinding'
    <3>1. phase # "service"
      BY DEF NegotiationRound
    <3>. QED  BY <1>2, <3>1 DEF Inv, QuietService, ServiceBinding
  <2>4. TargetSuitsCargo'
    <3>. SUFFICES ASSUME NEW v \in Vehicles, target'[v] # None
                  PROVE  IF cargo[v] = None THEN target'[v] \in Sources
                         ELSE target'[v] \in DestinationOwners(cargo[v])
      BY <1>2 DEF TargetSuitsCargo, DestinationOwners, RouteDone, Needs, physical
    <3>. QED  BY <1>4, <1>5 DEF Inv, Structure, TargetSuitsCargo
  <2>. QED  BY <1>6, <2>1, <2>2, <2>3, <2>4 DEF Structure
<1>8. SlotLocks'
  <2>1. \A b \in Buffers : ServiceOf("drop_off", b)' = ServiceOf("drop_off", b)
    BY <1>2 DEF ServiceOf
  <2>. QED  BY <1>2, <2>1 DEF Inv, SlotLocks, physical
<1>9. BlockedMeansFull' /\ ReleasedInOrder' /\ AdmittedInOrder'
  BY <1>2 DEF Inv, BlockedMeansFull, ReleasedInOrder, AdmittedInOrder, Needs, physical
<1>10. TypeOK' /\ QuietService' /\ ActiveIdle'
  <2>1. \A v \in DOMAIN app \ Waiters(app) : app[v] \in Buffers
    BY <1>4
  <2>2. rejected' \in [Vehicles -> SUBSET Buffers]
    BY <1>1, <2>1 DEF Inv, TypeOK, RejectedAfter
  <2>3. active' \subseteq Vehicles /\ emptyWait' \subseteq Vehicles
    BY <1>1, <1>3 DEF Inv, TypeOK, Waiters
  <2>4. ActiveIdle'
    BY <1>1, <1>3, <1>5 DEF Inv, ActiveIdle
  <2>. QED  BY <1>2, <1>6, <2>2, <2>3, <2>4 DEF Inv, TypeOK, QuietService
<1>11. ASSUME NEW b \in Buffers \ Outputs, ~Overcommitted(b)
       PROVE  ~Overcommitted(b)'
  <2>. DEFINE X == Applicants(app, b) \cap chosen
  <2>1. Supply(b) \in Int /\ Supply(b)' = Supply(b)
    <3>1. Supply(b)' = Supply(b)
      BY <1>2 DEF Supply, Started, StationItems, StationCapacity, physical
    <3>. QED  BY <3>1, SupplyKnownNow DEF Inv, SupplyKnown
  <2>2. Commitments(b)' = Commitments(b) \cup X
    BY <1>5, IdentityAssumption DEF Commitments, Applicants
  <2>3. X \cap Commitments(b) = {} /\ X \in SUBSET Vehicles
    BY <1>5, IdentityAssumption DEF Commitments
  <2>4. /\ IsFiniteSet(X) /\ Cardinality(X) \in Nat
        /\ IsFiniteSet(Commitments(b)) /\ Cardinality(Commitments(b)) \in Nat
    BY <2>3, CommitmentsFinite, LayoutAssumption, FS_Subset, FS_CardinalityType
  <2>5. Cardinality(Commitments(b)') = Cardinality(Commitments(b)) + Cardinality(X)
    <3>1. Cardinality(Commitments(b) \cup X)
            = Cardinality(Commitments(b)) + Cardinality(X) - Cardinality(Commitments(b) \cap X)
      BY <2>4, FS_Union
    <3>2. Cardinality(Commitments(b) \cap X) = 0
      BY <2>3, FS_EmptySet
    <3>. QED  BY <2>2, <2>4, <3>1, <3>2
  <2>6. Cardinality(X) <= Quota(b)
    BY <1>1 DEF Acceptable
  <2>7. Quota(b) = IF Supply(b) - Cardinality(Commitments(b)) > 0
                   THEN Supply(b) - Cardinality(Commitments(b)) ELSE 0
    BY DEF Quota
  <2>. QED
    <3>. HIDE DEF X
    <3>. QED  BY <1>11, <2>1, <2>4, <2>5, <2>6, <2>7 DEF Overcommitted
<1>12. StationAdmission' /\ PickupBacked'
  BY <1>7, <1>11, KeepsWithin DEF Inv
<1>. QED  BY <1>7, <1>8, <1>9, <1>10, <1>12 DEF Inv

----------------------------------------------------------------------------
(* The physical interval: every transfer ends exactly one commitment.      *)

\* The jobs that loading services take from buffer b.
TakenFrom(b) == {service[v].job : v \in ServiceOf("pickup", b)}

LEMMA TakenBound ==
    ASSUME Structure, NEW b \in Buffers
    PROVE  /\ TakenFrom(b) \in SUBSET Jobs
           /\ Cardinality(TakenFrom(b)) <= Cardinality(ServiceOf("pickup", b))
<1>. DEFINE W == ServiceOf("pickup", b)
            f == [w \in Vehicles |-> service[w].job]
<1>1. W \in SUBSET Vehicles
  BY DEF ServiceOf
<1>2. /\ \A w \in W : f[w] \in TakenFrom(b)
      /\ \A j \in TakenFrom(b) : \E w \in W : f[w] = j
  BY <1>1 DEF TakenFrom
<1>3. IsFiniteSet(W)
  BY <1>1, Finite DEF Structure
<1>4. Cardinality(TakenFrom(b)) <= Cardinality(W)
  <2>. HIDE DEF W, f
  <2>. QED  BY <1>2, <1>3, ImageBound
<1>5. TakenFrom(b) \in SUBSET Jobs
  BY ServiceFacts DEF TakenFrom, ServiceOf
<1>. QED  BY <1>4, <1>5

\* Only the services of a buffer take jobs out of it.
LEMMA TakenOnly ==
    ASSUME Structure, NEW gone \in SUBSET Vehicles, NEW b \in Buffers
    PROVE  store[b] \ TakenFrom(b) \subseteq AfterServices(gone, b)
<1>. SUFFICES ASSUME NEW j \in store[b], j \in LoadedJobs(gone)
              PROVE  j \in TakenFrom(b)
  BY DEF AfterServices
<1>1. PICK v \in Loading(gone) : service[v].job = j
  BY DEF LoadedJobs
<1>2. loc[j] = service[v].owner /\ loc[j] = b
  <2>1. loc[service[v].job] = service[v].owner /\ service[v].job \in Jobs
    BY LoadingFacts
  <2>. QED  BY <1>1, <2>1 DEF Structure, Ownership
<1>3. v \in ServiceOf("pickup", b)
  BY <1>1, <1>2 DEF Loading, Transferring, ServiceOf
<1>. QED  BY <1>1, <1>3 DEF TakenFrom

\* Completed services end their commitments.
LEMMA ServedCommitments ==
    ASSUME Structure, NEW b \in Buffers, NEW kind,
           target' = [v \in Vehicles |-> IF service[v] # None THEN None ELSE target[v]]
    PROVE  /\ Cardinality(ServiceOf(kind, b)) \in Nat
           /\ Cardinality(Commitments(b)')
                <= Cardinality(Commitments(b)) - Cardinality(ServiceOf(kind, b))
<1>. DEFINE S == ServiceOf(kind, b)
            C == Commitments(b)
<1>1. S \subseteq C /\ C \in SUBSET Vehicles
  BY ServiceFacts DEF ServiceOf, Commitments
<1>2. Commitments(b)' \subseteq C \ S
  BY IdentityAssumption DEF Commitments, ServiceOf
<1>3. /\ IsFiniteSet(C) /\ IsFiniteSet(C \ S)
      /\ Cardinality(C) \in Nat /\ Cardinality(S) \in Nat /\ Cardinality(C \ S) \in Nat
  BY <1>1, Finite DEF Structure
<1>4. Cardinality(C \ S) = Cardinality(C) - Cardinality(C \cap S) /\ C \cap S = S
  BY <1>1, <1>3, FS_Difference
<1>5. Cardinality(Commitments(b)') <= Cardinality(C \ S)
  BY <1>2, <1>3, FS_Subset
<1>6. Cardinality(Commitments(b)') \in Nat
  <2>1. Commitments(b)' \in SUBSET Vehicles
    BY DEF Commitments
  <2>. QED  BY <2>1, Finite DEF Structure
<1>. QED
  <2>. HIDE DEF S
  <2>1. Cardinality(Commitments(b)') <= Cardinality(C) - Cardinality(S) /\ Cardinality(S) \in Nat
    BY <1>3, <1>4, <1>5, <1>6
  <2>. QED  BY <2>1 DEF S

LEMMA AdvanceInv ==
    ASSUME Inv, Advance
    PROVE  Inv'
<1>1. PICK fin \in SUBSET Running, dn \in SUBSET Machines, rel \in Releasable :
          /\ Interval(Interrupted(dn), fin, dn, rel)
          /\ target' = [v \in Vehicles |->
                          IF service[v] # None THEN None ELSE target[v]]
  BY DEF Advance
<1>. DEFINE gone == Interrupted(dn)
<1>2. gone \in SUBSET Vehicles /\ Interval(gone, fin, dn, rel)
  BY <1>1 DEF Interrupted
<1>. HIDE DEF gone
<1>3. StoreFollows(gone, fin, rel) /\ WaysApart(gone, fin, rel)
  BY <1>2, StoreAfter, Ways DEF Inv
<1>4. target' \in [Vehicles -> Buffers \cup {None}]
  BY <1>1 DEF Inv, TypeOK, CoreTypeOK
<1>5. \A v \in Vehicles : service'[v] = None
  BY <1>2 DEF Interval
<1>6. Structure'
  <2>1. CoreTypeOK' /\ Ownership' /\ WorkFits' /\ BufferPurpose'
    BY <1>2, <1>4, IntervalKeepsType, IntervalKeepsOwnership, IntervalKeepsWork,
       IntervalKeepsPurpose DEF Inv
  <2>2. ServiceBinding'
    BY <1>5 DEF ServiceBinding
  <2>3. TargetSuitsCargo'
    <3>. DEFINE D(j) == IF step'[j] >= Len(Route[j]) THEN Outputs
                        ELSE {Pre[m] : m \in {n \in Machines : Needs(j, step'[j], n)}}
    <3>0. \A j \in Jobs : loc[j] \notin Machines => D(j) = DestinationOwners(j)
      <4>1. \A j \in Jobs : D(j) = DestinationOwners(j)'
        BY DEF DestinationOwners, RouteDone, Needs
      <4>2. \A j \in Jobs : loc[j] \notin Machines =>
                DestinationOwners(j)' = DestinationOwners(j)
        BY <1>2, IntervalKeepsDestinations DEF Inv
      <4>. QED  BY <4>1, <4>2
    <3>. SUFFICES ASSUME NEW v \in Vehicles, target'[v] # None
                  PROVE  IF cargo'[v] = None THEN target'[v] \in Sources
                         ELSE target'[v] \in D(cargo'[v])
      BY DEF TargetSuitsCargo, DestinationOwners, RouteDone, Needs
    <3>. HIDE DEF D
    <3>1. service[v] = None /\ target'[v] = target[v]
      BY <1>1
    <3>2. cargo'[v] = cargo[v]
      BY <1>2, <3>1 DEF Interval, Loading, Unloading, Transferring
    <3>3. CASE cargo[v] = None
      BY <3>1, <3>2, <3>3 DEF Inv, Structure, TargetSuitsCargo
    <3>4. CASE cargo[v] # None
      <4>1. cargo[v] \in Jobs /\ loc[cargo[v]] \notin Machines
        BY <3>4, IdentityAssumption DEF Inv, Structure, CoreTypeOK, Ownership
      <4>2. target[v] \in DestinationOwners(cargo[v])
        BY <3>1, <3>4 DEF Inv, Structure, TargetSuitsCargo
      <4>. QED  BY <3>0, <3>1, <3>2, <3>4, <4>1, <4>2
    <3>. QED  BY <3>3, <3>4
  <2>. QED  BY <2>1, <2>2, <2>3 DEF Structure
<1>7. SlotLocks' /\ BlockedMeansFull' /\ ReleasedInOrder' /\ AdmittedInOrder'
  BY <1>2, IntervalKeepsSlots, IntervalKeepsBlocked, IntervalKeepsOrder DEF Inv
<1>8. TypeOK' /\ QuietService' /\ ActiveIdle'
  <2>1. /\ UNCHANGED <<active, rejected, emptyWait>> /\ onsite' = {}
        /\ phase' \in {"ended", "cancel"}
    BY DEF Advance
  <2>2. \A v \in Vehicles : target[v] = None => target'[v] = None
    BY <1>1
  <2>. QED  BY <1>5, <1>6, <2>1, <2>2 DEF Inv, Structure, TypeOK, QuietService, ActiveIdle
<1>9. \A b \in Buffers \ Outputs : Supply(b) \in Int /\ Supply(b)' \in Int
  BY <1>6, SupplyKnownNow, SupplyKnownNext DEF Inv, SupplyKnown
<1>10. ASSUME NEW i \in Inputs, ~Overcommitted(i)
       PROVE  ~Overcommitted(i)'
  <2>1. i \in Buffers \ Outputs
    BY BufferRoles
  <2>2. store[i] \ TakenFrom(i) \subseteq store'[i]
    BY <1>2, <1>3, <2>1, TakenOnly DEF Inv, StoreFollows
  <2>3. /\ store[i] \in SUBSET Jobs /\ store'[i] \in SUBSET Jobs
        /\ TakenFrom(i) \in SUBSET Jobs
        /\ Cardinality(TakenFrom(i)) <= Cardinality(ServiceOf("pickup", i))
    BY <1>6, <2>1, TakenBound DEF Inv, Structure, CoreTypeOK
  <2>4. /\ Cardinality(ServiceOf("pickup", i)) \in Nat
        /\ Cardinality(Commitments(i)')
             <= Cardinality(Commitments(i)) - Cardinality(ServiceOf("pickup", i))
    BY <1>1, <2>1, ServedCommitments DEF Inv
  <2>5. Cardinality(store'[i]) >= Cardinality(store[i]) - Cardinality(ServiceOf("pickup", i))
    BY <2>2, <2>3, <2>4, Loses
  <2>6. Supply(i) = Cardinality(store[i]) /\ Supply(i)' = Cardinality(store'[i])
    BY SupplyCases, SupplyCasesNext
  <2>. QED  BY <1>9, <1>10, <2>1, <2>4, <2>5, <2>6, StaysWithin
<1>11. ASSUME NEW m \in Machines, ~Overcommitted(Post[m])
       PROVE  ~Overcommitted(Post[m])'
  <2>. DEFINE b == Post[m]
  <2>1. b \in Buffers \ Outputs
    BY BufferRoles
  <2>2. Backing(m) \ TakenFrom(b) \subseteq Backing(m)'
    <3>1. store[b] \ TakenFrom(b) \subseteq AfterServices(gone, b)
      BY <1>2, <2>1, TakenOnly DEF Inv
    <3>2. CASE m \in Releasing(gone, fin)
      <4>1. store'[b] = AfterServices(gone, b) \cup {mjob[m]}
        BY <1>3, <3>2 DEF StoreFollows
      <4>. QED  BY <3>1, <4>1 DEF Backing
    <3>3. CASE m \notin Releasing(gone, fin)
      <4>1. store'[b] = AfterServices(gone, b) /\ mjob'[m] = mjob[m]
        BY <1>2, <1>3, <3>3 DEF StoreFollows, Interval
      <4>. QED  BY <3>1, <4>1 DEF Backing
    <3>. QED  BY <3>2, <3>3
  <2>3. BackedSupply /\ BackedSupply'
    <3>1. Structure' => BackedSupply'
      BY BackingSupply, PTL
    <3>. QED  BY <1>6, <3>1, BackingSupply DEF Inv
  <2>4. /\ Backing(m) \in SUBSET Jobs /\ Backing(m)' \in SUBSET Jobs
        /\ Supply(b) = Cardinality(Backing(m)) /\ Supply(b)' = Cardinality(Backing(m)')
    BY <2>3 DEF BackedSupply
  <2>5. /\ TakenFrom(b) \in SUBSET Jobs
        /\ Cardinality(TakenFrom(b)) <= Cardinality(ServiceOf("pickup", b))
    BY <2>1, TakenBound DEF Inv
  <2>6. /\ Cardinality(ServiceOf("pickup", b)) \in Nat
        /\ Cardinality(Commitments(b)')
             <= Cardinality(Commitments(b)) - Cardinality(ServiceOf("pickup", b))
    BY <1>1, <2>1, ServedCommitments DEF Inv
  <2>7. Cardinality(Backing(m)') >= Cardinality(Backing(m)) - Cardinality(ServiceOf("pickup", b))
    BY <2>2, <2>4, <2>5, <2>6, Loses
  <2>. QED  BY <1>9, <1>11, <2>1, <2>4, <2>6, <2>7, StaysWithin
<1>12. ASSUME NEW m \in Machines, ~Overcommitted(Pre[m])
       PROVE  ~Overcommitted(Pre[m])'
  <2>. DEFINE b == Pre[m]
              U == UnloadedJobs(gone, b)
              S == ServiceOf("drop_off", b)
  <2>1. b \in Buffers \ Outputs
    BY BufferRoles
  <2>2. StationItems(m)' \ U \subseteq StationItems(m)
    BY <1>2, StationGains DEF Inv
  <2>3. /\ StationItems(m) \in SUBSET Jobs
        /\ Cardinality(StationItems(m)) \in Nat
    BY StationCount DEF Inv
  <2>4. /\ U \in SUBSET Jobs /\ Cardinality(U) <= Cardinality(S)
    BY <1>2, <2>1, UnloadedBound DEF Inv
  <2>5. StationItems(m)' \in SUBSET Jobs
    BY <2>2, <2>3, <2>4
  <2>6. /\ Cardinality(S) \in Nat
        /\ Cardinality(Commitments(b)') <= Cardinality(Commitments(b)) - Cardinality(S)
    BY <1>1, <2>1, ServedCommitments DEF Inv
  <2>7. Cardinality(StationItems(m)) >= Cardinality(StationItems(m)') - Cardinality(S)
    <3>. HIDE DEF U, S
    <3>. QED  BY <2>2, <2>3, <2>4, <2>5, <2>6, Loses
  <2>8. Supply(b)' >= Supply(b) - Cardinality(S)
    <3>1. /\ Supply(b) = StationCapacity(m) - Cardinality(StationItems(m))
          /\ Supply(b)' = StationCapacity(m) - Cardinality(StationItems(m)')
      BY SupplyCases, SupplyCasesNext
    <3>2. StationCapacity(m) \in Nat
      BY StationCount DEF Inv
    <3>3. Cardinality(StationItems(m)') \in Nat
      BY <2>5, LayoutAssumption, FS_Subset, FS_CardinalityType
    <3>. HIDE DEF S
    <3>. QED  BY <2>3, <2>6, <2>7, <3>1, <3>2, <3>3
  <2>. QED  BY <1>9, <1>12, <2>1, <2>6, <2>8, StaysWithin
<1>13. ASSUME NEW b \in Buffers \ Outputs, ~Overcommitted(b)
       PROVE  ~Overcommitted(b)'
  BY <1>10, <1>11, <1>12, <1>13 DEF Buffers, PreBuffers, PostBuffers
<1>14. StationAdmission' /\ PickupBacked'
  BY <1>6, <1>13, KeepsWithin DEF Inv
<1>. QED  BY <1>6, <1>7, <1>8, <1>14 DEF Inv

----------------------------------------------------------------------------
(* The theorems.                                                           *)

LEMMA NextInv == Inv /\ [Next]_vars => Inv'
<1>. SUFFICES ASSUME Inv, [Next]_vars PROVE Inv'
  OBVIOUS
<1>1. CASE CancelIneligible
  BY <1>1, CancelInv
<1>2. ASSUME NEW m \in Machines, StartMachine(m) PROVE Inv'
  BY <1>2, StartInv
<1>3. CASE Wake
  BY <1>3, WakeInv
<1>4. CASE NegotiationRound
  BY <1>4, RoundInv
<1>5. CASE EndNegotiation
  BY <1>5, EndNegotiationInv
<1>6. CASE SelectLoad
  BY <1>6, SelectLoadInv
<1>7. CASE SelectUnload
  BY <1>7, SelectUnloadInv
<1>8. CASE Advance
  BY <1>8, AdvanceInv
<1>9. CASE UNCHANGED vars
  <2>1. UNCHANGED core /\ UNCHANGED negotiation
    BY <1>9 DEF vars
  <2>2. TypeOK' /\ QuietService' /\ ActiveIdle'
    BY <2>1, CoreUnchanged DEF core, negotiation, Inv, TypeOK, QuietService, ActiveIdle
  <2>. QED  BY <2>1, <2>2, CoreUnchanged DEF Inv
<1>. QED
  BY <1>1, <1>2, <1>3, <1>4, <1>5, <1>6, <1>7, <1>8, <1>9 DEF Next, Ended

\* Inv is an inductive invariant of the protocol.
THEOREM Invariance == Spec => []Inv
  BY InitInv, NextInv, PTL DEF Spec

\* The state of the protocol is always well typed.
THEOREM TypeCorrect == Spec => []TypeOK
<1>1. Inv => TypeOK
  BY DEF Inv
<1>. QED  BY <1>1, Invariance, PTL

\* Every job always has exactly one owner, on which storage, machines,
\* vehicles and shipments agree.
THEOREM OneOwner == Spec => []Ownership
<1>1. Inv => Ownership
  BY DEF Inv, Structure
<1>. QED  BY <1>1, Invariance, PTL

\* A machine is always on an operation it can execute, and idle without a job.
THEOREM WorkAlwaysFits == Spec => []WorkFits
<1>1. Inv => WorkFits
  BY DEF Inv, Structure
<1>. QED  BY <1>1, Invariance, PTL

\* A reservation is one that the cargo calls for, at every moment of its life: no
\* breakdown or service leaves a vehicle with a target it has no business at.
THEOREM TargetsSuit == Spec => []TargetSuitsCargo
<1>1. Inv => TargetSuitsCargo
  BY DEF Inv, Structure
<1>. QED  BY <1>1, Invariance, PTL

\* Services always serve the reservation of their vehicle, with a job of
\* their own.
THEOREM ServicesBound == Spec => []ServiceBinding
<1>1. Inv => ServiceBinding
  BY DEF Inv, Structure
<1>. QED  BY <1>1, Invariance, PTL

\* No buffer ever holds or has promised to hold more than its capacity.
THEOREM SlotsHold == Spec => []SlotLocks
<1>1. Inv => SlotLocks
  BY DEF Inv
<1>. QED  BY <1>1, Invariance, PTL

\* Jobs of one input are admitted in the order of their release.
THEOREM AdmissionOrder == Spec => []AdmittedInOrder
<1>1. Inv => AdmittedInOrder
  BY DEF Inv
<1>. QED  BY <1>1, Invariance, PTL

\* A station never has more jobs and promised deliveries than it has places.
THEOREM StationsAdmit == Spec => []StationAdmission
<1>1. Inv => StationAdmission
  BY DEF Inv
<1>. QED  BY <1>1, Invariance, PTL

\* Every promised pickup is backed by a job of its own.
THEOREM PickupsBacked == Spec => []PickupBacked
<1>1. Inv => PickupBacked
  BY DEF Inv
<1>. QED  BY <1>1, Invariance, PTL

\* A station that its machine blocks is full: no delivery can be promised to it.
LEMMA DrainsNow ==
    ASSUME Inv
    PROVE  ReservedDeliveryDrains
<1>. SUFFICES ASSUME NEW m \in Machines, Commitments(Pre[m]) # {},
                     Cardinality(store[Pre[m]]) = Capacity[Pre[m]], mstat[m] = "BLOCKED"
              PROVE  FALSE
  BY DEF ReservedDeliveryDrains
<1>1. Cardinality(StationItems(m)) = StationCapacity(m)
  BY FullStation DEF Inv
<1>2. StationCapacity(m) \in Nat
  BY StationCount DEF Inv
<1>3. Cardinality(Commitments(Pre[m])) \in Nat /\ Cardinality(Commitments(Pre[m])) # 0
  BY CommitmentsFinite, FS_EmptySet
<1>4. Cardinality(StationItems(m)) + Cardinality(Commitments(Pre[m])) <= StationCapacity(m)
  BY DEF Inv, StationAdmission
<1>. QED  BY <1>1, <1>2, <1>3, <1>4

\* A promised delivery is never stuck behind its own station.
THEOREM DeliveriesDrain == Spec => []ReservedDeliveryDrains
  BY DrainsNow, Invariance, PTL

\* What may end a reservation in one step.
HeldStep ==
    \A v \in Vehicles : target[v] # None /\ target'[v] # target[v] =>
        /\ target'[v] = None
        /\ \/ cargo'[v] # cargo[v]
           \/ \E m \in down \cup down' : target[v] = Pre[m]
           \/ \E m \in down : target[v] = Post[m] /\ store[Post[m]] = {}

LEMMA StepsHold == Inv /\ [Next]_vars => HeldStep
<1>. SUFFICES ASSUME Inv, [Next]_vars, NEW v \in Vehicles,
                     target[v] # None, target'[v] # target[v]
              PROVE  /\ target'[v] = None
                     /\ \/ cargo'[v] # cargo[v]
                        \/ \E m \in down \cup down' : target[v] = Pre[m]
                        \/ \E m \in down : target[v] = Post[m] /\ store[Post[m]] = {}
  BY DEF HeldStep
<1>1. CASE CancelIneligible
  <2>1. target'[v] = None /\ ~EligibleOwner(target[v])
    BY <1>1 DEF CancelIneligible
  <2>. QED  BY <2>1 DEF EligibleOwner
<1>2. ASSUME NEW m \in Machines, StartMachine(m) PROVE FALSE
  BY <1>2 DEF StartMachine, StartOperation
<1>3. CASE NegotiationRound
  <2>0. PICK app \in Answers : \E chosen \in SUBSET (DOMAIN app \ Waiters(app)) :
           target' = [w \in Vehicles |-> IF w \in chosen THEN app[w] ELSE target[w]]
    BY <1>3 DEF NegotiationRound, Choices
  <2>1. PICK chosen \in SUBSET (DOMAIN app \ Waiters(app)) :
           target' = [w \in Vehicles |-> IF w \in chosen THEN app[w] ELSE target[w]]
    BY <2>0
  <2>2. chosen \subseteq active
    BY <2>1 DEF Answers
  <2>. QED  BY <2>1, <2>2 DEF Inv, ActiveIdle
<1>4. CASE Advance
  <2>1. PICK fin \in SUBSET Running, dn \in SUBSET Machines, rel \in Releasable :
            /\ Interval(Interrupted(dn), fin, dn, rel)
            /\ target' = [w \in Vehicles |-> IF service[w] # None THEN None ELSE target[w]]
    BY <1>4 DEF Advance
  <2>2. service[v] # None /\ target'[v] = None
    BY <2>1
  <2>3. CASE v \in Loading(Interrupted(dn))
    <3>1. cargo'[v] = service[v].job /\ service[v].job \in Jobs /\ cargo[v] = None
      BY <2>1, <2>2, <2>3, ServiceFacts DEF Interval, Inv, Loading
    <3>. QED  BY <2>2, <3>1, IdentityAssumption
  <2>4. CASE v \in Unloading(Interrupted(dn))
    <3>1. v \notin Loading(Interrupted(dn))
      BY <2>4 DEF Loading, Unloading
    <3>2. cargo'[v] = None /\ cargo[v] \in Jobs
      BY <2>1, <2>2, <2>4, <3>1, ServiceFacts DEF Interval, Inv, Unloading
    <3>. QED  BY <2>2, <3>2, IdentityAssumption
  <2>5. CASE v \in Interrupted(dn)
    <3>1. PICK m \in dn : service[v].owner \in {Pre[m], Post[m]}
      BY <2>5 DEF Interrupted
    <3>2. service[v].owner = target[v] /\ service[v].owner \in PreBuffers \cup Outputs
      <4>1. service[v].owner \in DestinationOwners(service[v].job)
        BY <2>2, <2>5, ServiceFacts DEF Inv, Interrupted
      <4>. QED  BY <2>2, <4>1, DestinationRoles, ServiceFacts DEF Inv
    <3>3. service[v].owner = Pre[m]
      BY <3>1, <3>2, BufferRoles
    <3>4. down' = dn
      BY <2>1 DEF Interval
    <3>. QED  BY <2>2, <3>1, <3>2, <3>3, <3>4
  <2>. QED
    BY <2>2, <2>3, <2>4, <2>5, ServiceFacts DEF Loading, Unloading, Transferring, Inv
<1>5. CASE Wake \/ EndNegotiation \/ UNCHANGED vars
  BY <1>5 DEF Wake, EndNegotiation, vars, core
<1>6. CASE SelectLoad \/ SelectUnload
  BY <1>6 DEF SelectLoad, SelectUnload, StartService
<1>. QED  BY <1>1, <1>2, <1>3, <1>4, <1>5, <1>6 DEF Next, Ended

\* An accepted target persists until its service completes or the breakdown
\* cancellation applies.
THEOREM CommitmentsHeld == Spec => CommitmentHeld
<1>1. Inv /\ [Next]_vars => [HeldStep]_vars
  BY StepsHold
<1>2. Spec => [][HeldStep]_vars
  BY <1>1, Invariance, PTL DEF Spec
<1>3. CommitmentHeld <=> [][HeldStep]_vars
  BY DEF CommitmentHeld, HeldStep
<1>. QED  BY <1>2, <1>3

----------------------------------------------------------------------------
(* Every step of the protocol is a step of the life of its jobs.           *)

LEMMA RefineInit == Init => Lifecycle!Init
<1>. SUFFICES ASSUME Init PROVE Lifecycle!Init
  OBVIOUS
<1>1. Lifecycle!Exclusive(loc)
  BY InitInv, PlacesExclusive DEF Inv, Structure
<1>2. \A j \in Jobs : loc[j] \in {Unreleased, Queued, InputOf[j]} /\ step[j] = 0
  BY DEF Init, CoreInit
<1>. QED
  BY <1>1, <1>2 DEF Lifecycle!Init, Lifecycle!NotReleased, Lifecycle!InQueue,
                   Unreleased, Queued

LEMMA RefineStep == Inv /\ [Next]_vars => [Lifecycle!Next]_<<loc, step>>
<1>. SUFFICES ASSUME Inv, [Next]_vars
              PROVE  Lifecycle!Next \/ UNCHANGED <<loc, step>>
  OBVIOUS
<1>1. Lifecycle!Exclusive(loc')
  <2>1. Ownership' => Lifecycle!Exclusive(loc)'
    BY PlacesExclusive, PTL
  <2>2. Ownership'
    BY NextInv DEF Inv, Structure
  <2>. QED  BY <2>1, <2>2 DEF Lifecycle!Exclusive
<1>2. ASSUME NEW m \in Machines, StartMachine(m)
      PROVE  Lifecycle!Next
  <2>1. PICK k \in Jobs : StartOperation(m, k)
    BY <1>2 DEF StartMachine
  <2>. QED  BY <1>1, <2>1, RefineStart DEF Lifecycle!Next, Inv
<1>3. CASE Advance
  <2>1. PICK fin \in SUBSET Running, dn \in SUBSET Machines, rel \in Releasable :
            Interval(Interrupted(dn), fin, dn, rel)
    BY <1>3 DEF Advance
  <2>2. Interrupted(dn) \in SUBSET Vehicles
    BY DEF Interrupted
  <2>. QED  BY <1>1, <2>1, <2>2, RefineInterval DEF Lifecycle!Next, Inv
<1>4. CASE \/ CancelIneligible \/ Wake \/ NegotiationRound \/ EndNegotiation
           \/ SelectLoad \/ SelectUnload \/ UNCHANGED vars
  BY <1>4 DEF CancelIneligible, Wake, NegotiationRound, EndNegotiation, SelectLoad,
              SelectUnload, StartService, physical, core, vars
<1>. QED  BY <1>2, <1>3, <1>4 DEF Next, Ended

\* The protocol implements the life of its jobs: routes are executed in order
\* on capable machines, and nothing ships before its route is complete.
THEOREM JobsLive == Spec => LifecycleSpec
<1>1. Spec => Lifecycle!Init /\ [][Lifecycle!Next]_<<loc, step>>
  BY RefineInit, RefineStep, Invariance, PTL DEF Spec
<1>. QED  BY <1>1 DEF LifecycleSpec, Lifecycle!Spec
=============================================================================
