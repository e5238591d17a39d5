-------------------------- MODULE BaseNegotiation --------------------------
(***************************************************************************)
(* The Base reservation protocol (engine/base_protocol.py): between two    *)
(* physical intervals the protocol cancels reservations whose owner is     *)
(* down, starts machines, lets idle vehicles apply to buffers in rounds,   *)
(* lets the buffers accept within their quota, and selects the services    *)
(* that vehicles on site begin.  Policies answer the requests, so every    *)
(* answer the protocol offers is a behaviour.                              *)
(***************************************************************************)
EXTENDS FactoryCore

CONSTANTS
    AllowStop,       \* stop_permissions of the pre and post accept groups
    AllowEmptyWait,  \* allow_empty_wait
    EmptyWait        \* the answer "EMPTY_WAIT"

ASSUME PolicyAssumption ==
    /\ AllowStop \in BOOLEAN /\ AllowEmptyWait \in BOOLEAN
    /\ EmptyWait \notin Buffers

VARIABLES
    phase,      \* where decisions() and the driver loop are
    active,     \* vehicles still negotiating in this boundary
    rejected,   \* owners that turned each vehicle down in this boundary
    emptyWait,  \* vehicles with an entry in empty_wait_due
    onsite      \* vehicles standing at a port of their target

negotiation == <<phase, active, rejected, emptyWait, onsite>>
vars == <<core, negotiation>>

----------------------------------------------------------------------------
Commitments(b) == {v \in Vehicles : target[v] = b}

\* Mutant: only the pre buffer itself counts against a station.
SupplyPreOnly(b) ==
    IF b \in Outputs THEN Cardinality(Vehicles)
    ELSE IF b \in Inputs THEN Cardinality(store[b])
    ELSE IF b \in PostBuffers
    THEN LET m == CHOOSE n \in Machines : Post[n] = b
         IN  Cardinality(store[b]) + Cardinality(Started(m))
    ELSE LET m == CHOOSE n \in Machines : Pre[n] = b
         IN  StationCapacity(m) - Cardinality(store[b])

\* What an owner can serve before its commitments are subtracted.
Supply(b) ==
    IF b \in Outputs THEN Cardinality(Vehicles)
    ELSE IF b \in Inputs THEN Cardinality(store[b])
    ELSE IF b \in PostBuffers
    THEN LET m == CHOOSE n \in Machines : Post[n] = b
         IN  Cardinality(store[b]) + Cardinality(Started(m))
    ELSE LET m == CHOOSE n \in Machines : Pre[n] = b
         IN  StationCapacity(m) - Cardinality(StationItems(m))

\* Mutant: commitments are not subtracted.
QuotaUncommitted(b) == Supply(b)

\* quota(): what an owner may still accept.
Quota(b) ==
    LET free == Supply(b) - Cardinality(Commitments(b))
    IN  IF b \in Outputs THEN Supply(b) ELSE IF free > 0 THEN free ELSE 0

\* Mutant: a loaded vehicle may apply to any station.
CandidateOwnersAnywhere(v) ==
    {b \in (IF cargo[v] # None THEN PreBuffers \cup Outputs ELSE Sources)
           \ rejected[v] : EligibleOwner(b) /\ Quota(b) > 0}

CandidateOwners(v) ==
    {b \in (IF cargo[v] # None THEN DestinationOwners(cargo[v]) ELSE Sources)
           \ rejected[v] : EligibleOwner(b) /\ Quota(b) > 0}

----------------------------------------------------------------------------
\* decisions(): reservations of owners that became ineligible are cancelled.
CancelIneligible ==
    LET gone == {v \in Vehicles : target[v] # None /\ ~EligibleOwner(target[v])}
    IN  /\ phase = "cancel"
        /\ target' = [v \in Vehicles |-> IF v \in gone THEN None ELSE target[v]]
        /\ service' = [v \in Vehicles |-> IF v \in gone THEN None ELSE service[v]]
        /\ phase' = "start"
        /\ UNCHANGED <<physical, active, rejected, emptyWait, onsite>>

\* Every machine that has a choice starts one of its jobs.
StartMachine(m) ==
    /\ phase = "start"
    /\ \E j \in Jobs : StartOperation(m, j)
    /\ UNCHANGED negotiation

Idle == {v \in Vehicles : target[v] = None /\ service[v] = None}

\* Vehicles whose empty wait is over are asked again; a vehicle whose options
\* did not change since it was last asked may sleep on until its retry is due.
Wake ==
    /\ phase = "start"
    /\ \A m \in Machines : MachineChoices(m) = {}
    /\ \E asked \in SUBSET {v \in Idle : CandidateOwners(v) # {}} :
          /\ \A v \in emptyWait \cap Idle : CandidateOwners(v) # {} => v \in asked
          /\ active' = asked
    /\ emptyWait' = emptyWait \ Idle
    /\ phase' = "negotiate"
    /\ UNCHANGED <<core, rejected, onsite>>

\* What a vehicle that has an owner to apply to may answer.
Options(v) ==
    CandidateOwners(v)
    \cup (IF AllowEmptyWait /\ cargo[v] = None THEN {EmptyWait} ELSE {})

\* One answer of every vehicle that has an owner to apply to.
Answers ==
    LET asked == {v \in active : CandidateOwners(v) # {}}
        options == [v \in asked |-> Options(v)]
    IN  {app \in [asked -> UNION {options[v] : v \in asked}] :
            \A v \in asked : app[v] \in options[v]}

Waiters(app) == {v \in DOMAIN app : app[v] = EmptyWait}
Applicants(app, b) == {v \in DOMAIN app : app[v] = b}

\* Mutant: an input accepts every applicant.
AcceptableInputAll(b, applicants, chosen) ==
    \/ b \in Inputs /\ chosen = applicants
    \/ /\ b \notin Inputs
       /\ Cardinality(chosen) <= Quota(b)
       /\ \/ chosen = applicants
          \/ Cardinality(chosen) = Quota(b)
          \/ AllowStop /\ b \in PreBuffers \cup PostBuffers

\* An owner accepts applicants one by one while its quota lasts; only pre and
\* post buffers may stop earlier.  Outputs accept everyone, an input accepts
\* everyone when its quota covers them.
Acceptable(b, applicants, chosen) ==
    /\ Cardinality(chosen) <= Quota(b)
    /\ \/ chosen = applicants
       \/ Cardinality(chosen) = Quota(b)
       \/ AllowStop /\ b \in PreBuffers \cup PostBuffers

\* The applicants that the owners may accept between them.
Choices(app) ==
    {chosen \in SUBSET (DOMAIN app \ Waiters(app)) :
        \A b \in Buffers :
            Acceptable(b, Applicants(app, b), Applicants(app, b) \cap chosen)}

\* Mutant: a rejection is remembered for one round only.
RejectedLast(app, chosen) ==
    [v \in Vehicles |-> IF v \in DOMAIN app \ (chosen \cup Waiters(app)) THEN {app[v]} ELSE {}]

\* An applicant that was not accepted does not apply to that owner again.
RejectedAfter(app, chosen) ==
    [v \in Vehicles |-> IF v \in DOMAIN app \ (chosen \cup Waiters(app))
                        THEN rejected[v] \cup {app[v]} ELSE rejected[v]]

\* One round: applications are collected, then every owner answers.
NegotiationRound ==
    /\ phase = "negotiate"
    /\ \E app \in Answers :
        \E chosen \in Choices(app) :
          /\ \E v \in DOMAIN app : app[v] # EmptyWait
          /\ target' = [v \in Vehicles |-> IF v \in chosen THEN app[v] ELSE target[v]]
          /\ rejected' = RejectedAfter(app, chosen)
          /\ active' = active \ (chosen \cup Waiters(app))
          /\ emptyWait' = emptyWait \cup Waiters(app)
    /\ UNCHANGED <<physical, service, phase, onsite>>

\* No vehicle applies any more; the vehicles of `here` stand at their target.
EndNegotiation ==
    /\ phase = "negotiate"
    /\ \E app \in Answers :
          /\ \A v \in DOMAIN app : app[v] = EmptyWait
          /\ emptyWait' = emptyWait \cup Waiters(app)
    /\ \E here \in SUBSET {v \in Vehicles : target[v] # None} : onsite' = here
    /\ active' = {}
    /\ rejected' = [v \in Vehicles |-> {}]
    /\ phase' = "service"
    /\ UNCHANGED core

Unserved(v) == v \in onsite /\ service[v] = None

\* Input and post buffers pair a ready job with a vehicle on site.
CanLoad(v, j) ==
    /\ Unserved(v)
    /\ target[v] \in Inputs \cup PostBuffers
    /\ j \in Ready(target[v])

\* Pre buffers and outputs unload a vehicle on site into a free slot.
CanUnload(v) ==
    /\ Unserved(v)
    /\ target[v] \in PreBuffers \cup Outputs
    /\ FreeDrop(target[v])

SelectLoad ==
    /\ phase = "service"
    /\ \E v \in Vehicles, j \in Jobs :
          CanLoad(v, j) /\ StartService(v, "pickup", j, target[v])
    /\ UNCHANGED negotiation

SelectUnload ==
    /\ phase = "service"
    /\ \E v \in Vehicles :
          CanUnload(v) /\ StartService(v, "drop_off", cargo[v], target[v])
    /\ UNCHANGED negotiation

\* Mutant: loading services are interrupted as well.
InterruptedAny(dn) ==
    {v \in Vehicles : /\ service[v] # None
                      /\ \E m \in dn : service[v].owner \in {Pre[m], Post[m]}}

\* Unloading services of a machine that is down at the new tick.
Interrupted(dn) ==
    {v \in Vehicles : /\ service[v] # None
                      /\ service[v].kind = "drop_off"
                      /\ \E m \in dn : service[v].owner \in {Pre[m], Post[m]}}

\* advance(): one physical interval once no site pair is left.
Advance ==
    /\ phase = "service"
    /\ \A v \in Vehicles : ~CanUnload(v) /\ \A j \in Jobs : ~CanLoad(v, j)
    /\ \E fin \in SUBSET Running, dn \in SUBSET Machines, rel \in Releasable :
          /\ Interval(Interrupted(dn), fin, dn, rel)
          /\ target' = [v \in Vehicles |->
                          IF service[v] # None THEN None ELSE target[v]]
    /\ onsite' = {}
    /\ phase' = IF shipped' = Jobs THEN "ended" ELSE "cancel"
    /\ UNCHANGED <<active, rejected, emptyWait>>

\* The driver leaves its loop when core.done holds.
Ended == phase = "ended" /\ UNCHANGED vars

----------------------------------------------------------------------------
Init ==
    /\ CoreInit
    /\ phase = "cancel"
    /\ active = {}
    /\ rejected = [v \in Vehicles |-> {}]
    /\ emptyWait = {}
    /\ onsite = {}

Next ==
    \/ CancelIneligible
    \/ \E m \in Machines : StartMachine(m)
    \/ Wake
    \/ NegotiationRound
    \/ EndNegotiation
    \/ SelectLoad
    \/ SelectUnload
    \/ Advance
    \/ Ended

Spec == Init /\ [][Next]_vars

----------------------------------------------------------------------------
(* Properties.                                                             *)

TypeOK ==
    /\ CoreTypeOK
    /\ phase \in {"cancel", "start", "negotiate", "service", "ended"}
    /\ active \subseteq Vehicles
    /\ rejected \in [Vehicles -> SUBSET Buffers]
    /\ emptyWait \subseteq Vehicles
    /\ onsite \subseteq Vehicles

\* The jobs at a station and the deliveries promised to it fit the station
\* (check_reservations), through every breakdown and cancellation.
StationAdmission ==
    \A m \in Machines :
        Cardinality(StationItems(m)) + Cardinality(Commitments(Pre[m]))
            <= StationCapacity(m)

\* Every promised pickup is backed by its own job: one in the buffer, or the
\* started job of the machine that will release into it (check_reservations).
PickupBacked ==
    /\ \A i \in Inputs : Cardinality(Commitments(i)) <= Cardinality(store[i])
    /\ \A m \in Machines :
          Cardinality(Commitments(Post[m]))
              <= Cardinality(store[Post[m]]) + Cardinality(Started(m))

\* A promised delivery is never stuck behind its own station: while one is
\* outstanding, either the pre buffer has a free slot or the machine is not
\* blocked, so that it will take a job from the pre buffer.
ReservedDeliveryDrains ==
    \A m \in Machines :
        /\ Commitments(Pre[m]) # {}
        /\ Cardinality(store[Pre[m]]) = Capacity[Pre[m]]
        => mstat[m] # "BLOCKED"

\* An accepted target persists until its service completes, unless the machine
\* it delivers to is down, or the machine it collects from is down and has
\* nothing left to collect (ADR 0053).
CommitmentHeld ==
    [][\A v \in Vehicles : target[v] # None /\ target'[v] # target[v] =>
          /\ target'[v] = None
          /\ \/ cargo'[v] # cargo[v]
             \/ \E m \in down \cup down' : target[v] = Pre[m]
             \/ \E m \in down : target[v] = Post[m] /\ store[Post[m]] = {}]_vars

----------------------------------------------------------------------------
(* Liveness.  The generator and the driver always continue; a vehicle whose*)
(* owners have quota is asked again (reevaluate_ticks), traffic brings a   *)
(* vehicle to its target, processing time is finite, outages end and demands*)
(* have a release tick.                                                    *)

Finishes(m) == Advance /\ mstat[m] = "PROCESSING" /\ mstat'[m] # "PROCESSING"
Repairs(m) == Advance /\ m \in down /\ m \notin down'
Releases(j) == Advance /\ loc[j] = Unreleased /\ loc'[j] # Unreleased
Asks(v) == Wake /\ v \in active'
Arrives(v) == EndNegotiation /\ v \in onsite'

\* The driver alone: it resumes the generator and steps the factory.
DrivenSpec == Spec /\ WF_vars(Next)

FairSpec ==
    /\ DrivenSpec
    /\ SF_vars(\E m \in Machines : Finishes(m)) /\ SF_vars(\E m \in Machines : Repairs(m))
    /\ SF_vars(\E j \in Jobs : Releases(j))
    /\ \A v \in Vehicles : SF_vars(Asks(v)) /\ SF_vars(Arrives(v))

\* Zero-time negotiation always ends, whatever the policies answer.
NegotiationEnds == phase = "negotiate" ~> phase = "service"

\* Every accepted reservation is served or cancelled, even in a factory whose
\* buffers are as small as they can be.
ReservationServed ==
    \A v \in Vehicles : target[v] # None ~> target[v] = None

\* An owner turns an applicant away although its quota is not used up.
Refuses ==
    \E v \in Vehicles, b \in Buffers :
       /\ b \in rejected'[v] \ rejected[v]
       /\ Cardinality({u \in Vehicles : target'[u] = b /\ target[u] # b}) < Quota(b)

\* A vehicle that could apply answers with an empty wait.
Waits == emptyWait' \ emptyWait # {}

\* With room for every job at every station, all demands ship, unless policies
\* refuse work, or decline to ask for it, again and again.
EveryJobShipped == <>(shipped = Jobs) \/ []<><<Refuses \/ Waits>>_vars
=============================================================================
