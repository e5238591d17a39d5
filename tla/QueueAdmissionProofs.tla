----------------------- MODULE QueueAdmissionProofs -----------------------
(***************************************************************************)
(* Shared admission for any number of tasks and trials, any charges and    *)
(* any journals the operator may write: the slots in the table are those   *)
(* of the workers that live, so what reserve() compares with limit and     *)
(* budget is what is really used.                                          *)
(***************************************************************************)
EXTENDS QueueAdmission, FiniteSetTheorems, TLAPS

\* After a crash only workers of the last driver are left, and the next driver
\* begins when there are none.
Generations ==
    \A k \in Keys : IF up THEN pc[k] # "orphan" ELSE pc[k] \in {"idle", "orphan"}

AdmissionInv == TypeOK /\ WorkersHaveSlots /\ Generations

----------------------------------------------------------------------------
\* Renumbered times are positive and no more than there are keys.
LEMMA OrderedType ==
    ASSUME NEW f, DOMAIN f \subseteq Keys, \A w \in DOMAIN f : f[w] \in Nat
    PROVE  /\ DOMAIN Ordered(f) = DOMAIN f
           /\ Ordered(f) \in [DOMAIN f -> 1..Cardinality(Keys)]
<1> SUFFICES ASSUME NEW w \in DOMAIN f
             PROVE  Cardinality({u \in DOMAIN f : f[u] <= f[w]}) \in 1..Cardinality(Keys)
  BY DEF Ordered
<1> DEFINE S == {u \in DOMAIN f : f[u] <= f[w]}
<1>1. S \subseteq Keys /\ w \in S
  OBVIOUS
<1>2. IsFiniteSet(S) /\ Cardinality(S) <= Cardinality(Keys)
  BY <1>1, KeysFinite, FS_Subset
<1>3. Cardinality(S) \in Nat /\ Cardinality(Keys) \in Nat /\ Cardinality(S) # 0
  BY <1>1, <1>2, KeysFinite, FS_CardinalityType, FS_EmptySet
<1> QED
  BY <1>2, <1>3

\* Keys leave the table of waiters.
LEMMA LeaveType ==
    ASSUME TypeOK, NEW D, Leave(D)
    PROVE  /\ DOMAIN since' \subseteq Keys /\ since' \in [DOMAIN since' -> 1..Cardinality(Keys)]
           /\ feasible' \subseteq DOMAIN since' /\ aged' \subseteq DOMAIN since'
<1> DEFINE f == [w \in Waiters \ D |-> since[w]]
<1>1. DOMAIN f = DOMAIN since \ D
  BY DEF Waiters
<1>2. DOMAIN f \subseteq Keys /\ \A w \in DOMAIN f : f[w] \in Nat
  <2>1. \A w \in DOMAIN since : since[w] \in 1..Cardinality(Keys)
    BY DEF TypeOK
  <2> QED
    BY <1>1, <2>1, KeysFinite, FS_CardinalityType DEF TypeOK
<1> HIDE DEF f
<1>3. since' = Ordered(f)
  BY DEF Leave, f
<1> QED
  BY <1>1, <1>2, <1>3, OrderedType DEF Leave, TypeOK

LEMMA SlotType ==
    ASSUME TypeOK, NEW k \in Keys, Slot(k)
    PROVE  /\ DOMAIN slots' = DOMAIN slots \cup {k}
           /\ DOMAIN slots' \subseteq Keys /\ slots' \in [DOMAIN slots' -> 1..MaxCharge]
  BY ChargeType DEF Slot, TypeOK

LEMMA UnslotType ==
    ASSUME TypeOK, NEW k \in Keys, Unslot(k)
    PROVE  /\ DOMAIN slots' = DOMAIN slots \ {k}
           /\ DOMAIN slots' \subseteq Keys /\ slots' \in [DOMAIN slots' -> 1..MaxCharge]
  BY DEF Unslot, TypeOK

\* note_wait() writes a table of waiters.
LEMMA NoteWaitType ==
    ASSUME TypeOK, NEW k \in Keys, NoteWait(k)
    PROVE  /\ DOMAIN since' \subseteq Keys /\ since' \in [DOMAIN since' -> 1..Cardinality(Keys)]
           /\ feasible' \subseteq DOMAIN since' /\ aged' \subseteq DOMAIN since'
<1>1. CASE Leave({k})
  BY <1>1, LeaveType
<1>2. CASE UNCHANGED <<since, feasible, aged>>
  BY <1>2 DEF TypeOK
<1>3. CASE ~Leave({k}) /\ ~UNCHANGED <<since, feasible, aged>>
  <2> DEFINE f == [w \in Waiters \cup {k} |-> IF w = k THEN Cardinality(Keys) + 1 ELSE since[w]]
  <2>1. since' = Ordered(f) /\ feasible' \subseteq feasible \cup {k} /\ aged' \subseteq aged
    BY <1>3 DEF NoteWait
  <2>2. DOMAIN f = DOMAIN since \cup {k}
    BY DEF Waiters
  <2>3. DOMAIN f \subseteq Keys /\ \A w \in DOMAIN f : f[w] \in Nat
    <3>1. Cardinality(Keys) \in Nat
      BY KeysFinite, FS_CardinalityType
    <3>2. \A w \in DOMAIN since : since[w] \in 1..Cardinality(Keys)
      BY DEF TypeOK
    <3> QED
      BY <2>2, <3>1, <3>2 DEF TypeOK
  <2> HIDE DEF f
  <2> QED
    BY <2>1, <2>2, <2>3, OrderedType DEF TypeOK
<1> QED
  BY <1>1, <1>2, <1>3

\* reserve() writes a table of waiters.
LEMMA ReserveType ==
    ASSUME TypeOK, NEW k \in Keys, Reserve(k)
    PROVE  /\ DOMAIN since' \subseteq Keys /\ since' \in [DOMAIN since' -> 1..Cardinality(Keys)]
           /\ feasible' \subseteq DOMAIN since' /\ aged' \subseteq DOMAIN since'
<1>1. PICK demoted :
         \E gone :
           /\ since' = Ordered([w \in Waiters \ gone |-> Restart(demoted)[w]])
           /\ feasible' = feasible \ (gone \cup demoted)
           /\ aged' = aged \ (gone \cup demoted)
  BY DEF Reserve
<1>2. PICK gone :
         /\ since' = Ordered([w \in Waiters \ gone |-> Restart(demoted)[w]])
         /\ feasible' = feasible \ (gone \cup demoted)
         /\ aged' = aged \ (gone \cup demoted)
  BY <1>1
<1> DEFINE f == [w \in Waiters \ gone |-> Restart(demoted)[w]]
<1>3. DOMAIN f = DOMAIN since \ gone
  BY DEF Waiters
<1>4. DOMAIN f \subseteq Keys /\ \A w \in DOMAIN f : f[w] \in Nat
  <2>1. Cardinality(Keys) \in Nat
    BY KeysFinite, FS_CardinalityType
  <2>2. \A w \in DOMAIN since : since[w] \in 1..Cardinality(Keys)
    BY DEF TypeOK
  <2> QED
    BY <1>3, <2>1, <2>2 DEF TypeOK, Restart, Waiters
<1> HIDE DEF f
<1>5. since' = Ordered(f)
  BY <1>2 DEF f
<1> QED
  BY <1>2, <1>3, <1>4, <1>5, OrderedType DEF TypeOK

----------------------------------------------------------------------------
\* Types.

LEMMA InitAdmission == Init => AdmissionInv
<1> SUFFICES ASSUME Init PROVE AdmissionInv
  OBVIOUS
<1>1. DOMAIN slots = {} /\ DOMAIN since = {}
  BY DEF Init
<1>2. slots \in [DOMAIN slots -> 1..MaxCharge] /\ since \in [DOMAIN since -> 1..Cardinality(Keys)]
  BY DEF Init
<1>3. pc \in [Keys -> Phases]
  BY DEF Init, Phases
<1>4. edits \in 0..MaxEdits /\ crashes \in 0..MaxCrashes
  BY BoundsType DEF Init
<1>5. TypeOK
  BY <1>1, <1>2, <1>3, <1>4, FirstType DEF Init, TypeOK
<1>6. WorkersHaveSlots /\ Generations
  BY <1>1 DEF Init, WorkersHaveSlots, Alive, Generations
<1> QED
  BY <1>5, <1>6 DEF AdmissionInv

\* What an action of one key does to phases and slots: a key has a slot exactly
\* from its grant to its retirement.
LEMMA KeyStep ==
    ASSUME AdmissionInv, NEW k \in Keys,
           \/ Want(k) \/ NoteWait(k) \/ Reserve(k) \/ ClearWait(k) \/ Age(k)
           \/ Start(k) \/ StartFails(k) \/ Grow(k) \/ Exit(k) \/ Retire(k)
    PROVE  AdmissionInv'
<1> USE DEF AdmissionInv
<1>1. ASSUME NEW phase \in Phases \ {"orphan"}, pc' = [pc EXCEPT ![k] = phase], up' = up,
             up \/ phase = "idle",
             up => DOMAIN slots' = IF phase \in {"granted", "running", "exited"}
                             THEN DOMAIN slots \cup {k} ELSE DOMAIN slots \ {k}
      PROVE  pc' \in [Keys -> Phases] /\ WorkersHaveSlots' /\ Generations'
  <2>1. pc' \in [Keys -> Phases] /\ \A i \in Keys : pc'[i] = IF i = k THEN phase ELSE pc[i]
    BY <1>1 DEF TypeOK
  <2>2. WorkersHaveSlots'
    BY <1>1, <2>1 DEF WorkersHaveSlots, Alive, Phases
  <2>3. Generations'
    BY <1>1, <2>1 DEF Generations
  <2> QED
    BY <2>1, <2>2, <2>3
<1>2. CASE Want(k)
  <2>1. k \notin Alive
    BY <1>2 DEF Want, Alive
  <2>2. pc' \in [Keys -> Phases] /\ WorkersHaveSlots' /\ Generations'
    BY <1>1, <1>2, <2>1 DEF Want, WorkersHaveSlots, table, Phases
  <2> QED
    BY <1>2, <2>2 DEF Want, table, TypeOK
<1>3. CASE NoteWait(k)
  <2>1. k \notin Alive
    BY <1>3 DEF NoteWait, Alive
  <2>2. up /\ up' = up /\ slots' = slots /\ pc' = [pc EXCEPT ![k] = "noted"]
    BY <1>3 DEF NoteWait
  <2>3. pc' \in [Keys -> Phases] /\ WorkersHaveSlots' /\ Generations'
    BY <1>1, <2>1, <2>2 DEF WorkersHaveSlots, Phases
  <2> QED
    BY <1>3, <2>3, NoteWaitType DEF NoteWait, TypeOK
<1>4. CASE Reserve(k)
  <2>1. k \notin DOMAIN slots
    BY <1>4 DEF Reserve, Alive, WorkersHaveSlots
  <2>2. CASE Granted(k)
    <3>1. Slot(k) /\ pc' = [pc EXCEPT ![k] = "granted"]
      BY <1>4, <2>1, <2>2 DEF Reserve, Granted, Looks
    <3>2. pc' \in [Keys -> Phases] /\ WorkersHaveSlots' /\ Generations'
      BY <1>1, <1>4, <3>1, SlotType DEF Reserve, Phases
    <3> QED
      BY <1>4, <3>1, <3>2, SlotType, ReserveType DEF Reserve, TypeOK
  <2>3. CASE ~Granted(k)
    <3>1. slots' = slots /\ pc' = [pc EXCEPT ![k] = "wanted"]
      BY <1>4, <2>3 DEF Reserve
    <3>2. pc' \in [Keys -> Phases] /\ WorkersHaveSlots' /\ Generations'
      BY <1>1, <1>4, <2>1, <3>1 DEF Reserve, Phases
    <3> QED
      BY <1>4, <3>1, <3>2, ReserveType DEF Reserve, TypeOK
  <2> QED
    BY <2>2, <2>3
<1>5. CASE ClearWait(k)
  BY <1>5, LeaveType DEF ClearWait, TypeOK, WorkersHaveSlots, Generations, Alive
<1>6. CASE Age(k)
  BY <1>6 DEF Age, TypeOK, WorkersHaveSlots, Generations, Alive, Waiters
<1>7. CASE Start(k)
  <2>1. k \in DOMAIN slots
    BY <1>7 DEF Start, Alive, WorkersHaveSlots
  <2>2. pc' \in [Keys -> Phases] /\ WorkersHaveSlots' /\ Generations'
    BY <1>1, <1>7, <2>1 DEF Start, table, Phases
  <2> QED
    BY <1>7, <2>2 DEF Start, table, TypeOK
<1>8. CASE StartFails(k)
  <2>1. pc' \in [Keys -> Phases] /\ WorkersHaveSlots' /\ Generations'
    BY <1>1, <1>8, UnslotType DEF StartFails, Phases
  <2> QED
    BY <1>8, <2>1, UnslotType, LeaveType DEF StartFails, TypeOK
<1>9. CASE Grow(k)
  <2>1. k \in DOMAIN slots
    BY <1>9 DEF Grow, Alive, WorkersHaveSlots
  <2>2. DOMAIN slots' = DOMAIN slots /\ slots' \in [DOMAIN slots -> 1..MaxCharge]
    BY <1>9, <2>1, ChargeType DEF Grow, TypeOK
  <2> QED
    BY <1>9, <2>2 DEF Grow, TypeOK, WorkersHaveSlots, Generations, Alive
<1>10. CASE Exit(k)
  <2>1. CASE pc[k] = "running"
    <3>1. up /\ k \in DOMAIN slots
      BY <2>1 DEF Generations, Alive, WorkersHaveSlots
    <3>2. pc' \in [Keys -> Phases] /\ WorkersHaveSlots' /\ Generations'
      BY <1>1, <1>10, <2>1, <3>1 DEF Exit, table, Phases
    <3> QED
      BY <1>10, <3>2 DEF Exit, table, TypeOK
  <2>2. CASE pc[k] = "orphan"
    <3>1. ~up
      BY <2>2 DEF Generations
    <3>2. pc' \in [Keys -> Phases] /\ WorkersHaveSlots' /\ Generations'
      BY <1>1, <1>10, <2>2, <3>1 DEF Exit, Phases
    <3> QED
      BY <1>10, <3>2 DEF Exit, table, TypeOK
  <2> QED
    BY <1>10, <2>1, <2>2 DEF Exit
<1>11. CASE Retire(k)
  <2>1. pc' = [pc EXCEPT ![k] = "idle"]
    BY <1>11 DEF Retire, Retires
  <2>2. pc' \in [Keys -> Phases] /\ WorkersHaveSlots' /\ Generations'
    BY <1>1, <1>11, <2>1, UnslotType DEF Retire, Phases
  <2> QED
    BY <1>11, <2>2, UnslotType, LeaveType DEF Retire, TypeOK
<1> QED
  BY <1>2, <1>3, <1>4, <1>5, <1>6, <1>7, <1>8, <1>9, <1>10, <1>11

LEMMA AdmissionStep == AdmissionInv /\ [Next]_vars => AdmissionInv'
<1> SUFFICES ASSUME AdmissionInv, [Next]_vars PROVE AdmissionInv'
  OBVIOUS
<1> USE BoundsType DEF AdmissionInv
<1>1. CASE EditJournal
  BY <1>1 DEF EditJournal, table, TypeOK, WorkersHaveSlots, Generations, Alive
<1>2. CASE ChangeHost
  BY <1>2 DEF ChangeHost, table, TypeOK, WorkersHaveSlots, Generations, Alive
<1>3. CASE Crash
  <2>1. pc' \in [Keys -> Phases] /\ Generations' /\ WorkersHaveSlots'
    BY <1>3 DEF Crash, Phases, Generations, WorkersHaveSlots
  <2>2. crashes' \in 0..MaxCrashes
    BY <1>3 DEF Crash, TypeOK
  <2> QED
    BY <1>3, <2>1, <2>2 DEF Crash, table, TypeOK
<1>4. CASE Initialize
  <2>1. DOMAIN slots' = {} /\ slots' \in [{} -> 1..MaxCharge]
        /\ DOMAIN since' = {} /\ since' \in [{} -> 1..Cardinality(Keys)]
    BY <1>4 DEF Initialize
  <2>2. \A k \in Keys : pc[k] = "idle"
    BY <1>4 DEF Initialize, Quiet, Generations
  <2>3. Generations' /\ WorkersHaveSlots'
    BY <1>4, <2>1, <2>2 DEF Initialize, Generations, WorkersHaveSlots, Alive
  <2> QED
    BY <1>4, <2>1, <2>3 DEF Initialize, TypeOK
<1>5. CASE UNCHANGED vars
  BY <1>5 DEF vars, table, TypeOK, WorkersHaveSlots, Generations, Alive
<1> QED
  BY <1>1, <1>2, <1>3, <1>4, <1>5, KeyStep DEF Next

LEMMA Admission == Spec => []AdmissionInv
  BY InitAdmission, AdmissionStep, PTL DEF Spec

\* The admission table and the phases of all keys keep their types.
THEOREM TypeCorrect == Spec => []TypeOK
  BY Admission, PTL DEF AdmissionInv

\* The slots of a live driver's table are those of the workers that live: none is
\* given away before its worker has gone, none is left behind, crashes included.
THEOREM SlotsAreWorkers == Spec => []WorkersHaveSlots
  BY Admission, PTL DEF AdmissionInv

----------------------------------------------------------------------------
\* Grants.

LEMMA GrantStep ==
    ASSUME AdmissionInv, Next, NEW k \in Keys, pc[k] = "noted", pc'[k] = "granted"
    PROVE  /\ HasCapacity(k) /\ Admitted(k)
           /\ \A w \in Considered(k) : ~Blocks(w, k)
           /\ DOMAIN slots = Alive
<1>1. Reserve(k)
  <2>1. ASSUME NEW i \in Keys,
               \/ Want(i) \/ NoteWait(i) \/ Reserve(i) \/ ClearWait(i) \/ Age(i)
               \/ Start(i) \/ StartFails(i) \/ Grow(i) \/ Exit(i) \/ Retire(i)
        PROVE  Reserve(i) /\ i = k
    BY <2>1 DEF AdmissionInv, TypeOK, Want, NoteWait, Reserve, ClearWait, Age, Start,
                StartFails, Grow, Exit, Retire, table
  <2>2. ~EditJournal /\ ~ChangeHost /\ ~Crash /\ ~Initialize
    BY DEF EditJournal, ChangeHost, Crash, Initialize, table
  <2> QED
    BY <2>1, <2>2 DEF Next
<1>2. DOMAIN slots = Alive
  BY <1>1 DEF Reserve, AdmissionInv, WorkersHaveSlots
<1>3. Granted(k)
  BY <1>1 DEF Reserve, AdmissionInv, TypeOK
<1>4. k \notin DOMAIN slots
  BY <1>2 DEF Alive
<1> QED
  BY <1>2, <1>3, <1>4 DEF Granted

\* Whatever the journal says when reserve() reads it, native tasks and trials
\* together stay within its limit and its budget.
THEOREM GrantsAreWithin == Spec => GrantsWithinJournal
<1>1. AdmissionInv /\ [Next]_vars =>
        [\A k \in Keys : pc[k] = "noted" /\ pc'[k] = "granted" =>
          /\ ~Held(k, journal)
          /\ Cardinality(Alive) < journal.limit
          /\ LoadOf(Alive) + Charge[k] <= journal.budget]_vars
  <2> SUFFICES ASSUME AdmissionInv, Next, NEW k \in Keys, pc[k] = "noted", pc'[k] = "granted"
               PROVE  /\ ~Held(k, journal)
                      /\ Cardinality(Alive) < journal.limit
                      /\ LoadOf(Alive) + Charge[k] <= journal.budget
    OBVIOUS
  <2>1. HasCapacity(k) /\ Admitted(k) /\ DOMAIN slots = Alive
    BY GrantStep
  <2> QED
    BY <2>1 DEF HasCapacity, Admitted
<1> QED
  BY <1>1, Admission, PTL DEF Spec, GrantsWithinJournal

\* A request that has aged is not overtaken by a later one of its priority.
THEOREM NobodyOvertakes == Spec => NoOvertaking
<1>1. AdmissionInv /\ [Next]_vars =>
        [\A k, w \in Keys :
          /\ pc[k] = "noted" /\ pc'[k] = "granted"
          /\ w \in aged /\ w \in feasible /\ k # w
          /\ k \in Waiters => since[w] < since[k]
          /\ journal.rank[w] <= journal.rank[k]
          => Held(w, journal) \/ ~Fits(w, journal, host)]_vars
  <2> SUFFICES ASSUME AdmissionInv, Next, NEW k \in Keys, NEW w \in Keys,
                      pc[k] = "noted", pc'[k] = "granted",
                      w \in aged, w \in feasible, k # w,
                      k \in Waiters => since[w] < since[k],
                      journal.rank[w] <= journal.rank[k]
               PROVE  Held(w, journal) \/ ~Fits(w, journal, host)
    OBVIOUS
  <2>1. ~Blocks(w, k) \/ w \notin Considered(k)
    BY GrantStep
  <2>2. journal.rank[w] \in Nat /\ journal.rank[k] \in Nat
    BY JournalType DEF AdmissionInv, TypeOK
  <2>3. w \in Considered(k)
    BY <2>2 DEF Considered, Before, Rank, Waiters, AdmissionInv, TypeOK
  <2> QED
    BY <2>1, <2>3 DEF Blocks
<1> QED
  BY <1>1, Admission, PTL DEF Spec, NoOvertaking
=============================================================================
