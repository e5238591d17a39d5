--------------------------- MODULE QueueAdmission ---------------------------
(***************************************************************************)
(* Shared admission (experiments/queue_admission.py): the native scheduler *)
(* and the Tune broker of one directory driver take slots from one table,  *)
(* each under admission.lock.  What an operator may change meanwhile       *)
(* (limit, budget, holds, priorities) is read from the runtime journal     *)
(* while that lock is held, what the host can spare just before.  Nothing  *)
(* but the holder of the lock touches the table, so a change that comes    *)
(* between the reading and the decision is one that comes after both: each *)
(* locked operation is one action.                                         *)
(*                                                                         *)
(* A key is one native task or one Tune trial.  Charges are units of one   *)
(* resource.  Nobody claims the table of a live driver (batch_append.py    *)
(* claims quiescent sources only): the queue fields are BatchAdoption's.   *)
(***************************************************************************)
EXTENDS Integers, FiniteSets, FiniteSetsExt

CONSTANTS
    Keys,         \* "native:..." and "source:..." requests
    Charge,       \* [Keys -> units a request asks for]
    MaxCharge,    \* bound: the largest measured peak of a worker
    Journals,     \* what the runtime journal may say
    Hosts,        \* units the host may be able to spare
    FirstJournal, FirstHost,   \* what a run starts with
    MaxEdits,     \* bound on the changes of journal and host
    MaxCrashes    \* bound on the crashes of the driver

ASSUME KeysFinite == IsFiniteSet(Keys)
ASSUME ChargeType == MaxCharge \in Nat /\ Charge \in [Keys -> 1..MaxCharge]
ASSUME JournalType ==
    Journals \subseteq [limit : Nat, budget : Nat, held : SUBSET Keys, rank : [Keys -> Nat]]
ASSUME BoundsType == MaxEdits \in Nat /\ MaxCrashes \in Nat /\ Hosts \subseteq Nat
ASSUME FirstType == FirstJournal \in Journals /\ FirstHost \in Hosts

VARIABLES
    journal,   \* runtime.json: limit, budget, held keys, priority_rank of keys
    host,      \* units the host can spare for the batch as a whole
    slots,     \* admission.json: the charge of every reserved key
    since,     \* the order in which the waiters in the table began to wait
    feasible,  \* waiters that could be admitted if nobody else held a slot
    aged,      \* waiters that have waited for 30 seconds
    pc,        \* where the scheduler of a key is
    up,        \* the driver lives
    edits, crashes

table == <<slots, since, feasible, aged>>
vars == <<journal, host, table, pc, up, edits, crashes>>

Phases == {"idle", "wanted", "noted", "granted", "running", "orphan", "exited"}

TypeOK ==
    /\ journal \in Journals /\ host \in Hosts
    /\ DOMAIN slots \subseteq Keys /\ slots \in [DOMAIN slots -> 1..MaxCharge]
    /\ DOMAIN since \subseteq Keys /\ since \in [DOMAIN since -> 1..Cardinality(Keys)]
    /\ feasible \subseteq DOMAIN since /\ aged \subseteq DOMAIN since
    /\ pc \in [Keys -> Phases]
    /\ up \in BOOLEAN /\ edits \in 0..MaxEdits /\ crashes \in 0..MaxCrashes

----------------------------------------------------------------------------
Waiters == DOMAIN since

\* _held()
Held(k, j) == k \in j.held

\* A request alone against the budget and what the host can spare.
Fits(k, j, h) == Charge[k] <= j.budget /\ Charge[k] <= h

\* What a key weighs: the charge of its slot, or what it asks for.
Load(k) == IF k \in DOMAIN slots THEN slots[k] ELSE Charge[k]

\* sum(slot.get(resource) for slot in state["slots"].values())
LoadOf(S) == MapThenSumSet(Load, S)

Slot(k) == slots' = [i \in DOMAIN slots \cup {k} |-> IF i = k THEN Charge[k] ELSE slots[i]]

\* slots.pop(key, None)
Unslot(k) == slots' = [i \in DOMAIN slots \ {k} |-> slots[i]]

\* Times are only compared: number them by their order.
Ordered(f) == [w \in DOMAIN f |-> Cardinality({u \in DOMAIN f : f[u] <= f[w]})]

\* waiters.pop(key, None), for the keys in D
Leave(D) ==
    /\ since' = Ordered([w \in Waiters \ D |-> since[w]])
    /\ feasible' = feasible \ D
    /\ aged' = aged \ D

\* since=time.monotonic(), for the waiters in D: behind all others.
Restart(D) == [w \in Waiters |-> since[w] + IF w \in D THEN Cardinality(Keys) + 1 ELSE 0]

----------------------------------------------------------------------------
\* A task is queued, or the searcher proposes a trial.
Want(k) ==
    /\ up /\ pc[k] = "idle"
    /\ pc' = [pc EXCEPT ![k] = "wanted"]
    /\ UNCHANGED <<journal, host, table, up, edits, crashes>>

\* Mutant: every note of a waiting request starts its age anew.
KeepsAgeNever(k) == FALSE

\* `since` survives while the request was feasible and still is.
KeepsAge(k) == k \in feasible /\ Fits(k, journal, host)

\* note_wait() before every reserve(), which follows whatever it recorded.
NoteWait(k) ==
    /\ up /\ pc[k] = "wanted"
    /\ pc' = [pc EXCEPT ![k] = "noted"]
    /\ IF Held(k, journal) \/ k \in DOMAIN slots THEN Leave({k})
       ELSE IF KeepsAge(k) THEN UNCHANGED <<since, feasible, aged>>
       ELSE /\ since' = Ordered([w \in Waiters \cup {k} |->
                            IF w = k THEN Cardinality(Keys) + 1 ELSE since[w]])
            /\ feasible' = IF Fits(k, journal, host) THEN feasible \cup {k} ELSE feasible \ {k}
            /\ aged' = aged \ {k}
    /\ UNCHANGED <<journal, host, slots, up, edits, crashes>>

\* clear_wait() of the broker for a trial that is held; the native scheduler
\* does not ask for a task that is held, and its entry stays.
ClearWait(k) ==
    /\ up /\ pc[k] = "wanted" /\ k \in Waiters /\ Held(k, journal)
    /\ Leave({k})
    /\ UNCHANGED <<journal, host, slots, pc, up, edits, crashes>>

\* Thirty seconds have passed for the oldest waiter that is not aged yet.
Age(k) ==
    /\ k \in Waiters \ aged
    /\ \A w \in Waiters : since[w] < since[k] => w \in aged
    /\ aged' = aged \cup {k}
    /\ UNCHANGED <<journal, host, slots, since, feasible, pc, up, edits, crashes>>

----------------------------------------------------------------------------
\* The loop of reserve() over the waiters, as k sees them.
Rank(k) == journal.rank[k]

\* w comes before v in the order (priority_rank, since).
Before(w, v) == Rank(w) < Rank(v) \/ (Rank(w) = Rank(v) /\ since[w] < since[v])

\* The waiters that the loop considers: it ends at k and skips lower priorities.
Considered(k) ==
    {w \in Waiters \ {k} : Rank(w) <= Rank(k) /\ (k \in Waiters => Before(w, k))}

\* Mutant: aged or not, a waiter never holds back one of the same priority.
BlocksByRank(w, k) ==
    /\ ~Held(w, journal) /\ w \in feasible /\ Fits(w, journal, host)
    /\ Rank(w) < Rank(k)

\* w holds k back.
Blocks(w, k) ==
    /\ ~Held(w, journal)
    /\ w \in feasible /\ Fits(w, journal, host)
    /\ Rank(w) < Rank(k) \/ w \in aged

\* The part of the loop that runs: up to the first waiter that blocks.
Reached(k) ==
    {w \in Considered(k) : \A v \in Considered(k) : Before(v, w) => ~Blocks(v, k)}

Dropped(k) == {w \in Reached(k) : Held(w, journal)}

Demoted(k) == {w \in Reached(k) : ~Held(w, journal) /\ Charge[w] > host}

HasCapacity(k) ==
    /\ LoadOf(DOMAIN slots) + Charge[k] <= journal.budget
    /\ LoadOf(DOMAIN slots) + Charge[k] <= host

\* The journal's holds and its limit.
Admitted(k) == ~Held(k, journal) /\ Cardinality(DOMAIN slots) < journal.limit

\* The checks that precede the loop let it run.
Looks(k) == k \notin DOMAIN slots /\ HasCapacity(k)

\* The answer of reserve().
Granted(k) ==
    \/ k \in DOMAIN slots
    \/ HasCapacity(k) /\ Admitted(k) /\ \A w \in Considered(k) : ~Blocks(w, k)

\* reserve() decides and writes the table: waiters that are held are
\* dropped, those too large for the host begin to wait anew.
Reserve(k) ==
    /\ up /\ pc[k] = "noted"
    /\ LET demoted == IF Looks(k) THEN Demoted(k) ELSE {}
           gone == IF ~Looks(k) THEN {}
                   ELSE Dropped(k) \cup (IF Granted(k) THEN {k} ELSE {})
       IN /\ since' = Ordered([w \in Waiters \ gone |-> Restart(demoted)[w]])
          /\ feasible' = feasible \ (gone \cup demoted)
          /\ aged' = aged \ (gone \cup demoted)
    /\ IF Looks(k) /\ Granted(k) THEN Slot(k) ELSE UNCHANGED slots
    /\ pc' = [pc EXCEPT ![k] = IF Granted(k) THEN "granted" ELSE "wanted"]
    /\ UNCHANGED <<journal, host, up, edits, crashes>>

----------------------------------------------------------------------------
\* The worker process, or the actor of the trial, is started.
Start(k) ==
    /\ up /\ pc[k] = "granted"
    /\ pc' = [pc EXCEPT ![k] = "running"]
    /\ UNCHANGED <<journal, host, table, up, edits, crashes>>

\* It cannot be started: retire() gives the slot back.
StartFails(k) ==
    /\ up /\ pc[k] = "granted"
    /\ pc' = [pc EXCEPT ![k] = "idle"]
    /\ Unslot(k) /\ Leave({k})
    /\ UNCHANGED <<journal, host, up, edits, crashes>>

\* update_resources() and synchronize(): a measured peak is charged, never refused.
Grow(k) ==
    /\ up /\ pc[k] = "running" /\ slots[k] < MaxCharge
    /\ slots' = [slots EXCEPT ![k] = @ + 1]
    /\ UNCHANGED <<journal, host, since, feasible, aged, pc, up, edits, crashes>>

\* A worker ends, under its driver or after the driver has died.
Exit(k) ==
    /\ pc[k] \in {"running", "orphan"}
    /\ pc' = [pc EXCEPT ![k] = IF pc[k] = "running" THEN "exited" ELSE "idle"]
    /\ UNCHANGED <<journal, host, table, up, edits, crashes>>

\* Mutant: the slot is given back while the worker is still pausing.
RetiresEarly(k) == pc[k] \in {"running", "exited"}

\* process.join(), or the verified exit of the actor and its children.
Retires(k) == pc[k] = "exited"

\* retire()
Retire(k) ==
    /\ up /\ Retires(k)
    /\ pc' = [pc EXCEPT ![k] = IF pc[k] = "running" THEN "running" ELSE "idle"]
    /\ Unslot(k) /\ Leave({k})
    /\ UNCHANGED <<journal, host, up, edits, crashes>>

----------------------------------------------------------------------------
\* The operator's commands are applied, at any time.
EditJournal ==
    /\ edits < MaxEdits
    /\ edits' = edits + 1
    /\ journal' \in Journals \ {journal}
    /\ UNCHANGED <<host, table, pc, up, crashes>>

\* Other processes of the host take memory or return it.
ChangeHost ==
    /\ edits < MaxEdits
    /\ edits' = edits + 1
    /\ host' \in Hosts \ {host}
    /\ UNCHANGED <<journal, table, pc, up, crashes>>

\* The driver dies; its lock goes with it, its workers live on.
Crash ==
    /\ up /\ crashes < MaxCrashes
    /\ crashes' = crashes + 1
    /\ up' = FALSE
    /\ pc' = [k \in Keys |-> IF pc[k] = "running" THEN "orphan" ELSE "idle"]
    /\ UNCHANGED <<journal, host, table, edits>>

\* Mutant: the next driver does not wait for the workers of the last one.
QuietAlways == TRUE

\* No process of the previous owner is left: Scope._bind() lets a driver in.
Quiet == \A k \in Keys : pc[k] # "orphan"

\* execute_saved(): bind, then initialize() with an empty table.
Initialize ==
    /\ ~up /\ Quiet
    /\ up' = TRUE
    /\ slots' = [k \in {} |-> 0] /\ since' = [k \in {} |-> 0]
    /\ feasible' = {} /\ aged' = {}
    /\ UNCHANGED <<journal, host, pc, edits, crashes>>

----------------------------------------------------------------------------
Init ==
    /\ journal = FirstJournal /\ host = FirstHost
    /\ slots = [k \in {} |-> 0] /\ since = [k \in {} |-> 0]
    /\ feasible = {} /\ aged = {}
    /\ pc = [k \in Keys |-> "idle"]
    /\ up = TRUE /\ edits = 0 /\ crashes = 0

Next ==
    \/ \E k \in Keys :
          \/ Want(k) \/ NoteWait(k) \/ Reserve(k) \/ ClearWait(k) \/ Age(k)
          \/ Start(k) \/ StartFails(k) \/ Grow(k) \/ Exit(k) \/ Retire(k)
    \/ EditJournal \/ ChangeHost \/ Crash \/ Initialize

Spec == Init /\ [][Next]_vars

\* The schedulers poll, workers end at last, time passes, and a driver that
\* died is started again.
Fairness ==
    /\ \A k \in Keys :
          /\ WF_vars(NoteWait(k)) /\ WF_vars(Reserve(k))
          /\ WF_vars(Age(k)) /\ WF_vars(Start(k)) /\ WF_vars(Exit(k)) /\ WF_vars(Retire(k))
    /\ WF_vars(Initialize)

FairSpec == Spec /\ Fairness

----------------------------------------------------------------------------
\* Workers that are alive, of this driver or the last one, or whose end the
\* driver has not noticed yet.
Alive == {k \in Keys : pc[k] \in {"granted", "running", "orphan", "exited"}}

\* Every worker keeps its slot from before its start until its exit has been
\* verified, and a key that asks for a slot has none: native tasks and trials
\* that share the table cannot run on a slot that was given away.
WorkersHaveSlots == up => DOMAIN slots = Alive

\* A worker is admitted only while all that are alive, of either scheduler,
\* stay with it within the limit and the budget that reserve() reads, and never
\* while it is held there; peaks measured since count in full.
GrantsWithinJournal ==
    [][\A k \in Keys : pc[k] = "noted" /\ pc'[k] = "granted" =>
          /\ ~Held(k, journal)
          /\ Cardinality(Alive) < journal.limit
          /\ LoadOf(Alive) + Charge[k] <= journal.budget]_vars

\* Waiting priority (docs/unified-runtime-scheduler.md:75): a request that has
\* waited for 30 seconds is not overtaken by one of the same or lower priority
\* that began to wait later, unless it is held or could not be admitted anyway.
NoOvertaking ==
    [][\A k, w \in Keys :
          /\ pc[k] = "noted" /\ pc'[k] = "granted"
          /\ w \in aged /\ w \in feasible /\ k # w
          /\ k \in Waiters => since[w] < since[k]
          /\ journal.rank[w] <= journal.rank[k]
          => Held(w, journal) \/ ~Fits(w, journal, host)]_vars

\* A request is served at last, however large it is and however many smaller
\* ones keep arriving, unless it is held, does not fit at all or has been put
\* behind others by the operator.
RequestServed ==
    \A k \in Keys :
        pc[k] = "wanted" ~> \/ pc[k] \in {"granted", "idle"}
                               \/ Held(k, journal) \/ ~Fits(k, journal, host)
                               \/ \E w \in Keys : journal.rank[w] < journal.rank[k]
=============================================================================
