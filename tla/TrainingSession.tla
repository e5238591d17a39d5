-------------------------- MODULE TrainingSession --------------------------
(***************************************************************************)
(* One training run and its files (experiments/reservation_session.py,     *)
(* reservation_validation.py, and freeze() and evaluate() of               *)
(* reservation_runtime.py).  After every rollout a generation is committed *)
(* by switching current.json to it, then its model is published under the  *)
(* names that the rest of the program reads; at a milestone it is copied,  *)
(* judged in every mode, and the best model so far is selected; at the end *)
(* the chosen models are judged on the test cases.                         *)
(*                                                                         *)
(* The process may be killed, or stopped at a boundary, between any two    *)
(* writes; each single file is replaced atomically.  The next attempt goes *)
(* by what it finds.  Milestones count episodes, the rule of selection is  *)
(* not "last", and the cases of a panel are one step: those with a receipt *)
(* are not repeated (CaseStore), so a panel that is frozen is resumed.     *)
(***************************************************************************)
EXTENDS Integers

CONSTANTS
    Budget,        \* episodes
    Milestones,    \* episodes after which a model is judged
    SelectInitial, \* the untrained model may be the best one
    Modes, Sample, \* the modes of a panel; costs are those of one of them
    Periodic,      \* episodes whose models are kept under checkpoints/
    PlanChoices,   \* what evaluation.checkpoints may say: subsets of Periodic
    Costs,         \* what the validation of a model may show
    MaxCrashes,    \* bound on the crashes
    None

ASSUME BudgetType == Budget \in Nat \ {0} /\ Milestones \subseteq 0..Budget
ASSUME ChoicesType == Sample \in Modes /\ PlanChoices \subseteq SUBSET Periodic
ASSUME PeriodicType == Periodic \subseteq 0..Budget /\ Costs \subseteq Nat
ASSUME BoundsType == SelectInitial \in BOOLEAN /\ MaxCrashes \in Nat /\ None \notin Costs

\* A model after n episodes.  A rollout that is replayed after a crash leads to
\* another model of the same n.
Models == [n : 0..Budget, try : 0..MaxCrashes]

ASSUME NoneType == None \notin Models

\* A file that holds a model, and the JSON file beside it that describes one.
Names == {"generation", "current", "last", "episodes", "periodic", "milestone", "best", "selection"}
Files == Names \X (0..Budget) \X {"pt", "json"}
Pt(name, n) == <<name, n, "pt">>
Json(name, n) == <<name, n, "json">>
Says(file) == [file EXCEPT ![3] = "json"]

current == Json("current", 0)
last == Pt("last", 0)
best == Pt("best", 0)

\* The directories of evaluate(): of a milestone, or of the final evaluation.
Panels == {"validation", "evaluation"} \X (0..Budget) \X Modes

VARIABLES
    disk,     \* the model that a file holds or describes
    panel,    \* directories of panels, and the model their manifest names
    cost,     \* what the sample panel of a milestone has shown
    plans,    \* evaluation.checkpoints
    \* the process
    pc,
    model,    \* the policy, and with it the rows
    todo,     \* the files to be written before it goes on, and what they will hold
    judge,    \* panels of this milestone that are still to be judged
    at,       \* the panel in hand
    late,     \* the deadline has passed
    crashes

memory == <<pc, model, todo, judge, at>>
vars == <<disk, panel, cost, plans, memory, late, crashes>>

Phases ==
    {"off", "validate", "validating", "train", "evaluating", "over", "completed", "failed"}

TypeOK ==
    /\ disk \in [Files -> Models \cup {None}]
    /\ panel \in [Panels -> [state : {"absent", "made", "frozen", "done"},
                             model : Models \cup {None}, says : Models \cup {None}]]
    /\ cost \in [Milestones -> Costs \cup {None}]
    /\ plans \in PlanChoices
    /\ pc \in Phases /\ model \in Models \cup {None}
    /\ todo = [f \in DOMAIN todo |-> todo[f]] /\ DOMAIN todo \subseteq Files
    /\ \A f \in DOMAIN todo : todo[f] \in Models \cup {None}
    /\ judge \subseteq Panels /\ at \in Panels \cup {None}
    /\ late \in BOOLEAN /\ crashes \in 0..MaxCrashes

----------------------------------------------------------------------------
\* The attempt raises an exception: something on the disk contradicts something.
Fails ==
    /\ pc' = "failed"
    /\ UNCHANGED <<disk, panel, cost, model, todo, judge, at>>

GoTo(phase, writes) == pc' = phase /\ todo' = writes

Nothing == [f \in {} |-> None]

\* All that was to be written is written.
In(phase) == pc = phase /\ DOMAIN todo = {}

\* The order in which commit(), publish(), copy_checkpoint() and validate()
\* write, a model before its description.
Order ==
    [generation |-> 0, current |-> 1, last |-> 2, episodes |-> 3, periodic |-> 4,
     milestone |-> 5, best |-> 6, selection |-> 7]

\* Mutant: a generation is published before it is committed.
RankPublished(f) ==
    2 * (IF f[1] = "current" THEN 8 ELSE Order[f[1]]) + IF f[3] = "json" THEN 1 ELSE 0

Rank(f) == 2 * Order[f[1]] + IF f[3] = "json" THEN 1 ELSE 0

\* The next file is replaced.
Write ==
    /\ \E f \in DOMAIN todo :
        /\ \A g \in DOMAIN todo : Rank(f) <= Rank(g)
        /\ disk' = [disk EXCEPT ![f] = todo[f]]
        /\ todo' = [g \in DOMAIN todo \ {f} |-> todo[g]]
    /\ UNCHANGED <<panel, cost, plans, pc, model, judge, at, late, crashes>>

----------------------------------------------------------------------------
\* commit() and publish()

\* A periodic model that exists is not written again, its description is.
KeptPeriodic(m) ==
    IF m.n \notin Periodic THEN {}
    ELSE {Json("periodic", m.n)} \cup {f \in {Pt("periodic", m.n)} : disk[f] = None}

Published(m) == {last, Says(last), Json("episodes", 0)} \cup KeptPeriodic(m)

Commit(m) ==
    [f \in {Pt("generation", m.n), Json("generation", m.n), current} \cup Published(m) |-> m]

\* Every file of the generation has the digest that current.json gives.
Whole(m) == disk[Pt("generation", m.n)] = m /\ disk[Json("generation", m.n)] = m

\* Mutant: what the last attempt did not publish stays unpublished.
RepublishNothing(m) == Nothing

Republish(m) == [f \in Published(m) |-> m]

\* Mutant: a resumed session goes on with the next rollout.
AfterLoadTrain == "train"

\* Whatever was loaded, its milestone is validated first.
AfterLoad == "validate"

\* ReservationSession(): a first attempt, or the last committed generation.
Attempt ==
    /\ pc = "off"
    /\ LET m == disk[current]
           new == [n |-> 0, try |-> crashes]
       IN IF m = None
          THEN IF disk[last] # None \/ disk[Json("episodes", 0)] # None THEN Fails
               ELSE model' = new /\ GoTo("validate", Commit(new))
                    /\ UNCHANGED <<disk, panel, cost, judge, at>>
          ELSE IF ~Whole(m) THEN Fails
               ELSE model' = m /\ GoTo(AfterLoad, Republish(m))
                    /\ UNCHANGED <<disk, panel, cost, judge, at>>
    /\ UNCHANGED <<plans, late, crashes>>

\* step(): a rollout and an update, within the deadline.
Rollout ==
    /\ In("train") /\ model.n < Budget /\ ~late
    /\ LET next == [n |-> model.n + 1, try |-> crashes]
       IN model' = next /\ GoTo("validate", Commit(next))
    /\ UNCHANGED <<disk, panel, cost, plans, judge, at, late, crashes>>

\* A rollout that meets the deadline is discarded.
Discard ==
    /\ In("train") /\ model.n < Budget /\ late
    /\ GoTo("over", Nothing)
    /\ UNCHANGED <<disk, panel, cost, plans, model, judge, at, late, crashes>>

----------------------------------------------------------------------------
\* validate() and copy_checkpoint()

\* A description, if there is one, describes the model.
Described(file) == disk[Says(file)] \in {None, disk[file]}

Copy(from, to) ==
    [f \in {to, Says(to)} |-> IF f = to THEN disk[from] ELSE disk[Says(from)]]

PanelsOf(kind, N) == {kind} \X N \X Modes

Validate ==
    /\ In("validate")
    /\ LET copy == Pt("milestone", model.n)
       IN IF model.n \notin Milestones
          THEN pc' = "train" /\ UNCHANGED <<disk, panel, cost, model, todo, judge, at>>
          ELSE IF disk[copy] = None /\ ~Described(last) THEN Fails
          ELSE /\ GoTo("validating", IF disk[copy] = None THEN Copy(last, copy) ELSE Nothing)
               /\ judge' = PanelsOf("validation", {model.n})
               /\ UNCHANGED <<disk, panel, cost, model, at>>
    /\ UNCHANGED <<plans, late, crashes>>

\* Every configured panel must complete before a model is eligible.
Eligible ==
    {n \in Milestones :
        /\ n <= model.n /\ (n = 0 => SelectInitial)
        /\ \A p \in PanelsOf("validation", {n}) : panel[p].state = "done"}

\* Mutant: the first eligible milestone wins, whatever its cost.
BetterEarlier(n, m) == n <= m

\* candidate_key: the cost, then the episode.
Better(n, m) == cost[n] < cost[m] \/ (cost[n] = cost[m] /\ n <= m)

\* copy_checkpoint() of the chosen one, then selection.json.
Choose(chosen) ==
    [f \in {best, Says(best), Json("selection", 0)} |->
        IF f = Says(best) THEN disk[Says(chosen)] ELSE disk[chosen]]

Select ==
    /\ In("validating") /\ judge = {} /\ at = None
    /\ \/ Eligible = {} /\ GoTo("train", Nothing) /\ UNCHANGED <<disk, panel, cost, model, judge, at>>
       \/ \E n \in Eligible :
            LET chosen == Pt("milestone", n)
            IN /\ \A m \in Eligible : Better(n, m)
               /\ IF ~Described(chosen) THEN Fails
                  ELSE /\ GoTo("train", Choose(chosen))
                       /\ UNCHANGED <<disk, panel, cost, model, judge, at>>
    /\ UNCHANGED <<plans, late, crashes>>

----------------------------------------------------------------------------
\* evaluate() of one panel: its evidence, its manifest, its cases.

Subject(p) ==
    IF p[1] = "validation" THEN Pt("milestone", p[2])
    ELSE IF plans # {} THEN Pt("periodic", p[2])
    ELSE IF disk[best] # None THEN best ELSE last

\* checkpoint_training_evidence(), then freeze(): a directory that exists must
\* have a manifest, and one that names this very model.
Begin(p) ==
    /\ pc \in {"validating", "evaluating"} /\ DOMAIN todo = {} /\ at = None /\ p \in judge
    /\ LET s == Subject(p)
           same == panel[p].model = disk[s] /\ panel[p].says = disk[Says(s)]
       IN IF \/ ~Described(s) \/ panel[p].state = "made"
             \/ panel[p].state # "absent" /\ ~same
          THEN Fails
          ELSE /\ panel' = IF panel[p].state = "absent"
                           THEN [panel EXCEPT ![p].state = "made"] ELSE panel
               /\ at' = p
               /\ UNCHANGED <<disk, cost, pc, model, todo, judge>>
    /\ UNCHANGED <<plans, late, crashes>>

\* freeze() writes the manifest.
Freeze ==
    /\ at # None /\ panel[at].state = "made"
    /\ panel' = [panel EXCEPT ![at] = [state |-> "frozen", model |-> disk[Subject(at)],
                                       says |-> disk[Says(Subject(at))]]]
    /\ UNCHANGED <<disk, cost, plans, memory, late, crashes>>

\* All cases have their receipts: summary.json.
Summarize ==
    /\ at # None /\ panel[at].state \in {"frozen", "done"}
    /\ panel' = [panel EXCEPT ![at].state = "done"]
    /\ IF at[1] = "validation" /\ at[3] = Sample /\ cost[at[2]] = None
       THEN \E c \in Costs : cost' = [cost EXCEPT ![at[2]] = c]
       ELSE UNCHANGED cost
    /\ judge' = judge \ {at}
    /\ at' = None
    /\ UNCHANGED <<disk, plans, pc, model, todo, late, crashes>>

\* The deadline comes before the last case.
TimesOut ==
    /\ late /\ at # None /\ panel[at].state = "frozen"
    /\ pc' = "over" /\ at' = None
    /\ UNCHANGED <<disk, panel, cost, plans, model, todo, judge, late, crashes>>

\* final_evaluate(): every model that is to be judged must be there, and so must
\* its description.
FinalEvaluate ==
    /\ In("train") /\ model.n = Budget
    /\ LET panels == PanelsOf("evaluation", IF plans = {} THEN {Budget} ELSE plans)
       IN IF \E p \in panels : disk[Subject(p)] = None \/ disk[Says(Subject(p))] = None
          THEN Fails
          ELSE /\ pc' = "evaluating" /\ judge' = panels
               /\ UNCHANGED <<disk, panel, cost, model, todo, at>>
    /\ UNCHANGED <<plans, late, crashes>>

Complete ==
    /\ In("evaluating") /\ judge = {} /\ at = None
    /\ pc' = "completed"
    /\ UNCHANGED <<disk, panel, cost, plans, model, todo, judge, at, late, crashes>>

----------------------------------------------------------------------------
Crash ==
    /\ pc \notin {"off", "over", "completed", "failed"} /\ crashes < MaxCrashes
    /\ crashes' = crashes + 1
    /\ pc' = "off" /\ model' = None /\ todo' = Nothing /\ judge' = {} /\ at' = None
    /\ UNCHANGED <<disk, panel, cost, plans, late>>

Deadline == ~late /\ late' = TRUE /\ UNCHANGED <<disk, panel, cost, plans, memory, crashes>>

Ended == pc \in {"over", "completed", "failed"} /\ UNCHANGED vars

Init ==
    /\ disk = [f \in Files |-> None]
    /\ panel = [p \in Panels |-> [state |-> "absent", model |-> None, says |-> None]]
    /\ cost = [n \in Milestones |-> None]
    /\ plans \in PlanChoices
    /\ pc = "off" /\ model = None /\ todo = Nothing /\ judge = {} /\ at = None
    /\ late = FALSE /\ crashes = 0

Next ==
    \/ Attempt \/ Write \/ Rollout \/ Discard \/ Validate \/ Select
    \/ \E p \in Panels : Begin(p)
    \/ Freeze \/ Summarize \/ TimesOut \/ FinalEvaluate \/ Complete
    \/ Crash \/ Deadline \/ Ended

Spec == Init /\ [][Next]_vars

----------------------------------------------------------------------------
\* Wherever a session was killed, the next one can go on, save for two places:
\* between the directory of a panel and its manifest, which freeze() will not
\* take up again, and between a milestone's model and its description, without
\* which a best model cannot be judged at the end.
Recovers ==
    pc = "failed" =>
        \/ \E p \in Panels : panel[p].state = "made"
        \/ disk[best] # None /\ disk[Says(best)] = None

\* What docs/reservation-experiments.md:262-263 says: "Validation writes
\* recoverable per-mode panels and `selection.json`".  A session that was killed
\* can always be resumed.
Resumable == pc # "failed"

\* A rollout that is replayed after a crash gives another model.  No two files
\* that anyone reads show different models of one episode, and what was judged
\* is what was committed.
OneModelPerEpisode ==
    LET read == {disk[f] : f \in {g \in Files : g[1] # "generation"}}
                \cup {panel[p].model : p \in Panels}
    IN \A m, k \in read \ {None} : m.n = k.n => m = k

\* No crash makes a session skip a milestone: once it has trained on, or ended,
\* every panel of the milestones behind it is complete.
MilestonesJudged ==
    \A n \in Milestones :
        \/ disk[current] # None /\ n < disk[current].n
        \/ pc = "completed"
        => \A p \in PanelsOf("validation", {n}) : panel[p].state = "done"

\* A completed run has judged, in every mode, a model of the least cost that its
\* milestones have shown, however often it was killed on the way; or the last
\* model if none was eligible.
FinalIsBest ==
    pc = "completed" /\ plans = {} =>
        \A p \in PanelsOf("evaluation", {Budget}) :
            IF Eligible = {} THEN panel[p].model.n = Budget
            ELSE \E n \in Eligible : /\ panel[p].model = disk[Pt("milestone", n)]
                                     /\ \A m \in Eligible : cost[n] <= cost[m]
=============================================================================
