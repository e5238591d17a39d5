----------------------- MODULE TrainingSessionProofs -----------------------
(***************************************************************************)
(* What a training run leaves behind, however often it is killed, for any  *)
(* budget, any milestones and any number of crashes.                       *)
(***************************************************************************)
EXTENDS TrainingSession, TLAPS

\* The committed model, and what a file holds once the pending writes are done.
C == disk[current]
Will(f) == IF f \in DOMAIN todo THEN todo[f] ELSE disk[f]
Committing == current \in DOMAIN todo

Running == {"validate", "validating", "train", "evaluating"}
Trained == {"train", "evaluating", "completed"}

Generation(n) == {Pt("generation", n), Json("generation", n)}
Copies(n) == {Pt("milestone", n), Json("milestone", n)}
Bests == {best, Says(best)}

Done(n) == \A p \in PanelsOf("validation", {n}) : panel[p].state = "done"
Finals == PanelsOf("evaluation", IF plans = {} THEN {Budget} ELSE plans)

\* The process has in hand what its phase calls for.
PhaseInv ==
    /\ pc \notin Running => DOMAIN todo = {}
    /\ pc \in Running \cup {"completed"} => model \in Models
    /\ at # None => /\ pc \in {"validating", "evaluating"} /\ at \in judge
                    /\ DOMAIN todo = {} /\ panel[at].state # "absent"
    /\ pc = "validating" => /\ model.n \in Milestones
                            /\ judge \subseteq PanelsOf("validation", {model.n})
    /\ pc = "evaluating" => DOMAIN todo = {} /\ judge \subseteq Finals
    /\ pc \in {"evaluating", "completed"} => model.n = Budget

\* What is pending: a commit or a publication, a copy, or a selection.
PendingInv ==
    /\ pc = "validate" =>
        /\ DOMAIN todo \subseteq Generation(model.n) \cup {current} \cup Published(model)
        /\ \A f \in DOMAIN todo : todo[f] = model
    /\ pc = "validating" =>
        /\ DOMAIN todo \subseteq Copies(model.n)
        /\ \A f \in DOMAIN todo : todo[f] = model
    /\ pc = "train" =>
        /\ DOMAIN todo # {} => model.n \in Milestones
        /\ DOMAIN todo \subseteq Bests \cup {Json("selection", 0)}
        /\ \A f \in DOMAIN todo : \E n \in Milestones : \E g \in Copies(n) : todo[f] = disk[g]

\* current.json names a whole generation, that of the process or the one before.
CommitInv ==
    /\ C # None => Whole(C)
    /\ Committing =>
        /\ pc = "validate"
        /\ IF C = None THEN model.n = 0 ELSE model.n = C.n + 1
        /\ \A f \in Generation(model.n) : Will(f) = model
    /\ pc \in Running \cup {"completed"} /\ ~Committing =>
        C = model /\ DOMAIN todo \cap Generation(model.n) = {}

\* What the committed model is published as.
PublishInv ==
    /\ pc \in Running \cup {"completed"} =>
        /\ Will(last) = model /\ Will(Says(last)) = model
        /\ model.n \in Periodic =>
            Will(Pt("periodic", model.n)) # None /\ Will(Json("periodic", model.n)) = model
    /\ C # None => \A n \in Periodic : n < C.n \/ (n = C.n /\ Committing) =>
            disk[Pt("periodic", n)] # None /\ disk[Json("periodic", n)] # None

Indexed == {"periodic", "milestone"}

\* Nothing that anyone reads is ahead of what is committed.
ReadInv ==
    /\ \A f \in Files : f[1] # "generation" /\ disk[f] # None => C # None /\ disk[f].n <= C.n
    /\ \A p \in Panels : panel[p].model # None => C # None /\ panel[p].model.n <= C.n
    /\ \A f \in Files : f[1] \in Indexed /\ disk[f] # None => disk[f].n = f[2]
    /\ \A name \in Indexed, n \in 0..Budget :
        /\ disk[Json(name, n)] # None => disk[Pt(name, n)] # None
        /\ Json(name, n) \in DOMAIN todo => Will(Pt(name, n)) # None
    /\ OneModelPerEpisode

\* What has been judged, and what is being judged.
JudgeInv ==
    /\ C # None => \A n \in Milestones :
        n < C.n \/ (n = C.n /\ (Committing \/ pc \in Trained)) => Done(n)
    /\ pc = "validating" =>
        /\ \A p \in PanelsOf("validation", {model.n}) : p \in judge \/ panel[p].state = "done"
        /\ Will(Pt("milestone", model.n)) # None
    /\ pc \in {"evaluating", "completed"} =>
        \A p \in Finals : (pc = "evaluating" /\ p \in judge) \/ panel[p].state = "done"

\* A panel of a milestone has judged its model, which is not written again.
PanelInv ==
    /\ \A n \in 0..Budget, mode \in Modes :
        LET p == <<"validation", n, mode>>
            copy == Pt("milestone", n)
        IN /\ panel[p].state # "absent" => disk[copy] # None
           /\ panel[p].state \in {"frozen", "done"} =>
                panel[p].model = disk[copy] /\ panel[p].says = disk[Says(copy)]
           /\ Says(copy) \in DOMAIN todo => panel[p].state = "absent"
           /\ copy \in DOMAIN todo => disk[copy] = None
           /\ panel[p].state = "done" /\ mode = Sample /\ n \in Milestones => cost[n] # None
    /\ \A p \in Panels : panel[p].state \in {"absent", "made"} => panel[p].model = None

Candidates(N) == {n \in Milestones : n <= N /\ (n = 0 => SelectInitial)}

Chosen(n, N) == n \in Candidates(N) /\ \A m \in Candidates(N) : Better(n, m)

\* The best model and its description copy the chosen milestone, or there is none.
Settled(N, pt, json) ==
    IF Candidates(N) = {} THEN disk[best] = None
    ELSE \E n \in Candidates(N) :
        Chosen(n, N) /\ pt = disk[Pt("milestone", n)] /\ json = disk[Json("milestone", n)]

SettledOnDisk(N) == Settled(N, disk[best], disk[Says(best)])

SelectInv ==
    /\ disk[best] # None \/ DOMAIN todo \cap Bests # {} => C # None /\ Candidates(C.n) # {}
    /\ pc \in Trained => Settled(model.n, Will(best), Will(Says(best)))
    /\ C # None /\ (C.n \notin Milestones \/ Committing) => SettledOnDisk(C.n)

\* The final evaluation has begun, now or in an earlier attempt.
Final == \E p \in Panels : p[1] = "evaluation" /\ panel[p].state # "absent"

Subjects == {"last", "best", "periodic", "milestone"}

\* From then on no subject of a panel changes.
FinalInv ==
    /\ Final =>
        /\ C # None /\ C.n = Budget /\ ~Committing
        /\ \A n \in Milestones : Done(n)
        /\ SettledOnDisk(Budget)
        /\ disk[last] = C /\ disk[Says(last)] = C
        /\ Budget \in Periodic => disk[Json("periodic", Budget)] = C
        /\ \A f \in DOMAIN todo : f[1] \in Subjects => todo[f] = disk[f]
    /\ \A p \in Panels :
        p[1] = "evaluation" /\ panel[p].state \in {"frozen", "done"} =>
            panel[p].model = disk[Subject(p)] /\ panel[p].says = disk[Says(Subject(p))]

SessionInv ==
    /\ TypeOK /\ PhaseInv /\ PendingInv /\ CommitInv /\ PublishInv /\ ReadInv
    /\ JudgeInv /\ PanelInv /\ SelectInv /\ FinalInv /\ Recovers

----------------------------------------------------------------------------
(* Files *)

LEMMA MilestoneType == \A n \in Milestones : n \in 0..Budget /\ n \in Int /\ n >= 0
  BY BudgetType

LEMMA Shape ==
    \A name, n :
        /\ Pt(name, n)[1] = name /\ Pt(name, n)[2] = n /\ Pt(name, n)[3] = "pt"
        /\ Json(name, n)[1] = name /\ Json(name, n)[2] = n /\ Json(name, n)[3] = "json"
        /\ Says(Pt(name, n)) = Json(name, n)
BY DEF Pt, Json, Says

LEMMA InFiles == \A name \in Names, n \in 0..Budget : Pt(name, n) \in Files /\ Json(name, n) \in Files
BY DEF Pt, Json, Files

LEMMA FileIs ==
    \A f \in Files :
        /\ f[1] \in Names /\ f[2] \in 0..Budget
        /\ f = Pt(f[1], f[2]) \/ f = Json(f[1], f[2])
BY DEF Pt, Json, Files

\* The files there is one of.
LEMMA Single ==
    /\ current = Json("current", 0) /\ last = Pt("last", 0) /\ best = Pt("best", 0)
    /\ {current, last, Says(last), best, Says(best), Json("episodes", 0), Json("selection", 0)}
        \subseteq Files
    /\ Says(last) = Json("last", 0) /\ Says(best) = Json("best", 0)
<1>1. 0 \in 0..Budget
  BY BudgetType
<1>2. /\ current = Json("current", 0) /\ last = Pt("last", 0) /\ best = Pt("best", 0)
      /\ Says(last) = Json("last", 0) /\ Says(best) = Json("best", 0)
  BY Shape DEF current, last, best
<1> QED
  BY <1>1, <1>2, InFiles DEF Names

LEMMA ModelOf == \A m \in Models : m # None /\ m.n \in 0..Budget /\ m.try \in 0..MaxCrashes
BY NoneType DEF Models

\* A commit comes before anything that is published of it, and a model before
\* its description.
LEMMA RankOrder ==
    /\ \A f \in Files : f[1] \notin {"generation", "current"} => Rank(current) < Rank(f)
    /\ \A f \in Files : f[1] = "generation" => Rank(f) < Rank(current)
    /\ \A name \in Names, n \in 0..Budget : Rank(Pt(name, n)) < Rank(Json(name, n))
<1>1. ASSUME NEW f \in Files, f[1] \notin {"generation", "current"} PROVE Rank(current) < Rank(f)
  BY <1>1, FileIs, Shape DEF Rank, Order, current, Names
<1>2. ASSUME NEW f \in Files, f[1] = "generation" PROVE Rank(f) < Rank(current)
  BY <1>2, FileIs, Shape DEF Rank, Order, current, Names
<1>3. ASSUME NEW name \in Names, NEW n \in 0..Budget
      PROVE  Rank(Pt(name, n)) < Rank(Json(name, n))
  BY Shape DEF Rank, Order, Names
<1>4. QED
  BY <1>1, <1>2, <1>3

\* What Write does: one file holds what it will hold.
LEMMA WriteEffect ==
    ASSUME TypeOK, Write
    PROVE  \E f \in DOMAIN todo :
            /\ f \in Files /\ todo[f] \in Models \cup {None}
            /\ disk' = [disk EXCEPT ![f] = todo[f]]
            /\ DOMAIN todo' = DOMAIN todo \ {f}
            /\ \A g \in DOMAIN todo' : todo'[g] = todo[g]
            /\ \A g \in Files : Will(g)' = Will(g)
            /\ Committing => f[1] \in {"generation", "current"}
            /\ f = current => \A g \in DOMAIN todo : g[1] # "generation"
            /\ \A name \in Names, n \in 0..Budget :
                f = Json(name, n) => Pt(name, n) \notin DOMAIN todo
<1>1. PICK f \in DOMAIN todo :
        /\ \A g \in DOMAIN todo : Rank(f) <= Rank(g)
        /\ disk' = [disk EXCEPT ![f] = todo[f]]
        /\ todo' = [g \in DOMAIN todo \ {f} |-> todo[g]]
  BY DEF Write
<1>2. f \in Files /\ todo[f] \in Models \cup {None} /\ \A g \in DOMAIN todo : g \in Files
  BY DEF TypeOK
<1>3. \A g \in Files : Rank(g) \in Int
  BY FileIs DEF Rank, Order, Names
<1>4. DOMAIN todo' = DOMAIN todo \ {f} /\ \A g \in DOMAIN todo' : todo'[g] = todo[g]
  BY <1>1
<1>5. ASSUME NEW g \in Files PROVE Will(g)' = Will(g)
  BY <1>1, <1>4 DEF Will, TypeOK
<1>6. Committing => f[1] \in {"generation", "current"}
  BY <1>1, <1>2, <1>3, RankOrder DEF Committing
<1>7. f = current => \A g \in DOMAIN todo : g[1] # "generation"
  BY <1>1, <1>2, <1>3, RankOrder
<1>8. ASSUME NEW name \in Names, NEW n \in 0..Budget, f = Json(name, n)
      PROVE  Pt(name, n) \notin DOMAIN todo
  BY <1>1, <1>2, <1>3, <1>8, RankOrder, InFiles
<1>9. QED
  BY <1>1, <1>2, <1>4, <1>5, <1>6, <1>7, <1>8

----------------------------------------------------------------------------
(* Steps that leave the files alone *)

\* The attempt ends: what holds of the files holds whatever comes next.
LEMMA Halts ==
    ASSUME SessionInv, TypeOK', Recovers', UNCHANGED <<disk, panel, cost, plans>>,
           pc' \in {"off", "over", "failed"}, DOMAIN todo' = {}, at' = None
    PROVE  SessionInv'
<1> USE DEF SessionInv
<1>1. PhaseInv'
  BY DEF PhaseInv, Running
<1>2. PendingInv'
  BY DEF PendingInv
<1>3. CommitInv'
  BY DEF CommitInv, C, Committing, Whole, Running
<1>4. PublishInv'
  BY DEF PublishInv, C, Committing, Running
<1>5. ReadInv'
  BY DEF ReadInv, C, OneModelPerEpisode
<1>6. JudgeInv'
  BY DEF JudgeInv, C, Done, Committing, Trained
<1>7. PanelInv'
  BY DEF PanelInv
<1>8. SelectInv'
  BY DEF SelectInv, C, Committing, Trained, SettledOnDisk, Settled, Chosen, Candidates, Better
<1>9. FinalInv'
  BY DEF FinalInv, Final, C, Committing, SettledOnDisk, Settled, Chosen, Candidates, Better,
         Done, Subject
<1>10. QED
  BY <1>1, <1>2, <1>3, <1>4, <1>5, <1>6, <1>7, <1>8, <1>9

----------------------------------------------------------------------------
(* Types *)

\* What is published of a model are files, none of a generation.
LEMMA PublishedFiles ==
    ASSUME TypeOK, NEW m \in Models
    PROVE  /\ Published(m) \subseteq Files /\ Generation(m.n) \subseteq Files /\ current \in Files
           /\ \A f \in Published(m) : f[1] \in {"last", "episodes", "periodic"}
           /\ \A f \in Generation(m.n) : f[1] = "generation"
<1>1. m.n \in 0..Budget
  BY ModelOf
<1>2. /\ Json("periodic", m.n) \in Files /\ Pt("periodic", m.n) \in Files
      /\ Json("generation", m.n) \in Files /\ Pt("generation", m.n) \in Files
  BY <1>1, InFiles DEF Names
<1>3. KeptPeriodic(m) \subseteq {Json("periodic", m.n), Pt("periodic", m.n)}
  BY DEF KeptPeriodic
<1>4. QED
  BY <1>2, <1>3, Single, Shape DEF Published, Generation

LEMMA CommitTodo ==
    ASSUME TypeOK, NEW m \in Models
    PROVE  /\ DOMAIN Commit(m) = Generation(m.n) \cup {current} \cup Published(m)
           /\ Commit(m) = [f \in DOMAIN Commit(m) |-> Commit(m)[f]]
           /\ \A f \in DOMAIN Commit(m) : f \in Files /\ Commit(m)[f] = m
BY PublishedFiles DEF Commit, Generation

LEMMA RepublishTodo ==
    ASSUME TypeOK, NEW m \in Models
    PROVE  /\ DOMAIN Republish(m) = Published(m)
           /\ Republish(m) = [f \in DOMAIN Republish(m) |-> Republish(m)[f]]
           /\ \A f \in DOMAIN Republish(m) : f \in Files /\ Republish(m)[f] = m
BY PublishedFiles DEF Republish

\* The subject of a panel is a file, and so is its description.
LEMMA SubjectFile ==
    ASSUME TypeOK, NEW p \in Panels
    PROVE  /\ Subject(p) \in Files /\ Says(Subject(p)) \in Files
           /\ Subject(p)[1] \in Subjects /\ Says(Subject(p))[1] \in Subjects
<1>1. p[2] \in 0..Budget
  BY DEF Panels
<1>2. Pt("milestone", p[2]) \in Files /\ Pt("periodic", p[2]) \in Files
      /\ Json("milestone", p[2]) \in Files /\ Json("periodic", p[2]) \in Files
  BY <1>1, InFiles DEF Names
<1>3. QED
  BY <1>2, Single, Shape DEF Subject, Subjects

LEMMA PanelsOfType ==
    /\ \A n \in 0..Budget : PanelsOf("validation", {n}) \subseteq Panels
    /\ TypeOK => Finals \subseteq Panels
BY BudgetType, ChoicesType, PeriodicType DEF PanelsOf, Panels, Finals, TypeOK

LEMMA TypeWrite == ASSUME TypeOK, Write PROVE TypeOK'
<1>1. PICK f \in DOMAIN todo :
        /\ f \in Files /\ todo[f] \in Models \cup {None}
        /\ disk' = [disk EXCEPT ![f] = todo[f]]
        /\ DOMAIN todo' = DOMAIN todo \ {f}
        /\ \A g \in DOMAIN todo' : todo'[g] = todo[g]
  BY WriteEffect
<1>2. todo' = [g \in DOMAIN todo' |-> todo'[g]]
  BY DEF Write
<1>3. QED
  BY <1>1, <1>2 DEF TypeOK, Write, Phases

LEMMA TypeAttempt == ASSUME TypeOK, PhaseInv, Attempt PROVE TypeOK'
<1>1. disk[current] \in Models \cup {None}
  BY Single DEF TypeOK
<1>2. [n |-> 0, try |-> crashes] \in Models
  BY BudgetType DEF Models, TypeOK
<1>3. CASE pc' = "failed" /\ UNCHANGED <<disk, panel, cost, model, todo, judge, at>>
  BY <1>3 DEF TypeOK, Attempt, Phases
<1>4. ASSUME NEW m \in Models, model' = m, pc' \in {"validate", AfterLoad},
             todo' \in {Commit(m), Republish(m)}, UNCHANGED <<disk, panel, cost, judge, at>>
      PROVE  TypeOK'
  <2>1. /\ todo' = [f \in DOMAIN todo' |-> todo'[f]] /\ DOMAIN todo' \subseteq Files
        /\ \A f \in DOMAIN todo' : todo'[f] \in Models
    BY <1>4, CommitTodo, RepublishTodo
  <2>2. QED
    BY <1>4, <2>1 DEF TypeOK, Attempt, Phases, AfterLoad
<1>5. QED
  BY <1>1, <1>2, <1>3, <1>4 DEF Attempt, GoTo, Fails

LEMMA TypeRollout == ASSUME TypeOK, PhaseInv, Rollout PROVE TypeOK'
<1>1. model \in Models
  BY DEF Rollout, In, PhaseInv, Running
<1>2. [n |-> model.n + 1, try |-> crashes] \in Models
  BY <1>1, BudgetType, ModelOf DEF Models, TypeOK, Rollout
<1>3. QED
  BY <1>2, CommitTodo DEF Rollout, GoTo, TypeOK, Phases

\* The milestone's copy of the last model.
LEMMA CopyTodo ==
    ASSUME TypeOK, NEW from \in Files, Says(from) \in Files, NEW name \in Names, NEW n \in 0..Budget
    PROVE  LET to == Pt(name, n)
               todo1 == Copy(from, to)
           IN /\ DOMAIN todo1 = {to, Json(name, n)} /\ DOMAIN todo1 \subseteq Files
              /\ todo1[to] = disk[from] /\ todo1[Json(name, n)] = disk[Says(from)]
              /\ todo1 = [f \in DOMAIN todo1 |-> todo1[f]]
              /\ \A f \in DOMAIN todo1 : todo1[f] \in Models \cup {None}
<1>1. /\ Pt(name, n) # Json(name, n) /\ Says(Pt(name, n)) = Json(name, n)
      /\ Pt(name, n) \in Files /\ Json(name, n) \in Files
  BY Shape, InFiles
<1>2. disk[from] \in Models \cup {None} /\ disk[Says(from)] \in Models \cup {None}
  BY DEF TypeOK
<1>3. QED
  BY <1>1, <1>2 DEF Copy

LEMMA ChooseTodo ==
    ASSUME TypeOK, NEW chosen \in Files, Says(chosen) \in Files
    PROVE  LET todo1 == Choose(chosen)
           IN /\ DOMAIN todo1 = Bests \cup {Json("selection", 0)} /\ DOMAIN todo1 \subseteq Files
              /\ todo1[best] = disk[chosen] /\ todo1[Says(best)] = disk[Says(chosen)]
              /\ \A f \in DOMAIN todo1 : todo1[f] \in {disk[chosen], disk[Says(chosen)]}
              /\ todo1 = [f \in DOMAIN todo1 |-> todo1[f]]
              /\ \A f \in DOMAIN todo1 : todo1[f] \in Models \cup {None}
<1>1. best # Says(best)
  BY Single, Shape
<1>2. disk[chosen] \in Models \cup {None} /\ disk[Says(chosen)] \in Models \cup {None}
  BY DEF TypeOK
<1>3. QED
  BY <1>1, <1>2, Single DEF Choose, Bests

LEMMA MilestoneFiles ==
    \A n \in Milestones :
        /\ n \in 0..Budget /\ Pt("milestone", n) \in Files /\ Json("milestone", n) \in Files
        /\ Says(Pt("milestone", n)) = Json("milestone", n)
BY BudgetType, InFiles, Shape DEF Names

LEMMA TypeValidate == ASSUME TypeOK, PhaseInv, Validate PROVE TypeOK'
<1>1. model \in Models /\ model.n \in 0..Budget
  BY ModelOf DEF Validate, In, PhaseInv, Running
<1>2. last \in Files /\ Says(last) \in Files
  BY Single
<1>3. \A f \in DOMAIN Nothing : Nothing[f] \in Models \cup {None}
  BY DEF Nothing
<1>4. Nothing = [f \in DOMAIN Nothing |-> Nothing[f]] /\ DOMAIN Nothing = {}
  BY DEF Nothing
<1>5. CASE pc' = "failed" /\ UNCHANGED <<disk, panel, cost, model, todo, judge, at>>
  BY <1>5 DEF TypeOK, Validate, Phases
<1>6. CASE pc' = "train" /\ UNCHANGED <<disk, panel, cost, model, todo, judge, at>>
  BY <1>6 DEF TypeOK, Validate, Phases
<1>7. CASE /\ pc' = "validating" /\ UNCHANGED <<disk, panel, cost, model, at>>
           /\ todo' \in {Copy(last, Pt("milestone", model.n)), Nothing}
           /\ judge' = PanelsOf("validation", {model.n})
  <2>1. todo' = [f \in DOMAIN todo' |-> todo'[f]] /\ DOMAIN todo' \subseteq Files
        /\ \A f \in DOMAIN todo' : todo'[f] \in Models \cup {None}
    <3>1. CASE todo' = Nothing
      BY <1>3, <1>4, <3>1
    <3>2. CASE todo' = Copy(last, Pt("milestone", model.n))
      <4>1. "milestone" \in Names
        BY DEF Names
      <4>2. QED
        BY <1>1, <1>2, <3>2, <4>1, CopyTodo
    <3>3. QED
      BY <1>7, <3>1, <3>2
  <2>2. judge' \subseteq Panels
    BY <1>1, <1>7, PanelsOfType
  <2>3. QED
    BY <1>7, <2>1, <2>2 DEF TypeOK, Validate, Phases
<1>8. QED
  BY <1>5, <1>6, <1>7 DEF Validate, GoTo, Fails

LEMMA TypeSelect == ASSUME TypeOK, Select PROVE TypeOK'
<1>1. CASE pc' = "failed" /\ UNCHANGED <<disk, panel, cost, model, todo, judge, at>>
  BY <1>1 DEF TypeOK, Select, Phases
<1>2. CASE GoTo("train", Nothing) /\ UNCHANGED <<disk, panel, cost, model, judge, at>>
  BY <1>2 DEF TypeOK, Select, Phases, GoTo, Nothing
<1>3. ASSUME NEW n \in Milestones, GoTo("train", Choose(Pt("milestone", n))),
             UNCHANGED <<disk, panel, cost, model, judge, at>>
      PROVE  TypeOK'
  BY <1>3, ChooseTodo, MilestoneFiles DEF TypeOK, Select, Phases, GoTo
<1>4. QED
  BY <1>1, <1>2, <1>3 DEF Select, Fails, Eligible

LEMMA TypeBegin == ASSUME TypeOK, NEW p \in Panels, Begin(p) PROVE TypeOK'
<1>1. CASE pc' = "failed" /\ UNCHANGED <<disk, panel, cost, model, todo, judge, at>>
  BY <1>1 DEF TypeOK, Begin, Phases
<1>2. CASE /\ panel' \in {panel, [panel EXCEPT ![p].state = "made"]} /\ at' = p
           /\ UNCHANGED <<disk, cost, pc, model, todo, judge>>
  BY <1>2 DEF TypeOK, Begin, Phases
<1>3. QED
  BY <1>1, <1>2 DEF Begin, Fails

LEMMA TypeFreeze == ASSUME TypeOK, Freeze PROVE TypeOK'
<1>1. at \in Panels
  BY DEF TypeOK, Freeze
<1>2. disk[Subject(at)] \in Models \cup {None} /\ disk[Says(Subject(at))] \in Models \cup {None}
  BY <1>1, SubjectFile DEF TypeOK
<1>3. QED
  BY <1>1, <1>2 DEF TypeOK, Freeze, memory

LEMMA TypeSummarize == ASSUME TypeOK, Summarize PROVE TypeOK'
<1>1. at \in Panels
  BY DEF TypeOK, Summarize
<1>2. panel' \in [Panels -> [state : {"absent", "made", "frozen", "done"},
                             model : Models \cup {None}, says : Models \cup {None}]]
  BY <1>1 DEF TypeOK, Summarize
<1>3. cost' \in [Milestones -> Costs \cup {None}]
  BY DEF TypeOK, Summarize
<1>4. judge' \subseteq Panels /\ at' \in Panels \cup {None}
  BY DEF TypeOK, Summarize
<1>5. QED
  BY <1>2, <1>3, <1>4 DEF TypeOK, Summarize

LEMMA TypeRest ==
    ASSUME TypeOK, Discard \/ TimesOut \/ FinalEvaluate \/ Complete \/ Crash \/ Deadline
    PROVE  TypeOK'
<1>1. CASE Discard
  BY <1>1 DEF TypeOK, Discard, GoTo, Nothing, Phases
<1>2. CASE TimesOut
  BY <1>2 DEF TypeOK, TimesOut, Phases
<1>3. CASE FinalEvaluate
  <2>1. Finals \subseteq Panels
    BY PanelsOfType
  <2>2. QED
    BY <1>3, <2>1 DEF TypeOK, FinalEvaluate, Fails, Phases, Finals
<1>4. CASE Complete
  BY <1>4 DEF TypeOK, Complete, Phases
<1>5. CASE Crash
  BY <1>5, BoundsType DEF TypeOK, Crash, Nothing, Phases
<1>6. CASE Deadline
  BY <1>6 DEF TypeOK, Deadline, memory
<1>7. QED
  BY <1>1, <1>2, <1>3, <1>4, <1>5, <1>6

----------------------------------------------------------------------------
(* The first attempt, a resumed one, and a rollout *)

LEMMA Starts ==
    ASSUME SessionInv, TypeOK', DOMAIN todo = {}, NEW m \in Models,
           model' = m, pc' = "validate", at' = None, UNCHANGED <<disk, panel, cost, plans>>,
           \A f \in DOMAIN todo' : todo'[f] = m,
           \/ /\ DOMAIN todo' = Generation(m.n) \cup {current} \cup Published(m)
              /\ IF C = None THEN m.n = 0
                 ELSE /\ m.n = C.n + 1 /\ SettledOnDisk(C.n)
                      /\ C.n \in Milestones => Done(C.n)
                      /\ C.n \in Periodic => /\ disk[Pt("periodic", C.n)] # None
                                             /\ disk[Json("periodic", C.n)] # None
           \/ DOMAIN todo' = Published(m) /\ C = m
    PROVE  SessionInv'
<1> USE DEF SessionInv
<1>1. /\ m # None /\ m.n \in 0..Budget
      /\ Published(m) \subseteq Files /\ Generation(m.n) \subseteq Files /\ current \in Files
      /\ \A f \in Published(m) : f[1] \in {"last", "episodes", "periodic"}
      /\ \A f \in Generation(m.n) : f[1] = "generation"
  BY PublishedFiles, ModelOf
<1>2. C \in Models \cup {None}
  BY <1>1 DEF TypeOK, C
<1>3. C' = C /\ Generation(m.n)' = Generation(m.n) /\ Published(m)' = Published(m)
  BY DEF C, Generation, Published, KeptPeriodic
<1>4. Committing' => DOMAIN todo' = Generation(m.n) \cup {current} \cup Published(m) /\ C # m
  <2>1. current \notin Published(m)
    BY <1>1, Single, Shape
  <2>2. C = None \/ m.n = C.n + 1 => C # m
    BY <1>1, <1>2, ModelOf
  <2>3. QED
    BY <2>1, <2>2 DEF Committing
<1>5. ~Committing' => C = m /\ DOMAIN todo' = Published(m)
  BY DEF Committing
<1>6. Published(m) \subseteq DOMAIN todo'
  OBVIOUS
<1>7. PhaseInv'
  BY DEF PhaseInv, Running
<1>8. PendingInv'
  BY <1>3, <1>4, <1>5 DEF PendingInv
<1>9. CommitInv'
  <2>1. C # None => Whole(C)'
    BY DEF CommitInv, Whole, C
  <2>2. Committing' => \A f \in Generation(m.n) : Will(f)' = m
    BY <1>4 DEF Will
  <2>3. ~Committing' => DOMAIN todo' \cap Generation(m.n) = {}
    BY <1>1, <1>5
  <2>4. QED
    BY <1>3, <1>4, <1>5, <2>1, <2>2, <2>3 DEF CommitInv, Whole, C
<1>10. PublishInv'
  <2>1. Will(last)' = m /\ Will(Says(last))' = m
    BY <1>6 DEF Will, Published
  <2>2. m.n \in Periodic =>
          Will(Pt("periodic", m.n))' # None /\ Will(Json("periodic", m.n))' = m
    BY <1>1, <1>6 DEF Will, Published, KeptPeriodic
  <2>3. ASSUME C # None, NEW n \in Periodic, n < C.n \/ (n = C.n /\ Committing')
        PROVE  disk[Pt("periodic", n)] # None /\ disk[Json("periodic", n)] # None
    BY <1>4, <2>3 DEF PublishInv
  <2>4. QED
    BY <1>3, <2>1, <2>2, <2>3 DEF PublishInv
<1>11. ReadInv'
  <2>1. ASSUME NEW name \in Indexed, NEW n \in 0..Budget, Json(name, n) \in DOMAIN todo'
        PROVE  Will(Pt(name, n))' # None
    <3>1. name = "periodic" /\ Json(name, n) \in Published(m)
      BY <1>1, <2>1, Single, Shape DEF Indexed
    <3>2. n = m.n /\ m.n \in Periodic
      BY <3>1, Single, Shape DEF Published, KeptPeriodic
    <3>3. QED
      BY <1>1, <1>6, <3>1, <3>2 DEF Will, Published, KeptPeriodic
  <2>2. QED
    BY <1>3, <2>1 DEF ReadInv, OneModelPerEpisode
<1>12. JudgeInv'
  <2>1. ASSUME C # None, NEW n \in Milestones, n < C.n \/ (n = C.n /\ Committing')
        PROVE  Done(n)
    BY <1>4, <2>1 DEF JudgeInv
  <2>2. QED
    BY <1>3, <2>1 DEF JudgeInv, Done, Trained
<1>13. PanelInv'
  <2>1. ASSUME NEW n \in 0..Budget
        PROVE  Pt("milestone", n) \notin DOMAIN todo' /\ Json("milestone", n) \notin DOMAIN todo'
    BY <1>1, Single, Shape
  <2>2. QED
    BY <2>1, Shape DEF PanelInv
<1>14. SelectInv'
  <2>1. DOMAIN todo' \cap Bests = {}
    BY <1>1, Single, Shape DEF Bests
  <2>2. SettledOnDisk(C.n) => SettledOnDisk(C.n)'
    BY <1>3 DEF SettledOnDisk, Settled, Chosen, Candidates, Better
  <2>3. C # None /\ (C.n \notin Milestones \/ Committing') => SettledOnDisk(C.n)
    BY <1>4 DEF SelectInv
  <2>4. QED
    BY <1>3, <2>1, <2>2, <2>3 DEF SelectInv, Trained, Candidates
<1>15. FinalInv'
  <2>1. Final' => Final
    BY DEF Final
  <2>2. ASSUME Final PROVE ~Committing' /\ C = m
    BY <1>1, <1>4, <1>5, <2>2, BudgetType DEF FinalInv
  <2>3. ASSUME Final, NEW f \in DOMAIN todo', f[1] \in Subjects PROVE todo'[f] = disk[f]
    <3>1. f \in Published(m) /\ C = m /\ todo'[f] = m
      BY <1>5, <2>2, <2>3
    <3>2. f = Pt("periodic", m.n) /\ m.n \in Periodic => disk[f] # None
      BY <1>1, <2>2, <2>3, Shape DEF FinalInv, ReadInv, Indexed
    <3>3. QED
      BY <2>2, <2>3, <3>1, <3>2, Shape, Single
      DEF FinalInv, Published, KeptPeriodic, Subjects
  <2>4. SettledOnDisk(Budget) => SettledOnDisk(Budget)'
    BY DEF SettledOnDisk, Settled, Chosen, Candidates, Better
  <2>5. \A p \in Panels : Subject(p)' = Subject(p)
    BY DEF Subject
  <2>6. QED
    BY <1>3, <2>1, <2>2, <2>3, <2>4, <2>5 DEF FinalInv, Done
<1>16. Recovers'
  BY DEF Recovers
<1>17. QED
  BY <1>7, <1>8, <1>9, <1>10, <1>11, <1>12, <1>13, <1>14, <1>15, <1>16

LEMMA StepAttempt == ASSUME SessionInv, Attempt PROVE SessionInv'
<1> USE DEF SessionInv
<1>1. TypeOK' /\ DOMAIN todo = {} /\ at = None /\ pc = "off"
  BY TypeAttempt DEF Attempt, PhaseInv, Running
<1>2. C \in Models \cup {None}
  BY Single DEF TypeOK, C
<1>3. UNCHANGED <<disk, panel, cost, plans>>
  BY DEF Attempt, Fails
<1>4. CASE C = None
  <2>1. ~(disk[last] # None \/ disk[Json("episodes", 0)] # None)
    BY <1>4, Single, Shape DEF ReadInv
  <2>2. model' = [n |-> 0, try |-> crashes] /\ GoTo("validate", Commit(model')) /\ at' = at
    BY <1>4, <2>1 DEF Attempt, C, Fails, GoTo
  <2>3. model' \in Models /\ model'.n = 0
    BY <2>2, BudgetType DEF Models, TypeOK
  <2>4. /\ pc' = "validate" /\ at' = None /\ \A f \in DOMAIN todo' : todo'[f] = model'
        /\ DOMAIN todo' = Generation(model'.n) \cup {current} \cup Published(model')
    BY <1>1, <2>2, <2>3, CommitTodo DEF GoTo
  <2> DEFINE m == model'
  <2>5. model' = m /\ m \in Models
    BY <2>3
  <2> HIDE DEF m
  <2>6. QED
    BY <1>1, <1>3, <1>4, <2>3, <2>4, <2>5, Starts
<1>5. CASE C # None
  <2>1. Whole(C)
    BY <1>5 DEF CommitInv
  <2>2. model' = C /\ GoTo("validate", Republish(C)) /\ at' = at
    BY <1>5, <2>1 DEF Attempt, C, Fails, GoTo, AfterLoad
  <2>3. QED
    BY <1>1, <1>2, <1>3, <1>5, <2>2, RepublishTodo, Starts DEF GoTo
<1>6. QED
  BY <1>4, <1>5

LEMMA StepRollout == ASSUME SessionInv, Rollout PROVE SessionInv'
<1> USE DEF SessionInv
<1>1. TypeOK' /\ DOMAIN todo = {} /\ at = None /\ pc = "train" /\ model \in Models
  BY TypeRollout DEF Rollout, In, PhaseInv, Running
<1>2. UNCHANGED <<disk, panel, cost, plans>> /\ at' = at
  BY DEF Rollout
<1>3. C = model /\ ~Committing
  BY <1>1 DEF CommitInv, Committing, Running
<1>4. /\ model' = [n |-> C.n + 1, try |-> crashes]
      /\ pc' = "validate" /\ todo' = Commit(model')
  BY <1>3 DEF Rollout, GoTo
<1>5. model' \in Models /\ model'.n = C.n + 1
  BY <1>1, <1>3, <1>4, BudgetType, ModelOf DEF Models, TypeOK, Rollout
<1>6. SettledOnDisk(C.n)
  BY <1>1, <1>3 DEF SelectInv, Trained, SettledOnDisk, Will
<1>7. C.n \in Milestones => Done(C.n)
  BY <1>1, <1>3, ModelOf DEF JudgeInv, Trained
<1>8. C.n \in Periodic =>
        disk[Pt("periodic", C.n)] # None /\ disk[Json("periodic", C.n)] # None
  BY <1>1, <1>3, ModelOf DEF PublishInv, Running, Will
<1>9. C # None
  BY <1>1, <1>3, ModelOf
<1>10. /\ \A f \in DOMAIN todo' : todo'[f] = model'
       /\ DOMAIN todo' = Generation(model'.n) \cup {current} \cup Published(model')
  BY <1>4, <1>5, CommitTodo
<1> DEFINE m == model'
<1>11. model' = m /\ m \in Models
  BY <1>5
<1> HIDE DEF m
<1>12. QED
  BY <1>1, <1>2, <1>4, <1>5, <1>6, <1>7, <1>8, <1>9, <1>10, <1>11, Starts

----------------------------------------------------------------------------
(* From phase to phase *)

\* A process that has written everything goes on with the same model.
LEMMA Proceeds ==
    ASSUME SessionInv, TypeOK', DOMAIN todo = {}, pc \in Running,
           pc' \in (Running \ {"validate"}) \cup {"completed"},
           UNCHANGED <<disk, panel, cost, plans, model>>,
           \A f \in DOMAIN todo' : f[1] \in {"milestone", "best", "selection"},
           DOMAIN todo' # {} => pc' \in {"validating", "train"}
    PROVE  /\ C = model /\ C' = C /\ model \in Models /\ ~Committing /\ ~Committing'
           /\ CommitInv' /\ PublishInv' /\ Recovers'
<1> USE DEF SessionInv
<1>1. C = model /\ C' = C /\ model \in Models /\ ~Committing
  BY DEF CommitInv, PhaseInv, Committing, C
<1>2. ~Committing'
  BY Single, Shape DEF Committing
<1>3. model # None /\ model.n \in 0..Budget
  BY <1>1, ModelOf
<1>4. CommitInv'
  <2>1. DOMAIN todo' \cap Generation(model.n) = {}
    BY Shape DEF Generation
  <2>2. QED
    BY <1>1, <1>2, <1>3, <2>1 DEF CommitInv, Whole, C, Generation, Running
<1>5. PublishInv'
  <2>1. /\ last \notin DOMAIN todo' /\ Says(last) \notin DOMAIN todo'
        /\ \A n \in 0..Budget : /\ Pt("periodic", n) \notin DOMAIN todo'
                                /\ Json("periodic", n) \notin DOMAIN todo'
    BY Single, Shape
  <2>2. QED
    BY <1>1, <1>2, <1>3, <2>1 DEF PublishInv, Will, C
<1>6. Recovers'
  BY DEF Recovers, Running
<1>7. QED
  BY <1>1, <1>2, <1>4, <1>5, <1>6

\* A step of the process that leaves the files and what is pending alone keeps
\* what is known of them.
LEMMA KeepsFiles ==
    ASSUME SessionInv, UNCHANGED <<disk, panel, cost, plans>>,
           \A f \in DOMAIN todo' : f[1] \notin Indexed
    PROVE  /\ ReadInv' /\ PanelInv'
           /\ \A N : SettledOnDisk(N)' <=> SettledOnDisk(N)
           /\ \A n : Done(n)' <=> Done(n)
           /\ (/\ Final => ~Committing'
               /\ Final => \A f \in DOMAIN todo' : f[1] \in Subjects => todo'[f] = disk[f])
                => FinalInv'
<1> USE DEF SessionInv
<1>1. ReadInv'
  BY Shape DEF ReadInv, C, OneModelPerEpisode
<1>2. PanelInv'
  BY Shape DEF PanelInv, Indexed
<1>3. /\ \A N : SettledOnDisk(N)' <=> SettledOnDisk(N)
      /\ \A n : Done(n)' <=> Done(n)
  BY DEF SettledOnDisk, Settled, Chosen, Candidates, Better, Done
<1>4. ASSUME Final => ~Committing',
             Final => \A f \in DOMAIN todo' : f[1] \in Subjects => todo'[f] = disk[f]
      PROVE  FinalInv'
  <2>1. Final' <=> Final
    BY DEF Final
  <2>2. \A p \in Panels : Subject(p)' = Subject(p)
    BY DEF Subject
  <2>3. \A p \in Panels :
          p[1] = "evaluation" /\ panel'[p].state \in {"frozen", "done"} =>
            /\ panel'[p].model = disk'[Subject(p)']
            /\ panel'[p].says = disk'[Says(Subject(p)')]
    BY <2>2 DEF FinalInv
  <2>4. Final' =>
        /\ C' # None /\ C'.n = Budget /\ ~Committing'
        /\ \A n \in Milestones : Done(n)'
        /\ SettledOnDisk(Budget)'
        /\ disk'[last] = C' /\ disk'[Says(last)] = C'
        /\ Budget \in Periodic => disk'[Json("periodic", Budget)] = C'
        /\ \A f \in DOMAIN todo' : f[1] \in Subjects => todo'[f] = disk'[f]
    BY <1>3, <1>4, <2>1 DEF FinalInv, C
  <2>5. QED
    BY <2>3, <2>4 DEF FinalInv
<1>5. QED
  BY <1>1, <1>2, <1>3, <1>4

LEMMA StepSkip ==
    ASSUME SessionInv, TypeOK', In("validate"), model.n \notin Milestones, pc' = "train",
           UNCHANGED <<disk, panel, cost, plans, model, todo, judge, at>>
    PROVE  SessionInv'
<1> USE DEF SessionInv
<1>1. DOMAIN todo = {} /\ DOMAIN todo' = {} /\ pc = "validate"
  BY DEF In
<1>2. /\ C = model /\ C' = C /\ model \in Models /\ ~Committing /\ ~Committing'
      /\ CommitInv' /\ PublishInv' /\ Recovers'
  BY <1>1, Proceeds DEF Running
<1>3. /\ ReadInv' /\ PanelInv' /\ FinalInv'
      /\ \A N : SettledOnDisk(N)' <=> SettledOnDisk(N)
      /\ \A n : Done(n)' <=> Done(n)
  BY <1>1, <1>2, KeepsFiles
<1>4. PhaseInv' /\ PendingInv'
  BY <1>1, <1>2 DEF PhaseInv, PendingInv, Running
<1>5. JudgeInv'
  BY <1>1, <1>2, <1>3 DEF JudgeInv, Trained
<1>6. SelectInv'
  <2>1. Settled(model.n, Will(best), Will(Says(best)))'
    BY <1>1, <1>2, <1>3, ModelOf DEF SelectInv, SettledOnDisk, Will, Settled, Candidates, Chosen, Better
  <2>2. QED
    BY <1>1, <1>2, <1>3, <2>1 DEF SelectInv, Candidates
<1>7. QED
  BY <1>2, <1>3, <1>4, <1>5, <1>6

\* A milestone is reached, and its model copied unless it has been.
LEMMA StepCopy ==
    ASSUME SessionInv, TypeOK', In("validate"), model.n \in Milestones, pc' = "validating",
           UNCHANGED <<disk, panel, cost, plans, model, at>>,
           judge' = PanelsOf("validation", {model.n}),
           todo' = IF disk[Pt("milestone", model.n)] = None
                   THEN Copy(last, Pt("milestone", model.n)) ELSE Nothing
    PROVE  SessionInv'
<1> USE DEF SessionInv
<1> DEFINE copy == Pt("milestone", model.n)
<1>1. DOMAIN todo = {} /\ pc = "validate" /\ model \in Models /\ model # None
      /\ model.n \in 0..Budget
  BY ModelOf DEF In, PhaseInv, Running
<1>2. disk[last] = model /\ disk[Says(last)] = model
  BY <1>1 DEF PublishInv, Running, Will
<1>3. /\ copy \in Files /\ Says(copy) = Json("milestone", model.n)
      /\ copy[1] = "milestone" /\ Says(copy)[1] = "milestone"
  BY <1>1, Shape, InFiles DEF Names
<1>4. /\ DOMAIN todo' \subseteq Copies(model.n)
      /\ \A f \in DOMAIN todo' : todo'[f] = model /\ f[1] = "milestone" /\ f[2] = model.n
      /\ DOMAIN todo' # {} => disk[copy] = None /\ DOMAIN todo' = {copy, Says(copy)}
      /\ disk[copy] = None => copy \in DOMAIN todo'
  <2>1. CASE disk[copy] = None
    <3>1. DOMAIN todo' = {copy, Says(copy)} /\ todo'[copy] = model /\ todo'[Says(copy)] = model
      <4>1. todo' = Copy(last, copy)
        BY <2>1
      <4>2. copy # Says(copy)
        BY <1>3, Shape
      <4>3. QED
        BY <1>2, <4>1, <4>2 DEF Copy
    <3>2. QED
      BY <1>3, <2>1, <3>1, Shape DEF Copies
  <2>2. CASE disk[copy] # None
    BY <2>2 DEF Nothing
  <2>3. QED
    BY <2>1, <2>2
<1>5. /\ C = model /\ C' = C /\ model \in Models /\ ~Committing /\ ~Committing'
      /\ CommitInv' /\ PublishInv' /\ Recovers'
  BY <1>1, <1>4, Proceeds DEF Running
<1>6. PhaseInv'
  <2>1. at = None
    BY <1>1 DEF PhaseInv
  <2>2. QED
    BY <1>1, <2>1 DEF PhaseInv, Running
<1>7. PendingInv'
  BY <1>4 DEF PendingInv, Copies
<1>8. ReadInv'
  <2>1. ASSUME NEW name \in Indexed, NEW n \in 0..Budget, Json(name, n) \in DOMAIN todo'
        PROVE  Will(Pt(name, n))' # None
    <3>1. name = "milestone" /\ n = model.n
      BY <1>4, <2>1, Shape
    <3>2. Pt(name, n) \in DOMAIN todo'
      BY <1>4, <2>1, <3>1
    <3>3. QED
      BY <1>1, <1>4, <3>2 DEF Will
  <2>2. QED
    BY <1>5, <2>1 DEF ReadInv, OneModelPerEpisode
<1>9. JudgeInv'
  <2>1. Will(copy)' # None
    BY <1>1, <1>4 DEF Will
  <2>2. \A p \in PanelsOf("validation", {model.n}) : p \in judge'
    OBVIOUS
  <2>3. ASSUME NEW n \in Milestones, n < C.n PROVE Done(n)'
    BY <1>1, <1>5, <2>3 DEF JudgeInv, Done
  <2>4. QED
    BY <1>5, <2>1, <2>2, <2>3 DEF JudgeInv, Trained
<1>10. PanelInv'
  <2>1. ASSUME NEW n \in 0..Budget, NEW mode \in Modes
        PROVE  /\ Json("milestone", n) \in DOMAIN todo' =>
                    panel[<<"validation", n, mode>>].state = "absent"
               /\ Pt("milestone", n) \in DOMAIN todo' => disk[Pt("milestone", n)] = None
    BY <1>3, <1>4, Shape DEF PanelInv
  <2>2. QED
    BY <2>1, Shape DEF PanelInv
<1>11. SelectInv'
  <2>1. DOMAIN todo' \cap Bests = {}
    BY <1>4, Single, Shape DEF Bests
  <2>2. C # None /\ C.n \notin Milestones => SettledOnDisk(C.n)'
    BY <1>5
  <2>3. QED
    BY <1>5, <2>1, <2>2 DEF SelectInv, Trained, Candidates
<1>12. FinalInv'
  <2>1. ASSUME Final PROVE DOMAIN todo' = {}
    <3>1. Done(model.n)
      BY <2>1 DEF FinalInv
    <3>2. <<"validation", model.n, Sample>> \in PanelsOf("validation", {model.n})
      BY ChoicesType DEF PanelsOf
    <3>3. panel[<<"validation", model.n, Sample>>].state = "done"
      BY <3>1, <3>2 DEF Done
    <3>4. disk[copy] # None
      BY <1>1, <3>3, ChoicesType DEF PanelInv
    <3>5. QED
      BY <1>4, <3>4
  <2>2. Final' <=> Final
    BY DEF Final
  <2>3. SettledOnDisk(Budget)' <=> SettledOnDisk(Budget)
    BY DEF SettledOnDisk, Settled, Chosen, Candidates, Better
  <2>4. \A p \in Panels : Subject(p)' = Subject(p)
    BY DEF Subject
  <2>5. \A p \in Panels :
          p[1] = "evaluation" /\ panel'[p].state \in {"frozen", "done"} =>
            /\ panel'[p].model = disk'[Subject(p)']
            /\ panel'[p].says = disk'[Says(Subject(p)')]
    BY <2>4 DEF FinalInv
  <2>6. Final' =>
        /\ C' # None /\ C'.n = Budget /\ ~Committing'
        /\ \A n \in Milestones : Done(n)'
        /\ SettledOnDisk(Budget)'
        /\ disk'[last] = C' /\ disk'[Says(last)] = C'
        /\ Budget \in Periodic => disk'[Json("periodic", Budget)] = C'
        /\ \A f \in DOMAIN todo' : f[1] \in Subjects => todo'[f] = disk'[f]
    BY <1>5, <2>1, <2>2, <2>3 DEF FinalInv, C, Done
  <2>7. QED
    BY <2>5, <2>6 DEF FinalInv
<1>13. QED
  BY <1>5, <1>6, <1>7, <1>8, <1>9, <1>10, <1>11, <1>12

LEMMA StepValidate == ASSUME SessionInv, Validate PROVE SessionInv'
<1> USE DEF SessionInv
<1>1. TypeOK' /\ DOMAIN todo = {} /\ pc = "validate"
  BY TypeValidate DEF Validate, In
<1>2. Described(last)
  BY <1>1 DEF Described, PublishInv, Running, Will
<1>3. CASE model.n \notin Milestones
  BY <1>1, <1>3, StepSkip DEF Validate
<1>4. CASE model.n \in Milestones
  BY <1>1, <1>2, <1>4, StepCopy DEF Validate, GoTo
<1>5. QED
  BY <1>3, <1>4

\* The description of a kept model is one of that model.
LEMMA KeptDescribed ==
    ASSUME SessionInv, NEW name \in Indexed, NEW n \in 0..Budget
    PROVE  /\ Described(Pt(name, n))
           /\ disk[Json(name, n)] # None => disk[Json(name, n)] = disk[Pt(name, n)]
<1>1. Pt(name, n) \in Files /\ Json(name, n) \in Files
  BY InFiles DEF Indexed, Names
<1>2. ASSUME disk[Json(name, n)] # None PROVE disk[Json(name, n)] = disk[Pt(name, n)]
  <2>1. disk[Pt(name, n)] # None
    BY <1>2 DEF SessionInv, ReadInv
  <2>2. disk[Pt(name, n)].n = n /\ disk[Json(name, n)].n = n
    BY <1>1, <1>2, <2>1, Shape DEF SessionInv, ReadInv
  <2>3. Pt(name, n)[1] # "generation" /\ Json(name, n)[1] # "generation"
    BY Shape DEF Indexed
  <2>4. QED
    BY <1>1, <1>2, <2>1, <2>2, <2>3 DEF SessionInv, ReadInv, OneModelPerEpisode
<1>3. QED
  BY <1>2, Shape DEF Described

\* The rule of selection leaves no choice.
LEMMA OneChosen ==
    ASSUME SessionInv, NEW N, \A n \in Candidates(N) : Done(n),
           NEW n \in Candidates(N), NEW k \in Candidates(N), Chosen(n, N), Chosen(k, N)
    PROVE  n = k
<1>1. n \in Milestones /\ k \in Milestones /\ n \in 0..Budget /\ k \in 0..Budget
  BY BudgetType DEF Candidates
<1>2. ASSUME NEW m \in {n, k} PROVE cost[m] \in Int
  <2>1. <<"validation", m, Sample>> \in PanelsOf("validation", {m})
    BY ChoicesType DEF PanelsOf
  <2>2. panel[<<"validation", m, Sample>>].state = "done"
    BY <1>2, <2>1 DEF Done
  <2>3. cost[m] # None
    BY <1>1, <2>2, ChoicesType DEF SessionInv, PanelInv
  <2>4. QED
    BY <1>1, <2>3, PeriodicType DEF SessionInv, TypeOK
<1>3. Better(n, k) /\ Better(k, n)
  BY DEF Chosen
<1>4. QED
  BY <1>1, <1>2, <1>3 DEF Better

LEMMA EligibleJudged ==
    ASSUME SessionInv, \A n \in Milestones : n <= model.n => Done(n)
    PROVE  Eligible = Candidates(model.n)
BY DEF Eligible, Candidates, Done

LEMMA StepSelect == ASSUME SessionInv, Select PROVE SessionInv'
<1> USE DEF SessionInv
<1>1. /\ TypeOK' /\ DOMAIN todo = {} /\ pc = "validating" /\ judge = {} /\ at = None
      /\ UNCHANGED plans
  BY TypeSelect DEF Select, In
<1>2. C = model /\ model \in Models /\ model # None /\ model.n \in 0..Budget /\ ~Committing
  BY <1>1, ModelOf DEF CommitInv, PhaseInv, Running, Committing
<1>3. \A n \in Milestones : n <= model.n => Done(n)
  <2>1. Done(model.n)
    BY <1>1 DEF JudgeInv, Done
  <2>2. ASSUME NEW n \in Milestones, n < model.n PROVE Done(n)
    BY <1>2, <2>2 DEF JudgeInv
  <2>3. QED
    BY <1>2, <2>1, <2>2, BudgetType
<1>4. Eligible = Candidates(model.n)
  BY <1>3, EligibleJudged
<1>5. ASSUME pc' = "train", UNCHANGED <<disk, panel, cost, model, judge, at>>,
             DOMAIN todo' \subseteq Bests \cup {Json("selection", 0)},
             \A f \in DOMAIN todo' :
                \E n \in Milestones : \E g \in Copies(n) : todo'[f] = disk[g],
             DOMAIN todo' # {} => Candidates(model.n) # {},
             Settled(model.n, Will(best), Will(Says(best)))',
             Final => \A f \in DOMAIN todo' \cap Bests : todo'[f] = disk[f]
      PROVE  SessionInv'
  <2>1. \A f \in DOMAIN todo' : f[1] \in {"best", "selection"}
    BY <1>5, Single, Shape DEF Bests
  <2>2. /\ C = model /\ C' = C /\ model \in Models /\ ~Committing /\ ~Committing'
        /\ CommitInv' /\ PublishInv' /\ Recovers'
    BY <1>1, <1>5, <2>1, Proceeds DEF Running
  <2>3. \A f \in DOMAIN todo' : f[1] \in Subjects => f \in Bests
    BY <1>5, Shape DEF Subjects
  <2>4. /\ ReadInv' /\ PanelInv' /\ FinalInv'
        /\ \A N : SettledOnDisk(N)' <=> SettledOnDisk(N)
        /\ \A n : Done(n)' <=> Done(n)
    BY <1>1, <1>5, <2>1, <2>2, <2>3, KeepsFiles DEF Indexed
  <2>5. PhaseInv' /\ PendingInv'
    BY <1>1, <1>2, <1>5, <2>2 DEF PhaseInv, PendingInv, Running
  <2>6. JudgeInv'
    <3>1. ASSUME NEW n \in Milestones, n < C.n \/ n = C.n PROVE Done(n)'
      BY <1>2, <1>3, <2>4, <3>1, BudgetType
    <3>2. QED
      BY <1>5, <2>2, <3>1 DEF JudgeInv
  <2>7. SelectInv'
    <3>1. (disk[best] # None \/ DOMAIN todo' \cap Bests # {}) => Candidates(C.n) # {}
      BY <1>2, <1>5 DEF SelectInv
    <3>2. QED
      BY <1>1, <1>2, <1>5, <2>2, <2>4, <3>1 DEF SelectInv, Candidates
  <2>8. QED
    BY <1>1, <2>2, <2>4, <2>5, <2>6, <2>7
<1>6. CASE /\ Eligible = {} /\ GoTo("train", Nothing)
           /\ UNCHANGED <<disk, panel, cost, model, judge, at>>
  <2>1. DOMAIN todo' = {} /\ pc' = "train"
    BY <1>6 DEF GoTo, Nothing
  <2>2. disk[best] = None
    BY <1>2, <1>4, <1>6 DEF SelectInv
  <2>3. Settled(model.n, Will(best), Will(Says(best)))'
    BY <1>4, <1>6, <2>2 DEF Settled, Candidates
  <2>4. QED
    BY <1>5, <1>6, <2>1, <2>3
<1>7. ASSUME NEW n \in Eligible, \A m \in Eligible : Better(n, m),
             IF ~Described(Pt("milestone", n)) THEN Fails
             ELSE /\ GoTo("train", Choose(Pt("milestone", n)))
                  /\ UNCHANGED <<disk, panel, cost, model, judge, at>>
      PROVE  SessionInv'
  <2> DEFINE chosen == Pt("milestone", n)
  <2>1. /\ n \in Milestones /\ n \in 0..Budget /\ chosen \in Files /\ Says(chosen) \in Files
        /\ Says(chosen) = Json("milestone", n)
    BY <1>7, MilestoneFiles DEF Eligible
  <2>2. Described(chosen)
    BY <2>1, KeptDescribed DEF Indexed
  <2>3. /\ pc' = "train" /\ todo' = Choose(chosen)
        /\ UNCHANGED <<disk, panel, cost, model, judge, at>>
    BY <1>7, <2>2 DEF GoTo
  <2>4. /\ DOMAIN todo' = Bests \cup {Json("selection", 0)}
        /\ todo'[best] = disk[chosen] /\ todo'[Says(best)] = disk[Says(chosen)]
        /\ \A f \in DOMAIN todo' : todo'[f] \in {disk[chosen], disk[Says(chosen)]}
    BY <2>1, <2>3, ChooseTodo
  <2>5. Chosen(n, model.n) /\ n \in Candidates(model.n)
    BY <1>4, <1>7 DEF Chosen
  <2>6. \A f \in DOMAIN todo' :
            \E k \in Milestones : \E g \in Copies(k) : todo'[f] = disk[g]
    BY <2>1, <2>4 DEF Copies
  <2>7. Settled(model.n, Will(best), Will(Says(best)))'
    <3>1. Will(best)' = disk[chosen] /\ Will(Says(best))' = disk[Says(chosen)]
      BY <2>4 DEF Will, Bests
    <3>2. QED
      BY <2>1, <2>3, <2>5, <3>1 DEF Settled, Candidates, Chosen, Better
  <2>8. ASSUME Final, NEW f \in Bests PROVE todo'[f] = disk[f]
    <3>1. model.n = Budget /\ SettledOnDisk(Budget)
      BY <1>2, <2>8 DEF FinalInv
    <3>2. PICK k \in Candidates(Budget) :
            /\ Chosen(k, Budget) /\ disk[best] = disk[Pt("milestone", k)]
            /\ disk[Says(best)] = disk[Json("milestone", k)]
      BY <2>5, <3>1 DEF SettledOnDisk, Settled
    <3>3. \A m \in Candidates(Budget) : Done(m)
      BY <1>3, <3>1 DEF Candidates
    <3>4. k = n
      BY <2>5, <3>1, <3>2, <3>3, OneChosen
    <3>5. QED
      BY <2>1, <2>4, <2>8, <3>2, <3>4 DEF Bests
  <2>9. QED
    BY <1>5, <2>3, <2>4, <2>5, <2>6, <2>7, <2>8
<1>8. QED
  BY <1>6, <1>7 DEF Select

\* What is known of the files when the final evaluation may begin.
LEMMA AllThere ==
    ASSUME SessionInv, DOMAIN todo = {}, pc \in {"train", "evaluating"}, model.n = Budget
    PROVE  /\ C = model /\ model \in Models /\ model # None /\ ~Committing
           /\ disk[last] = model /\ disk[Says(last)] = model
           /\ \A n \in Periodic : /\ disk[Pt("periodic", n)] # None
                                  /\ disk[Json("periodic", n)] # None
           /\ Budget \in Periodic => disk[Json("periodic", Budget)] = model
           /\ \A n \in Milestones : Done(n)
           /\ SettledOnDisk(Budget)
<1> USE DEF SessionInv
<1>1. C = model /\ model \in Models /\ model # None /\ ~Committing
  BY ModelOf DEF CommitInv, PhaseInv, Running, Committing
<1>2. /\ disk[last] = model /\ disk[Says(last)] = model
      /\ Budget \in Periodic => /\ disk[Json("periodic", Budget)] = model
                                /\ disk[Pt("periodic", Budget)] # None
  BY DEF PublishInv, Will, Running
<1>3. ASSUME NEW n \in Periodic
      PROVE  disk[Pt("periodic", n)] # None /\ disk[Json("periodic", n)] # None
  <2>1. n < Budget \/ n = Budget
    BY PeriodicType, BudgetType
  <2>2. QED
    BY <1>1, <1>2, <2>1 DEF PublishInv
<1>4. ASSUME NEW n \in Milestones PROVE Done(n)
  <2>1. n < Budget \/ n = Budget
    BY BudgetType
  <2>2. QED
    BY <1>1, <2>1 DEF JudgeInv, Trained
<1>5. SettledOnDisk(Budget)
  BY DEF SelectInv, Trained, SettledOnDisk, Will
<1>6. QED
  BY <1>1, <1>2, <1>3, <1>4, <1>5

LEMMA SubjectIs ==
    ASSUME SessionInv, NEW p \in Finals
    PROVE  /\ p \in Panels /\ p[1] = "evaluation"
           /\ IF plans = {} THEN Subject(p) = IF disk[best] # None THEN best ELSE last
              ELSE p[2] \in Periodic /\ Subject(p) = Pt("periodic", p[2])
<1>1. p \in Panels /\ p[1] = "evaluation"
  BY PanelsOfType DEF SessionInv, Finals, PanelsOf
<1>2. plans # {} => p[2] \in Periodic
  BY ChoicesType DEF Finals, PanelsOf, SessionInv, TypeOK
<1>3. QED
  BY <1>1, <1>2 DEF Subject

LEMMA StepFinalEvaluate == ASSUME SessionInv, FinalEvaluate PROVE SessionInv'
<1> USE DEF SessionInv
<1>1. /\ TypeOK' /\ DOMAIN todo = {} /\ pc = "train" /\ at = None /\ model.n = Budget
      /\ UNCHANGED <<disk, panel, cost, plans, model, todo, at>>
  BY TypeRest DEF FinalEvaluate, In, PhaseInv, Fails
<1>2. /\ C = model /\ model \in Models /\ model # None /\ ~Committing
      /\ disk[last] = model /\ disk[Says(last)] = model
      /\ \A n \in Periodic : disk[Pt("periodic", n)] # None /\ disk[Json("periodic", n)] # None
      /\ \A n \in Milestones : Done(n)
  BY <1>1, AllThere
<1>3. CASE /\ \E p \in Finals : disk[Subject(p)] = None \/ disk[Says(Subject(p))] = None
           /\ Fails
  <2>1. PICK p \in Finals : disk[Subject(p)] = None \/ disk[Says(Subject(p))] = None
    BY <1>3
  <2>2. disk[best] # None /\ disk[Says(best)] = None
    BY <1>2, <2>1, SubjectIs, Shape
  <2>3. Recovers'
    BY <1>1, <2>2 DEF Recovers
  <2>4. QED
    BY <1>1, <1>3, <2>3, Halts DEF Fails
<1>4. CASE pc' = "evaluating" /\ judge' = Finals
  <2>1. /\ C' = C /\ ~Committing' /\ CommitInv' /\ PublishInv' /\ Recovers'
    BY <1>1, <1>4, Proceeds DEF Running
  <2>2. /\ ReadInv' /\ PanelInv' /\ FinalInv'
        /\ \A N : SettledOnDisk(N)' <=> SettledOnDisk(N)
        /\ \A n : Done(n)' <=> Done(n)
    BY <1>1, <2>1, KeepsFiles
  <2>3. PhaseInv' /\ PendingInv'
    BY <1>1, <1>2, <1>4 DEF PhaseInv, PendingInv, Running, Finals
  <2>4. JudgeInv'
    <3>1. \A n \in Milestones : Done(n)'
      BY <1>2, <2>2
    <3>2. Finals' = judge'
      BY <1>1, <1>4 DEF Finals
    <3>3. QED
      BY <1>4, <3>1, <3>2 DEF JudgeInv
  <2>5. SelectInv'
    BY <1>1, <1>4, <2>1, <2>2
    DEF SelectInv, Trained, Settled, Chosen, Candidates, Better, Will, SettledOnDisk
  <2>6. QED
    BY <1>1, <2>1, <2>2, <2>3, <2>4, <2>5
<1>5. QED
  BY <1>3, <1>4 DEF FinalEvaluate, Finals

LEMMA StepComplete == ASSUME SessionInv, Complete PROVE SessionInv'
<1> USE DEF SessionInv
<1>1. /\ TypeOK' /\ DOMAIN todo = {} /\ pc = "evaluating" /\ at = None /\ judge = {}
      /\ model.n = Budget
      /\ UNCHANGED <<disk, panel, cost, plans, model, todo, judge, at>> /\ pc' = "completed"
  BY TypeRest DEF Complete, In, PhaseInv
<1>2. /\ C = model /\ C' = C /\ model \in Models /\ ~Committing' /\ CommitInv' /\ PublishInv'
      /\ Recovers'
  BY <1>1, Proceeds DEF Running
<1>3. /\ ReadInv' /\ PanelInv' /\ FinalInv'
      /\ \A N : SettledOnDisk(N)' <=> SettledOnDisk(N)
      /\ \A n : Done(n)' <=> Done(n)
  BY <1>1, <1>2, KeepsFiles
<1>4. PhaseInv' /\ PendingInv'
  BY <1>1, <1>2 DEF PhaseInv, PendingInv, Running
<1>5. JudgeInv'
  <2>1. \A n \in Milestones : Done(n)'
    BY <1>1, <1>3, AllThere
  <2>2. \A p \in Finals' : panel'[p].state = "done"
    BY <1>1 DEF JudgeInv, Finals
  <2>3. QED
    BY <1>1, <2>1, <2>2 DEF JudgeInv
<1>6. SelectInv'
  BY <1>1, <1>2, <1>3
  DEF SelectInv, Trained, Settled, Chosen, Candidates, Better, Will, SettledOnDisk
<1>7. QED
  BY <1>1, <1>2, <1>3, <1>4, <1>5, <1>6

----------------------------------------------------------------------------
(* Panels *)

\* The panel in hand, and where the process is.
LEMMA InHand ==
    ASSUME SessionInv, NEW p \in judge, DOMAIN todo = {}, pc \in {"validating", "evaluating"}
    PROVE  /\ p \in Panels /\ C = model /\ model \in Models /\ ~Committing
           /\ pc = "validating" => /\ p[1] = "validation" /\ p[2] = model.n
                                   /\ p = <<"validation", model.n, p[3]>> /\ p[3] \in Modes
                                   /\ model.n \in Milestones
                                   /\ Subject(p) = Pt("milestone", model.n)
                                   /\ disk[Subject(p)] # None
           /\ pc = "evaluating" => p \in Finals /\ p[1] = "evaluation" /\ model.n = Budget
<1> USE DEF SessionInv
<1>1. p \in Panels
  BY DEF TypeOK
<1>2. C = model /\ model \in Models /\ ~Committing
  BY DEF CommitInv, PhaseInv, Running, Committing
<1>3. ASSUME pc = "validating"
      PROVE  /\ p[1] = "validation" /\ p[2] = model.n
             /\ p = <<"validation", model.n, p[3]>> /\ p[3] \in Modes /\ model.n \in Milestones
  BY <1>3 DEF PhaseInv, PanelsOf
<1>4. ASSUME pc = "validating"
      PROVE  Subject(p) = Pt("milestone", model.n) /\ disk[Subject(p)] # None
  BY <1>3, <1>4 DEF Subject, JudgeInv, Will
<1>5. ASSUME pc = "evaluating" PROVE p \in Finals /\ p[1] = "evaluation" /\ model.n = Budget
  BY <1>5, SubjectIs DEF PhaseInv
<1>6. QED
  BY <1>1, <1>2, <1>3, <1>4, <1>5

\* What a panel judges has a description of its own, or none.
LEMMA SubjectDescribed ==
    ASSUME SessionInv, NEW p \in judge, DOMAIN todo = {}, pc \in {"validating", "evaluating"}
    PROVE  Described(Subject(p))
<1> USE DEF SessionInv
<1>1. CASE pc = "validating"
  <2>1. Subject(p) = Pt("milestone", model.n) /\ model.n \in 0..Budget
    BY <1>1, InHand, ModelOf
  <2>2. QED
    BY <2>1, KeptDescribed DEF Indexed
<1>2. CASE pc = "evaluating" /\ plans # {}
  BY <1>2, InHand, SubjectIs, KeptDescribed, PeriodicType DEF Indexed
<1>3. CASE pc = "evaluating" /\ plans = {} /\ disk[best] = None
  <2>1. Subject(p) = last /\ disk[last] = disk[Says(last)]
    BY <1>3, InHand, SubjectIs, AllThere
  <2>2. QED
    BY <2>1 DEF Described
<1>4. CASE pc = "evaluating" /\ plans = {} /\ disk[best] # None
  <2>1. Subject(p) = best
    BY <1>4, InHand, SubjectIs
  <2>2. SettledOnDisk(Budget) /\ C.n = Budget
    BY <1>4, InHand, AllThere
  <2>3. Candidates(Budget) # {}
    BY <1>4, <2>2 DEF SelectInv
  <2>4. PICK n \in Candidates(Budget) :
          disk[best] = disk[Pt("milestone", n)] /\ disk[Says(best)] = disk[Json("milestone", n)]
    BY <2>2, <2>3 DEF SettledOnDisk, Settled
  <2>5. n \in 0..Budget
    BY BudgetType DEF Candidates
  <2>6. disk[Json("milestone", n)] \in {None, disk[Pt("milestone", n)]}
    BY <2>5, KeptDescribed DEF Indexed
  <2>7. QED
    BY <2>1, <2>4, <2>6 DEF Described
<1>5. QED
  BY <1>1, <1>2, <1>3, <1>4

\* A step that changes the panel in hand and keeps the files.
LEMMA KeepsPanels ==
    ASSUME SessionInv, NEW p \in Panels, UNCHANGED <<disk, plans, pc, model, todo>>,
           DOMAIN todo = {}, pc \in {"validating", "evaluating"}, p \in judge,
           panel' = [panel EXCEPT ![p] = panel'[p]],
           panel[p].state = "done" => panel'[p].state = "done"
    PROVE  /\ CommitInv' /\ PublishInv' /\ PendingInv' /\ Recovers'
           /\ \A n \in Milestones : Done(n) => Done(n)'
           /\ \A q \in Panels : Subject(q)' = Subject(q)
           /\ \A q \in Panels : panel[q].state = "done" => panel'[q].state = "done"
<1> USE DEF SessionInv
<1>1. CommitInv' /\ PublishInv' /\ PendingInv'
  BY DEF CommitInv, PublishInv, PendingInv, C, Committing, Whole, Will, Running,
         Published, KeptPeriodic
<1>2. Recovers'
  BY DEF Recovers
<1>3. ASSUME NEW q \in Panels, panel[q].state = "done" PROVE panel'[q].state = "done"
  BY <1>3 DEF TypeOK
<1>4. ASSUME NEW n \in Milestones, Done(n) PROVE Done(n)'
  <2>1. PanelsOf("validation", {n}) \subseteq Panels
    BY BudgetType, PanelsOfType
  <2>2. QED
    BY <1>3, <1>4, <2>1 DEF Done
<1>5. \A q \in Panels : Subject(q)' = Subject(q)
  BY DEF Subject
<1>6. QED
  BY <1>1, <1>2, <1>3, <1>4, <1>5

LEMMA StepBegin == ASSUME SessionInv, NEW p \in Panels, Begin(p) PROVE SessionInv'
<1> USE DEF SessionInv
<1>1. /\ TypeOK' /\ DOMAIN todo = {} /\ pc \in {"validating", "evaluating"} /\ p \in judge
      /\ at = None /\ UNCHANGED plans
  BY TypeBegin DEF Begin
<1>2. /\ C = model /\ model \in Models /\ ~Committing
      /\ pc = "validating" => /\ p[1] = "validation" /\ p[2] = model.n
                              /\ Subject(p) = Pt("milestone", model.n) /\ disk[Subject(p)] # None
                              /\ p = <<"validation", model.n, p[3]>> /\ p[3] \in Modes
      /\ pc = "evaluating" => p \in Finals /\ p[1] = "evaluation" /\ model.n = Budget
  BY <1>1, InHand
<1>3. CASE Fails
  <2>1. Described(Subject(p))
    BY <1>1, SubjectDescribed
  <2>2. panel[p].state \in {"frozen", "done"} =>
          panel[p].model = disk[Subject(p)] /\ panel[p].says = disk[Says(Subject(p))]
    <3>1. CASE pc = "validating"
      BY <1>2, <3>1, ModelOf DEF PanelInv
    <3>2. CASE pc = "evaluating"
      BY <1>1, <1>2, <3>2 DEF FinalInv
    <3>3. QED
      BY <1>1, <3>1, <3>2
  <2>3. panel[p].state \in {"absent", "made", "frozen", "done"}
    BY DEF TypeOK
  <2>4. panel[p].state = "made" \/ pc' # "failed"
    BY <2>1, <2>2, <2>3 DEF Begin
  <2>5. Recovers'
    BY <1>3, <2>4 DEF Recovers, Fails
  <2>6. QED
    BY <1>1, <1>3, <2>5, Halts DEF Fails
<1>4. CASE /\ panel' = IF panel[p].state = "absent"
                       THEN [panel EXCEPT ![p].state = "made"] ELSE panel
           /\ at' = p /\ UNCHANGED <<disk, cost, pc, model, todo, judge>>
  <2>1. /\ panel' = [panel EXCEPT ![p] = panel'[p]]
        /\ panel[p].state = "absent" => panel'[p].state = "made"
        /\ panel[p].state # "absent" => panel'[p] = panel[p]
        /\ panel'[p].model = panel[p].model /\ panel'[p].says = panel[p].says
        /\ \A q \in Panels : q # p => panel'[q] = panel[q]
    BY <1>4 DEF TypeOK
  <2>2. /\ CommitInv' /\ PublishInv' /\ PendingInv' /\ Recovers'
        /\ \A n \in Milestones : Done(n) => Done(n)'
        /\ \A q \in Panels : Subject(q)' = Subject(q)
        /\ \A q \in Panels : panel[q].state = "done" => panel'[q].state = "done"
    BY <1>1, <1>4, <2>1, KeepsPanels
  <2>3. PhaseInv'
    <3>1. panel'[p].state # "absent"
      BY <2>1
    <3>2. QED
      BY <1>1, <1>4, <3>1 DEF PhaseInv, Running, Finals
  <2>4. ReadInv'
    <3>1. \A q \in Panels : panel'[q].model = panel[q].model
      BY <2>1
    <3>2. QED
      BY <1>4, <3>1 DEF ReadInv, C, OneModelPerEpisode, Will
  <2>5. JudgeInv'
    <3>1. \A q \in PanelsOf("validation", {model.n}) : q \in Panels
      BY <1>2, ModelOf, PanelsOfType
    <3>2. Finals' = Finals /\ Finals \subseteq Panels
      BY <1>1, PanelsOfType DEF Finals
    <3>3. QED
      BY <1>1, <1>4, <2>2, <3>1, <3>2 DEF JudgeInv, C, Committing, Will
  <2>6. PanelInv'
    <3>1. ASSUME NEW n \in 0..Budget, NEW mode \in Modes
          PROVE  LET q == <<"validation", n, mode>>
                     copy == Pt("milestone", n)
                 IN /\ panel'[q].state # "absent" => disk[copy] # None
                    /\ panel'[q].state \in {"frozen", "done"} =>
                         panel'[q].model = disk[copy] /\ panel'[q].says = disk[Says(copy)]
                    /\ Says(copy) \in DOMAIN todo => panel'[q].state = "absent"
                    /\ copy \in DOMAIN todo => disk[copy] = None
                    /\ panel'[q].state = "done" /\ mode = Sample /\ n \in Milestones =>
                         cost[n] # None
      <4>1. <<"validation", n, mode>> \in Panels
        BY DEF Panels
      <4>2. CASE <<"validation", n, mode>> = p
        <5>1. pc = "validating" /\ n = model.n
          BY <1>1, <1>2, <4>2
        <5>2. QED
          BY <1>1, <1>2, <2>1, <4>2, <5>1 DEF PanelInv
      <4>3. CASE <<"validation", n, mode>> # p
        BY <2>1, <4>1, <4>3 DEF PanelInv
      <4>4. QED
        BY <4>2, <4>3
    <3>2. \A q \in Panels : panel'[q].state \in {"absent", "made"} => panel'[q].model = None
      BY <2>1 DEF PanelInv
    <3>3. QED
      BY <1>4, <3>1, <3>2 DEF PanelInv
  <2>7. SelectInv'
    BY <1>1, <1>4 DEF SelectInv, Trained, C, Committing, Settled, Chosen, Candidates, Better,
                      Will, SettledOnDisk
  <2>8. FinalInv'
    <3>1. \A q \in Panels : q[1] = "evaluation" /\ panel'[q].state \in {"frozen", "done"} =>
            panel'[q].model = disk[Subject(q)] /\ panel'[q].says = disk[Says(Subject(q))]
      BY <2>1 DEF FinalInv
    <3>2. Final' => Final \/ pc = "evaluating"
      BY <1>1, <1>2, <2>1 DEF Final
    <3>3. Final' =>
            /\ C # None /\ C.n = Budget /\ \A n \in Milestones : Done(n)
            /\ SettledOnDisk(Budget)
            /\ disk[last] = C /\ disk[Says(last)] = C
            /\ Budget \in Periodic => disk[Json("periodic", Budget)] = C
      <4>1. CASE pc = "evaluating"
        BY <1>1, <1>2, <4>1, AllThere
      <4>2. CASE Final
        BY <4>2 DEF FinalInv
      <4>3. QED
        BY <3>2, <4>1, <4>2
    <3>4. SettledOnDisk(Budget)' <=> SettledOnDisk(Budget)
      BY <1>4 DEF SettledOnDisk, Settled, Chosen, Candidates, Better
    <3>5. ~Committing'
      BY <1>1, <1>4 DEF Committing
    <3>6. C' = C /\ DOMAIN todo' = {}
      BY <1>1, <1>4 DEF C
    <3>7. \A q \in Panels :
            q[1] = "evaluation" /\ panel'[q].state \in {"frozen", "done"} =>
              /\ panel'[q].model = disk'[Subject(q)'] /\ panel'[q].says = disk'[Says(Subject(q)')]
      BY <1>4, <2>2, <3>1
    <3>8. Final' =>
          /\ C' # None /\ C'.n = Budget /\ ~Committing'
          /\ \A n \in Milestones : Done(n)'
          /\ SettledOnDisk(Budget)'
          /\ disk'[last] = C' /\ disk'[Says(last)] = C'
          /\ Budget \in Periodic => disk'[Json("periodic", Budget)] = C'
      BY <1>4, <2>2, <3>3, <3>4, <3>5, <3>6
    <3>9. QED
      BY <3>6, <3>7, <3>8 DEF FinalInv
  <2>9. QED
    BY <1>1, <2>2, <2>3, <2>4, <2>5, <2>6, <2>7, <2>8
<1>5. QED
  BY <1>3, <1>4 DEF Begin

LEMMA StepFreeze == ASSUME SessionInv, Freeze PROVE SessionInv'
<1> USE DEF SessionInv
<1>1. /\ TypeOK' /\ DOMAIN todo = {} /\ pc \in {"validating", "evaluating"} /\ at \in judge
      /\ at # None /\ at \in Panels /\ panel[at].state = "made"
      /\ UNCHANGED <<disk, cost, plans, pc, model, todo, judge, at>>
  BY TypeFreeze DEF Freeze, PhaseInv, memory, TypeOK
<1>2. /\ C = model /\ model \in Models /\ model # None /\ ~Committing
      /\ pc = "validating" => /\ at[1] = "validation" /\ at[2] = model.n
                              /\ Subject(at) = Pt("milestone", model.n) /\ disk[Subject(at)] # None
                              /\ at = <<"validation", model.n, at[3]>> /\ at[3] \in Modes
      /\ pc = "evaluating" => at \in Finals /\ at[1] = "evaluation" /\ model.n = Budget
  BY <1>1, InHand, ModelOf
<1>3. /\ panel' = [panel EXCEPT ![at] = panel'[at]]
      /\ panel'[at].state = "frozen" /\ panel'[at].model = disk[Subject(at)]
      /\ panel'[at].says = disk[Says(Subject(at))]
      /\ \A q \in Panels : q # at => panel'[q] = panel[q]
  BY <1>1 DEF Freeze, TypeOK
<1>4. /\ CommitInv' /\ PublishInv' /\ PendingInv' /\ Recovers'
      /\ \A n \in Milestones : Done(n) => Done(n)'
      /\ \A q \in Panels : Subject(q)' = Subject(q)
      /\ \A q \in Panels : panel[q].state = "done" => panel'[q].state = "done"
  BY <1>1, <1>3, KeepsPanels
<1>5. PhaseInv'
  BY <1>1, <1>3 DEF PhaseInv, Running, Finals
<1>6. ReadInv'
  <2>1. Subject(at) \in Files /\ Subject(at)[1] # "generation"
    BY <1>1, SubjectFile DEF Subjects
  <2>2. ASSUME NEW q \in Panels, panel'[q].model # None
        PROVE  C # None /\ panel'[q].model.n <= C.n
    BY <1>3, <2>1, <2>2 DEF ReadInv
  <2>3. {panel'[q].model : q \in Panels} \subseteq
            {panel[q].model : q \in Panels} \cup {disk[f] : f \in {g \in Files : g[1] # "generation"}}
    <3>1. ASSUME NEW q \in Panels
          PROVE  panel'[q].model \in {panel[r].model : r \in Panels}
                    \cup {disk[f] : f \in {g \in Files : g[1] # "generation"}}
      BY <1>3, <2>1
    <3>2. QED
      BY <3>1
  <2>4. OneModelPerEpisode'
    <3> DEFINE Published0 == {disk[f] : f \in {g \in Files : g[1] # "generation"}}
               Judged0 == {panel[q].model : q \in Panels}
    <3>1. \A m, k \in (Published0 \cup Judged0) \ {None} : m.n = k.n => m = k
      BY DEF ReadInv, OneModelPerEpisode
    <3>2. Published0' = Published0
      BY <1>1
    <3>3. Judged0' \subseteq Judged0 \cup Published0
      BY <2>3
    <3>4. OneModelPerEpisode' <=>
            \A m, k \in (Published0' \cup Judged0') \ {None} : m.n = k.n => m = k
      BY DEF OneModelPerEpisode
    <3> HIDE DEF Published0, Judged0
    <3>5. QED
      BY <3>1, <3>2, <3>3, <3>4
  <2>5. QED
    BY <1>1, <2>2, <2>4 DEF ReadInv, C, Will
<1>7. JudgeInv'
  <2>1. \A q \in PanelsOf("validation", {model.n}) : q \in Panels
    BY <1>2, ModelOf, PanelsOfType
  <2>2. Finals' = Finals /\ Finals \subseteq Panels
    BY <1>1, PanelsOfType DEF Finals
  <2>3. QED
    BY <1>1, <1>4, <2>1, <2>2 DEF JudgeInv, C, Committing, Will
<1>8. PanelInv'
  <2>1. ASSUME NEW n \in 0..Budget, NEW mode \in Modes
        PROVE  LET q == <<"validation", n, mode>>
                   copy == Pt("milestone", n)
               IN /\ panel'[q].state # "absent" => disk[copy] # None
                  /\ panel'[q].state \in {"frozen", "done"} =>
                       panel'[q].model = disk[copy] /\ panel'[q].says = disk[Says(copy)]
                  /\ Says(copy) \in DOMAIN todo => panel'[q].state = "absent"
                  /\ copy \in DOMAIN todo => disk[copy] = None
                  /\ panel'[q].state = "done" /\ mode = Sample /\ n \in Milestones =>
                       cost[n] # None
    <3>1. <<"validation", n, mode>> \in Panels
      BY DEF Panels
    <3>2. CASE <<"validation", n, mode>> = at
      <4>1. pc = "validating" /\ n = model.n
        BY <1>1, <1>2, <3>2
      <4>2. QED
        BY <1>1, <1>2, <1>3, <3>2, <4>1
    <3>3. CASE <<"validation", n, mode>> # at
      BY <1>3, <3>1, <3>3 DEF PanelInv
    <3>4. QED
      BY <3>2, <3>3
  <2>2. \A q \in Panels : panel'[q].state \in {"absent", "made"} => panel'[q].model = None
    BY <1>3 DEF PanelInv
  <2>3. QED
    BY <1>1, <2>1, <2>2 DEF PanelInv
<1>9. SelectInv'
  BY <1>1 DEF SelectInv, Trained, C, Committing, Settled, Chosen, Candidates, Better,
              Will, SettledOnDisk
<1>10. FinalInv'
  <2>1. \A q \in Panels : q[1] = "evaluation" /\ panel'[q].state \in {"frozen", "done"} =>
          panel'[q].model = disk[Subject(q)] /\ panel'[q].says = disk[Says(Subject(q))]
    BY <1>3 DEF FinalInv
  <2>2. Final' => Final
    BY <1>1, <1>3 DEF Final
  <2>3. SettledOnDisk(Budget)' <=> SettledOnDisk(Budget)
    BY <1>1 DEF SettledOnDisk, Settled, Chosen, Candidates, Better
  <2>4. ~Committing' /\ C' = C /\ DOMAIN todo' = {}
    BY <1>1, <1>2 DEF Committing, C
  <2>5. \A q \in Panels :
          q[1] = "evaluation" /\ panel'[q].state \in {"frozen", "done"} =>
            /\ panel'[q].model = disk'[Subject(q)'] /\ panel'[q].says = disk'[Says(Subject(q)')]
    BY <1>1, <1>4, <2>1
  <2>6. Final' =>
        /\ C' # None /\ C'.n = Budget /\ ~Committing'
        /\ \A n \in Milestones : Done(n)'
        /\ SettledOnDisk(Budget)'
        /\ disk'[last] = C' /\ disk'[Says(last)] = C'
        /\ Budget \in Periodic => disk'[Json("periodic", Budget)] = C'
    BY <1>1, <1>4, <2>2, <2>3, <2>4 DEF FinalInv
  <2>7. QED
    BY <2>4, <2>5, <2>6 DEF FinalInv
<1>11. QED
  BY <1>1, <1>4, <1>5, <1>6, <1>7, <1>8, <1>9, <1>10

LEMMA StepSummarize == ASSUME SessionInv, Summarize PROVE SessionInv'
<1> USE DEF SessionInv
<1>1. /\ TypeOK' /\ DOMAIN todo = {} /\ pc \in {"validating", "evaluating"} /\ at \in judge
      /\ at # None /\ at \in Panels /\ panel[at].state \in {"frozen", "done"}
      /\ UNCHANGED <<disk, plans, pc, model, todo>> /\ at' = None /\ judge' = judge \ {at}
  BY TypeSummarize DEF Summarize, PhaseInv, TypeOK
<1>2. /\ C = model /\ model \in Models /\ model.n \in 0..Budget /\ ~Committing
      /\ pc = "validating" => /\ at[1] = "validation" /\ at[2] = model.n
                              /\ at = <<"validation", model.n, at[3]>> /\ at[3] \in Modes
                              /\ model.n \in Milestones
      /\ pc = "evaluating" => at \in Finals /\ at[1] = "evaluation" /\ model.n = Budget
  BY <1>1, InHand, ModelOf
<1>3. /\ panel' = [panel EXCEPT ![at] = panel'[at]]
      /\ panel'[at].state = "done" /\ panel'[at].model = panel[at].model
      /\ panel'[at].says = panel[at].says
      /\ \A q \in Panels : q # at => panel'[q] = panel[q]
  BY <1>1 DEF Summarize, TypeOK
<1>4. /\ CommitInv' /\ PublishInv' /\ PendingInv' /\ Recovers'
      /\ \A n \in Milestones : Done(n) => Done(n)'
      /\ \A q \in Panels : Subject(q)' = Subject(q)
      /\ \A q \in Panels : panel[q].state = "done" => panel'[q].state = "done"
  BY <1>1, <1>3, KeepsPanels
<1>5. \* A cost that is known stays; only that of the milestone in hand may become known.
      /\ \A n \in Milestones : cost[n] # None \/ pc = "evaluating" \/ n # model.n => cost'[n] = cost[n]
      /\ \A n \in Milestones : cost[n] # None => cost'[n] # None
      /\ pc = "validating" /\ at[3] = Sample => cost'[model.n] # None
  <2>1. CASE at[1] = "validation" /\ at[3] = Sample /\ cost[at[2]] = None
    <3>1. PICK c \in Costs : cost' = [cost EXCEPT ![at[2]] = c]
      BY <2>1 DEF Summarize
    <3>2. pc = "validating" /\ at[2] = model.n
      BY <1>1, <1>2, <2>1
    <3>3. QED
      BY <1>2, <2>1, <3>1, <3>2, BoundsType DEF TypeOK
  <2>2. CASE ~(at[1] = "validation" /\ at[3] = Sample /\ cost[at[2]] = None)
    BY <1>2, <2>2 DEF Summarize
  <2>3. QED
    BY <2>1, <2>2
<1>6. PhaseInv'
  BY <1>1 DEF PhaseInv, Running, Finals
<1>7. ReadInv'
  <2>1. \A q \in Panels : panel'[q].model = panel[q].model
    BY <1>3
  <2>2. QED
    BY <1>1, <2>1 DEF ReadInv, C, OneModelPerEpisode, Will
<1>8. JudgeInv'
  <2>1. \A q \in PanelsOf("validation", {model.n}) : q \in Panels
    BY <1>2, PanelsOfType
  <2>2. Finals' = Finals /\ Finals \subseteq Panels
    BY <1>1, PanelsOfType DEF Finals
  <2>3. \A q \in Panels : q \in judge \/ panel[q].state = "done" =>
            q \in judge' \/ panel'[q].state = "done"
    BY <1>1, <1>3, <1>4
  <2>4. QED
    BY <1>1, <1>4, <2>1, <2>2, <2>3 DEF JudgeInv, C, Committing, Will
<1>9. PanelInv'
  <2>1. ASSUME NEW n \in 0..Budget, NEW mode \in Modes
        PROVE  LET q == <<"validation", n, mode>>
                   copy == Pt("milestone", n)
               IN /\ panel'[q].state # "absent" => disk[copy] # None
                  /\ panel'[q].state \in {"frozen", "done"} =>
                       panel'[q].model = disk[copy] /\ panel'[q].says = disk[Says(copy)]
                  /\ Says(copy) \in DOMAIN todo => panel'[q].state = "absent"
                  /\ copy \in DOMAIN todo => disk[copy] = None
                  /\ panel'[q].state = "done" /\ mode = Sample /\ n \in Milestones =>
                       cost'[n] # None
    <3>1. <<"validation", n, mode>> \in Panels
      BY DEF Panels
    <3>2. CASE <<"validation", n, mode>> = at
      <4>1. pc = "validating" /\ n = model.n /\ mode = at[3]
        BY <1>1, <1>2, <3>2
      <4>2. QED
        BY <1>1, <1>3, <1>5, <3>2, <4>1 DEF PanelInv
    <3>3. CASE <<"validation", n, mode>> # at
      BY <1>3, <1>5, <3>1, <3>3 DEF PanelInv
    <3>4. QED
      BY <3>2, <3>3
  <2>2. \A q \in Panels : panel'[q].state \in {"absent", "made"} => panel'[q].model = None
    BY <1>3 DEF PanelInv
  <2>3. QED
    BY <1>1, <2>1, <2>2 DEF PanelInv
<1>10. SelectInv'
  <2>1. CASE pc = "validating"
    BY <1>1, <1>2, <2>1 DEF SelectInv, Trained, C, Committing, Candidates
  <2>2. CASE pc = "evaluating"
    <3>1. \A n \in Milestones : cost'[n] = cost[n]
      BY <1>5, <2>2
    <3>2. QED
      BY <1>1, <3>1 DEF SelectInv, Trained, C, Committing, Settled, Chosen, Candidates, Better,
                        Will, SettledOnDisk
  <2>3. QED
    BY <1>1, <2>1, <2>2
<1>11. FinalInv'
  <2>1. \A q \in Panels : q[1] = "evaluation" /\ panel'[q].state \in {"frozen", "done"} =>
          panel'[q].model = disk[Subject(q)] /\ panel'[q].says = disk[Says(Subject(q))]
    BY <1>1, <1>3 DEF FinalInv
  <2>2. Final' => Final
    BY <1>1, <1>3 DEF Final
  <2>3. ASSUME Final, NEW n \in Milestones PROVE cost'[n] = cost[n]
    <3>1. <<"validation", n, Sample>> \in PanelsOf("validation", {n})
      BY ChoicesType DEF PanelsOf
    <3>2. panel[<<"validation", n, Sample>>].state = "done"
      BY <2>3, <3>1 DEF FinalInv, Done
    <3>3. cost[n] # None
      BY <3>2, ChoicesType, BudgetType DEF PanelInv
    <3>4. QED
      BY <1>5, <3>3
  <2>4. Final => (SettledOnDisk(Budget)' <=> SettledOnDisk(Budget))
    BY <1>1, <2>3 DEF SettledOnDisk, Settled, Chosen, Candidates, Better
  <2>5. ~Committing' /\ C' = C /\ DOMAIN todo' = {}
    BY <1>1, <1>2 DEF Committing, C
  <2>6. \A q \in Panels :
          q[1] = "evaluation" /\ panel'[q].state \in {"frozen", "done"} =>
            /\ panel'[q].model = disk'[Subject(q)'] /\ panel'[q].says = disk'[Says(Subject(q)')]
    BY <1>1, <1>4, <2>1
  <2>7. Final' =>
        /\ C' # None /\ C'.n = Budget /\ ~Committing'
        /\ \A n \in Milestones : Done(n)'
        /\ SettledOnDisk(Budget)'
        /\ disk'[last] = C' /\ disk'[Says(last)] = C'
        /\ Budget \in Periodic => disk'[Json("periodic", Budget)] = C'
    BY <1>1, <1>4, <2>2, <2>4, <2>5 DEF FinalInv
  <2>8. QED
    BY <2>5, <2>6, <2>7 DEF FinalInv
<1>12. QED
  BY <1>1, <1>4, <1>6, <1>7, <1>8, <1>9, <1>10, <1>11

----------------------------------------------------------------------------
(* Writing one file *)

\* Where a write lands, and what is written.
LEMMA Written ==
    ASSUME SessionInv, NEW f \in DOMAIN todo,
           Committing => f[1] \in {"generation", "current"}
    PROVE  /\ at = None /\ pc \in {"validate", "validating", "train"}
           /\ model \in Models /\ model # None /\ model.n \in 0..Budget
           /\ Committing => /\ pc = "validate" /\ todo[f] = model
                            /\ f = current \/ f \in Generation(model.n)
           /\ ~Committing => C = model /\ f[1] # "generation" /\ f # current
           /\ pc = "validate" => /\ todo[f] = model
                                 /\ f[1] \in {"generation", "current", "last", "episodes", "periodic"}
           /\ pc = "validating" => todo[f] = model /\ f \in Copies(model.n) /\ model.n \in Milestones
           /\ pc = "train" => f \in Bests \cup {Json("selection", 0)} /\ model.n \in Milestones
           /\ f[1] \in Indexed => todo[f] = model /\ f[2] = model.n
<1> USE DEF SessionInv
<1>1. at = None /\ pc \in {"validate", "validating", "train"}
  BY DEF PhaseInv, Running
<1>2. model \in Models /\ model # None /\ model.n \in 0..Budget
  BY <1>1, ModelOf DEF PhaseInv, Running
<1>3. /\ \A g \in Published(model) : g[1] \in {"last", "episodes", "periodic"}
      /\ \A g \in Generation(model.n) : g[1] = "generation"
  BY <1>2, PublishedFiles
<1>4. pc = "validate" =>
        /\ todo[f] = model /\ f \in Generation(model.n) \cup {current} \cup Published(model)
        /\ f[1] \in {"generation", "current", "last", "episodes", "periodic"}
  BY <1>3, Single, Shape DEF PendingInv
<1>5. pc = "validating" => todo[f] = model /\ f \in Copies(model.n) /\ model.n \in Milestones
  BY DEF PendingInv, PhaseInv
<1>6. pc = "train" => f \in Bests \cup {Json("selection", 0)} /\ model.n \in Milestones
  BY DEF PendingInv
<1>7. Committing => /\ pc = "validate" /\ todo[f] = model
                    /\ f = current \/ f \in Generation(model.n)
  BY <1>3, <1>4 DEF CommitInv
<1>8. ~Committing => C = model /\ f[1] # "generation" /\ f # current
  <2>1. ~Committing => C = model /\ f \notin Generation(model.n) /\ f # current
    BY <1>1 DEF CommitInv, Running, Committing
  <2>2. pc = "validate" /\ f \in Published(model) => f[1] # "generation"
    BY <1>3
  <2>3. pc # "validate" => f[1] # "generation"
    BY <1>1, <1>5, <1>6, Single, Shape DEF Copies, Bests
  <2>4. QED
    BY <1>4, <2>1, <2>2, <2>3
<1>9. f[1] \in Indexed => todo[f] = model /\ f[2] = model.n
  <2>1. pc = "validate" /\ f \in Published(model) /\ f[1] \in Indexed => f[2] = model.n
    BY Single, Shape DEF Published, KeptPeriodic, Indexed
  <2>2. pc = "validate" /\ f \notin Published(model) => f[1] \notin Indexed
    BY <1>3, <1>4, Single, Shape DEF Indexed
  <2>3. pc = "validating" => f[2] = model.n
    BY <1>5, Shape DEF Copies
  <2>4. pc = "train" => f[1] \notin Indexed
    BY <1>6, Single, Shape DEF Bests, Indexed
  <2>5. QED
    BY <1>1, <1>4, <1>5, <2>1, <2>2, <2>3, <2>4
<1>10. QED
  BY <1>1, <1>2, <1>4, <1>5, <1>6, <1>7, <1>8, <1>9

\* current.json is switched to the new generation.
LEMMA WriteCurrent ==
    ASSUME SessionInv, TypeOK', current \in DOMAIN todo,
           \A g \in DOMAIN todo : g[1] # "generation",
           disk' = [disk EXCEPT ![current] = todo[current]],
           DOMAIN todo' = DOMAIN todo \ {current},
           \A g \in DOMAIN todo' : todo'[g] = todo[g],
           \A g \in Files : Will(g)' = Will(g),
           UNCHANGED <<panel, cost, plans, pc, model, judge, at>>
    PROVE  SessionInv'
<1> USE DEF SessionInv
<1>1. /\ Committing /\ pc = "validate" /\ todo[current] = model /\ at = None
      /\ model \in Models /\ model # None /\ model.n \in 0..Budget
      /\ IF C = None THEN model.n = 0 ELSE model.n = C.n + 1
  <2>1. Committing /\ current[1] = "current"
    BY Single, Shape DEF Committing
  <2>2. QED
    BY <2>1, Written DEF CommitInv
<1>2. current \in Files /\ C' = model /\ \A g \in Files : g # current => disk'[g] = disk[g]
  BY <1>1, Single DEF C, TypeOK
<1>3. ~Committing' /\ pc' = "validate"
  BY <1>1 DEF Committing
<1>4. \A name, n : /\ name # "current" => Pt(name, n) # current /\ Json(name, n) # current
  BY Single, Shape
<1>5. \A name \in Names \ {"current"}, n \in 0..Budget :
        disk'[Pt(name, n)] = disk[Pt(name, n)] /\ disk'[Json(name, n)] = disk[Json(name, n)]
  BY <1>2, <1>4, InFiles
<1>7. C \in Models \cup {None}
  BY <1>2 DEF C, TypeOK
<1>8. PhaseInv'
  BY <1>1, <1>3 DEF PhaseInv, Running
<1>9. PendingInv'
  <2>1. Published(model)' = Published(model)
    BY <1>1, <1>5 DEF Published, KeptPeriodic, Names
  <2>2. QED
    BY <1>1, <1>3, <2>1 DEF PendingInv
<1>10. CommitInv'
  <2>1. \A f \in Generation(model.n) : f \in Files /\ f \notin DOMAIN todo /\ disk[f] = model
    BY <1>1, PublishedFiles DEF CommitInv, Will
  <2>2. /\ disk'[Pt("generation", model.n)] = model /\ disk'[Json("generation", model.n)] = model
    BY <1>1, <1>5, <2>1 DEF Generation, Names
  <2>3. DOMAIN todo' \cap Generation(model.n) = {}
    BY <2>1
  <2>4. QED
    BY <1>2, <1>3, <2>2, <2>3 DEF CommitInv, Whole, C
<1>11. PublishInv'
  <2>1. /\ Will(last)' = model /\ Will(Says(last))' = model
        /\ model.n \in Periodic =>
             Will(Pt("periodic", model.n))' # None /\ Will(Json("periodic", model.n))' = model
    BY <1>1, Single, InFiles DEF PublishInv, Running, Names
  <2>2. ASSUME NEW n \in Periodic, n < model.n
        PROVE  disk'[Pt("periodic", n)] # None /\ disk'[Json("periodic", n)] # None
    <3>1. n \in 0..Budget
      BY PeriodicType
    <3>2. C # None /\ (n < C.n \/ n = C.n)
      BY <1>1, <1>7, <2>2, <3>1, ModelOf
    <3>3. QED
      BY <1>1, <1>5, <3>1, <3>2 DEF PublishInv, Names
  <2>3. QED
    BY <1>2, <1>3, <2>1, <2>2 DEF PublishInv
<1>12. ReadInv'
  <2>1. ASSUME NEW f \in Files, f[1] # "generation", f # current, disk[f] # None
        PROVE  C # None /\ disk[f].n \in 0..Budget /\ disk[f].n <= C.n
               /\ disk[f].n < model.n
    BY <1>1, <1>7, <2>1, ModelOf DEF ReadInv, TypeOK
  <2>2. ASSUME NEW p \in Panels, panel[p].model # None
        PROVE  C # None /\ panel[p].model.n \in 0..Budget /\ panel[p].model.n <= C.n
               /\ panel[p].model.n < model.n
    BY <1>1, <1>7, <2>2, ModelOf DEF ReadInv, TypeOK
  <2>3. ASSUME NEW f \in Files, f[1] # "generation", disk'[f] # None
        PROVE  C' # None /\ disk'[f].n <= C'.n
    BY <1>1, <1>2, <2>1, <2>3 DEF C
  <2>4. ASSUME NEW p \in Panels, panel'[p].model # None
        PROVE  C' # None /\ panel'[p].model.n <= C'.n
    BY <1>1, <1>2, <2>2, <2>4
  <2>5. ASSUME NEW f \in Files, f[1] \in Indexed, disk'[f] # None PROVE disk'[f].n = f[2]
    BY <1>2, <2>5, Single, Shape DEF ReadInv, Indexed
  <2>6. ASSUME NEW name \in Indexed, NEW n \in 0..Budget
        PROVE  /\ disk'[Json(name, n)] # None => disk'[Pt(name, n)] # None
               /\ Json(name, n) \in DOMAIN todo' => Will(Pt(name, n))' # None
    BY <1>5, InFiles DEF ReadInv, Indexed, Names
  <2>7. OneModelPerEpisode'
    <3> DEFINE Old == ({disk[f] : f \in {g \in Files : g[1] # "generation"}}
                        \cup {panel[p].model : p \in Panels}) \ {None}
               New == ({disk'[f] : f \in {g \in Files : g[1] # "generation"}}
                        \cup {panel'[p].model : p \in Panels}) \ {None}
    <3>1. \A m, k \in Old : m.n = k.n => m = k
      BY DEF ReadInv, OneModelPerEpisode
    <3>2. ASSUME NEW m \in New, m # model PROVE m \in Old /\ m.n < model.n
      <4>1. CASE \E f \in Files : f[1] # "generation" /\ m = disk'[f]
        <5>1. PICK f \in Files : f[1] # "generation" /\ m = disk'[f]
          BY <4>1
        <5>2. f # current /\ m = disk[f] /\ m # None
          BY <1>2, <3>2, <5>1 DEF C
        <5>3. QED
          BY <2>1, <5>1, <5>2
      <4>2. CASE \E p \in Panels : m = panel'[p].model
        BY <2>2, <3>2, <4>2
      <4>3. QED
        BY <3>2, <4>1, <4>2
    <3>3. OneModelPerEpisode' <=> \A m, k \in New : m.n = k.n => m = k
      BY DEF OneModelPerEpisode
    <3> HIDE DEF Old, New
    <3>4. \A m, k \in New : m.n = k.n => m = k
      BY <1>1, <3>1, <3>2
    <3>5. QED
      BY <3>3, <3>4
  <2>8. QED
    BY <2>3, <2>4, <2>5, <2>6, <2>7 DEF ReadInv
<1>13. JudgeInv'
  <2>1. ASSUME NEW n \in Milestones, n < model.n PROVE Done(n)
    <3>1. C # None /\ (n < C.n \/ n = C.n)
      BY <1>1, <1>7, <2>1, ModelOf, BudgetType
    <3>2. QED
      BY <1>1, <3>1 DEF JudgeInv
  <2>2. QED
    BY <1>2, <1>3, <2>1 DEF JudgeInv, Done, Trained
<1>14. PanelInv'
  <2>1. \A n \in 0..Budget : /\ disk'[Pt("milestone", n)] = disk[Pt("milestone", n)]
                             /\ disk'[Json("milestone", n)] = disk[Json("milestone", n)]
    BY <1>5 DEF Names
  <2>2. QED
    BY <2>1, Shape DEF PanelInv
<1>15. SelectInv'
  <2>1. disk'[best] = disk[best] /\ disk'[Says(best)] = disk[Says(best)]
    BY <1>2, Single, Shape
  <2>2. \A n \in Milestones : /\ disk'[Pt("milestone", n)] = disk[Pt("milestone", n)]
                              /\ disk'[Json("milestone", n)] = disk[Json("milestone", n)]
    BY <1>5, BudgetType DEF Names
  <2> HIDE DEF SessionInv
  <2>3. /\ \A n \in Milestones : n \in Int /\ n >= 0
        /\ model.n \in Int
        /\ C # None => C.n \in Int /\ model.n = C.n + 1
    <3>1. \A n \in Milestones : n \in Int /\ n >= 0
      BY MilestoneType
    <3>2. C # None => C.n \in Int
      BY <1>1, <1>7, ModelOf, BudgetType
    <3>3. model.n \in Int
      BY <1>1, BudgetType
    <3>4. QED
      BY <1>1, <3>1, <3>2, <3>3
  <2>4. C # None => \A n \in Candidates(C.n) : n \in Candidates(model.n)
    BY <2>3 DEF Candidates
  <2>5. disk'[best] # None \/ DOMAIN todo' \cap Bests # {} => Candidates(model.n) # {}
    BY <2>1, <2>4 DEF SessionInv, SelectInv
  <2>6. ASSUME model.n \notin Milestones PROVE SettledOnDisk(model.n)'
    <3>1. CASE C = None
      <4>1. Candidates(model.n) = {}
        <5>1. ASSUME NEW n \in Milestones, n <= model.n PROVE FALSE
          <6>1. n = 0 /\ model.n = 0
            BY <1>1, <2>3, <3>1, <5>1
          <6>2. QED
            BY <2>6, <6>1
        <5>2. QED
          BY <5>1 DEF Candidates
      <4>2. disk[best] = None
        BY <3>1 DEF SessionInv, SelectInv
      <4>3. QED
        BY <2>1, <4>1, <4>2 DEF SettledOnDisk, Settled, Candidates
    <3>2. CASE C # None
      <4>1. SettledOnDisk(C.n)
        BY <1>1, <3>2 DEF SessionInv, SelectInv
      <4>2. Candidates(model.n) = Candidates(C.n)
        <5>1. ASSUME NEW n \in Milestones PROVE n <= model.n <=> n <= C.n
          <6>1. n # model.n
            BY <2>6
          <6>2. QED
            BY <2>3, <3>2, <6>1
        <5>2. QED
          BY <5>1 DEF Candidates
      <4>3. SettledOnDisk(model.n)
        BY <4>1, <4>2 DEF SettledOnDisk, Settled, Chosen
      <4>4. QED
        BY <2>1, <2>2, <4>3 DEF SettledOnDisk, Settled, Chosen, Candidates, Better
    <3>3. QED
      BY <3>1, <3>2
  <2>7. QED
    BY <1>1, <1>2, <1>3, <2>5, <2>6 DEF SelectInv, Trained, Candidates
<1> USE DEF SessionInv
<1>16. FinalInv'
  <2>1. ~Final /\ ~Final'
    BY <1>1 DEF FinalInv, Final
  <2>2. QED
    BY <2>1 DEF FinalInv, Final
<1>17. Recovers'
  BY <1>3 DEF Recovers
<1>18. QED
  BY <1>8, <1>9, <1>10, <1>11, <1>12, <1>13, <1>14, <1>15, <1>16, <1>17

\* Any other file is replaced: what is committed stays what it is.
LEMMA WriteOther ==
    ASSUME SessionInv, TypeOK', NEW f \in DOMAIN todo, f \in Files, f # current,
           Committing => f[1] = "generation",
           \A name \in Names, n \in 0..Budget :
                f = Json(name, n) => Pt(name, n) \notin DOMAIN todo,
           disk' = [disk EXCEPT ![f] = todo[f]],
           DOMAIN todo' = DOMAIN todo \ {f},
           \A g \in DOMAIN todo' : todo'[g] = todo[g],
           \A g \in Files : Will(g)' = Will(g),
           UNCHANGED <<panel, cost, plans, pc, model, judge, at>>
    PROVE  SessionInv'
<1> USE DEF SessionInv
<1>1. /\ at = None /\ pc \in {"validate", "validating", "train"}
      /\ model \in Models /\ model # None /\ model.n \in 0..Budget
      /\ Committing => pc = "validate" /\ todo[f] = model /\ f \in Generation(model.n)
      /\ ~Committing => C = model /\ f[1] # "generation"
      /\ pc = "validate" => /\ todo[f] = model
                            /\ f[1] \in {"generation", "last", "episodes", "periodic"}
      /\ pc = "validating" => todo[f] = model /\ f \in Copies(model.n) /\ model.n \in Milestones
      /\ pc = "train" => f \in Bests \cup {Json("selection", 0)} /\ model.n \in Milestones
      /\ f[1] \in Indexed => todo[f] = model /\ f[2] = model.n
  <2>1. f[1] # "current"
    BY FileIs, Single, Shape, Written, PublishedFiles DEF PendingInv, Copies, Bests
  <2>2. QED
    BY <2>1, Written
<1>2. /\ disk'[f] = todo[f] /\ \A g \in Files : g # f => disk'[g] = disk[g]
      /\ C' = C /\ current \in Files
  BY Single DEF C, TypeOK
<1>3. Committing' <=> Committing
  BY DEF Committing
<1>4. C \in Models \cup {None}
  BY <1>2 DEF C, TypeOK
<1>5. PhaseInv'
  BY <1>1 DEF PhaseInv, Running
<1>6. PendingInv'
  <2>1. ASSUME NEW g \in DOMAIN todo', pc = "validate"
        PROVE  g \in Generation(model.n) \cup {current} \cup Published(model)'
    <3>1. g \in Generation(model.n) \cup {current} \cup Published(model) /\ g # f /\ g \in Files
      BY <2>1 DEF PendingInv, TypeOK
    <3>2. disk'[g] = disk[g]
      BY <1>2, <3>1
    <3>3. QED
      BY <3>1, <3>2 DEF Published, KeptPeriodic
  <2>2. ASSUME pc = "train", NEW g \in DOMAIN todo'
        PROVE  \E n \in Milestones : \E h \in Copies(n) : todo'[g] = disk'[h]
    <3>1. PICK n \in Milestones : \E h \in Copies(n) : todo[g] = disk[h]
      BY <2>2 DEF PendingInv
    <3>2. \A h \in Copies(n) : h \in Files /\ h # f
      BY <1>1, <2>2, MilestoneFiles, Single, Shape DEF Copies, Bests
    <3>3. QED
      BY <1>2, <2>2, <3>1, <3>2
  <2>3. QED
    BY <2>1, <2>2 DEF PendingInv
<1>7. CommitInv'
  <2>1. C # None => Pt("generation", C.n) # f /\ Json("generation", C.n) # f
    <3>1. CASE Committing
      BY <1>1, <1>4, <3>1, ModelOf, Shape DEF CommitInv, Generation
    <3>2. CASE ~Committing
      BY <1>1, <3>2, Shape
    <3>3. QED
      BY <3>1, <3>2
  <2>2. C # None => Pt("generation", C.n) \in Files /\ Json("generation", C.n) \in Files
    BY <1>4, ModelOf, InFiles DEF Names
  <2>3. \A g \in Generation(model.n) : Will(g)' = Will(g)
    BY <1>1, PublishedFiles
  <2>4. QED
    BY <1>1, <1>2, <1>3, <2>1, <2>2, <2>3 DEF CommitInv, Whole, C
<1>8. \A g \in Files : g[1] \in Indexed /\ disk[g] # None => disk'[g] # None
  BY <1>1, <1>2
<1>9. PublishInv'
  <2>1. /\ Will(last)' = model /\ Will(Says(last))' = model
        /\ model.n \in Periodic =>
             Will(Pt("periodic", model.n))' # None /\ Will(Json("periodic", model.n))' = model
    BY <1>1, Single, InFiles DEF PublishInv, Running, Names
  <2>2. \A n \in Periodic : /\ disk[Pt("periodic", n)] # None => disk'[Pt("periodic", n)] # None
                            /\ disk[Json("periodic", n)] # None => disk'[Json("periodic", n)] # None
    BY <1>8, PeriodicType, Shape, InFiles DEF Indexed, Names
  <2>3. QED
    BY <1>2, <1>3, <2>1, <2>2 DEF PublishInv
<1>10. \* What is written for others to read has been read before.
       f[1] # "generation" /\ todo[f] # None =>
            \E g \in Files : g[1] # "generation" /\ todo[f] = disk[g]
  <2>1. CASE pc \in {"validate", "validating"}
    BY <1>1, <1>2, <2>1, Single, Shape DEF C, Committing, PublishedFiles, Generation
  <2>2. CASE pc = "train"
    <3>1. PICK n \in Milestones : \E h \in Copies(n) : todo[f] = disk[h]
      BY <2>2 DEF PendingInv
    <3>2. \A h \in Copies(n) : h \in Files /\ h[1] = "milestone"
      BY MilestoneFiles, Shape DEF Copies
    <3>3. QED
      BY <3>1, <3>2
  <2>3. QED
    BY <1>1, <2>1, <2>2
<1>11. ReadInv'
  <2>1. ASSUME NEW g \in Files, g[1] # "generation", disk'[g] # None
        PROVE  \E h \in Files : h[1] # "generation" /\ disk'[g] = disk[h]
    BY <1>2, <1>10, <2>1
  <2>2. ASSUME NEW g \in Files, g[1] # "generation", disk'[g] # None
        PROVE  C' # None /\ disk'[g].n <= C'.n
    BY <1>2, <2>1, <2>2 DEF ReadInv
  <2>3. ASSUME NEW g \in Files, g[1] \in Indexed, disk'[g] # None PROVE disk'[g].n = g[2]
    BY <1>1, <1>2, <2>3 DEF ReadInv
  <2>4. ASSUME NEW name \in Indexed, NEW n \in 0..Budget, disk'[Json(name, n)] # None
        PROVE  disk'[Pt(name, n)] # None
    <3>1. /\ Pt(name, n) \in Files /\ Json(name, n) \in Files /\ name \in Names
          /\ Pt(name, n)[1] \in Indexed
      BY InFiles, Shape DEF Indexed, Names
    <3>2. CASE f = Json(name, n)
      BY <1>8, <3>1, <3>2 DEF ReadInv, Will
    <3>3. CASE f # Json(name, n)
      BY <1>2, <1>8, <2>4, <3>1, <3>3 DEF ReadInv
    <3>4. QED
      BY <3>2, <3>3
  <2>5. ASSUME NEW name \in Indexed, NEW n \in 0..Budget, Json(name, n) \in DOMAIN todo'
        PROVE  Will(Pt(name, n))' # None
    BY <2>5, InFiles DEF ReadInv, Indexed, Names
  <2>6. OneModelPerEpisode'
    <3> DEFINE Old == ({disk[g] : g \in {h \in Files : h[1] # "generation"}}
                        \cup {panel[p].model : p \in Panels}) \ {None}
               New == ({disk'[g] : g \in {h \in Files : h[1] # "generation"}}
                        \cup {panel'[p].model : p \in Panels}) \ {None}
    <3>1. \A m, k \in Old : m.n = k.n => m = k
      BY DEF ReadInv, OneModelPerEpisode
    <3>2. New \subseteq Old
      BY <2>1
    <3>3. OneModelPerEpisode' <=> \A m, k \in New : m.n = k.n => m = k
      BY DEF OneModelPerEpisode
    <3> HIDE DEF Old, New
    <3>4. QED
      BY <3>1, <3>2, <3>3
  <2>7. QED
    BY <1>2, <2>2, <2>3, <2>4, <2>5, <2>6 DEF ReadInv
<1>12. JudgeInv'
  <2>1. pc = "validating" => Will(Pt("milestone", model.n))' = Will(Pt("milestone", model.n))
    BY <1>1, InFiles DEF Names
  <2>2. QED
    BY <1>1, <1>2, <1>3, <2>1 DEF JudgeInv, Done, Trained
<1>13. PanelInv'
  <2>1. ASSUME NEW n \in 0..Budget, NEW mode \in Modes
        PROVE  LET q == <<"validation", n, mode>>
                   copy == Pt("milestone", n)
               IN /\ panel[q].state # "absent" => disk'[copy] # None
                  /\ panel[q].state \in {"frozen", "done"} =>
                       panel[q].model = disk'[copy] /\ panel[q].says = disk'[Json("milestone", n)]
                  /\ Json("milestone", n) \in DOMAIN todo' => panel[q].state = "absent"
                  /\ copy \in DOMAIN todo' => disk'[copy] = None
                  /\ panel[q].state = "done" /\ mode = Sample /\ n \in Milestones =>
                       cost[n] # None
    <3>1. Pt("milestone", n) \in Files /\ Json("milestone", n) \in Files
          /\ Says(Pt("milestone", n)) = Json("milestone", n)
      BY InFiles, Shape DEF Names
    <3>2. panel[<<"validation", n, mode>>].state # "absent" =>
            f # Pt("milestone", n) /\ f # Json("milestone", n)
      BY <3>1 DEF PanelInv
    <3>3. QED
      BY <1>2, <3>1, <3>2 DEF PanelInv
  <2>2. QED
    BY <2>1, Shape DEF PanelInv
<1>14. \* No milestone is rewritten while models are chosen.
       pc \in {"validate", "train"} => \A n \in Milestones :
            /\ disk'[Pt("milestone", n)] = disk[Pt("milestone", n)]
            /\ disk'[Json("milestone", n)] = disk[Json("milestone", n)]
  BY <1>1, <1>2, MilestoneFiles, Single, Shape DEF Bests
<1>15. pc \in {"validate", "validating"} =>
            disk'[best] = disk[best] /\ disk'[Says(best)] = disk[Says(best)]
  BY <1>1, <1>2, Single, Shape DEF Copies
<1>16. SelectInv'
  <2>1. disk'[best] # None \/ DOMAIN todo' \cap Bests # {} =>
            disk[best] # None \/ DOMAIN todo \cap Bests # {}
    BY <1>2, Single DEF Bests
  <2>2. ASSUME pc = "train"
        PROVE  Settled(model.n, Will(best), Will(Says(best)))'
    <3>1. Settled(model.n, Will(best), Will(Says(best))) /\ C = model
      BY <1>1, <2>2 DEF SelectInv, Trained
    <3>2. Will(best)' = Will(best) /\ Will(Says(best))' = Will(Says(best))
      BY Single
    <3>3. Candidates(model.n) = {} => disk'[best] = disk[best]
      BY <1>2, <3>1, Single DEF SelectInv, Bests
    <3>4. QED
      BY <1>14, <2>2, <3>1, <3>2, <3>3 DEF Settled, Candidates, Chosen, Better
  <2>3. ASSUME C # None, C.n \notin Milestones \/ Committing PROVE SettledOnDisk(C.n)'
    <3>1. pc = "validate"
      BY <1>1, <2>3
    <3>2. SettledOnDisk(C.n)
      BY <2>3 DEF SelectInv
    <3>3. QED
      BY <1>2, <1>14, <1>15, <3>1, <3>2 DEF SettledOnDisk, Settled, Candidates, Chosen, Better
  <2>4. QED
    BY <1>1, <1>2, <1>3, <2>1, <2>2, <2>3 DEF SelectInv, Trained, Candidates
<1>17. FinalInv'
  <2>1. ASSUME Final, NEW g \in Files, g[1] \in Subjects PROVE disk'[g] = disk[g]
    BY <1>2, <2>1 DEF FinalInv
  <2>2. /\ best \in Files /\ best[1] \in Subjects /\ Says(best) \in Files /\ Says(best)[1] \in Subjects
        /\ last \in Files /\ last[1] \in Subjects /\ Says(last) \in Files /\ Says(last)[1] \in Subjects
    BY Single, Shape DEF Subjects
  <2>3. \A n \in 0..Budget :
          /\ Pt("milestone", n) \in Files /\ Json("milestone", n) \in Files
          /\ Pt("milestone", n)[1] \in Subjects /\ Json("milestone", n)[1] \in Subjects
          /\ Json("periodic", n) \in Files /\ Json("periodic", n)[1] \in Subjects
    BY InFiles, Shape DEF Subjects, Names
  <2>4. Final' <=> Final
    BY DEF Final
  <2>5. Final => (SettledOnDisk(Budget) => SettledOnDisk(Budget)')
    BY <2>1, <2>2, <2>3, BudgetType DEF SettledOnDisk, Settled, Candidates, Chosen, Better
  <2>6. ASSUME NEW q \in Panels, q[1] = "evaluation", panel'[q].state \in {"frozen", "done"}
        PROVE  panel'[q].model = disk'[Subject(q)'] /\ panel'[q].says = disk'[Says(Subject(q)')]
    <3>1. Final
      BY <2>6 DEF Final
    <3>2. Subject(q)' = Subject(q)
      BY <2>1, <2>2, <3>1 DEF Subject
    <3>3. /\ Subject(q) \in Files /\ Says(Subject(q)) \in Files
          /\ Subject(q)[1] \in Subjects /\ Says(Subject(q))[1] \in Subjects
      BY SubjectFile
    <3>4. QED
      BY <2>1, <2>6, <3>1, <3>2, <3>3 DEF FinalInv
  <2>7. Final' =>
        /\ C' # None /\ C'.n = Budget /\ ~Committing'
        /\ \A n \in Milestones : Done(n)'
        /\ SettledOnDisk(Budget)'
        /\ disk'[last] = C' /\ disk'[Says(last)] = C'
        /\ Budget \in Periodic => disk'[Json("periodic", Budget)] = C'
    <3>1. Budget \in 0..Budget
      BY BudgetType
    <3>2. QED
      BY <1>2, <1>3, <2>1, <2>2, <2>3, <2>4, <2>5, <3>1 DEF FinalInv, Done
  <2>8. Final' => \A g \in DOMAIN todo' : g[1] \in Subjects => todo'[g] = disk'[g]
    BY <1>2, <2>1, <2>4 DEF FinalInv, TypeOK
  <2>9. QED
    BY <2>6, <2>7, <2>8 DEF FinalInv
<1>18. Recovers'
  BY <1>1 DEF Recovers
<1>19. QED
  BY <1>5, <1>6, <1>7, <1>9, <1>11, <1>12, <1>13, <1>16, <1>17, <1>18

LEMMA StepWrite == ASSUME SessionInv, Write PROVE SessionInv'
<1>1. TypeOK /\ TypeOK' /\ UNCHANGED <<panel, cost, plans, pc, model, judge, at>>
  BY TypeWrite DEF SessionInv, Write
<1>2. PICK f \in DOMAIN todo :
        /\ f \in Files
        /\ disk' = [disk EXCEPT ![f] = todo[f]]
        /\ DOMAIN todo' = DOMAIN todo \ {f}
        /\ \A g \in DOMAIN todo' : todo'[g] = todo[g]
        /\ \A g \in Files : Will(g)' = Will(g)
        /\ Committing => f[1] \in {"generation", "current"}
        /\ f = current => \A g \in DOMAIN todo : g[1] # "generation"
        /\ \A name \in Names, n \in 0..Budget :
            f = Json(name, n) => Pt(name, n) \notin DOMAIN todo
  BY <1>1, WriteEffect
<1>3. CASE f = current
  BY <1>1, <1>2, <1>3, WriteCurrent
<1>4. CASE f # current
  <2>1. Committing => f[1] = "generation"
    <3>1. Committing => f = current \/ f \in Generation(model.n)
      BY <1>2, Written
    <3>2. \A g \in Generation(model.n) : g[1] = "generation"
      BY Shape DEF Generation
    <3>3. QED
      BY <1>4, <3>1, <3>2
  <2>2. QED
    BY <1>1, <1>2, <1>4, <2>1, WriteOther
<1>5. QED
  BY <1>3, <1>4

----------------------------------------------------------------------------
(* The invariant *)

LEMMA InitSession == Init => SessionInv
<1> SUFFICES ASSUME Init PROVE SessionInv
  OBVIOUS
<1>1. /\ DOMAIN todo = {} /\ todo = [f \in DOMAIN todo |-> todo[f]]
      /\ pc = "off" /\ at = None /\ judge = {} /\ model = None
  BY DEF Init, Nothing
<1>2. /\ C = None
      /\ \A f \in Files : disk[f] = None
      /\ \A p \in Panels : panel[p].state = "absent" /\ panel[p].model = None
  BY Single DEF Init, C
<1>3. TypeOK
  <2>1. disk \in [Files -> Models \cup {None}] /\ cost \in [Milestones -> Costs \cup {None}]
    BY DEF Init
  <2>2. panel \in [Panels -> [state : {"absent", "made", "frozen", "done"},
                              model : Models \cup {None}, says : Models \cup {None}]]
    BY DEF Init
  <2>3. plans \in PlanChoices /\ late \in BOOLEAN
    BY DEF Init
  <2>4. crashes \in 0..MaxCrashes
    BY BoundsType DEF Init
  <2>5. QED
    BY <1>1, <2>1, <2>2, <2>3, <2>4 DEF TypeOK, Phases
<1>4. PhaseInv /\ PendingInv /\ CommitInv /\ PublishInv
  BY <1>1, <1>2 DEF PhaseInv, PendingInv, CommitInv, PublishInv, Committing, Running
<1>5. ReadInv
  <2>1. \A name \in Indexed, n \in 0..Budget : Json(name, n) \in Files
    BY InFiles DEF Indexed, Names
  <2>2. OneModelPerEpisode
    <3>1. \A m \in {disk[f] : f \in {g \in Files : g[1] # "generation"}}
                    \cup {panel[p].model : p \in Panels} : m = None
      BY <1>2
    <3>2. QED
      BY <3>1 DEF OneModelPerEpisode
  <2>3. QED
    BY <1>1, <1>2, <2>1, <2>2 DEF ReadInv
<1>6. JudgeInv
  BY <1>1, <1>2 DEF JudgeInv
<1>7. PanelInv
  <2>1. \A n \in 0..Budget, mode \in Modes : <<"validation", n, mode>> \in Panels
    BY DEF Panels
  <2>2. QED
    BY <1>1, <1>2, <2>1 DEF PanelInv
<1>8. SelectInv /\ FinalInv /\ Recovers
  BY <1>1, <1>2, Single DEF SelectInv, FinalInv, Final, Recovers, Trained
<1>9. QED
  BY <1>3, <1>4, <1>5, <1>6, <1>7, <1>8 DEF SessionInv

\* The attempt ends at a boundary, or is killed.
LEMMA StepHalts == ASSUME SessionInv, Discard \/ TimesOut \/ Crash PROVE SessionInv'
<1>1. TypeOK'
  BY TypeRest DEF SessionInv
<1>2. /\ UNCHANGED <<disk, panel, cost, plans>> /\ pc' \in {"off", "over"}
      /\ DOMAIN todo' = {} /\ at' = None
  <2>1. CASE Discard
    BY <2>1 DEF Discard, In, GoTo, Nothing, SessionInv, PhaseInv
  <2>2. CASE TimesOut
    BY <2>2 DEF TimesOut, SessionInv, PhaseInv
  <2>3. CASE Crash
    BY <2>3 DEF Crash, Nothing
  <2>4. QED
    BY <2>1, <2>2, <2>3
<1>3. Recovers'
  BY <1>2 DEF Recovers
<1>4. QED
  BY <1>1, <1>2, <1>3, Halts

LEMMA StepOther ==
    ASSUME SessionInv, TypeOK', UNCHANGED <<disk, panel, cost, plans, memory>>
    PROVE  SessionInv'
<1> USE DEF SessionInv, memory
<1>1. PhaseInv' /\ PendingInv' /\ CommitInv' /\ PublishInv'
  BY DEF PhaseInv, PendingInv, CommitInv, PublishInv, Finals, C, Committing, Whole, Will,
         Published, KeptPeriodic
<1>2. ReadInv'
  BY DEF ReadInv, OneModelPerEpisode, C, Will
<1>3. JudgeInv' /\ PanelInv'
  BY DEF JudgeInv, PanelInv, C, Committing, Done, Finals, Will
<1>4. SelectInv'
  BY DEF SelectInv, C, Committing, Settled, SettledOnDisk, Chosen, Candidates, Better, Will
<1>5. FinalInv'
  BY DEF FinalInv, Final, C, Committing, Done, Settled, SettledOnDisk, Chosen, Candidates, Better,
         Subject
<1>6. Recovers'
  BY DEF Recovers
<1>7. QED
  BY <1>1, <1>2, <1>3, <1>4, <1>5, <1>6

LEMMA StepSession == SessionInv /\ [Next]_vars => SessionInv'
<1> SUFFICES ASSUME SessionInv, [Next]_vars PROVE SessionInv'
  OBVIOUS
<1>1. CASE Attempt
  BY <1>1, StepAttempt
<1>2. CASE Write
  BY <1>2, StepWrite
<1>3. CASE Rollout
  BY <1>3, StepRollout
<1>4. CASE Discard \/ TimesOut \/ Crash
  BY <1>4, StepHalts
<1>5. CASE Validate
  BY <1>5, StepValidate
<1>6. CASE Select
  BY <1>6, StepSelect
<1>7. CASE \E p \in Panels : Begin(p)
  BY <1>7, StepBegin
<1>8. CASE Freeze
  BY <1>8, StepFreeze
<1>9. CASE Summarize
  BY <1>9, StepSummarize
<1>10. CASE FinalEvaluate
  BY <1>10, StepFinalEvaluate
<1>11. CASE Complete
  BY <1>11, StepComplete
<1>12. CASE Deadline
  <2>1. TypeOK'
    BY <1>12, TypeRest DEF SessionInv
  <2>2. QED
    BY <1>12, <2>1, StepOther DEF Deadline
<1>13. CASE UNCHANGED vars
  <2>1. TypeOK'
    BY <1>13 DEF SessionInv, TypeOK, vars, memory
  <2>2. QED
    BY <1>13, <2>1, StepOther DEF vars
<1>14. QED
  BY <1>1, <1>2, <1>3, <1>4, <1>5, <1>6, <1>7, <1>8, <1>9, <1>10, <1>11, <1>12, <1>13
  DEF Next, Ended

LEMMA Session == Spec => []SessionInv
<1>1. Init => SessionInv
  BY InitSession
<1>2. SessionInv /\ [Next]_vars => SessionInv'
  BY StepSession
<1>3. QED
  BY <1>1, <1>2, PTL DEF Spec

----------------------------------------------------------------------------
\* The variables of a training run and its files keep their types.
THEOREM TypeCorrect == Spec => []TypeOK
<1>1. SessionInv => TypeOK
  BY DEF SessionInv
<1>2. QED
  BY <1>1, Session, PTL

\* A session that was killed anywhere can be resumed, save where a panel has a
\* directory without a manifest, or the best model has no description.
THEOREM AlwaysRecovers == Spec => []Recovers
<1>1. SessionInv => Recovers
  BY DEF SessionInv
<1>2. QED
  BY <1>1, Session, PTL

\* No two files that anyone reads show different models of one episode, and what
\* was judged is what was committed.
THEOREM NeverTwoModels == Spec => []OneModelPerEpisode
<1>1. SessionInv => OneModelPerEpisode
  BY DEF SessionInv, ReadInv
<1>2. QED
  BY <1>1, Session, PTL

\* No crash makes a session skip the judgement of a milestone.
THEOREM AllMilestonesJudged == Spec => []MilestonesJudged
<1>1. ASSUME SessionInv PROVE MilestonesJudged
  <2>1. ASSUME NEW n \in Milestones, (C # None /\ n < C.n) \/ pc = "completed" PROVE Done(n)
    <3>1. CASE C # None /\ n < C.n
      BY <1>1, <3>1 DEF SessionInv, JudgeInv
    <3>2. CASE pc = "completed"
      <4>1. C = model /\ model.n = Budget /\ model # None
        BY <1>1, <3>2, ModelOf DEF SessionInv, CommitInv, PhaseInv, Running, Committing
      <4>2. n < C.n \/ n = C.n
        BY <4>1, BudgetType
      <4>3. QED
        BY <1>1, <3>2, <4>1, <4>2 DEF SessionInv, JudgeInv, Trained
    <3>3. QED
      BY <2>1, <3>1, <3>2
  <2>2. QED
    BY <2>1 DEF MilestonesJudged, Done, C
<1>2. QED
  BY <1>1, Session, PTL

\* A completed run has judged a model of the least cost that its milestones have
\* shown, or the last one if none was eligible.
THEOREM FinalModelIsBest == Spec => []FinalIsBest
<1>1. ASSUME SessionInv PROVE FinalIsBest
  <2> SUFFICES ASSUME pc = "completed", plans = {}, NEW p \in PanelsOf("evaluation", {Budget})
               PROVE  IF Eligible = {} THEN panel[p].model.n = Budget
                      ELSE \E n \in Eligible : /\ panel[p].model = disk[Pt("milestone", n)]
                                               /\ \A m \in Eligible : cost[n] <= cost[m]
    BY DEF FinalIsBest
  <2>1. DOMAIN todo = {} /\ model.n = Budget /\ model \in Models /\ C = model /\ model # None
    BY <1>1, ModelOf DEF SessionInv, PhaseInv, CommitInv, Running, Committing
  <2>2. disk[last] = model
    BY <1>1, <2>1 DEF SessionInv, PublishInv, Will
  <2>3. SettledOnDisk(Budget)
    BY <1>1, <2>1 DEF SessionInv, SelectInv, Trained, SettledOnDisk, Will
  <2>4. \A n \in Milestones : n <= model.n => Done(n)
    <3>1. ASSUME NEW n \in Milestones PROVE n < C.n \/ n = C.n
      BY <2>1, BudgetType
    <3>2. QED
      BY <1>1, <2>1, <3>1 DEF SessionInv, JudgeInv, Trained
  <2>5. Eligible = Candidates(Budget)
    BY <1>1, <2>1, <2>4, EligibleJudged
  <2>6. p \in Finals /\ p \in Panels /\ p[1] = "evaluation"
        /\ Subject(p) = IF disk[best] # None THEN best ELSE last
    BY <1>1, SubjectIs DEF Finals
  <2>7. panel[p].model = disk[Subject(p)]
    BY <1>1, <2>6 DEF SessionInv, JudgeInv, FinalInv
  <2>8. CASE Eligible = {}
    <3>1. disk[best] = None
      BY <2>3, <2>5, <2>8 DEF SettledOnDisk, Settled
    <3>2. QED
      BY <2>1, <2>2, <2>6, <2>7, <2>8, <3>1
  <2>9. CASE Eligible # {}
    <3>1. PICK n \in Candidates(Budget) :
            Chosen(n, Budget) /\ disk[best] = disk[Pt("milestone", n)]
      BY <2>3, <2>5, <2>9 DEF SettledOnDisk, Settled
    <3>2. ASSUME NEW m \in Eligible
          PROVE  cost[m] \in Int /\ panel[<<"validation", m, Sample>>].state = "done"
      <4>1. m \in Milestones /\ <<"validation", m, Sample>> \in PanelsOf("validation", {m})
        BY ChoicesType DEF PanelsOf, Eligible
      <4>2. panel[<<"validation", m, Sample>>].state = "done"
        BY <4>1 DEF Eligible
      <4>3. cost[m] # None
        BY <1>1, <4>1, <4>2, ChoicesType, BudgetType DEF SessionInv, PanelInv
      <4>4. QED
        BY <1>1, <4>1, <4>2, <4>3, PeriodicType DEF SessionInv, TypeOK
    <3>3. \A m \in Eligible : cost[n] <= cost[m]
      <4>1. ASSUME NEW m \in Eligible PROVE Better(n, m) /\ cost[m] \in Int /\ cost[n] \in Int
        BY <2>5, <3>1, <3>2 DEF Chosen
      <4>2. QED
        BY <4>1 DEF Better
    <3>4. disk[Pt("milestone", n)] # None
      <4>1. n \in 0..Budget
        BY BudgetType DEF Candidates
      <4>2. QED
        BY <1>1, <2>5, <3>2, <4>1, ChoicesType DEF SessionInv, PanelInv
    <3>5. QED
      BY <2>5, <2>6, <2>7, <2>9, <3>1, <3>3, <3>4
  <2>10. QED
    BY <2>8, <2>9
<1>2. QED
  BY <1>1, Session, PTL
=============================================================================
