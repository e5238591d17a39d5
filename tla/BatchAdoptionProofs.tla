------------------------ MODULE BatchAdoptionProofs ------------------------
(***************************************************************************)
(* For any number of queues, tasks, driver generations, crashes and kills: *)
(* an adopted source has no driver, its claim stands while its tasks may   *)
(* run unless they had stopped before, and it comes back with all outcomes *)
(* written.                                                                *)
(*                                                                         *)
(* The argument for the claim: a submission has seen a generation of the   *)
(* owner, generations only grow, and a source that is provisioned has no   *)
(* driver; so a claim that finds the generation it has seen finds no       *)
(* driver.  Afterwards no driver registers, as the source is adopted.      *)
(***************************************************************************)
EXTENDS BatchAdoption, TLAPS

\* What a submission knows of the source at each of its steps.
SubmissionInv ==
    app # NoSubmission =>
        /\ app.seen <= owner
        /\ app.step = "claim" /\ owner = app.seen => driver = "off"
        /\ app.step = "commit" => claim = app.queue
        /\ app.mine => app.step = "commit"

\* A submission that has just taken the claim, and may still withdraw it, has
\* behind it only work that goes without a claim.
NewClaimIdle ==
    app # NoSubmission /\ app.mine =>
        \A t \in Tasks : Working(app.queue, t) => t \in unclaimed[app.queue]

AdoptInv == TypeOK /\ OneDriver /\ SubmissionInv

HeldInv == ClaimHeld /\ NewClaimIdle

----------------------------------------------------------------------------
\* Types.

LEMMA InitType == Init => TypeOK
<1> SUFFICES ASSUME Init PROVE TypeOK
  OBVIOUS
<1>1. src \in [Tasks -> Outcomes] /\ job \in [Queues -> [Tasks -> Statuses]]
  BY DEF Init, Outcomes, Statuses
<1>2. /\ hold \in [Queues -> SUBSET Tasks] /\ unclaimed \in [Queues -> SUBSET Tasks]
      /\ worker \in [Tasks -> Queues \cup {None, Source}]
      /\ status \in [Queues -> {"live", "ended", "failed", "reopened"}]
  BY DEF Init
<1>3. /\ admitted \in 0..MaxDrives /\ owner \in 0..MaxDrives
      /\ kills \in 0..MaxKills /\ crashes \in 0..MaxCrashes /\ orders \in 0..MaxOrders
  BY BoundsType DEF Init
<1>4. /\ claim \in Queues \cup {None} /\ quiescent \in BOOLEAN
      /\ driver \in {"off", "bound", "locked", "running"}
      /\ up \subseteq Queues /\ open \subseteq Queues /\ dirty \subseteq Queues
      /\ halted \subseteq Queues /\ saved \subseteq Trainings
      /\ app \in Submissions \cup {NoSubmission}
  BY DEF Init
<1> QED
  BY <1>1, <1>2, <1>3, <1>4 DEF TypeOK

LEMMA SourceKeepsType == ASSUME TypeOK, SourceNext PROVE TypeOK'
<1> USE BoundsType DEF TypeOK
<1>1. CASE Bind
  BY <1>1 DEF Bind, queues, journals, bounds
<1>2. CASE TakeDriverLock
  BY <1>2 DEF TakeDriverLock, queues, journals, bounds
<1>3. CASE Initialize
  <2>1. src' \in [Tasks -> Outcomes]
    BY <1>3 DEF Initialize, Outcomes
  <2>2. admitted' \in 0..MaxDrives /\ quiescent' \in BOOLEAN
        /\ driver' \in {"off", "bound", "locked", "running"}
    BY <1>3 DEF Initialize
  <2> QED
    BY <1>3, <2>1, <2>2 DEF Initialize, queues, journals, bounds
<1>4. ASSUME NEW t \in Tasks, SourceStart(t) PROVE TypeOK'
  <2>1. worker' \in [Tasks -> Queues \cup {None, Source}] /\ src' \in [Tasks -> Outcomes]
    BY <1>4 DEF SourceStart, Outcomes
  <2> QED
    BY <1>4, <2>1 DEF SourceStart, queues, journals, bounds
<1>5. ASSUME NEW t \in Tasks, SourceEnd(t) PROVE TypeOK'
  <2>1. worker' \in [Tasks -> Queues \cup {None, Source}] /\ src' \in [Tasks -> Outcomes]
    BY <1>5 DEF SourceEnd, Outcomes
  <2> QED
    BY <1>5, <2>1 DEF SourceEnd, queues, journals, bounds
<1>6. CASE SourceExit
  BY <1>6 DEF SourceExit, queues, journals, bounds
<1> QED
  BY <1>1, <1>2, <1>3, <1>4, <1>5, <1>6 DEF SourceNext

LEMMA SubmitKeepsType == ASSUME TypeOK, SubmitNext PROVE TypeOK'
<1> USE BoundsType DEF TypeOK, Submissions
<1>1. ASSUME NEW q \in Queues, NEW T \in SUBSET Tasks, Submit(q, T) PROVE TypeOK'
  BY <1>1 DEF Submit, source, queues, journals, bounds
<1>2. CASE Look
  BY <1>2 DEF Look, source, queues, journals, bounds
<1>3. CASE Provision
  BY <1>3 DEF Provision, queues, journals, bounds
<1>4. CASE Claim
  BY <1>4 DEF Claim, queues, journals, bounds, NoSubmission
<1>5. CASE Commit
  <2>1. app \in Submissions
    BY <1>5 DEF Commit
  <2>2. job' \in [Queues -> [Tasks -> Statuses]]
    BY <1>5, <2>1 DEF Commit, Statuses
  <2> QED
    BY <1>5, <2>2 DEF Commit, source, journals, bounds
<1>6. CASE AppendFails
  BY <1>6 DEF AppendFails, Withdrawn, queues, journals, bounds
<1>7. CASE SubmitterKilled
  BY <1>7 DEF SubmitterKilled, source, queues, journals
<1> QED
  BY <1>1, <1>2, <1>3, <1>4, <1>5, <1>6, <1>7 DEF SubmitNext

\* One status of one task changes.
LEMMA BecomesType ==
    ASSUME TypeOK, NEW q \in Queues, NEW t \in Tasks, NEW next \in Statuses,
           Becomes(q, t, next), worker' \in [Tasks -> Queues \cup {None, Source}],
           halted' \subseteq Queues, orders' \in 0..MaxOrders
    PROVE  TypeOK'
<1>1. job' \in [Queues -> [Tasks -> Statuses]]
  BY DEF TypeOK, Becomes
<1>2. unclaimed' \in [Queues -> SUBSET Tasks]
  BY DEF TypeOK, Becomes
<1> QED
  BY <1>1, <1>2 DEF TypeOK, Becomes, source

\* A task of a live queue changes its status.
LEMMA TickKeepsType ==
    ASSUME TypeOK, NEW q \in Queues, NEW t \in Tasks,
           QueueStart(q, t) \/ QueueJoin(q, t) \/ QueueJoinUnasked(q, t) \/ QueueHold(q, t)
    PROVE  TypeOK'
<1> USE BoundsType
<1>1. worker' \in [Tasks -> Queues \cup {None, Source}]
  BY DEF TypeOK, QueueStart, QueueJoin, QueueJoinUnasked, QueueHold
<1>2. halted' \subseteq Queues /\ orders' \in 0..MaxOrders
  BY DEF TypeOK, QueueStart, QueueJoin, QueueJoinUnasked, QueueHold
<1>3. \E next \in Statuses : Becomes(q, t, next)
  BY DEF QueueStart, QueueJoin, QueueJoinUnasked, QueueHold, Statuses
<1> QED
  BY <1>1, <1>2, <1>3, BecomesType

\* A driver of the queue is started, or not.
LEMMA ResumesType ==
    ASSUME TypeOK, NEW q \in Queues, Resumes(q),
           up' \subseteq Queues, dirty' \subseteq Queues,
           status' \in [Queues -> {"live", "ended", "failed", "reopened"}],
           job' \in [Queues -> [Tasks -> Statuses]], unclaimed' \in [Queues -> SUBSET Tasks]
    PROVE  TypeOK'
  BY DEF TypeOK, Resumes, source, bounds

LEMMA QueueKeepsType == ASSUME TypeOK, QueueNext PROVE TypeOK'
<1> USE BoundsType
<1>1. ASSUME NEW q \in Queues, Synchronize(q) PROVE TypeOK'
  <2>1. Reflected(q) \in [Tasks -> Outcomes]
    BY DEF TypeOK, Reflected, Outcomes, Statuses
  <2>2. /\ src' \in [Tasks -> Outcomes] /\ claim' \in Queues \cup {None} /\ up' \subseteq Queues
        /\ status' \in [Queues -> {"live", "ended", "failed", "reopened"}]
    BY <1>1, <2>1 DEF TypeOK, Synchronize, Leaves
  <2> QED
    BY <1>1, <2>2 DEF TypeOK, Synchronize, bounds
<1>2. ASSUME NEW q \in Queues, Close(q) PROVE TypeOK'
  BY <1>2 DEF TypeOK, Close, Leaves, source, bounds
<1>3. ASSUME NEW q \in Queues, QueueCrash(q) PROVE TypeOK'
  BY <1>3 DEF TypeOK, QueueCrash, Leaves, source
<1>4. ASSUME NEW q \in Queues, QueueResume(q) PROVE TypeOK'
  <2>1. job' \in [Queues -> [Tasks -> Statuses]]
    BY <1>4 DEF TypeOK, QueueResume, Statuses
  <2>2. unclaimed' \in [Queues -> SUBSET Tasks]
    BY <1>4 DEF TypeOK, QueueResume
  <2> QED
    BY <1>4, <2>1, <2>2, ResumesType DEF TypeOK, QueueResume
<1>5. ASSUME NEW q \in Queues, QueueRefused(q) \/ QueueReopened(q) PROVE TypeOK'
  BY <1>5, ResumesType DEF TypeOK, QueueRefused, QueueReopened
<1>6. ASSUME NEW q \in Queues, StopQueue(q) PROVE TypeOK'
  BY <1>6 DEF TypeOK, StopQueue, source
<1>7. ASSUME NEW q \in Queues, NEW t \in Tasks, OrphanEnds(q, t) PROVE TypeOK'
  BY <1>7 DEF TypeOK, OrphanEnds, source, queues, journals, bounds
<1>8. ASSUME NEW q \in Queues, NEW t \in Tasks, StopTask(q, t) PROVE TypeOK'
  BY <1>8 DEF TypeOK, StopTask, source, bounds
<1>9. ASSUME NEW q \in Queues, NEW t \in Tasks, ResumeTask(q, t) PROVE TypeOK'
  BY <1>9 DEF TypeOK, ResumeTask, source
<1> QED
  BY <1>1, <1>2, <1>3, <1>4, <1>5, <1>6, <1>7, <1>8, <1>9, TickKeepsType DEF QueueNext

LEMMA CommitKeepsType == ASSUME TypeOK, NEW t \in Trainings, FirstCommit(t) PROVE TypeOK'
  BY DEF TypeOK, FirstCommit, source, queues, journals, bounds

LEMMA StutterKeepsType == ASSUME TypeOK, UNCHANGED vars PROVE TypeOK'
  BY DEF TypeOK, vars, source, queues, journals, bounds

\* Every variable keeps its type, for any bounds and any sets of queues and tasks.
THEOREM TypeCorrect == Spec => []TypeOK
<1>1. TypeOK /\ [Next]_vars => TypeOK'
  BY SourceKeepsType, SubmitKeepsType, QueueKeepsType, CommitKeepsType, StutterKeepsType DEF Next
<1> QED
  BY InitType, <1>1, PTL DEF Spec

----------------------------------------------------------------------------
\* An adopted source has no driver.

LEMMA InitAdopt == Init => AdoptInv
  BY InitType DEF Init, AdoptInv, OneDriver, SubmissionInv

LEMMA SourceKeepsAdopt == ASSUME AdoptInv, SourceNext PROVE AdoptInv'
<1>1. TypeOK'
  BY SourceKeepsType DEF AdoptInv
<1>2. OneDriver' /\ SubmissionInv'
  <2> USE BoundsType DEF AdoptInv, OneDriver, SubmissionInv, TypeOK, Submissions
  <2>1. CASE Bind
    BY <2>1 DEF Bind
  <2>2. CASE TakeDriverLock
    BY <2>2 DEF TakeDriverLock
  <2>3. CASE Initialize
    BY <2>3 DEF Initialize
  <2>4. ASSUME NEW t \in Tasks, SourceStart(t) \/ SourceEnd(t) PROVE OneDriver' /\ SubmissionInv'
    BY <2>4 DEF SourceStart, SourceEnd
  <2>5. CASE SourceExit
    BY <2>5 DEF SourceExit
  <2> QED
    BY <2>1, <2>2, <2>3, <2>4, <2>5 DEF SourceNext
<1> QED
  BY <1>1, <1>2 DEF AdoptInv

LEMMA SubmitKeepsAdopt == ASSUME AdoptInv, SubmitNext PROVE AdoptInv'
<1>1. TypeOK'
  BY SubmitKeepsType DEF AdoptInv
<1>2. OneDriver' /\ SubmissionInv'
  <2> USE BoundsType, NamesDiffer DEF AdoptInv, OneDriver, SubmissionInv, TypeOK, Submissions
  <2>1. ASSUME NEW q \in Queues, NEW T \in SUBSET Tasks, Submit(q, T)
        PROVE OneDriver' /\ SubmissionInv'
    BY <2>1 DEF Submit, source
  <2>2. CASE Look
    BY <2>2 DEF Look, source
  <2>3. CASE Provision
    BY <2>3 DEF Provision, Alive
  <2>4. CASE Claim
    BY <2>4 DEF Claim, Claimable
  <2>5. CASE Commit
    BY <2>5 DEF Commit, source
  <2>6. CASE AppendFails
    BY <2>6 DEF AppendFails, Withdrawn
  <2>7. CASE SubmitterKilled
    BY <2>7 DEF SubmitterKilled, source
  <2> QED
    BY <2>1, <2>2, <2>3, <2>4, <2>5, <2>6, <2>7 DEF SubmitNext
<1> QED
  BY <1>1, <1>2 DEF AdoptInv

LEMMA QueueKeepsAdopt == ASSUME AdoptInv, QueueNext PROVE AdoptInv'
<1>1. TypeOK'
  BY QueueKeepsType DEF AdoptInv
<1>2. OneDriver' /\ SubmissionInv'
  <2> USE NamesDiffer DEF AdoptInv, OneDriver, SubmissionInv
  <2>1. ASSUME NEW q \in Queues, Synchronize(q) PROVE OneDriver' /\ SubmissionInv'
    BY <2>1 DEF Synchronize, Free
  <2>2. ASSUME NEW q \in Queues,
               \/ Close(q) \/ QueueCrash(q) \/ StopQueue(q)
               \/ QueueResume(q) \/ QueueRefused(q) \/ QueueReopened(q)
        PROVE OneDriver' /\ SubmissionInv'
    BY <2>2 DEF Close, QueueCrash, StopQueue, QueueResume, QueueRefused, QueueReopened, Resumes, source
  <2>3. ASSUME NEW q \in Queues, NEW t \in Tasks,
               QueueStart(q, t) \/ QueueJoin(q, t) \/ QueueJoinUnasked(q, t) \/ QueueHold(q, t)
        PROVE OneDriver' /\ SubmissionInv'
    BY <2>3 DEF QueueStart, QueueJoin, QueueJoinUnasked, QueueHold, Becomes, source
  <2>4. ASSUME NEW q \in Queues, NEW t \in Tasks,
               OrphanEnds(q, t) \/ StopTask(q, t) \/ ResumeTask(q, t)
        PROVE OneDriver' /\ SubmissionInv'
    BY <2>4 DEF OrphanEnds, StopTask, ResumeTask, source
  <2> QED
    BY <2>1, <2>2, <2>3, <2>4 DEF QueueNext
<1> QED
  BY <1>1, <1>2 DEF AdoptInv

LEMMA Adopted == Spec => []AdoptInv
<1>1. AdoptInv /\ [Next]_vars => AdoptInv'
  <2>1. ASSUME AdoptInv, NEW t \in Trainings, FirstCommit(t) PROVE AdoptInv'
    BY <2>1, CommitKeepsType DEF AdoptInv, OneDriver, SubmissionInv, FirstCommit, source
  <2>2. ASSUME AdoptInv, UNCHANGED vars PROVE AdoptInv'
    BY <2>2, StutterKeepsType DEF AdoptInv, OneDriver, SubmissionInv, vars, source
  <2> QED
    BY <2>1, <2>2, SourceKeepsAdopt, SubmitKeepsAdopt, QueueKeepsAdopt DEF Next
<1> QED
  BY InitAdopt, <1>1, PTL DEF Spec

\* Whatever the order of looks, provisions, claims and registrations: a source
\* that a queue has adopted has no driver of its own (queue_admission.py).
THEOREM OnlyOneDriver == Spec => []OneDriver
  BY Adopted, PTL DEF AdoptInv

----------------------------------------------------------------------------
\* A claim comes back with every outcome.

LEMMA StepSettles ==
    ASSUME AdoptInv, Next, NEW q \in Queues, claim = q, claim' # q,
           ~(app.queue = q /\ app.mine),
           NEW t \in Tasks, job[q][t] # "none"
    PROVE  /\ job[q][t] \in TERMINAL
           /\ job[q][t] \in {"completed", "failed"} => src'[t] = job[q][t]
<1>1. Synchronize(q)
  <2>1. ~SourceNext
    BY DEF SourceNext, Bind, TakeDriverLock, Initialize, SourceStart, SourceEnd, SourceExit
  <2>2. ~SubmitNext
    <3>1. ~Claim
      BY NamesDiffer DEF Claim, Claimable
    <3>2. ~AppendFails
      BY DEF AppendFails, Withdrawn, AdoptInv, SubmissionInv
    <3> QED
      BY <3>1, <3>2 DEF SubmitNext, Submit, Look, Provision, Commit, SubmitterKilled, source
  <2>3. PICK p \in Queues :
           \/ Synchronize(p) \/ Close(p) \/ QueueCrash(p) \/ StopQueue(p)
           \/ QueueResume(p) \/ QueueRefused(p) \/ QueueReopened(p)
           \/ \E u \in Tasks :
                 \/ QueueStart(p, u) \/ QueueJoin(p, u) \/ QueueJoinUnasked(p, u) \/ QueueHold(p, u)
                 \/ OrphanEnds(p, u) \/ StopTask(p, u) \/ ResumeTask(p, u)
    BY <2>1, <2>2 DEF Next, QueueNext, FirstCommit, source
  <2>4. Synchronize(p)
    BY <2>3 DEF Close, QueueCrash, StopQueue, QueueResume, QueueRefused, QueueReopened, Resumes,
                QueueStart, QueueJoin, QueueJoinUnasked, QueueHold, Becomes, OrphanEnds, StopTask,
                ResumeTask, source
  <2> QED
    BY <2>4 DEF Synchronize
<1>2. Drained(q) /\ src' = Reflected(q)
  BY <1>1 DEF Synchronize, Returns
<1> QED
  BY <1>2 DEF Drained, Reflected

\* A claim is withdrawn by the submission that took it, or returned with every
\* outcome of its tasks in the source (batch_append.synchronize).
THEOREM ReturnsSettled == Spec => ReturnedSettled
<1>1. AdoptInv /\ [Next]_vars =>
        [\A q \in Queues :
          claim = q /\ claim' # q =>
             \/ app.queue = q /\ app.mine
             \/ \A t \in Tasks : job[q][t] # "none" =>
                   /\ job[q][t] \in TERMINAL
                   /\ (job[q][t] \in {"completed", "failed"} => src'[t] = job[q][t])]_vars
  BY StepSettles
<1> QED
  BY <1>1, Adopted, PTL DEF Spec, ReturnedSettled

----------------------------------------------------------------------------
\* The claim stands while its work does, but for work that had stopped before.

LEMMA InitHeld == Init => HeldInv
  BY DEF Init, HeldInv, ClaimHeld, NewClaimIdle, Working

\* Nothing that HeldInv speaks of changes.
LEMMA UnheldUnchanged ==
    ASSUME HeldInv, job' = job, unclaimed' = unclaimed, claim' = claim,
           app' = app \/ app' = NoSubmission
    PROVE  HeldInv'
  BY DEF HeldInv, ClaimHeld, NewClaimIdle, Working

LEMMA SourceKeepsHeld == ASSUME HeldInv, SourceNext PROVE HeldInv'
<1>1. job' = job /\ unclaimed' = unclaimed /\ claim' = claim /\ app' = app
  BY DEF SourceNext, Bind, TakeDriverLock, Initialize, SourceStart, SourceEnd, SourceExit, queues
<1> QED
  BY <1>1, UnheldUnchanged

LEMMA SubmitKeepsHeld == ASSUME AdoptInv, HeldInv, SubmitNext PROVE HeldInv'
<1> USE NamesDiffer DEF HeldInv, ClaimHeld, NewClaimIdle, Working
<1>1. ASSUME NEW q \in Queues, NEW T \in SUBSET Tasks, Submit(q, T) PROVE HeldInv'
  BY <1>1 DEF Submit, source, queues
<1>2. CASE Look
  BY <1>2 DEF Look, source, queues, AdoptInv, TypeOK, Submissions
<1>3. CASE Provision
  BY <1>3 DEF Provision, queues, AdoptInv, TypeOK, Submissions
<1>4. CASE Claim
  <2>1. /\ claim = None /\ claim' = app.queue /\ app'.queue = app.queue /\ app.queue \in Queues
        /\ job' = job /\ unclaimed' = unclaimed
    BY <1>4 DEF Claim, Claimable, queues, AdoptInv, TypeOK, Submissions
  <2>2. \A q \in Queues, t \in Tasks : Working(q, t) => t \in unclaimed[q]
    BY <2>1
  <2> QED
    BY <2>1, <2>2
<1>5. CASE Commit
  <2>1. /\ app \in Submissions /\ claim = app.queue /\ app' = NoSubmission
        /\ claim' = claim /\ unclaimed' = unclaimed
    BY <1>5 DEF Commit, source, AdoptInv, TypeOK, SubmissionInv
  <2>2. \A q \in Queues, t \in Tasks :
          job'[q][t] = job[q][t] \/ (q = app.queue /\ job'[q][t] = "queued")
    BY <1>5, <2>1 DEF Commit, AdoptInv, TypeOK, Submissions
  <2> QED
    BY <2>1, <2>2
<1>6. CASE AppendFails
  <2>1. app' = NoSubmission /\ job' = job /\ unclaimed' = unclaimed
    BY <1>6 DEF AppendFails, queues
  <2>2. CASE app.mine
    <3>1. claim = app.queue /\ app.queue \in Queues
      BY <1>6, <2>2 DEF AppendFails, AdoptInv, TypeOK, Submissions, SubmissionInv
    <3>2. \A q \in Queues, t \in Tasks : Working(q, t) => t \in unclaimed[q]
      BY <1>6, <2>2, <3>1 DEF AppendFails
    <3> QED
      BY <2>1, <3>2
  <2>3. CASE ~app.mine
    BY <1>6, <2>1, <2>3 DEF AppendFails, Withdrawn
  <2> QED
    BY <2>2, <2>3
<1>7. CASE SubmitterKilled
  BY <1>7, UnheldUnchanged DEF SubmitterKilled, source, queues
<1> QED
  BY <1>1, <1>2, <1>3, <1>4, <1>5, <1>6, <1>7 DEF SubmitNext

\* A queue that no submission is using changes its tasks: what works then worked
\* before, or had stopped and is remembered if there is no claim.
LEMMA ChangeKeepsHeld ==
    ASSUME AdoptInv, HeldInv, NEW q \in Queues, Free(q), claim' = claim, app' = app,
           \A p \in Queues \ {q} : job'[p] = job[p] /\ unclaimed'[p] = unclaimed[p],
           unclaimed[q] \subseteq unclaimed'[q],
           \A t \in Tasks : Working(q, t)' =>
              Working(q, t) \/ claim = q \/ t \in unclaimed'[q]
    PROVE  HeldInv'
<1>1. ASSUME NEW p \in Queues, NEW t \in Tasks, Working(p, t)'
      PROVE  claim' = p \/ t \in unclaimed'[p]
  BY <1>1 DEF HeldInv, ClaimHeld, Working
<1>2. app # NoSubmission => app.queue \in Queues /\ app.queue # q
  BY DEF Free, AdoptInv, TypeOK, Submissions
<1>3. NewClaimIdle'
  BY <1>2 DEF HeldInv, NewClaimIdle, Working
<1> QED
  BY <1>1, <1>3 DEF HeldInv, ClaimHeld

LEMMA BecomesKeepsHeld ==
    ASSUME AdoptInv, HeldInv, NEW q \in Queues, NEW t \in Tasks, NEW next,
           Becomes(q, t, next), Free(q),
           next \in {"queued", "running"} => Working(q, t) \/ job[q][t] = "stopped"
    PROVE  HeldInv'
<1>1. /\ claim' = claim /\ app' = app
      /\ \A p \in Queues, u \in Tasks :
           job'[p][u] = IF p = q /\ u = t THEN next ELSE job[p][u]
      /\ \A p \in Queues \ {q} : job'[p] = job[p]
  BY DEF Becomes, source, AdoptInv, TypeOK
<1>2. /\ \A p \in Queues \ {q} : unclaimed'[p] = unclaimed[p]
      /\ unclaimed[q] \subseteq unclaimed'[q]
      /\ job[q][t] = "stopped" /\ claim # q => t \in unclaimed'[q]
  BY DEF Becomes, AdoptInv, TypeOK
<1>3. ASSUME NEW u \in Tasks, Working(q, u)'
      PROVE  Working(q, u) \/ claim = q \/ u \in unclaimed'[q]
  BY <1>1, <1>2, <1>3 DEF Working
<1> QED
  BY <1>1, <1>2, <1>3, ChangeKeepsHeld

LEMMA QueueKeepsHeld == ASSUME AdoptInv, HeldInv, QueueNext PROVE HeldInv'
<1>1. ASSUME NEW q \in Queues, Synchronize(q) PROVE HeldInv'
  <2>1. job' = job /\ unclaimed' = unclaimed /\ app' = app
    BY <1>1 DEF Synchronize
  <2>2. CASE claim' = claim
    BY <2>1, <2>2, UnheldUnchanged
  <2>3. CASE claim' # claim
    <3>1. claim = q /\ Drained(q)
      BY <1>1, <2>3 DEF Synchronize, Returns
    <3>2. \A p \in Queues, t \in Tasks : Working(p, t) => t \in unclaimed[p]
      BY <3>1 DEF HeldInv, ClaimHeld, Drained, TERMINAL, Working
    <3> QED
      BY <2>1, <3>2 DEF HeldInv, ClaimHeld, NewClaimIdle, Working
  <2> QED
    BY <2>2, <2>3
<1>2. ASSUME NEW q \in Queues, Close(q) \/ QueueCrash(q) \/ StopQueue(q) PROVE HeldInv'
  BY <1>2, UnheldUnchanged DEF Close, QueueCrash, StopQueue, source
<1>3. ASSUME NEW q \in Queues, QueueResume(q) PROVE HeldInv'
  <2>1. /\ claim' = claim /\ app' = app /\ Free(q)
        /\ \A p \in Queues \ {q} : job'[p] = job[p] /\ unclaimed'[p] = unclaimed[p]
        /\ \A t \in Tasks : job'[q][t] = IF t \in Unended(q) THEN "queued" ELSE job[q][t]
    BY <1>3 DEF QueueResume, Resumes, source, AdoptInv, TypeOK
  <2>2. /\ unclaimed[q] \subseteq unclaimed'[q]
        /\ \A t \in Tasks : job[q][t] = "stopped" => claim = q \/ t \in unclaimed'[q]
    BY <1>3 DEF QueueResume, AdoptInv, TypeOK
  <2>3. ASSUME NEW t \in Tasks, Working(q, t)'
        PROVE  Working(q, t) \/ claim = q \/ t \in unclaimed'[q]
    BY <2>1, <2>2, <2>3 DEF Working, Unended
  <2> QED
    BY <2>1, <2>2, <2>3, ChangeKeepsHeld
<1>4. ASSUME NEW q \in Queues, QueueRefused(q) \/ QueueReopened(q) PROVE HeldInv'
  BY <1>4, UnheldUnchanged DEF QueueRefused, QueueReopened, Resumes, source
<1>5. ASSUME NEW q \in Queues, NEW t \in Tasks, QueueStart(q, t) PROVE HeldInv'
  <2>1. Free(q) /\ Working(q, t) /\ (Becomes(q, t, "running") \/ Becomes(q, t, "failed"))
    BY <1>5 DEF QueueStart, Ticking, Working
  <2> QED
    BY <2>1, BecomesKeepsHeld
<1>6. ASSUME NEW q \in Queues, NEW t \in Tasks, QueueJoin(q, t) \/ QueueJoinUnasked(q, t)
      PROVE HeldInv'
  <2>1. Free(q) /\ \E next \in {"completed", "failed", "stopped"} : Becomes(q, t, next)
    BY <1>6 DEF QueueJoin, QueueJoinUnasked, Ticking
  <2> QED
    BY <2>1, BecomesKeepsHeld
<1>7. ASSUME NEW q \in Queues, NEW t \in Tasks, QueueHold(q, t) PROVE HeldInv'
  <2>1. Free(q) /\ (Becomes(q, t, "stopped") \/ (Becomes(q, t, "queued") /\ job[q][t] = "stopped"))
    BY <1>7 DEF QueueHold, Ticking
  <2> QED
    BY <2>1, BecomesKeepsHeld
<1>8. ASSUME NEW q \in Queues, NEW t \in Tasks,
             OrphanEnds(q, t) \/ StopTask(q, t) \/ ResumeTask(q, t)
      PROVE HeldInv'
  BY <1>8, UnheldUnchanged DEF OrphanEnds, StopTask, ResumeTask, source, queues
<1> QED
  BY <1>1, <1>2, <1>3, <1>4, <1>5, <1>6, <1>7, <1>8 DEF QueueNext

\* Adopted work that waits or runs is covered by its claim, which blocks the
\* source's own driver (docs/current-workflow.md:383), save for stopped work that
\* was queued again after the claim had gone back.
THEOREM ClaimIsHeld == Spec => []ClaimHeld
<1>1. AdoptInv /\ HeldInv /\ [Next]_vars => HeldInv'
  <2>1. ASSUME HeldInv, NEW t \in Trainings, FirstCommit(t) PROVE HeldInv'
    BY <2>1, UnheldUnchanged DEF FirstCommit, source, queues
  <2>2. ASSUME HeldInv, UNCHANGED vars PROVE HeldInv'
    BY <2>2, UnheldUnchanged DEF vars, source, queues
  <2> QED
    BY <2>1, <2>2, SourceKeepsHeld, SubmitKeepsHeld, QueueKeepsHeld DEF Next
<1>2. HeldInv => ClaimHeld
  BY DEF HeldInv
<1> QED
  BY InitHeld, <1>1, <1>2, Adopted, PTL DEF Spec
=============================================================================
