--------------------------- MODULE BatchAdoption ---------------------------
(***************************************************************************)
(* Tasks of one directory batch (the source) in the live queues of others  *)
(* (experiments/batch_append.py, queue_admission.py): a submission claims  *)
(* the quiescent source for its queue, the queue runs the tasks, writes    *)
(* their outcome back into the source and returns the claim.  Meanwhile    *)
(* the source may be resumed by a driver of its own.                       *)
(*                                                                         *)
(* An action is what happens under one lock: the runtime transaction of a  *)
(* queue (held by a submission from beginning to end), driver.lock of the  *)
(* source, or the admission transaction of the source.  A lock that is     *)
(* taken makes the late comer fail, it never waits for driver.lock.        *)
(***************************************************************************)
EXTENDS Integers, FiniteSets

CONSTANTS
    Queues, Tasks,
    None,
    Source,       \* the source's own driver, as the one who runs a task
    Trainings,    \* tasks that train, and can go on only from a saved learner
    MaxDrives,    \* bound on the generations of the source's driver
    MaxKills,     \* bound on the submissions that are killed
    MaxCrashes,   \* bound on the crashes of queue drivers
    MaxOrders     \* bound on the stops of whole queues and the resumes of tasks

ASSUME NamesDiffer == None \notin Queues /\ Source \notin Queues \cup {None}
ASSUME TrainingsAreTasks == Trainings \subseteq Tasks
ASSUME BoundsType ==
    MaxDrives \in Nat /\ MaxKills \in Nat /\ MaxCrashes \in Nat /\ MaxOrders \in Nat

VARIABLES
    \* the source
    src,         \* batch.json: outcome of every task
    claim,       \* admission.json: the queue that has adopted the source
    admitted,    \* admission.json: generation of the owner it belongs to
    quiescent,   \* admission.json: provisioned for a source without a driver
    owner,       \* owner.json: generation of the last registered driver, 0 if none
    driver,      \* where that driver is
    \* the queues
    up,          \* queues whose driver lives
    open,        \* runtime.json: accepting
    status,      \* batch.json and runtime.json: what has become of the queue
    job,         \* runtime.json: additions of every queue
    hold,        \* runtime.json: stopped_tasks of every queue
    halted,      \* runtime.json: queues that are stopping altogether
    dirty,       \* queues whose driver has to synchronize before it goes on
    \* both
    worker,      \* who runs a task: the holder of its trial.lock
    saved,       \* trainings with a continuation/current.json
    app,         \* the submission under way
    \* history, which no step depends on
    unclaimed,   \* stopped work that was queued again when its claim had gone back
    kills, crashes, orders

source == <<src, claim, admitted, quiescent, owner, driver>>
journals == <<up, open, status, hold, halted>>
queues == <<journals, job, dirty, unclaimed>>
bounds == <<kills, crashes, orders>>
vars == <<source, queues, worker, saved, app, bounds>>

\* A deferred or queued task is open, one that is running, stopped or was
\* interrupted has begun: either may be run.
Outcomes == {"open", "begun", "completed", "failed"}

Statuses == {"none", "queued", "running", "stopped", "completed", "failed"}

\* runtime_control.TERMINAL
TERMINAL == {"stopped", "completed", "failed"}

NoSubmission == [queue |-> None]

Submissions ==
    [queue : Queues, tasks : SUBSET Tasks, step : {"look", "provision", "claim", "commit"},
     seen : 0..MaxDrives, mine : BOOLEAN]

TypeOK ==
    /\ src \in [Tasks -> Outcomes]
    /\ claim \in Queues \cup {None}
    /\ admitted \in 0..MaxDrives /\ quiescent \in BOOLEAN /\ owner \in 0..MaxDrives
    /\ driver \in {"off", "bound", "locked", "running"}
    /\ up \subseteq Queues /\ open \subseteq Queues /\ dirty \subseteq Queues
    /\ halted \subseteq Queues
    /\ status \in [Queues -> {"live", "ended", "failed", "reopened"}]
    /\ job \in [Queues -> [Tasks -> Statuses]]
    /\ hold \in [Queues -> SUBSET Tasks]
    /\ unclaimed \in [Queues -> SUBSET Tasks]
    /\ worker \in [Tasks -> Queues \cup {None, Source}] /\ saved \subseteq Trainings
    /\ app \in Submissions \cup {NoSubmission}
    /\ kills \in 0..MaxKills /\ crashes \in 0..MaxCrashes /\ orders \in 0..MaxOrders

----------------------------------------------------------------------------
RunBy(d) == {t \in Tasks : worker[t] = d}

\* The driver that owner.json names, or a worker of its session, is alive.
Alive == driver # "off" \/ RunBy(Source) # {}

\* The submission holds driver.lock of the source.
Adopting == app # NoSubmission /\ app.step \in {"look", "provision", "claim"}

\* The runtime journal of q is not in the hands of a submission.
Free(q) == app.queue # q

\* The driver of q is in the middle of a tick or about to begin one.
Ticking(q) == q \in up /\ Free(q) /\ q \notin dirty

\* The journal of q accepts submissions.
Accepts(q) == q \in open /\ status[q] \in {"live", "reopened"}

\* A started training can go on only from what it has saved.
Recoverable(t) == t \notin Trainings \ saved

\* The work of q is done: all that is adopted is terminal.
Drained(q) == \A t \in Tasks : job[q][t] \in TERMINAL \cup {"none"}

----------------------------------------------------------------------------
\* The source's own driver.

\* Scope.bind under registration(): no live owner, no adopted source.
Bind ==
    /\ ~Alive /\ claim = None
    /\ owner < MaxDrives
    /\ owner' = owner + 1
    /\ driver' = "bound"
    /\ UNCHANGED <<src, claim, admitted, quiescent, queues, worker, saved, app, bounds>>

\* execute_saved takes driver.lock, or fails while a submission holds it.
TakeDriverLock ==
    /\ driver = "bound"
    /\ driver' = IF Adopting THEN "off" ELSE "locked"
    /\ UNCHANGED <<src, claim, admitted, quiescent, owner, queues, worker, saved, app, bounds>>

\* initialize(): a fresh table for this generation, unless adopted meanwhile;
\* with --retry-failed, or a new selection, failed tasks are open again.
Initialize ==
    /\ driver = "locked"
    /\ IF claim # None
       THEN driver' = "off" /\ UNCHANGED <<admitted, quiescent, src>>
       ELSE /\ driver' = "running"
            /\ admitted' = owner /\ quiescent' = FALSE
            /\ \E again \in BOOLEAN :
                 src' = [t \in Tasks |-> IF again /\ src[t] = "failed" THEN "open" ELSE src[t]]
    /\ UNCHANGED <<claim, owner, queues, worker, saved, app, bounds>>

\* A worker of the source; it fails if a queue's worker holds trial.lock.
SourceStart(t) ==
    /\ driver = "running" /\ src[t] \in {"open", "begun"} /\ worker[t] # Source
    /\ IF worker[t] = None
       THEN worker' = [worker EXCEPT ![t] = Source] /\ src' = [src EXCEPT ![t] = "begun"]
       ELSE UNCHANGED worker /\ src' = [src EXCEPT ![t] = "failed"]
    /\ UNCHANGED <<claim, admitted, quiescent, owner, driver, queues, saved, app, bounds>>

\* It ends; without a driver its outcome is not published.
SourceEnd(t) ==
    /\ worker[t] = Source
    /\ worker' = [worker EXCEPT ![t] = None]
    /\ \E outcome \in {"begun", "failed"} \cup (IF Recoverable(t) THEN {"completed"} ELSE {}) :
         src' = IF driver = "running" THEN [src EXCEPT ![t] = outcome] ELSE src
    /\ UNCHANGED <<claim, admitted, quiescent, owner, driver, queues, saved, app, bounds>>

\* The driver exits, orderly (then its workers are gone) or in a crash.
SourceExit ==
    /\ driver # "off"
    /\ driver' = "off"
    /\ UNCHANGED <<src, claim, admitted, quiescent, owner, queues, worker, saved, app, bounds>>

----------------------------------------------------------------------------
\* batch_append.append, one submission to one queue.

\* submission() and _check_owner, driver.lock, _collect: tasks that are new to q
\* and can go on.  A source that q has claimed before needs no second claim.
Submit(q, T) ==
    /\ app = NoSubmission /\ Accepts(q)
    /\ claim \in {None, q} /\ (claim = q \/ ~Alive)
    /\ driver \notin {"locked", "running"}
    /\ T # {}
    /\ \A t \in T :
          /\ job[q][t] = "none" /\ src[t] \in {"open", "begun"}
          /\ src[t] = "begun" => Recoverable(t)
    /\ app' = [queue |-> q, tasks |-> T, step |-> IF claim = q THEN "commit" ELSE "look",
               seen |-> 0, mine |-> FALSE]
    /\ UNCHANGED <<source, queues, worker, saved, bounds>>

\* read(owner_root)
Look ==
    /\ app # NoSubmission /\ app.step = "look"
    /\ app' = [app EXCEPT !.step = "provision", !.seen = owner]
    /\ UNCHANGED <<source, queues, worker, saved, bounds>>

\* completed_source(): the same owner as before, with nothing left running.
Provision ==
    /\ app # NoSubmission /\ app.step = "provision"
    /\ owner = app.seen /\ ~Alive /\ claim = None
    /\ admitted' = owner /\ quiescent' = TRUE
    /\ app' = [app EXCEPT !.step = "claim"]
    /\ UNCHANGED <<src, claim, owner, driver, queues, worker, saved, bounds>>

\* Mutant: the claim trusts the look at the owner taken before.
ClaimableUnchecked(seen) == admitted = seen /\ claim = None

\* The generation that was provisioned is still the one that is registered.
Claimable(seen) ==
    /\ admitted = seen /\ claim = None
    /\ owner = seen /\ (owner = 0 => quiescent)

Claim ==
    /\ app # NoSubmission /\ app.step = "claim"
    /\ Claimable(app.seen)
    /\ claim' = app.queue
    /\ app' = [app EXCEPT !.step = "commit", !.mine = TRUE]
    /\ UNCHANGED <<src, admitted, quiescent, owner, driver, queues, worker, saved, bounds>>

\* The transaction of the queue ends: its tasks are queued.
Commit ==
    /\ app # NoSubmission /\ app.step = "commit"
    /\ job' = [job EXCEPT ![app.queue] =
                  [t \in Tasks |-> IF t \in app.tasks THEN "queued" ELSE @[t]]]
    /\ app' = NoSubmission
    /\ UNCHANGED <<source, journals, dirty, unclaimed, worker, saved, bounds>>

\* Mutant: a submission that fails leaves its claim behind.
WithdrawnNever == claim

\* Only a claim of this submission is withdrawn.
Withdrawn == IF app.mine THEN None ELSE claim

\* A check fails, or a later batch of the same submission is rejected.
AppendFails ==
    /\ app # NoSubmission
    /\ claim' = Withdrawn
    /\ app' = NoSubmission
    /\ UNCHANGED <<src, admitted, quiescent, owner, driver, queues, worker, saved, bounds>>

\* The submitter is killed: its locks are gone, what it wrote is not.
SubmitterKilled ==
    /\ app # NoSubmission /\ kills < MaxKills
    /\ kills' = kills + 1
    /\ app' = NoSubmission
    /\ UNCHANGED <<source, queues, worker, saved, crashes, orders>>

----------------------------------------------------------------------------
\* The driver of a queue: NativeScheduler.tick.

\* What is stopped and queued again without a claim is remembered.
Becomes(q, t, next) ==
    /\ job' = [job EXCEPT ![q][t] = next]
    /\ dirty' = dirty \cup {q}
    /\ unclaimed' = IF job[q][t] = "stopped" /\ claim # q
                    THEN [unclaimed EXCEPT ![q] = @ \cup {t}] ELSE unclaimed
    /\ UNCHANGED <<source, up, open, status, hold, saved, app, kills, crashes>>

\* A stop of the task, or of everything, stands.
Stopping(q, t) == t \in hold[q] \/ q \in halted

\* A worker is started; it fails at once if the source runs the task.
QueueStart(q, t) ==
    /\ Ticking(q) /\ job[q][t] = "queued" /\ ~Stopping(q, t)
    /\ IF worker[t] = None
       THEN worker' = [worker EXCEPT ![t] = q] /\ Becomes(q, t, "running")
       ELSE UNCHANGED worker /\ Becomes(q, t, "failed")
    /\ UNCHANGED <<halted, orders>>

\* A worker has exited and is joined.
QueueJoin(q, t) ==
    /\ Ticking(q) /\ job[q][t] = "running"
    /\ worker' = [worker EXCEPT ![t] = None]
    /\ \/ Becomes(q, t, "failed")
       \/ Recoverable(t) /\ Becomes(q, t, "completed")
       \/ Recoverable(t) /\ Stopping(q, t) /\ Becomes(q, t, "stopped")
    /\ UNCHANGED <<halted, orders>>

\* A worker that has stopped without a standing stop of its task, because it was
\* interrupted or its stop was withdrawn, stops the whole queue.
QueueJoinUnasked(q, t) ==
    /\ Ticking(q) /\ job[q][t] = "running" /\ ~Stopping(q, t) /\ orders < MaxOrders
    /\ worker' = [worker EXCEPT ![t] = None]
    /\ Becomes(q, t, "stopped")
    /\ halted' = halted \cup {q} /\ orders' = orders + 1

\* A task without a process follows the stops: one that waits is marked, one
\* whose stop was lifted is queued again.
QueueHold(q, t) ==
    /\ Ticking(q)
    /\ \/ job[q][t] = "queued" /\ Stopping(q, t) /\ Becomes(q, t, "stopped")
       \/ job[q][t] = "stopped" /\ ~Stopping(q, t) /\ Becomes(q, t, "queued")
    /\ UNCHANGED <<worker, halted, orders>>

\* The driver of q is gone and has left this status behind.
Leaves(q, last) == up' = up \ {q} /\ status' = [status EXCEPT ![q] = last]

\* Mutant: the claim is returned as soon as no worker runs.
ReturnsEarly(q) == \A t \in Tasks : job[q][t] # "running"

\* synchronize() returns the claim when every adopted task is terminal.
Returns(q) == Drained(q)

\* Mutant: outcomes are not written back.
ReflectedNever(q) == src

\* The outcomes of all adopted tasks, whenever they were adopted.
Reflected(q) ==
    [t \in Tasks |-> CASE job[q][t] = "none" -> src[t]
                       [] job[q][t] = "queued" -> "open"
                       [] job[q][t] \in {"running", "stopped"} -> "begun"
                       [] OTHER -> job[q][t]]

\* The tick ends in _persist and synchronize(): under driver.lock of the source,
\* unless the source belongs to somebody else.
Synchronize(q) ==
    /\ q \in up /\ q \in dirty /\ Free(q)
    /\ dirty' = dirty \ {q}
    /\ IF claim # q
       THEN UNCHANGED <<src, claim, up, status>>
       ELSE IF driver \in {"locked", "running"}
       THEN Leaves(q, "failed") /\ UNCHANGED <<src, claim>>
       ELSE /\ src' = Reflected(q)
            /\ claim' = IF Returns(q) THEN None ELSE claim
            /\ UNCHANGED <<up, status>>
    /\ UNCHANGED <<admitted, quiescent, owner, driver, open, job, hold, halted, unclaimed,
                   worker, saved, app, bounds>>

\* finish_if_drained: the queue is closed in the same transaction that found
\* it without work.
Close(q) ==
    /\ Ticking(q) /\ Drained(q)
    /\ open' = open \ {q}
    /\ Leaves(q, IF q \notin halted /\ \E t \in Tasks : job[q][t] = "failed"
                 THEN "failed" ELSE "ended")
    /\ UNCHANGED <<source, job, hold, halted, dirty, unclaimed, worker, saved, app, bounds>>

\* The driver of the queue is killed, or interrupted, which it records; its
\* workers finish on their own.
QueueCrash(q) ==
    /\ q \in up /\ crashes < MaxCrashes
    /\ crashes' = crashes + 1
    /\ \E last \in {"live", "ended"} : Leaves(q, last)
    /\ dirty' = dirty \ {q}
    /\ UNCHANGED <<source, open, job, hold, halted, unclaimed, worker, saved, app,
                   kills, orders>>

OrphanEnds(q, t) ==
    /\ q \notin up /\ worker[t] = q
    /\ worker' = [worker EXCEPT ![t] = None]
    /\ UNCHANGED <<source, queues, saved, app, bounds>>

\* A session that finds no continuation writes one before anything else.
FirstCommit(t) ==
    /\ worker[t] # None /\ ~Recoverable(t)
    /\ saved' = saved \cup {t}
    /\ UNCHANGED <<source, queues, worker, app, bounds>>

\* Adopted work of q that has not come to an end, and what of it is lost: all
\* trainings that are neither queued nor saved, whether or not they ever started.
Unended(q) == {t \in Tasks : job[q][t] \in {"queued", "running", "stopped"}}
Lost(q) == {t \in Unended(q) : job[q][t] # "queued" /\ ~Recoverable(t)}

\* batch-run --resume-missing or batch-resume of the queue's own directory:
\* restart(), unless the last driver was killed in its work, opens the journal
\* and forgets the stop of everything.
Resumes(q) ==
    /\ q \notin up /\ Free(q) /\ RunBy(q) = {}
    /\ IF status[q] = "live" THEN UNCHANGED <<open, halted>>
       ELSE open' = open \cup {q} /\ halted' = halted \ {q}
    /\ UNCHANGED <<source, hold, worker, saved, app, bounds>>

\* execute_saved queues all adopted tasks that have not come to an end.
QueueResume(q) ==
    /\ Resumes(q) /\ Lost(q) = {}
    /\ up' = up \cup {q} /\ status' = [status EXCEPT ![q] = "live"]
    /\ job' = [job EXCEPT ![q] = [t \in Tasks |-> IF t \in Unended(q) THEN "queued" ELSE @[t]]]
    /\ unclaimed' = IF claim = q THEN unclaimed
                    ELSE [unclaimed EXCEPT ![q] = @ \cup {t \in Tasks : job[q][t] = "stopped"}]
    /\ dirty' = dirty \cup {q}

\* The ValueError discards the transaction, and the queue has failed.
QueueRefused(q) ==
    /\ Resumes(q) /\ Lost(q) # {}
    /\ status' = [status EXCEPT ![q] = "failed"]
    /\ UNCHANGED <<up, job, dirty, unclaimed>>

\* A queue that has failed is resumed without --retry-failed: its journal is
\* opened, but nobody drives it.
QueueReopened(q) ==
    /\ Resumes(q) /\ status[q] \in {"failed", "reopened"}
    /\ status' = [status EXCEPT ![q] = "reopened"]
    /\ UNCHANGED <<up, job, dirty, unclaimed>>

\* The driver of q applies a command: batch-stop and batch-resume of one task,
\* and batch-stop of everything, which also closes the queue to submissions.
StopTask(q, t) ==
    /\ q \in up /\ Free(q) /\ t \notin hold[q] /\ t \in Unended(q)
    /\ hold' = [hold EXCEPT ![q] = @ \cup {t}]
    /\ UNCHANGED <<source, up, open, status, job, halted, dirty, unclaimed, worker, saved, app, bounds>>

ResumeTask(q, t) ==
    /\ q \in up /\ Free(q) /\ t \in hold[q] /\ orders < MaxOrders
    /\ orders' = orders + 1
    /\ hold' = [hold EXCEPT ![q] = @ \ {t}]
    /\ UNCHANGED <<source, up, open, status, job, halted, dirty, unclaimed, worker, saved, app,
                   kills, crashes>>

StopQueue(q) ==
    /\ q \in up /\ Free(q) /\ orders < MaxOrders
    /\ orders' = orders + 1
    /\ halted' = halted \cup {q} /\ open' = open \ {q}
    /\ UNCHANGED <<source, up, status, job, hold, dirty, unclaimed, worker, saved, app,
                   kills, crashes>>

----------------------------------------------------------------------------
Init ==
    /\ src = [t \in Tasks |-> "open"]
    /\ claim = None /\ admitted = 0 /\ quiescent = FALSE /\ owner = 0 /\ driver = "off"
    /\ up = Queues /\ open = Queues /\ dirty = {} /\ halted = {}
    /\ status = [q \in Queues |-> "live"]
    /\ job = [q \in Queues |-> [t \in Tasks |-> "none"]]
    /\ hold = [q \in Queues |-> {}] /\ unclaimed = [q \in Queues |-> {}]
    /\ worker = [t \in Tasks |-> None] /\ saved = {}
    /\ app = NoSubmission
    /\ kills = 0 /\ crashes = 0 /\ orders = 0

SourceNext ==
    \/ Bind \/ TakeDriverLock \/ Initialize \/ SourceExit
    \/ \E t \in Tasks : SourceStart(t) \/ SourceEnd(t)

SubmitNext ==
    \/ \E q \in Queues, T \in SUBSET Tasks : Submit(q, T)
    \/ Look \/ Provision \/ Claim \/ Commit \/ AppendFails \/ SubmitterKilled

QueueNext ==
    \E q \in Queues :
        \/ Synchronize(q) \/ Close(q) \/ QueueCrash(q) \/ StopQueue(q)
        \/ QueueResume(q) \/ QueueRefused(q) \/ QueueReopened(q)
        \/ \E t \in Tasks :
              \/ QueueStart(q, t) \/ QueueJoin(q, t) \/ QueueJoinUnasked(q, t) \/ QueueHold(q, t)
              \/ OrphanEnds(q, t) \/ StopTask(q, t) \/ ResumeTask(q, t)

Next == SourceNext \/ SubmitNext \/ QueueNext \/ \E t \in Trainings : FirstCommit(t)

Spec == Init /\ [][Next]_vars

\* A submission comes to an end; a queue is recovered, its workers end and its
\* driver ticks.
Fairness ==
    /\ WF_vars(Look \/ Provision \/ Claim \/ Commit \/ AppendFails)
    /\ \A q \in Queues :
        /\ SF_vars(Synchronize(q)) /\ SF_vars(QueueResume(q))
        /\ \A t \in Tasks :
             /\ SF_vars(QueueStart(q, t) \/ QueueJoin(q, t) \/ QueueHold(q, t))
             /\ WF_vars(OrphanEnds(q, t))

FairSpec == Spec /\ Fairness

----------------------------------------------------------------------------
\* Between the look at the owner, the provision, the claim and the registration
\* of a driver, in whatever order they come: an adopted source has no driver.
\* So a queue that writes outcomes back never finds driver.lock taken.
OneDriver == claim # None => driver = "off"

\* Adopted work of q that waits for a worker or has one.
Working(q, t) == job[q][t] \in {"queued", "running"}

\* "Cross-batch execution uses the queue's admission ceiling; its ownership claim
\* blocks a competing original-batch driver until the selected work drains"
\* (docs/current-workflow.md:383): in every interleaving of submissions, drivers,
\* crashes, stops and resumes the claim stands while its work does, save for work
\* that had stopped, and thereby drained, and was queued again.
ClaimHeld == \A q \in Queues, t \in Tasks : Working(q, t) => claim = q \/ t \in unclaimed[q]

\* A claim is returned only by the submission that failed after taking it, or
\* once all the work is done and every outcome is in the source: also if the
\* queue's driver died between two of its writes, or a submission came between.
ReturnedSettled ==
    [][\A q \in Queues :
          claim = q /\ claim' # q =>
             \/ app.queue = q /\ app.mine
             \/ \A t \in Tasks : job[q][t] # "none" =>
                   /\ job[q][t] \in TERMINAL
                   /\ (job[q][t] \in {"completed", "failed"} => src'[t] = job[q][t])]_vars

\* Every resume of q is refused: one of its trainings has nothing to go on from.
Stranded(q) == q \notin up /\ RunBy(q) = {} /\ Lost(q) # {}

\* A claim comes back and the source can be resumed on its own again, unless the
\* submitter was killed or the queue can no longer be resumed.
ClaimReturned ==
    \A q \in Queues : claim = q /\ kills = 0 ~> claim # q \/ kills > 0 \/ Stranded(q)
=============================================================================
