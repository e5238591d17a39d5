--------------------------- MODULE RuntimeControl ---------------------------
(***************************************************************************)
(* The command journal of a batch (experiments/runtime_control.py) with    *)
(* the scheduler that executes it (NativeScheduler.tick in                 *)
(* experiments/runtime_workers.py and the tail loop of execute_saved in    *)
(* experiments/author_batch.py) and the workers it starts.                 *)
(*                                                                         *)
(* Operators write the journal at any time under a file lock; the          *)
(* scheduler takes that lock several times in one tick.  One scheduler     *)
(* owns a journal.  Every task here is an addition, the kind of task the   *)
(* tail loop executes.  Command IDs are finite: they bound the behaviours. *)
(***************************************************************************)
EXTENDS Integers, FiniteSets

CONSTANTS
    TaskIds,
    CommandIds,
    Batch,           \* the task_id of a command for the whole batch (None)
    Payloads,        \* the commands operators submit
    Present,         \* tasks appended before the tail loop starts
    InitialLimit,
    MaxLimit,        \* 1024 in positive()
    KeepOpen,        \* --keep-open
    Owned,           \* additions carry owner_root (batch_append.append)
    Trainings,       \* tasks that train, and can go on only from a saved learner
    MaxInterrupts    \* bound: keyboard interrupts of the driver

VARIABLES
    \* runtime.json
    commands, revision, appliedRevision, limit, accepting, keepOpen, paused,
    stopping, status, active, additions, tasks, pausedTasks, stoppedTasks,
    removedTasks,
    progress, targets,                    \* commands[id]["progress"]
    \* the scheduler
    pc,                                   \* where the driver is
    jobs, processes, pauseSent, stopSent,
    todo,                                 \* processes this tick has not looked at
    \* the workers and their control directories
    worker,
    owner,                                \* tasks with a control/owner.json
    request,                              \* requests that name the present owner
    rootStop,                             \* the driver's directory carries a stop request
    saved,                                \* trainings with a continuation/current.json
    interrupts

settings == <<limit, accepting, keepOpen, paused>>
holds == <<pausedTasks, stoppedTasks, removedTasks>>
receipts == <<commands, revision, appliedRevision>>
feedback == <<progress, targets>>
journal == <<receipts, settings, stopping, status, active, additions, tasks, holds, feedback>>
scheduler == <<pc, jobs, processes, pauseSent, stopSent, todo>>
workers == <<worker, owner, request, rootStop, saved, interrupts>>
vars == <<journal, scheduler, workers>>

TaskKinds == {"pause", "resume", "stop", "remove"}
BatchKinds == {"pause", "resume", "stop", "close", "raise", "lower"}
Commands == [kind : TaskKinds, task : TaskIds] \cup [kind : BatchKinds, task : {Batch}]

ASSUME ControlAssumption ==
    /\ IsFiniteSet(TaskIds)
    /\ Batch \notin TaskIds
    /\ Payloads \subseteq Commands
    /\ Present \subseteq TaskIds /\ Trainings \subseteq TaskIds
    /\ InitialLimit \in 1..MaxLimit
    /\ MaxLimit \in Nat
    /\ {KeepOpen, Owned} \subseteq BOOLEAN
    /\ MaxInterrupts \in Nat

Ended == {"completed", "failed", "stopped", "removed"}
BatchEnded == (Ended \ {"removed"}) \cup {"partial_stopped", "partial_removed"}
Unused == [kind |-> "none", task |-> Batch, revision |-> 0, status |-> "unused"]

----------------------------------------------------------------------------
(* The journal, read                                                       *)

Locked == pc \in {"applying", "draining"}

Known(t) == additions[t] # "absent" \/ tasks[t] # "absent"

\* {**additions, **tasks} and {**tasks, **additions}
Observed(t) == IF tasks[t] # "absent" THEN tasks[t] ELSE additions[t]
Displayed(t) == IF additions[t] # "absent" THEN additions[t] ELSE tasks[t]

Received(id) == commands[id].status = "received"
Applied(id) == commands[id].status = "applied"
Newer(a, b) == commands[a].revision > commands[b].revision

\* submit() answers a repeated pause with the receipt that is still pending.
PausePending(task) ==
    \E p \in CommandIds :
       /\ commands[p].kind = "pause" /\ commands[p].task = task
       /\ Received(p) \/ progress[p] = "waiting"
       /\ \A q \in CommandIds :
             ~(/\ commands[q].kind \in {"resume", "stop", "remove"}
               /\ commands[q].task = task
               /\ commands[q].status # "rejected"
               /\ Newer(q, p))

\* _removal_target(); the confirmation read before is valid while these hold
\* and neither revision nor status has changed.
Removable(t) == Known(t) /\ t \notin removedTasks /\ Displayed(t) \notin Ended

BatchStop(c) == c.kind = "stop" /\ c.task = Batch

\* _transition_targets()
Targets(c) ==
    IF c.task # Batch THEN {c.task}
    ELSE {t \in TaskIds :
            /\ Known(t) /\ Observed(t) \notin Ended
            /\ c.kind = "resume" => t \notin pausedTasks \cup stoppedTasks \cup removedTasks}

----------------------------------------------------------------------------
(* The journal, written by operators                                       *)

Submit(id, c) ==
    /\ ~Locked
    /\ commands[id] = Unused
    /\ c.kind = "pause" => ~PausePending(c.task)
    /\ c.kind = "remove" => Removable(c.task)
    /\ revision' = revision + 1
    /\ commands' = [commands EXCEPT ![id] =
          [kind |-> c.kind, task |-> c.task, revision |-> revision + 1,
           status |-> IF status \in BatchEnded THEN "rejected" ELSE "received"]]
    /\ UNCHANGED <<appliedRevision, settings, stopping, status, active, additions, tasks,
                   holds, feedback, scheduler, workers>>

\* append()
Append(id, t) ==
    /\ ~Locked
    /\ commands[id] = Unused
    /\ accepting /\ status \notin BatchEnded
    /\ ~Known(t)
    /\ revision' = revision + 1
    /\ commands' = [commands EXCEPT ![id] =
          [kind |-> "add", task |-> Batch, revision |-> revision + 1, status |-> "received"]]
    /\ additions' = [additions EXCEPT ![t] = "queued"]
    /\ UNCHANGED <<appliedRevision, settings, stopping, status, active, tasks, holds,
                   feedback, scheduler, workers>>

----------------------------------------------------------------------------
(* _apply(): the scheduler keeps the lock until every receipt is decided   *)

Step(kind) == IF kind = "raise" THEN 1 ELSE IF kind = "lower" THEN -1 ELSE 0

\* No ValueError is raised.
Valid(c) ==
    /\ limit + Step(c.kind) \in 1..MaxLimit
    /\ c.task # Batch =>
          /\ Known(c.task)
          /\ c.task \notin removedTasks
          /\ tasks[c.task] \notin {"removed", "removing"}

\* Mutant: the journal is applied in no particular order.
Next1Any(id) == Received(id)

Next1(id) == Received(id) /\ \A other \in CommandIds : Received(other) => ~Newer(id, other)

\* The task a command of one of these kinds is about.
Subject(c, kinds) == IF c.kind \in kinds THEN {c.task} \ {Batch} ELSE {}

PausedAfter(c) == (pausedTasks \ Subject(c, {"resume", "stop", "remove"})) \cup Subject(c, {"pause"})

\* Mutant: a resume releases the pause only.
StoppedAfterRemove(c) == (stoppedTasks \ Subject(c, {"remove"})) \cup Subject(c, {"stop"})

StoppedAfter(c) == (stoppedTasks \ Subject(c, {"resume", "remove"})) \cup Subject(c, {"stop"})

RemovedAfter(c) == removedTasks \cup Subject(c, {"remove"})

ApplyCommand(id) ==
    LET c == commands[id] IN
    /\ Locked /\ Next1(id) /\ Valid(c)
    /\ commands' = [commands EXCEPT ![id].status = "applied"]
    /\ appliedRevision' = c.revision
    /\ limit' = limit + Step(c.kind)
    /\ keepOpen' = (keepOpen /\ c.kind # "close")
    /\ accepting' = (accepting /\ c.kind # "close" /\ ~BatchStop(c))
    /\ stopping' = (stopping \/ BatchStop(c))
    /\ paused' = IF c.task = Batch /\ c.kind \in {"pause", "resume"} THEN c.kind = "pause"
                 ELSE paused
    /\ pausedTasks' = PausedAfter(c)
    /\ stoppedTasks' = StoppedAfter(c)
    /\ removedTasks' = RemovedAfter(c)
    /\ IF c.kind \in {"pause", "resume", "remove"}
       THEN /\ progress' = [progress EXCEPT ![id] = "waiting"]
            /\ targets' = [targets EXCEPT ![id] = Targets(c)]
       ELSE UNCHANGED feedback
    /\ UNCHANGED <<revision, status, active, additions, tasks, scheduler, workers>>

RejectCommand(id) ==
    /\ Locked /\ Next1(id) /\ ~Valid(commands[id])
    /\ commands' = [commands EXCEPT ![id].status = "rejected"]
    /\ appliedRevision' = commands[id].revision
    /\ UNCHANGED <<revision, settings, stopping, status, active, additions, tasks, holds,
                   feedback, scheduler, workers>>

\* Mutant: a pause is confirmed when it is under way.
ReachesEarly(kind) ==
    CASE kind = "pause" -> {"pausing", "paused", "completed"}
      [] kind = "resume" -> {"running", "completed"}
      [] OTHER -> {"removed"}

\* _update_progress(), on the observations `seen` and the batch status `batch`.
Reaches(kind) ==
    CASE kind = "pause" -> {"paused", "completed"}
      [] kind = "resume" -> {"running", "completed"}
      [] OTHER -> {"removed"}

Superseded(id) ==
    \E later \in CommandIds :
       /\ Applied(later) /\ Newer(later, id)
       /\ commands[later].kind \in TaskKinds \ {commands[id].kind}
       /\ commands[later].task = commands[id].task \/ BatchStop(commands[later])

\* Mutant: a task that ends otherwise leaves the command open.
OutcomeNeverFails(id, seen, batch) ==
    IF Superseded(id) THEN "superseded"
    ELSE IF \A t \in targets[id] : seen[t] \in Reaches(commands[id].kind) THEN "completed"
    ELSE "waiting"

Outcome(id, seen, batch) ==
    LET reached == {t \in targets[id] : seen[t] \in Reaches(commands[id].kind)}
        broken == {t \in targets[id] \ reached : seen[t] \in Ended \/ batch \in BatchEnded}
    IN  IF Superseded(id) THEN "superseded"
        ELSE IF broken # {} /\ targets[id] = reached \cup broken THEN "failed"
        ELSE IF targets[id] = reached THEN "completed"
        ELSE "waiting"

Feedback(seen, batch) ==
    [id \in CommandIds |-> IF progress[id] = "waiting" THEN Outcome(id, seen, batch)
                           ELSE progress[id]]

Observations == [t \in TaskIds |-> Observed(t)]

AllDecided == \A id \in CommandIds : ~Received(id)
----------------------------------------------------------------------------
(* One tick of the scheduler                                               *)

BeginTick ==
    /\ pc = "idle"
    /\ pc' = "applying"
    /\ UNCHANGED <<journal, jobs, processes, pauseSent, stopSent, todo, workers>>

\* apply() returns; new additions become jobs.
EndApply ==
    /\ pc = "applying" /\ AllDecided
    /\ progress' = Feedback(Observations, status)
    /\ jobs' = [t \in TaskIds |-> IF jobs[t] = "absent" THEN additions[t] ELSE jobs[t]]
    /\ todo' = processes
    /\ rootStop' = (rootStop \/ stopping)
    /\ pc' = "reaping"
    /\ UNCHANGED <<receipts, settings, stopping, status, active, additions, tasks, holds,
                   targets, processes, pauseSent, stopSent, worker, owner, request, saved, interrupts>>

Exited(t) == worker[t] \in {"completed", "failed", "paused", "stopped"}

StopWanted(t) == stopping \/ t \in stoppedTasks \cup removedTasks
PauseWanted(t) == paused \/ t \in pausedTasks

\* A live process: the stop request names the owner on record, which is the
\* owner of an earlier attempt until the new worker has registered.
SendStop(t) ==
    /\ pc = "reaping" /\ t \in todo /\ ~Exited(t)
    /\ StopWanted(t) /\ t \notin stopSent /\ t \in owner
    /\ stopSent' = stopSent \cup {t}
    /\ request' = IF worker[t] = "live" THEN [request EXCEPT ![t] = @ \cup {"stop"}] ELSE request
    /\ jobs' = [jobs EXCEPT ![t] = IF t \in removedTasks THEN "removing" ELSE "stopping"]
    /\ todo' = todo \ {t}
    /\ UNCHANGED <<journal, pc, processes, pauseSent, worker, owner, rootStop, saved, interrupts>>

\* request_pause() raises, and is tried again, unless the owner is alive.
SendPause(t) ==
    /\ pc = "reaping" /\ t \in todo /\ worker[t] = "live"
    /\ ~(StopWanted(t) /\ t \notin stopSent)
    /\ PauseWanted(t) /\ t \notin pauseSent \cup stopSent
    /\ pauseSent' = pauseSent \cup {t}
    /\ request' = [request EXCEPT ![t] = @ \cup {"pause"}]
    /\ jobs' = [jobs EXCEPT ![t] = "pausing"]
    /\ todo' = todo \ {t}
    /\ UNCHANGED <<journal, pc, processes, stopSent, worker, owner, rootStop, saved, interrupts>>

LeaveRunning(t) ==
    /\ pc = "reaping" /\ t \in todo /\ ~Exited(t)
    /\ IF StopWanted(t) /\ t \notin stopSent THEN t \notin owner
       ELSE ~(PauseWanted(t) /\ t \notin pauseSent \cup stopSent /\ worker[t] = "live")
    /\ todo' = todo \ {t}
    /\ UNCHANGED <<journal, pc, jobs, processes, pauseSent, stopSent, workers>>

\* An exited process is joined.  A stop nobody asked for stops the batch.
Join(t) ==
    /\ pc = "reaping" /\ t \in todo /\ Exited(t)
    /\ jobs' = [jobs EXCEPT ![t] =
          IF worker[t] # "failed" /\ t \in removedTasks THEN "removed" ELSE worker[t]]
    /\ stopping' = (stopping \/ (/\ worker[t] = "stopped"
                                 /\ t \notin removedTasks \cup stoppedTasks))
    /\ processes' = processes \ {t}
    /\ todo' = todo \ {t}
    /\ pauseSent' = pauseSent \ {t}
    /\ stopSent' = stopSent \ {t}
    /\ worker' = [worker EXCEPT ![t] = "none"]
    /\ UNCHANGED <<receipts, settings, status, active, additions, tasks, holds, feedback, pc,
                   owner, request, rootStop, saved, interrupts>>

\* The holds decide the status of every job without a process.
Settled(t) ==
    IF t \in processes \/ jobs[t] \in {"absent", "completed", "failed", "removed"} THEN jobs[t]
    ELSE IF t \in removedTasks THEN "removed"
    ELSE IF t \in stoppedTasks \/ stopping THEN "stopped"
    ELSE IF t \in pausedTasks \/ paused THEN "paused"
    ELSE IF jobs[t] \in {"paused", "stopped"} THEN "queued"
    ELSE jobs[t]

Settle ==
    /\ pc = "reaping" /\ todo = {}
    /\ jobs' = [t \in TaskIds |-> Settled(t)]
    /\ pc' = "starting"
    /\ UNCHANGED <<journal, processes, pauseSent, stopSent, todo, workers>>

\* Mutant: the limit is compared with the workers there would be without it.
StartableOneMore(t) ==
    /\ pc = "starting"
    /\ jobs[t] = "queued"
    /\ ~stopping /\ ~paused
    /\ Cardinality(processes) <= limit

\* At most one worker is started in a tick.
Startable(t) ==
    /\ pc = "starting"
    /\ jobs[t] = "queued"
    /\ ~stopping /\ ~paused
    /\ Cardinality(processes) < limit

Start(t) ==
    /\ Startable(t)
    /\ jobs' = [jobs EXCEPT ![t] = "running"]
    /\ processes' = processes \cup {t}
    /\ worker' = [worker EXCEPT ![t] = "new"]
    /\ request' = [request EXCEPT ![t] = {}]
    /\ pc' = "persisting"
    /\ UNCHANGED <<journal, pauseSent, stopSent, todo, owner, rootStop, saved, interrupts>>

\* Nothing may start, or the host has no headroom for it.
StartNone ==
    /\ pc = "starting"
    /\ pc' = "persisting"
    /\ UNCHANGED <<journal, jobs, processes, pauseSent, stopSent, todo, workers>>

\* _persist(), first transaction
Persist ==
    /\ pc = "persisting"
    /\ additions' = [t \in TaskIds |-> IF additions[t] # "absent" /\ jobs[t] # "absent"
                                       THEN jobs[t] ELSE additions[t]]
    /\ pc' = "publishing"
    /\ UNCHANGED <<receipts, settings, stopping, status, active, tasks, holds, feedback,
                   jobs, processes, pauseSent, stopSent, todo, workers>>

Unfinished == processes # {} \/ \E t \in TaskIds : jobs[t] \notin Ended \cup {"absent"}

AllHeld ==
    /\ processes = {} /\ Unfinished
    /\ \A t \in TaskIds : jobs[t] \in Ended \cup {"absent", "paused"}

PublishedStatus ==
    IF AllHeld THEN "paused"
    ELSE IF stopping THEN "stopping"
    ELSE IF paused THEN (IF processes # {} THEN "pausing" ELSE "paused")
    ELSE IF Cardinality(processes) > limit THEN "draining"
    ELSE "running"

PublishedTasks == [t \in TaskIds |-> IF jobs[t] # "absent" THEN jobs[t] ELSE tasks[t]]

Seen(published) == [t \in TaskIds |-> IF published[t] # "absent" THEN published[t] ELSE additions[t]]

\* publish()
Publish ==
    /\ pc = "publishing"
    /\ active' = Cardinality(processes)
    /\ tasks' = PublishedTasks
    /\ status' = PublishedStatus
    /\ progress' = Feedback(Seen(PublishedTasks), PublishedStatus)
    /\ pc' = "published"
    /\ UNCHANGED <<receipts, settings, stopping, additions, holds, targets, jobs, processes,
                   pauseSent, stopSent, todo, workers>>

----------------------------------------------------------------------------
(* finish_if_drained(), the end of the driver and its next start           *)

\* Mutant: the queue is drained when the scheduler's own jobs have ended.
DrainedByJobs ==
    /\ ~Unfinished
    /\ active = 0
    /\ stopping \/ (~paused /\ ~keepOpen)

Drained ==
    /\ ~Unfinished
    /\ \A t \in TaskIds : additions[t] \in Ended \cup {"absent"}
    /\ active = 0
    /\ stopping \/ (~paused /\ ~keepOpen)

FinalStatus ==
    IF stopping THEN "stopped"
    ELSE IF \E t \in TaskIds : jobs[t] = "failed" THEN "failed"
    ELSE IF removedTasks # {} THEN "partial_removed"
    ELSE IF stoppedTasks # {} THEN "partial_stopped"
    ELSE "completed"

BeginFinish ==
    /\ pc = "published"
    /\ pc' = "draining"
    /\ UNCHANGED <<journal, jobs, processes, pauseSent, stopSent, todo, workers>>

Finish ==
    /\ pc = "draining" /\ AllDecided /\ Drained
    /\ progress' = Feedback(Observations, status)
    /\ status' = FinalStatus
    /\ accepting' = FALSE
    /\ pc' = "finished"
    /\ UNCHANGED <<receipts, limit, keepOpen, paused, stopping, active, additions, tasks, holds,
                   targets, jobs, processes, pauseSent, stopSent, todo, workers>>

Sleep ==
    /\ pc = "draining" /\ AllDecided /\ ~Drained
    /\ progress' = Feedback(Observations, status)
    /\ pc' = "idle"
    /\ UNCHANGED <<receipts, settings, stopping, status, active, additions, tasks, holds,
                   targets, jobs, processes, pauseSent, stopSent, todo, workers>>

\* The driver leaves with a last publish(active=0).
Leave(final) ==
    /\ active' = 0
    /\ status' = final
    /\ progress' = Feedback(Observations, final)
    /\ pc' = "closed"
    /\ processes' = {} /\ todo' = {}
    /\ rootStop' = FALSE
    /\ UNCHANGED <<receipts, settings, stopping, additions, tasks, holds, targets, jobs,
                   pauseSent, stopSent, worker, owner, request, saved>>

Close == pc = "finished" /\ Leave(status) /\ UNCHANGED interrupts

\* KeyboardInterrupt, in a tick or between two.  An interrupt inside a
\* transaction leaves the journal as it was before.
Interrupt ==
    /\ pc # "closed" /\ ~Locked /\ interrupts < MaxInterrupts
    /\ Leave("stopped")
    /\ interrupts' = interrupts + 1

\* batch-resume starts a driver again once no worker of the last one lives:
\* restart() opens the journal before the additions are looked at.
Restart ==
    /\ pc = "closed" /\ status \in {"stopped", "partial_stopped", "partial_removed"}
    /\ \A t \in TaskIds : worker[t] \notin {"new", "live"}
    /\ paused' = FALSE /\ stopping' = FALSE /\ accepting' = TRUE
    /\ status' = "prepared" /\ active' = 0
    /\ pc' = "resuming"
    /\ UNCHANGED <<receipts, limit, keepOpen, additions, tasks, holds, feedback, jobs, processes,
                   pauseSent, stopSent, todo, workers>>

\* Mutant: only what was running is taken up again.
UnendedRunning == {t \in TaskIds : Owned /\ additions[t] = "running"}

\* Additions that execute_saved takes up again.
Unended ==
    {t \in TaskIds : Owned /\ additions[t] \notin {"absent", "completed", "failed", "removed"}}

\* Trainings that would have to go on without a learner to go on from: all that
\* are neither queued nor saved, whether or not they ever started.
Lost == {t \in Unended : additions[t] # "queued" /\ t \in Trainings \ saved}

Requeue ==
    /\ pc = "resuming" /\ Lost = {}
    /\ additions' = [t \in TaskIds |-> IF t \in Unended THEN "queued" ELSE additions[t]]
    /\ jobs' = [t \in TaskIds |-> "absent"]
    /\ pauseSent' = {} /\ stopSent' = {}
    /\ worker' = [t \in TaskIds |-> "none"]
    /\ pc' = "idle"
    /\ UNCHANGED <<receipts, settings, stopping, status, active, tasks, holds, feedback,
                   processes, todo, owner, request, rootStop, saved, interrupts>>

\* The ValueError discards the transaction and ends the driver.
RefuseResume ==
    /\ pc = "resuming" /\ Lost # {}
    /\ Leave("failed")
    /\ UNCHANGED interrupts

----------------------------------------------------------------------------
(* Workers                                                                 *)

\* Scope.bind(): the worker becomes the recorded owner of its directory.
Register(t) ==
    /\ worker[t] = "new"
    /\ worker' = [worker EXCEPT ![t] = "live"]
    /\ owner' = owner \cup {t}
    /\ UNCHANGED <<journal, scheduler, request, rootStop, saved, interrupts>>

\* The driver's own stop request is visible in the directories below its root.
StopVisible(t) == "stop" \in request[t] \/ (rootStop /\ ~Owned)

Exit(t, outcome) ==
    /\ worker' = [worker EXCEPT ![t] = outcome]
    /\ UNCHANGED <<journal, scheduler, owner, request, rootStop, saved, interrupts>>

\* A session that finds no continuation writes one before anything else.
FirstCommit(t) ==
    /\ worker[t] = "live" /\ t \in Trainings \ saved
    /\ saved' = saved \cup {t}
    /\ UNCHANGED <<journal, scheduler, worker, owner, request, rootStop, interrupts>>

\* The session is built: the worker comes to safe boundaries.
Underway(t) == worker[t] = "live" /\ t \notin Trainings \ saved

\* At a safe boundary the stop request is read before the pause request.
Obey(t) ==
    /\ Underway(t)
    /\ \/ StopVisible(t) /\ Exit(t, "stopped")
       \/ ~StopVisible(t) /\ "pause" \in request[t] /\ Exit(t, "paused")

Complete(t) == Underway(t) /\ Exit(t, "completed")
Fail(t) == worker[t] \in {"new", "live"} /\ Exit(t, "failed")

\* The interrupt that ends the driver reaches its workers too.
Signalled(t) ==
    /\ worker[t] \in {"new", "live"} /\ pc = "closed"
    /\ Exit(t, "stopped")

----------------------------------------------------------------------------
Init ==
    /\ commands = [id \in CommandIds |-> Unused]
    /\ revision = 0 /\ appliedRevision = 0
    /\ limit = InitialLimit
    /\ accepting = TRUE
    /\ keepOpen = KeepOpen
    /\ paused = FALSE /\ stopping = FALSE
    /\ status = "prepared" /\ active = 0
    /\ additions = [t \in TaskIds |-> IF t \in Present THEN "queued" ELSE "absent"]
    /\ tasks = [t \in TaskIds |-> "absent"]
    /\ pausedTasks = {} /\ stoppedTasks = {} /\ removedTasks = {}
    /\ progress = [id \in CommandIds |-> "none"]
    /\ targets = [id \in CommandIds |-> {}]
    /\ pc = "idle"
    /\ jobs = [t \in TaskIds |-> "absent"]
    /\ processes = {} /\ pauseSent = {} /\ stopSent = {} /\ todo = {}
    /\ worker = [t \in TaskIds |-> "none"]
    /\ owner = {}
    /\ request = [t \in TaskIds |-> {}]
    /\ rootStop = FALSE
    /\ saved = {}
    /\ interrupts = 0

Operator ==
    \/ \E id \in CommandIds, c \in Payloads : Submit(id, c)
    \/ \E id \in CommandIds, t \in TaskIds : Append(id, t)

Decide == \E id \in CommandIds : ApplyCommand(id) \/ RejectCommand(id)

Scheduler ==
    \/ BeginTick \/ Decide \/ EndApply
    \/ \E t \in TaskIds : SendStop(t) \/ SendPause(t) \/ LeaveRunning(t) \/ Join(t)
    \/ Settle
    \/ \E t \in TaskIds : Start(t)
    \/ StartNone \/ Persist \/ Publish \/ BeginFinish \/ Finish \/ Sleep \/ Close
    \/ Requeue \/ RefuseResume

Worker(t) == Register(t) \/ FirstCommit(t) \/ Obey(t) \/ Complete(t) \/ Fail(t) \/ Signalled(t)

\* Nobody resumes the batch.
Stay == pc = "closed" /\ UNCHANGED vars

Next == Operator \/ Scheduler \/ Interrupt \/ Restart \/ Stay \/ \E t \in TaskIds : Worker(t)

Spec == Init /\ [][Next]_vars

\* What lets work end: the scheduler runs, workers register, reach a boundary and
\* finish, the host has headroom again and again, a stopped batch is resumed.
FairSpec ==
    /\ Spec
    /\ WF_vars(Scheduler) /\ WF_vars(Restart)
    /\ \A t \in TaskIds :
          /\ SF_vars(Start(t))
          /\ WF_vars(Register(t)) /\ WF_vars(FirstCommit(t))
          /\ WF_vars(Obey(t)) /\ WF_vars(Complete(t))

----------------------------------------------------------------------------
(* Properties                                                              *)

JobStatus == Ended \cup {"queued", "running", "pausing", "stopping", "removing", "paused"}

\* Every variable has its type, and nothing is looked at that is no process.
TypeOK ==
    /\ commands \in [CommandIds -> [kind : TaskKinds \cup BatchKinds \cup {"add", "none"},
                                    task : TaskIds \cup {Batch}, revision : Nat,
                                    status : {"unused", "received", "applied", "rejected"}]]
    /\ revision \in Nat /\ appliedRevision \in Nat /\ active \in Nat
    /\ limit \in 1..MaxLimit
    /\ {accepting, keepOpen, paused, stopping, rootStop} \subseteq BOOLEAN
    /\ status \in BatchEnded \cup {"prepared", "running", "draining", "pausing", "paused", "stopping"}
    /\ additions \in [TaskIds -> JobStatus \cup {"absent"}]
    /\ tasks \in [TaskIds -> JobStatus \cup {"absent"}]
    /\ jobs \in [TaskIds -> JobStatus \cup {"absent"}]
    /\ pausedTasks \in SUBSET TaskIds /\ stoppedTasks \in SUBSET TaskIds
    /\ removedTasks \in SUBSET TaskIds
    /\ progress \in [CommandIds -> {"none", "waiting", "completed", "failed", "superseded"}]
    /\ targets \in [CommandIds -> SUBSET TaskIds]
    /\ pc \in {"idle", "applying", "reaping", "starting", "persisting", "publishing",
               "published", "draining", "finished", "closed", "resuming"}
    /\ processes \in SUBSET TaskIds /\ todo \in SUBSET processes
    /\ pauseSent \in SUBSET TaskIds /\ stopSent \in SUBSET TaskIds
    /\ owner \in SUBSET TaskIds /\ saved \in SUBSET Trainings
    /\ worker \in [TaskIds -> {"none", "new", "live", "completed", "failed", "paused", "stopped"}]
    /\ request \in [TaskIds -> SUBSET {"pause", "stop"}]
    /\ interrupts \in 0..MaxInterrupts

\* A command of this kind was applied to the task and none of the kinds that
\* undo it was applied later.
Standing(t, kind, undo) ==
    \E a \in CommandIds :
       /\ Applied(a) /\ commands[a].kind = kind /\ commands[a].task = t
       /\ \A b \in CommandIds :
             (Applied(b) /\ commands[b].task = t /\ commands[b].kind \in undo) => ~Newer(b, a)

\* The holds are what the applied commands say, read in the order of their
\* revisions: whatever the interleaving, and across restarts of the driver.
HoldsExplained ==
    \A t \in TaskIds :
       /\ t \in pausedTasks <=> Standing(t, "pause", {"resume", "stop", "remove"})
       /\ t \in stoppedTasks <=> Standing(t, "stop", {"resume", "remove"})
       /\ t \in removedTasks <=> Standing(t, "remove", {})

\* A command is decided once: whatever is submitted, applied or restarted later,
\* a decided receipt keeps its payload, its revision and its verdict, and a
\* command is decided only when all commands before it are.
DecidedInOrder ==
    [][\A id \in CommandIds :
          /\ commands[id].status \in {"applied", "rejected"} => commands'[id] = commands[id]
          /\ (Received(id) /\ ~Received(id)') =>
                \A other \in CommandIds : Received(other)' => commands'[other].revision > commands[id].revision]_vars

\* A pause or a removal is reported complete only when no worker of its tasks
\* lives any more.
ConfirmedMeansExited ==
    [][\A id \in CommandIds :
          (/\ progress[id] = "waiting" /\ progress'[id] = "completed"
           /\ commands[id].kind \in {"pause", "remove"})
          => \A t \in targets[id] : worker'[t] \notin {"new", "live"}]_vars

\* A worker is started only for a task that is not held, in a batch that is not
\* held, within the limit, never beside another worker of the same task and
\* never again once it is recorded as completed, whatever restarts lie between.
StartsAreAdmitted ==
    [][\A t \in processes' \ processes :
          /\ t \notin pausedTasks \cup stoppedTasks \cup removedTasks
          /\ ~paused /\ ~stopping
          /\ Cardinality(processes') <= limit
          /\ worker[t] \notin {"new", "live"} /\ additions[t] # "completed"]_vars

\* When the driver decides that the queue is drained, every addition accepted
\* before has ended, no worker lives, and every command is decided.
NothingLeftBehind ==
    pc = "finished" =>
       /\ AllDecided
       /\ \A t \in TaskIds : additions[t] \in Ended \cup {"absent"} /\ worker[t] \notin {"new", "live"}

\* The batch was given up: one of its trainings has no learner to go on from.
GivenUp == pc = "closed" /\ status = "failed" /\ Lost # {}

\* An addition ends, also across interrupts and restarts, unless it is held or the
\* resume of its batch was refused.
AdditionServed ==
    \A t \in TaskIds :
       additions[t] # "absent" ~>
          (additions[t] \in Ended \/ t \in pausedTasks \/ paused \/ GivenUp)

\* A pause is answered: it completes, fails or is overtaken by a later command.
PauseAnswered ==
    \A id \in CommandIds :
       (commands[id].kind = "pause" /\ progress[id] = "waiting") ~> progress[id] # "waiting"

\* A batch with a stopped task does not report every task as completed.
CompletedMeansDone ==
    (pc = "closed" /\ status = "completed") =>
       \A t \in TaskIds : additions[t] \in {"absent", "completed"}
=============================================================================
