------------------------ MODULE RuntimeControlProofs ------------------------
(***************************************************************************)
(* Proofs about the command journal, for every set of tasks and commands.  *)
(***************************************************************************)
EXTENDS RuntimeControl, TLAPS, FiniteSetTheorems

----------------------------------------------------------------------------
(* Types                                                                   *)

Progress == {"none", "waiting", "completed", "failed", "superseded"}

LEMMA FeedbackType ==
    ASSUME NEW seen, NEW batch, progress \in [CommandIds -> Progress]
    PROVE  Feedback(seen, batch) \in [CommandIds -> Progress]
<1>1. \A id \in CommandIds : Outcome(id, seen, batch) \in Progress
  BY DEF Outcome, Progress
<1> QED BY <1>1 DEF Feedback, Progress

LEMMA SettledType ==
    ASSUME NEW t \in TaskIds, jobs \in [TaskIds -> JobStatus \cup {"absent"}]
    PROVE  Settled(t) \in JobStatus \cup {"absent"}
BY DEF Settled, JobStatus, Ended

LEMMA HoldsType ==
    ASSUME NEW c, c.task \in TaskIds \cup {Batch},
           pausedTasks \in SUBSET TaskIds, stoppedTasks \in SUBSET TaskIds,
           removedTasks \in SUBSET TaskIds
    PROVE  /\ PausedAfter(c) \in SUBSET TaskIds
           /\ StoppedAfter(c) \in SUBSET TaskIds
           /\ RemovedAfter(c) \in SUBSET TaskIds
BY ControlAssumption DEF PausedAfter, StoppedAfter, RemovedAfter, Subject

Records == [kind : TaskKinds \cup BatchKinds \cup {"add", "none"}, task : TaskIds \cup {Batch},
            revision : Nat, status : {"unused", "received", "applied", "rejected"}]

LEMMA TypeInit == Init => TypeOK
<1> SUFFICES ASSUME Init PROVE TypeOK
  OBVIOUS
<1>1. commands \in [CommandIds -> Records]
  BY DEF Init, Unused, Records
<1>2. limit \in 1..MaxLimit /\ {accepting, keepOpen, paused, stopping, rootStop} \subseteq BOOLEAN
  BY ControlAssumption DEF Init
<1>3. revision \in Nat /\ appliedRevision \in Nat /\ active \in Nat /\ interrupts \in 0..MaxInterrupts
  BY ControlAssumption DEF Init
<1>4. additions \in [TaskIds -> JobStatus \cup {"absent"}]
  BY DEF Init, JobStatus
<1> QED
  BY <1>1, <1>2, <1>3, <1>4 DEF Init, TypeOK, Records

\* No action but the named ones touches the variables of a group.
LEMMA TypeSubmit ==
    ASSUME TypeOK, NEW id \in CommandIds, NEW c \in Payloads, Submit(id, c)
    PROVE  TypeOK'
<1>1. commands' \in [CommandIds -> Records]
  <2>1. c.kind \in TaskKinds \cup BatchKinds /\ c.task \in TaskIds \cup {Batch}
    BY ControlAssumption DEF Commands
  <2> QED BY <2>1 DEF Submit, TypeOK, Records
<1>2. revision' \in Nat
  BY DEF Submit, TypeOK
<1> QED
  BY <1>1, <1>2 DEF Submit, TypeOK, Records, journal, scheduler, workers, receipts, settings, holds, feedback

LEMMA TypeAppend ==
    ASSUME TypeOK, NEW id \in CommandIds, NEW t \in TaskIds, Append(id, t)
    PROVE  TypeOK'
<1>1. commands' \in [CommandIds -> Records]
  BY DEF Append, TypeOK, Records
<1>2. revision' \in Nat /\ additions' \in [TaskIds -> JobStatus \cup {"absent"}]
  BY DEF Append, TypeOK, JobStatus
<1> QED
  BY <1>1, <1>2 DEF Append, TypeOK, Records, journal, scheduler, workers, receipts, settings, holds, feedback

LEMMA TypeApply ==
    ASSUME TypeOK, NEW id \in CommandIds, ApplyCommand(id)
    PROVE  TypeOK'
<1> DEFINE c == commands[id]
<1>1. c \in Records
  BY DEF TypeOK, Records
<1>2. commands' \in [CommandIds -> Records] /\ appliedRevision' \in Nat
  BY <1>1 DEF ApplyCommand, TypeOK, Records
<1>3. limit' \in 1..MaxLimit
  BY DEF ApplyCommand, Valid
<1>4. {accepting', keepOpen', paused', stopping', rootStop'} \subseteq BOOLEAN
  BY DEF ApplyCommand, TypeOK, workers
<1>5. /\ pausedTasks' \in SUBSET TaskIds
      /\ stoppedTasks' \in SUBSET TaskIds
      /\ removedTasks' \in SUBSET TaskIds
  BY <1>1, HoldsType DEF ApplyCommand, TypeOK, Records
<1>6. Targets(c) \in SUBSET TaskIds
  BY <1>1 DEF Targets, Records
<1>7. progress' \in [CommandIds -> Progress] /\ targets' \in [CommandIds -> SUBSET TaskIds]
  <2>1. progress \in [CommandIds -> Progress] /\ targets \in [CommandIds -> SUBSET TaskIds]
    BY DEF TypeOK, Progress
  <2>2. CASE c.kind \in {"pause", "resume", "remove"}
    <3>1. progress' = [progress EXCEPT ![id] = "waiting"] /\ targets' = [targets EXCEPT ![id] = Targets(c)]
      BY <2>2 DEF ApplyCommand
    <3> HIDE DEF c
    <3> QED BY <3>1, <2>1, <1>6 DEF Progress
  <2>3. CASE c.kind \notin {"pause", "resume", "remove"}
    <3>1. progress' = progress /\ targets' = targets
      BY <2>3 DEF ApplyCommand, feedback
    <3> QED BY <3>1, <2>1
  <2> QED BY <2>2, <2>3
<1> HIDE DEF c
<1>8. UNCHANGED <<revision, status, active, additions, tasks, scheduler, workers>>
  BY DEF ApplyCommand
<1> QED
  BY <1>2, <1>3, <1>4, <1>5, <1>7, <1>8 DEF TypeOK, Records, Progress, scheduler, workers

LEMMA TypeReject ==
    ASSUME TypeOK, NEW id \in CommandIds, RejectCommand(id)
    PROVE  TypeOK'
<1>1. commands \in [CommandIds -> Records]
  BY DEF TypeOK, Records
<1>2. commands[id] \in Records
  BY <1>1
<1>3. commands' \in [CommandIds -> Records] /\ appliedRevision' \in Nat
  BY <1>1, <1>2 DEF RejectCommand, Records
<1> QED
  BY <1>3 DEF RejectCommand, TypeOK, Records, journal, scheduler, workers, receipts, settings, holds, feedback

LEMMA TypeBeginTick ==
    ASSUME TypeOK, BeginTick
    PROVE  TypeOK'
<1> QED
  BY DEF BeginTick, TypeOK, journal, scheduler, workers, receipts, settings, holds, feedback

LEMMA TypeEndApply ==
    ASSUME TypeOK, EndApply
    PROVE  TypeOK'
<1>1. progress' \in [CommandIds -> Progress]
  BY FeedbackType DEF EndApply, TypeOK, Progress
<1>2. jobs' \in [TaskIds -> JobStatus \cup {"absent"}]
  BY DEF EndApply, TypeOK
<1> QED
  BY <1>1, <1>2 DEF EndApply, Progress, TypeOK, journal, scheduler, workers, receipts, settings, holds, feedback

LEMMA TypeSendStop ==
    ASSUME TypeOK, NEW t \in TaskIds, SendStop(t)
    PROVE  TypeOK'
<1>1. jobs' \in [TaskIds -> JobStatus \cup {"absent"}]
  BY DEF SendStop, TypeOK, JobStatus
<1>2. request' \in [TaskIds -> SUBSET {"pause", "stop"}]
  BY DEF SendStop, TypeOK
<1> QED
  BY <1>1, <1>2 DEF SendStop, TypeOK, journal, scheduler, workers, receipts, settings, holds, feedback

LEMMA TypeSendPause ==
    ASSUME TypeOK, NEW t \in TaskIds, SendPause(t)
    PROVE  TypeOK'
<1>1. jobs' \in [TaskIds -> JobStatus \cup {"absent"}]
  BY DEF SendPause, TypeOK, JobStatus
<1>2. request' \in [TaskIds -> SUBSET {"pause", "stop"}]
  BY DEF SendPause, TypeOK
<1> QED
  BY <1>1, <1>2 DEF SendPause, TypeOK, journal, scheduler, workers, receipts, settings, holds, feedback

LEMMA TypeLeaveRunning ==
    ASSUME TypeOK, NEW t \in TaskIds, LeaveRunning(t)
    PROVE  TypeOK'
<1> QED
  BY DEF LeaveRunning, TypeOK, journal, scheduler, workers, receipts, settings, holds, feedback

LEMMA TypeJoin ==
    ASSUME TypeOK, NEW t \in TaskIds, Join(t)
    PROVE  TypeOK'
<1>1. jobs' \in [TaskIds -> JobStatus \cup {"absent"}]
  BY DEF Join, TypeOK, JobStatus, Exited, Ended
<1>2. stopping' \in BOOLEAN
  BY DEF Join, TypeOK
<1>3. worker' \in [TaskIds -> {"none", "new", "live", "completed", "failed", "paused", "stopped"}]
  BY DEF Join, TypeOK
<1> QED
  BY <1>1, <1>2, <1>3 DEF Join, TypeOK, journal, scheduler, workers, receipts, settings, holds, feedback

LEMMA TypeSettle ==
    ASSUME TypeOK, Settle
    PROVE  TypeOK'
<1>1. jobs' \in [TaskIds -> JobStatus \cup {"absent"}]
  BY SettledType DEF Settle, TypeOK
<1> QED
  BY <1>1 DEF Settle, TypeOK, journal, scheduler, workers, receipts, settings, holds, feedback

LEMMA TypeStart ==
    ASSUME TypeOK, NEW t \in TaskIds, Start(t)
    PROVE  TypeOK'
<1>1. jobs' \in [TaskIds -> JobStatus \cup {"absent"}]
  BY DEF Start, TypeOK, JobStatus
<1>2. worker' \in [TaskIds -> {"none", "new", "live", "completed", "failed", "paused", "stopped"}]
  BY DEF Start, TypeOK
<1>3. request' \in [TaskIds -> SUBSET {"pause", "stop"}]
  BY DEF Start, TypeOK
<1> QED
  BY <1>1, <1>2, <1>3 DEF Start, Startable, TypeOK, journal, scheduler, workers, receipts, settings, holds, feedback

LEMMA TypeStartNone ==
    ASSUME TypeOK, StartNone
    PROVE  TypeOK'
<1> QED
  BY DEF StartNone, TypeOK, journal, scheduler, workers, receipts, settings, holds, feedback

LEMMA TypePersist ==
    ASSUME TypeOK, Persist
    PROVE  TypeOK'
<1>1. additions' \in [TaskIds -> JobStatus \cup {"absent"}]
  BY DEF Persist, TypeOK
<1> QED
  BY <1>1 DEF Persist, TypeOK, journal, scheduler, workers, receipts, settings, holds, feedback

LEMMA ActiveType ==
    ASSUME TypeOK
    PROVE  IsFiniteSet(processes) /\ Cardinality(processes) \in Nat
BY ControlAssumption, FS_Subset, FS_CardinalityType DEF TypeOK

LEMMA TypePublish ==
    ASSUME TypeOK, Publish
    PROVE  TypeOK'
<1>1. progress' \in [CommandIds -> Progress]
  BY FeedbackType DEF Publish, TypeOK, Progress
<1>2. tasks' \in [TaskIds -> JobStatus \cup {"absent"}]
  BY DEF Publish, PublishedTasks, TypeOK
<1>3. active' \in Nat
  BY ActiveType DEF Publish
<1>4. status' \in {"running", "draining", "pausing", "paused", "stopping"}
  BY DEF Publish, PublishedStatus
<1> QED
  BY <1>1, <1>2, <1>3, <1>4 DEF Publish, Progress, TypeOK, journal, scheduler, workers, receipts, settings, holds, feedback

LEMMA TypeBeginFinish ==
    ASSUME TypeOK, BeginFinish
    PROVE  TypeOK'
<1> QED
  BY DEF BeginFinish, TypeOK, journal, scheduler, workers, receipts, settings, holds, feedback

LEMMA TypeFinish ==
    ASSUME TypeOK, Finish
    PROVE  TypeOK'
<1>1. progress' \in [CommandIds -> Progress]
  BY FeedbackType DEF Finish, TypeOK, Progress
<1>2. status' \in BatchEnded
  BY DEF Finish, FinalStatus, BatchEnded, Ended
<1> QED
  BY <1>1, <1>2 DEF Finish, Progress, TypeOK, journal, scheduler, workers, receipts, settings, holds, feedback

LEMMA TypeSleep ==
    ASSUME TypeOK, Sleep
    PROVE  TypeOK'
<1>1. progress' \in [CommandIds -> Progress]
  BY FeedbackType DEF Sleep, TypeOK, Progress
<1> QED
  BY <1>1 DEF Sleep, Progress, TypeOK, journal, scheduler, workers, receipts, settings, holds, feedback

LEMMA TypeLeave ==
    ASSUME TypeOK, NEW final \in BatchEnded \cup {status}, Leave(final), interrupts' \in 0..MaxInterrupts
    PROVE  TypeOK'
<1>1. progress' \in [CommandIds -> Progress]
  BY FeedbackType DEF Leave, TypeOK, Progress
<1>2. status' \in BatchEnded \cup {"prepared", "running", "draining", "pausing", "paused", "stopping"}
  BY DEF Leave, TypeOK
<1> QED
  BY <1>1, <1>2 DEF Leave, TypeOK, Progress, journal, scheduler, receipts, settings, holds, feedback

LEMMA TypeRestart ==
    ASSUME TypeOK, Restart
    PROVE  TypeOK'
<1> QED
  BY DEF Restart, TypeOK, journal, scheduler, workers, receipts, settings, holds, feedback

LEMMA TypeRequeue ==
    ASSUME TypeOK, Requeue
    PROVE  TypeOK'
<1>1. additions' \in [TaskIds -> JobStatus \cup {"absent"}]
  BY DEF Requeue, TypeOK, JobStatus
<1> QED
  BY <1>1 DEF Requeue, TypeOK, journal, scheduler, workers, receipts, settings, holds, feedback

LEMMA TypeWorker ==
    ASSUME TypeOK, NEW t \in TaskIds, Worker(t)
    PROVE  TypeOK'
<1>1. CASE Register(t)
  <2>1. worker' \in [TaskIds -> {"none", "new", "live", "completed", "failed", "paused", "stopped"}]
    BY <1>1 DEF Register, TypeOK
  <2> QED
    BY <1>1, <2>1 DEF Register, TypeOK, journal, scheduler, workers, receipts, settings, holds, feedback
<1>2. ASSUME NEW outcome \in {"completed", "failed", "paused", "stopped"}, Exit(t, outcome)
      PROVE  TypeOK'
  <2>1. worker' \in [TaskIds -> {"none", "new", "live", "completed", "failed", "paused", "stopped"}]
    BY <1>2 DEF Exit, TypeOK
  <2> QED
    BY <1>2, <2>1 DEF Exit, TypeOK, journal, scheduler, workers, receipts, settings, holds, feedback
<1>3. CASE FirstCommit(t)
  BY <1>3 DEF FirstCommit, TypeOK, journal, scheduler, workers, receipts, settings, holds, feedback
<1> QED
  BY <1>1, <1>2, <1>3 DEF Worker, Obey, Complete, Fail, Signalled

LEMMA Typing == TypeOK /\ [Next]_vars => TypeOK'
<1> SUFFICES ASSUME TypeOK, [Next]_vars PROVE TypeOK'
  OBVIOUS
<1>1. CASE Operator
  BY <1>1, TypeSubmit, TypeAppend DEF Operator
<1>2. CASE Decide
  BY <1>2, TypeApply, TypeReject DEF Decide
<1>3. CASE Scheduler /\ ~Decide /\ ~Close /\ ~RefuseResume
  BY <1>3, TypeBeginTick, TypeEndApply, TypeSendStop, TypeSendPause, TypeLeaveRunning, TypeJoin,
     TypeSettle, TypeStart, TypeStartNone, TypePersist, TypePublish, TypeBeginFinish,
     TypeFinish, TypeSleep, TypeRequeue DEF Scheduler
<1>4. CASE Close \/ RefuseResume
  BY <1>4, TypeLeave DEF Close, RefuseResume, TypeOK, BatchEnded, Ended
<1>5. CASE Interrupt
  <2>1. interrupts' \in 0..MaxInterrupts
    BY <1>5, ControlAssumption DEF Interrupt, TypeOK
  <2> QED
    BY <1>5, <2>1, TypeLeave DEF Interrupt, BatchEnded, Ended
<1>6. CASE Restart
  BY <1>6, TypeRestart
<1>7. CASE \E t \in TaskIds : Worker(t)
  BY <1>7, TypeWorker
<1>8. CASE UNCHANGED vars
  BY <1>8 DEF TypeOK, vars, journal, scheduler, workers, receipts, settings, holds, feedback
<1> QED
  BY <1>1, <1>2, <1>3, <1>4, <1>5, <1>6, <1>7, <1>8 DEF Next, Stay

\* The journal, the scheduler and the workers keep their types, and the limit
\* its bounds, for every set of tasks and every sequence of commands.
THEOREM TypeCorrect == Spec => []TypeOK
BY TypeInit, Typing, PTL DEF Spec

----------------------------------------------------------------------------
(* The journal: commands are numbered, and the holds are what they say     *)

Used(id) == commands[id].status # "unused"

\* Revisions are handed out once, and what is still to be decided is newer
\* than all that has been applied.
Numbered ==
    /\ \A a \in CommandIds : Used(a) => commands[a].revision \in 1..revision
    /\ \A a, b \in CommandIds :
          (Used(a) /\ Used(b) /\ a # b) => commands[a].revision # commands[b].revision
    /\ \A a, b \in CommandIds : (Applied(a) /\ Received(b)) => Newer(b, a)

JournalInv == TypeOK /\ Numbered /\ HoldsExplained

\* What a step does to the commands, seen from here.
Enters(id) ==
    /\ commands[id] = Unused
    /\ commands'[id].revision = revision + 1
    /\ commands'[id].status \in {"received", "rejected"}
    /\ \A other \in CommandIds \ {id} : commands'[other] = commands[other]
    /\ revision' = revision + 1
    /\ UNCHANGED holds

AppliedStay ==
    \A a \in CommandIds : (Applied(a)' <=> Applied(a)) /\ (Applied(a) => commands'[a] = commands[a])

Decides(id, verdict) ==
    /\ Next1(id)
    /\ commands' = [commands EXCEPT ![id].status = verdict]
    /\ UNCHANGED revision

JournalStep ==
    \/ \E id \in CommandIds : Enters(id)
    \/ \E id \in CommandIds : ApplyCommand(id)
    \/ \E id \in CommandIds : RejectCommand(id)
    \/ UNCHANGED <<commands, revision, holds>>

LEMMA StepsOfTheJournal ==
    ASSUME TypeOK, [Next]_vars
    PROVE  JournalStep
<1>1. ASSUME NEW id \in CommandIds, NEW c \in Payloads, Submit(id, c)
      PROVE  Enters(id)
  BY <1>1 DEF Submit, Enters, TypeOK
<1>2. ASSUME NEW id \in CommandIds, NEW t \in TaskIds, Append(id, t)
      PROVE  Enters(id)
  BY <1>2 DEF Append, Enters, TypeOK
<1>3. CASE Operator
  BY <1>1, <1>2, <1>3 DEF Operator, JournalStep
<1>4. CASE Decide
  BY <1>4 DEF Decide, JournalStep
<1>5. CASE Scheduler /\ ~Decide
  <2>1. CASE BeginTick \/ EndApply \/ Settle \/ StartNone \/ Persist
    BY <2>1 DEF BeginTick, EndApply, Settle, StartNone, Persist, JournalStep, journal, receipts, holds
  <2>2. CASE Publish \/ BeginFinish \/ Finish \/ Sleep \/ Close \/ Requeue \/ RefuseResume
    BY <2>2 DEF Publish, BeginFinish, Finish, Sleep, Close, Requeue, RefuseResume, Leave, JournalStep,
                journal, receipts, holds
  <2>3. ASSUME NEW t \in TaskIds, SendStop(t) \/ SendPause(t) \/ LeaveRunning(t) \/ Join(t) \/ Start(t)
        PROVE  JournalStep
    BY <2>3 DEF SendStop, SendPause, LeaveRunning, Join, Start, JournalStep, journal, receipts, holds
  <2> QED BY <1>5, <2>1, <2>2, <2>3 DEF Scheduler
<1>6. CASE Interrupt \/ Restart
  BY <1>6 DEF Interrupt, Leave, Restart, JournalStep, receipts, holds
<1>7. ASSUME NEW t \in TaskIds, Worker(t)
      PROVE  JournalStep
  BY <1>7 DEF Worker, Register, FirstCommit, Obey, Complete, Fail, Signalled, Exit, JournalStep, journal, receipts, holds
<1>8. CASE UNCHANGED vars
  BY <1>8 DEF JournalStep, vars, journal, receipts, holds
<1> QED
  BY <1>3, <1>4, <1>5, <1>6, <1>7, <1>8 DEF Next, Stay

\* Whether a command stands after one more has been applied.
LEMMA StandingAfter ==
    ASSUME TypeOK, Numbered, NEW id \in CommandIds, Decides(id, "applied"),
           NEW t \in TaskIds, NEW kind, NEW undo, kind \notin undo
    PROVE  Standing(t, kind, undo)' <=>
              \/ commands[id].task = t /\ commands[id].kind = kind
              \/ /\ Standing(t, kind, undo)
                 /\ ~(commands[id].task = t /\ commands[id].kind \in undo)
<1> DEFINE c == commands[id]
<1>1. /\ Applied(id)' /\ ~Applied(id) /\ Received(id)
      /\ \A a \in CommandIds \ {id} : Applied(a)' <=> Applied(a)
      /\ \A a \in CommandIds : /\ commands'[a].task = commands[a].task
                               /\ commands'[a].kind = commands[a].kind
                               /\ commands'[a].revision = commands[a].revision
  BY DEF Decides, Next1, Received, Applied, TypeOK
<1>2. \A a, b \in CommandIds : Newer(a, b)' <=> Newer(a, b)
  BY <1>1 DEF Newer
<1>3. \A a \in CommandIds : Applied(a) => Newer(id, a) /\ ~Newer(a, id)
  BY <1>1 DEF Numbered, Newer, TypeOK
<1>4. ~Newer(id, id)
  BY DEF Newer, TypeOK
<1>5. ASSUME Standing(t, kind, undo)'
      PROVE  \/ c.task = t /\ c.kind = kind
             \/ Standing(t, kind, undo) /\ ~(c.task = t /\ c.kind \in undo)
  <2>1. PICK a \in CommandIds :
           /\ Applied(a)' /\ commands'[a].kind = kind /\ commands'[a].task = t
           /\ \A b \in CommandIds :
                 (Applied(b)' /\ commands'[b].task = t /\ commands'[b].kind \in undo) => ~Newer(b, a)'
    BY <1>5 DEF Standing
  <2>2. CASE a = id
    BY <2>1, <2>2, <1>1 DEF AppliedStay
  <2>3. CASE a # id
    <3>1. Standing(t, kind, undo)
      <4>1. Applied(a) /\ commands[a].kind = kind /\ commands[a].task = t
        BY <2>1, <2>3, <1>1
      <4>2. ASSUME NEW b \in CommandIds, Applied(b), commands[b].task = t, commands[b].kind \in undo
            PROVE  ~Newer(b, a)
        BY <4>2, <2>1, <1>1, <1>2
      <4> QED BY <4>1, <4>2 DEF Standing
    <3>2. ~(c.task = t /\ c.kind \in undo)
      BY <2>1, <2>3, <1>1, <1>2, <1>3
    <3> QED BY <3>1, <3>2
  <2> QED BY <2>2, <2>3
<1>6. ASSUME c.task = t, c.kind = kind
      PROVE  Standing(t, kind, undo)'
  <2>1. ASSUME NEW b \in CommandIds, Applied(b)', commands'[b].task = t, commands'[b].kind \in undo
        PROVE  ~Newer(b, id)'
    BY <2>1, <1>1, <1>2, <1>3, <1>4
  <2> QED BY <1>6, <1>1, <2>1 DEF Standing
<1>7. ASSUME Standing(t, kind, undo), ~(c.task = t /\ c.kind \in undo)
      PROVE  Standing(t, kind, undo)'
  <2>1. PICK a \in CommandIds :
           /\ Applied(a) /\ commands[a].kind = kind /\ commands[a].task = t
           /\ \A b \in CommandIds :
                 (Applied(b) /\ commands[b].task = t /\ commands[b].kind \in undo) => ~Newer(b, a)
    BY <1>7 DEF Standing
  <2>2. Applied(a)' /\ commands'[a].kind = kind /\ commands'[a].task = t
    BY <2>1, <1>1
  <2>3. ASSUME NEW b \in CommandIds, Applied(b)', commands'[b].task = t, commands'[b].kind \in undo
        PROVE  ~Newer(b, a)'
    <3>1. b # id
      BY <2>3, <1>7, <1>1
    <3> QED BY <2>1, <2>3, <3>1, <1>1, <1>2
  <2> QED BY <2>2, <2>3 DEF Standing
<1> QED BY <1>5, <1>6, <1>7

\* A hold is left alone by everything but an application.
LEMMA StandingUnchanged ==
    ASSUME TypeOK, NEW t, NEW kind, NEW undo,
           AppliedStay
    PROVE  Standing(t, kind, undo)' <=> Standing(t, kind, undo)
<1>1. \A a, b \in CommandIds : Applied(a) /\ Applied(b) => (Newer(a, b)' <=> Newer(a, b))
  BY DEF AppliedStay, Newer
<1>2. ASSUME Standing(t, kind, undo)
      PROVE  Standing(t, kind, undo)'
  <2>1. PICK a \in CommandIds :
           /\ Applied(a) /\ commands[a].kind = kind /\ commands[a].task = t
           /\ \A b \in CommandIds :
                 (Applied(b) /\ commands[b].task = t /\ commands[b].kind \in undo) => ~Newer(b, a)
    BY <1>2 DEF Standing
  <2>2. ASSUME NEW b \in CommandIds, Applied(b)', commands'[b].task = t, commands'[b].kind \in undo
        PROVE  ~Newer(b, a)'
    BY <2>1, <2>2, <1>1 DEF AppliedStay
  <2> QED BY <2>1, <2>2 DEF Standing, AppliedStay
<1>3. ASSUME Standing(t, kind, undo)'
      PROVE  Standing(t, kind, undo)
  <2>1. PICK a \in CommandIds :
           /\ Applied(a)' /\ commands'[a].kind = kind /\ commands'[a].task = t
           /\ \A b \in CommandIds :
                 (Applied(b)' /\ commands'[b].task = t /\ commands'[b].kind \in undo) => ~Newer(b, a)'
    BY <1>3 DEF Standing
  <2>2. ASSUME NEW b \in CommandIds, Applied(b), commands[b].task = t, commands[b].kind \in undo
        PROVE  ~Newer(b, a)
    BY <2>1, <2>2, <1>1 DEF AppliedStay
  <2> QED BY <2>1, <2>2 DEF Standing, AppliedStay
<1> QED BY <1>2, <1>3

LEMMA HoldsUnchanged ==
    ASSUME TypeOK, HoldsExplained, UNCHANGED holds,
           AppliedStay
    PROVE  HoldsExplained'
BY StandingUnchanged DEF HoldsExplained, holds

LEMMA NumberedEnters ==
    ASSUME TypeOK, Numbered, NEW id \in CommandIds, Enters(id)
    PROVE  /\ Numbered'
           /\ AppliedStay
<1>1. ~Used(id) /\ revision \in Nat /\ revision' = revision + 1
  BY DEF Enters, Used, Unused, TypeOK
<1>2. /\ commands'[id].revision = revision + 1
      /\ ~Applied(id)'
      /\ \A a \in CommandIds \ {id} : commands'[a] = commands[a]
  BY DEF Enters, Applied
<1>3. \A a \in CommandIds \ {id} :
         /\ Used(a)' <=> Used(a)
         /\ Applied(a)' <=> Applied(a)
         /\ Received(a)' <=> Received(a)
  BY <1>2 DEF Used, Applied, Received
<1>4. \A a \in CommandIds : Applied(a) => Used(a)
  BY DEF Applied, Used
<1>5. \A a \in CommandIds \ {id} : Used(a) => commands[a].revision \in 1..revision
  BY DEF Numbered
<1>6. \A a \in CommandIds : Used(a)' => commands'[a].revision \in 1..revision'
  BY <1>1, <1>2, <1>3, <1>5
<1>7. ASSUME NEW a \in CommandIds, NEW b \in CommandIds, Used(a)', Used(b)', a # b
      PROVE  commands'[a].revision # commands'[b].revision
  <2>1. CASE a = id
    BY <2>1, <1>7, <1>1, <1>2, <1>3, <1>5
  <2>2. CASE b = id
    BY <2>2, <1>7, <1>1, <1>2, <1>3, <1>5
  <2>3. CASE a # id /\ b # id
    BY <2>3, <1>7, <1>2, <1>3 DEF Numbered
  <2> QED BY <2>1, <2>2, <2>3
<1>8. ASSUME NEW a \in CommandIds, NEW b \in CommandIds, Applied(a)', Received(b)'
      PROVE  Newer(b, a)'
  <2>1. a # id /\ Applied(a) /\ commands'[a] = commands[a]
    BY <1>8, <1>2, <1>3
  <2>2. CASE b = id
    BY <2>1, <2>2, <1>1, <1>2, <1>4, <1>5 DEF Newer
  <2>3. CASE b # id
    BY <2>1, <2>3, <1>8, <1>2, <1>3 DEF Numbered, Newer
  <2> QED BY <2>2, <2>3
<1>9. AppliedStay
  BY <1>1, <1>2, <1>3, <1>4 DEF AppliedStay
<1> QED
  BY <1>6, <1>7, <1>8, <1>9 DEF Numbered

LEMMA NumberedDecides ==
    ASSUME TypeOK, Numbered, NEW id \in CommandIds, NEW verdict \in {"applied", "rejected"},
           Decides(id, verdict)
    PROVE  Numbered'
<1>1. /\ Received(id) /\ ~Received(id)' /\ Used(id) /\ Used(id)'
      /\ \A a \in CommandIds : commands'[a].revision = commands[a].revision
      /\ \A a \in CommandIds \ {id} : commands'[a] = commands[a]
  BY DEF Decides, Next1, Received, Used, TypeOK
<1>2. \A a \in CommandIds \ {id} :
         /\ Used(a)' <=> Used(a)
         /\ Applied(a)' <=> Applied(a)
         /\ Received(a)' <=> Received(a)
  BY <1>1 DEF Used, Applied, Received
<1>3. \A a, b \in CommandIds : Newer(a, b)' <=> Newer(a, b)
  BY <1>1 DEF Newer
<1>4. ASSUME NEW a \in CommandIds, NEW b \in CommandIds, Applied(a)', Received(b)'
      PROVE  Newer(b, a)'
  <2>1. b # id /\ Received(b)
    BY <1>4, <1>1, <1>2
  <2>2. CASE a # id
    BY <2>1, <2>2, <1>4, <1>2, <1>3 DEF Numbered
  <2>3. CASE a = id
    <3>1. ~Newer(id, b) /\ commands[id].revision # commands[b].revision
      BY <2>1, <1>1 DEF Decides, Next1, Numbered, Used, Received
    <3>2. commands[id].revision \in Nat /\ commands[b].revision \in Nat
      BY DEF TypeOK
    <3> QED BY <2>3, <3>1, <3>2, <1>3 DEF Newer
  <2> QED BY <2>2, <2>3
<1>5. revision' = revision
  BY DEF Decides
<1>6. \A a \in CommandIds : Used(a)' => commands'[a].revision \in 1..revision'
  BY <1>1, <1>2, <1>5 DEF Numbered
<1>7. \A a, b \in CommandIds :
         (Used(a)' /\ Used(b)' /\ a # b) => commands'[a].revision # commands'[b].revision
  BY <1>1, <1>2 DEF Numbered
<1> QED
  BY <1>4, <1>6, <1>7 DEF Numbered

LEMMA HoldsApplied ==
    ASSUME JournalInv, NEW id \in CommandIds, ApplyCommand(id)
    PROVE  HoldsExplained'
<1> DEFINE c == commands[id]
<1>1. Decides(id, "applied")
  BY DEF ApplyCommand, Decides
<1>2. c.task \in TaskIds \cup {Batch} /\ Batch \notin TaskIds
  BY ControlAssumption DEF JournalInv, TypeOK
<1>3. /\ pausedTasks' = PausedAfter(c)
      /\ stoppedTasks' = StoppedAfter(c)
      /\ removedTasks' = RemovedAfter(c)
  BY DEF ApplyCommand
<1> SUFFICES ASSUME NEW t \in TaskIds
             PROVE  /\ t \in pausedTasks' <=> Standing(t, "pause", {"resume", "stop", "remove"})'
                    /\ t \in stoppedTasks' <=> Standing(t, "stop", {"resume", "remove"})'
                    /\ t \in removedTasks' <=> Standing(t, "remove", {})'
  BY DEF HoldsExplained
<1>4. \A kinds : t \in Subject(c, kinds) <=> c.kind \in kinds /\ c.task = t
  BY <1>2 DEF Subject
<1>5. t \in pausedTasks' <=> Standing(t, "pause", {"resume", "stop", "remove"})'
  <2>1. t \in pausedTasks' <=>
           \/ c.kind = "pause" /\ c.task = t
           \/ t \in pausedTasks /\ ~(c.kind \in {"resume", "stop", "remove"} /\ c.task = t)
    BY <1>3, <1>4 DEF PausedAfter
  <2>2. t \in pausedTasks <=> Standing(t, "pause", {"resume", "stop", "remove"})
    BY DEF JournalInv, HoldsExplained
  <2>3. Standing(t, "pause", {"resume", "stop", "remove"})' <=>
           \/ c.task = t /\ c.kind = "pause"
           \/ /\ Standing(t, "pause", {"resume", "stop", "remove"})
              /\ ~(c.task = t /\ c.kind \in {"resume", "stop", "remove"})
    BY <1>1, StandingAfter DEF JournalInv
  <2> QED BY <2>1, <2>2, <2>3
<1>6. t \in stoppedTasks' <=> Standing(t, "stop", {"resume", "remove"})'
  <2>1. t \in stoppedTasks' <=>
           \/ c.kind = "stop" /\ c.task = t
           \/ t \in stoppedTasks /\ ~(c.kind \in {"resume", "remove"} /\ c.task = t)
    BY <1>3, <1>4 DEF StoppedAfter
  <2>2. t \in stoppedTasks <=> Standing(t, "stop", {"resume", "remove"})
    BY DEF JournalInv, HoldsExplained
  <2>3. Standing(t, "stop", {"resume", "remove"})' <=>
           \/ c.task = t /\ c.kind = "stop"
           \/ /\ Standing(t, "stop", {"resume", "remove"})
              /\ ~(c.task = t /\ c.kind \in {"resume", "remove"})
    BY <1>1, StandingAfter DEF JournalInv
  <2> QED BY <2>1, <2>2, <2>3
<1>7. t \in removedTasks' <=> Standing(t, "remove", {})'
  <2>1. t \in removedTasks' <=> (c.kind = "remove" /\ c.task = t) \/ t \in removedTasks
    BY <1>3, <1>4 DEF RemovedAfter
  <2>2. t \in removedTasks <=> Standing(t, "remove", {})
    BY DEF JournalInv, HoldsExplained
  <2>3. Standing(t, "remove", {})' <=>
           \/ c.task = t /\ c.kind = "remove"
           \/ Standing(t, "remove", {}) /\ ~(c.task = t /\ c.kind \in {})
    BY <1>1, StandingAfter DEF JournalInv
  <2> QED BY <2>1, <2>2, <2>3
<1> QED BY <1>5, <1>6, <1>7

LEMMA JournalInit == Init => JournalInv
<1> SUFFICES ASSUME Init PROVE JournalInv
  OBVIOUS
<1>1. \A id \in CommandIds : ~Used(id) /\ ~Applied(id)
  BY DEF Init, Used, Applied, Unused
<1>2. Numbered
  BY <1>1 DEF Numbered
<1>3. HoldsExplained
  BY <1>1 DEF HoldsExplained, Standing, Init
<1> QED BY <1>2, <1>3, TypeInit DEF JournalInv

LEMMA JournalNext == JournalInv /\ [Next]_vars => JournalInv'
<1> SUFFICES ASSUME JournalInv, [Next]_vars PROVE JournalInv'
  OBVIOUS
<1>1. TypeOK /\ Numbered /\ HoldsExplained
  BY DEF JournalInv
<1>2. TypeOK'
  BY <1>1, Typing
<1>3. JournalStep
  BY <1>1, StepsOfTheJournal
<1>4. ASSUME NEW id \in CommandIds, Enters(id)
      PROVE  Numbered' /\ HoldsExplained'
  <2>1. UNCHANGED holds
    BY <1>4 DEF Enters
  <2> QED BY <1>1, <1>4, <2>1, NumberedEnters, HoldsUnchanged
<1>5. ASSUME NEW id \in CommandIds, ApplyCommand(id)
      PROVE  Numbered' /\ HoldsExplained'
  <2>1. Decides(id, "applied")
    BY <1>5 DEF ApplyCommand, Decides
  <2> QED BY <1>1, <1>5, <2>1, NumberedDecides, HoldsApplied
<1>6. ASSUME NEW id \in CommandIds, RejectCommand(id)
      PROVE  Numbered' /\ HoldsExplained'
  <2>1. Decides(id, "rejected") /\ UNCHANGED holds
    BY <1>6 DEF RejectCommand, Decides, holds
  <2>2. AppliedStay
    BY <1>1, <2>1 DEF Decides, Next1, Applied, Received, TypeOK, AppliedStay
  <2> QED BY <1>1, <2>1, <2>2, NumberedDecides, HoldsUnchanged
<1>7. CASE UNCHANGED <<commands, revision, holds>>
  <2>1. commands' = commands /\ revision' = revision /\ UNCHANGED holds
    BY <1>7
  <2>2. AppliedStay
    BY <2>1 DEF Applied, AppliedStay
  <2>3. HoldsExplained'
    BY <1>1, <2>1, <2>2, HoldsUnchanged
  <2>4. Numbered'
    BY <1>1, <2>1 DEF Numbered, Used, Applied, Received, Newer
  <2> QED BY <1>2, <2>3, <2>4 DEF JournalInv
<1> QED
  BY <1>2, <1>3, <1>4, <1>5, <1>6, <1>7 DEF JournalStep, JournalInv

\* The journal's numbers, and the holds as what the applied commands say, hold
\* in every state: _apply is the only writer and it goes by the revisions.
THEOREM JournalInvariance == Spec => []JournalInv
BY JournalInit, JournalNext, PTL DEF Spec

\* The holds are what the applied commands say, whatever the interleaving.
THEOREM HoldsAreExplained == Spec => []HoldsExplained
<1>1. JournalInv => HoldsExplained
  BY DEF JournalInv
<1> QED BY <1>1, JournalInvariance, PTL

LEMMA DecisionStep ==
    ASSUME JournalInv, [Next]_vars, NEW id \in CommandIds
    PROVE  /\ commands[id].status \in {"applied", "rejected"} => commands'[id] = commands[id]
           /\ (Received(id) /\ ~Received(id)') =>
                 \A other \in CommandIds :
                    Received(other)' => commands'[other].revision > commands[id].revision
<1>1. TypeOK /\ Numbered /\ JournalStep
  BY StepsOfTheJournal DEF JournalInv
<1>2. ASSUME NEW k \in CommandIds, Enters(k)
      PROVE  /\ commands[id].status # "unused" => commands'[id] = commands[id]
             /\ Received(id) => Received(id)'
  <2>1. commands[k].status = "unused"
    BY <1>2 DEF Enters, Unused
  <2> QED BY <1>2, <2>1 DEF Enters, Received
<1>3. ASSUME NEW k \in CommandIds, NEW verdict \in {"applied", "rejected"}, Decides(k, verdict)
      PROVE  /\ commands[id].status \in {"applied", "rejected"} => commands'[id] = commands[id]
             /\ (Received(id) /\ ~Received(id)') =>
                   \A other \in CommandIds :
                      Received(other)' => commands'[other].revision > commands[id].revision
  <2>1. /\ Received(k) /\ ~Received(k)'
        /\ \A a \in CommandIds \ {k} : commands'[a] = commands[a]
    BY <1>1, <1>3 DEF Decides, Next1, Received, TypeOK
  <2>2. CASE id # k
    BY <2>1, <2>2 DEF Received
  <2>3. CASE id = k
    <3>1. ASSUME NEW other \in CommandIds, Received(other)'
          PROVE  commands'[other].revision > commands[id].revision
      <4>1. other # id /\ Received(other) /\ commands'[other] = commands[other]
        BY <2>1, <2>3, <3>1 DEF Received
      <4>2. ~Newer(id, other) /\ commands[id].revision # commands[other].revision
        BY <1>1, <1>3, <2>1, <2>3, <4>1 DEF Decides, Next1, Numbered, Used, Received
      <4>3. commands[id].revision \in Nat /\ commands[other].revision \in Nat
        BY <1>1 DEF TypeOK
      <4> QED BY <4>1, <4>2, <4>3 DEF Newer
    <3> QED BY <2>1, <2>3, <3>1 DEF Received
  <2> QED BY <2>2, <2>3
<1>4. ASSUME NEW k \in CommandIds, ApplyCommand(k)
      PROVE  Decides(k, "applied")
  BY <1>4 DEF ApplyCommand, Decides
<1>5. ASSUME NEW k \in CommandIds, RejectCommand(k)
      PROVE  Decides(k, "rejected")
  BY <1>5 DEF RejectCommand, Decides
<1>6. CASE UNCHANGED <<commands, revision, holds>>
  BY <1>6 DEF Received
<1>7. CASE \E k \in CommandIds : Enters(k)
  BY <1>2, <1>7
<1>8. CASE \E k \in CommandIds : ApplyCommand(k) \/ RejectCommand(k)
  BY <1>3, <1>4, <1>5, <1>8
<1> QED
  BY <1>1, <1>6, <1>7, <1>8 DEF JournalStep

\* A command is decided once and for all, and only when all before it are.
THEOREM CommandsDecidedInOrder == Spec => DecidedInOrder
<1> DEFINE DecidesInOrder ==
       \A id \in CommandIds :
          /\ commands[id].status \in {"applied", "rejected"} => commands'[id] = commands[id]
          /\ (Received(id) /\ ~Received(id)') =>
                \A other \in CommandIds :
                   Received(other)' => commands'[other].revision > commands[id].revision
<1>1. JournalInv /\ [Next]_vars => DecidesInOrder
  BY DecisionStep
<1>2. JournalInv /\ [Next]_vars => [DecidesInOrder]_vars
  BY <1>1
<1> QED BY <1>2, JournalInvariance, PTL DEF Spec, DecidedInOrder

----------------------------------------------------------------------------
(* The scheduler admits what is not held                                   *)

Living(t) == worker[t] \in {"new", "live"}
Held(t) == t \in pausedTasks \cup stoppedTasks \cup removedTasks
AtWork == {"running", "pausing", "stopping", "removing"}

\* A process has a job at work; whoever has none has no living worker, unless
\* the driver is gone; and one that comes back waits for them.  What is recorded as completed is not queued again.  And
\* between the settling of the jobs and the start the holds are still those
\* that the jobs were settled with.
Admission ==
    /\ \A t \in processes : jobs[t] \in AtWork
    /\ \A t \in TaskIds : Living(t) => t \in processes \/ pc = "closed"
    /\ pc \in {"closed", "resuming"} => processes = {}
    /\ \A t \in TaskIds : additions[t] = "completed" => jobs[t] \in {"completed", "absent"}
    /\ pc = "starting" => \A t \in TaskIds : jobs[t] = "queued" => ~Held(t)

AdmissionInv == TypeOK /\ Admission

LEMMA AdmissionInit == Init => AdmissionInv
<1> SUFFICES ASSUME Init PROVE Admission
  BY TypeInit DEF AdmissionInv
<1> QED BY DEF Init, Admission, Living

\* Steps that leave the scheduler's own state alone.
LEMMA AdmissionOutside ==
    ASSUME TypeOK, Admission, UNCHANGED <<pc, jobs, processes>>,
           \A t \in TaskIds : Living(t)' => Living(t),
           \A t \in TaskIds : additions'[t] = "completed" => additions[t] = "completed",
           UNCHANGED holds \/ pc # "starting"
    PROVE  Admission'
<1>1. \A t \in processes' : jobs'[t] \in AtWork
  BY DEF Admission
<1>2. \A t \in TaskIds : Living(t)' => t \in processes' \/ pc' = "closed"
  BY DEF Admission
<1>3. pc' \in {"closed", "resuming"} => processes' = {}
  BY DEF Admission
<1>4. \A t \in TaskIds : additions'[t] = "completed" => jobs'[t] \in {"completed", "absent"}
  BY DEF Admission
<1>5. pc' = "starting" => \A t \in TaskIds : jobs'[t] = "queued" => ~Held(t)'
  BY DEF Admission, Held, holds
<1> QED BY <1>1, <1>2, <1>3, <1>4, <1>5 DEF Admission

LEMMA AdmissionOperator ==
    ASSUME TypeOK, Admission, Operator \/ Decide
    PROVE  Admission'
<1>1. UNCHANGED <<pc, jobs, processes>>
  BY DEF Operator, Submit, Append, Decide, ApplyCommand, RejectCommand, scheduler
<1>2. worker' = worker
  BY DEF Operator, Submit, Append, Decide, ApplyCommand, RejectCommand, workers
<1>3. \A t \in TaskIds : additions'[t] = "completed" => additions[t] = "completed"
  BY DEF Operator, Submit, Append, Decide, ApplyCommand, RejectCommand, TypeOK
<1>4. UNCHANGED holds \/ pc # "starting"
  BY DEF Operator, Submit, Append, Decide, ApplyCommand, RejectCommand, Locked
<1> QED BY <1>1, <1>2, <1>3, <1>4, AdmissionOutside DEF Living

LEMMA AdmissionWorker ==
    ASSUME TypeOK, Admission, NEW t \in TaskIds, Worker(t)
    PROVE  Admission'
<1>1. UNCHANGED <<pc, jobs, processes, additions, holds>>
  BY DEF Worker, Register, FirstCommit, Obey, Complete, Fail, Signalled, Exit, scheduler, journal
<1>2. \A u \in TaskIds : Living(u)' => Living(u)
  BY DEF Worker, Register, FirstCommit, Obey, Complete, Fail, Signalled, Exit, Living, TypeOK
<1> QED BY <1>1, <1>2, AdmissionOutside

\* The steps of a tick.
LEMMA AdmissionEndApply ==
    ASSUME TypeOK, Admission, EndApply
    PROVE  Admission'
<1>1. \A t \in processes' : jobs'[t] \in AtWork
  BY DEF EndApply, Admission, TypeOK, AtWork, journal, workers
<1>2. \A t \in TaskIds : Living(t)' => t \in processes' \/ pc' = "closed"
  BY DEF EndApply, Admission, TypeOK, AtWork, journal, workers, Living
<1>3. pc' \in {"closed", "resuming"} => processes' = {}
  BY DEF EndApply, Admission, TypeOK, AtWork, journal, workers
<1>4. \A t \in TaskIds : additions'[t] = "completed" => jobs'[t] \in {"completed", "absent"}
  BY DEF EndApply, Admission, TypeOK, AtWork, journal, workers
<1>5. pc' = "starting" => \A t \in TaskIds : jobs'[t] = "queued" => ~Held(t)'
  BY DEF EndApply, Admission, TypeOK, AtWork, journal, workers, Held, holds
<1> QED BY <1>1, <1>2, <1>3, <1>4, <1>5 DEF Admission

LEMMA AdmissionSend ==
    ASSUME TypeOK, Admission, NEW t \in TaskIds, SendStop(t) \/ SendPause(t)
    PROVE  Admission'
<1>1. \A u \in processes' : jobs'[u] \in AtWork
  BY DEF SendStop, Admission, TypeOK, SendPause, AtWork, journal, workers
<1>2. \A u \in TaskIds : Living(u)' => u \in processes' \/ pc' = "closed"
  BY DEF SendStop, Admission, TypeOK, SendPause, AtWork, journal, workers, Living
<1>3. pc' \in {"closed", "resuming"} => processes' = {}
  BY DEF SendStop, Admission, TypeOK, SendPause, AtWork, journal, workers
<1>4. \A u \in TaskIds : additions'[u] = "completed" => jobs'[u] \in {"completed", "absent"}
  BY DEF SendStop, Admission, TypeOK, SendPause, AtWork, journal, workers
<1>5. pc' = "starting" => \A u \in TaskIds : jobs'[u] = "queued" => ~Held(u)'
  BY DEF SendStop, Admission, TypeOK, SendPause, AtWork, journal, workers, Held, holds
<1> QED BY <1>1, <1>2, <1>3, <1>4, <1>5 DEF Admission

LEMMA AdmissionJoin ==
    ASSUME TypeOK, Admission, NEW t \in TaskIds, Join(t)
    PROVE  Admission'
<1>1. \A u \in processes' : jobs'[u] \in AtWork
  BY DEF Join, Admission, TypeOK, AtWork
<1>2. \A u \in TaskIds : Living(u)' => u \in processes' \/ pc' = "closed"
  BY DEF Join, Admission, TypeOK, AtWork, Living
<1>3. pc' \in {"closed", "resuming"} => processes' = {}
  BY DEF Join, Admission, TypeOK, AtWork
<1>4. \A u \in TaskIds : additions'[u] = "completed" => jobs'[u] \in {"completed", "absent"}
  BY DEF Join, Admission, TypeOK, AtWork
<1>5. pc' = "starting" => \A u \in TaskIds : jobs'[u] = "queued" => ~Held(u)'
  BY DEF Join, Admission, TypeOK, AtWork, Held, holds
<1> QED BY <1>1, <1>2, <1>3, <1>4, <1>5 DEF Admission

LEMMA SettledQueued ==
    ASSUME Admission, NEW t \in TaskIds, Settled(t) = "queued"
    PROVE  ~Held(t)
BY DEF Settled, Held, Admission, AtWork

LEMMA AdmissionSettle ==
    ASSUME TypeOK, Admission, Settle
    PROVE  Admission'
<1>1. \A t \in processes' : jobs'[t] \in AtWork
  BY DEF Settle, Admission, TypeOK, Settled, AtWork, journal, workers
<1>2. \A t \in TaskIds : Living(t)' => t \in processes' \/ pc' = "closed"
  BY DEF Settle, Admission, TypeOK, Settled, AtWork, journal, workers, Living
<1>3. pc' \in {"closed", "resuming"} => processes' = {}
  BY DEF Settle, Admission, TypeOK, Settled, AtWork, journal, workers
<1>4. \A t \in TaskIds : additions'[t] = "completed" => jobs'[t] \in {"completed", "absent"}
  BY DEF Settle, Admission, TypeOK, Settled, AtWork, journal, workers
<1>5. pc' = "starting" => \A t \in TaskIds : jobs'[t] = "queued" => ~Held(t)'
  BY SettledQueued DEF Settle, journal, holds, Held
<1> QED BY <1>1, <1>2, <1>3, <1>4, <1>5 DEF Admission

LEMMA AdmissionStart ==
    ASSUME TypeOK, Admission, NEW t \in TaskIds, Start(t)
    PROVE  Admission'
<1>1. \A u \in processes' : jobs'[u] \in AtWork
  BY DEF Start, Admission, TypeOK, Startable, AtWork, journal
<1>2. \A u \in TaskIds : Living(u)' => u \in processes' \/ pc' = "closed"
  BY DEF Start, Admission, TypeOK, Startable, AtWork, journal, Living
<1>3. pc' \in {"closed", "resuming"} => processes' = {}
  BY DEF Start, Admission, TypeOK, Startable, AtWork, journal
<1>4. \A u \in TaskIds : additions'[u] = "completed" => jobs'[u] \in {"completed", "absent"}
  BY DEF Start, Admission, TypeOK, Startable, AtWork, journal
<1>5. pc' = "starting" => \A u \in TaskIds : jobs'[u] = "queued" => ~Held(u)'
  BY DEF Start, Admission, TypeOK, Startable, AtWork, journal, Held, holds
<1> QED BY <1>1, <1>2, <1>3, <1>4, <1>5 DEF Admission

LEMMA AdmissionPersist ==
    ASSUME TypeOK, Admission, Persist
    PROVE  Admission'
<1>1. \A t \in processes' : jobs'[t] \in AtWork
  BY DEF Persist, Admission, TypeOK, AtWork, workers, holds
<1>2. \A t \in TaskIds : Living(t)' => t \in processes' \/ pc' = "closed"
  BY DEF Persist, Admission, TypeOK, AtWork, workers, holds, Living
<1>3. pc' \in {"closed", "resuming"} => processes' = {}
  BY DEF Persist, Admission, TypeOK, AtWork, workers, holds
<1>4. \A t \in TaskIds : additions'[t] = "completed" => jobs'[t] \in {"completed", "absent"}
  BY DEF Persist, Admission, TypeOK, AtWork, workers, holds
<1>5. pc' = "starting" => \A t \in TaskIds : jobs'[t] = "queued" => ~Held(t)'
  BY DEF Persist, Admission, TypeOK, AtWork, workers, holds, Held, holds
<1> QED BY <1>1, <1>2, <1>3, <1>4, <1>5 DEF Admission

LEMMA AdmissionLeave ==
    ASSUME TypeOK, Admission, NEW final, Leave(final)
    PROVE  Admission'
<1>1. \A t \in processes' : jobs'[t] \in AtWork
  BY DEF Leave, Admission, TypeOK, AtWork
<1>2. \A t \in TaskIds : Living(t)' => t \in processes' \/ pc' = "closed"
  BY DEF Leave, Admission, TypeOK, AtWork, Living
<1>3. pc' \in {"closed", "resuming"} => processes' = {}
  BY DEF Leave, Admission, TypeOK, AtWork
<1>4. \A t \in TaskIds : additions'[t] = "completed" => jobs'[t] \in {"completed", "absent"}
  BY DEF Leave, Admission, TypeOK, AtWork
<1>5. pc' = "starting" => \A t \in TaskIds : jobs'[t] = "queued" => ~Held(t)'
  BY DEF Leave, Admission, TypeOK, AtWork, Held, holds
<1> QED BY <1>1, <1>2, <1>3, <1>4, <1>5 DEF Admission

LEMMA AdmissionRestart ==
    ASSUME TypeOK, Admission, Restart
    PROVE  Admission'
<1>1. \A t \in processes' : jobs'[t] \in AtWork
  BY DEF Restart, Admission, TypeOK, AtWork
<1>2. \A t \in TaskIds : Living(t)' => t \in processes' \/ pc' = "closed"
  BY DEF Restart, Admission, TypeOK, AtWork, Living, workers
<1>3. pc' \in {"closed", "resuming"} => processes' = {}
  BY DEF Restart, Admission, TypeOK, AtWork
<1>4. \A t \in TaskIds : additions'[t] = "completed" => jobs'[t] \in {"completed", "absent"}
  BY DEF Restart, Admission, TypeOK, AtWork
<1>5. pc' = "starting" => \A t \in TaskIds : jobs'[t] = "queued" => ~Held(t)'
  BY DEF Restart, Admission, TypeOK, AtWork, Held, holds
<1> QED BY <1>1, <1>2, <1>3, <1>4, <1>5 DEF Admission

LEMMA AdmissionRequeue ==
    ASSUME TypeOK, Admission, Requeue
    PROVE  Admission'
<1>1. \A t \in processes' : jobs'[t] \in AtWork
  BY DEF Requeue, Admission, TypeOK, AtWork
<1>2. \A t \in TaskIds : Living(t)' => t \in processes' \/ pc' = "closed"
  BY DEF Requeue, Admission, TypeOK, AtWork, Living
<1>3. pc' \in {"closed", "resuming"} => processes' = {}
  BY DEF Requeue, Admission, TypeOK, AtWork
<1>4. \A t \in TaskIds : additions'[t] = "completed" => jobs'[t] \in {"completed", "absent"}
  BY DEF Requeue, Admission, TypeOK, AtWork
<1>5. pc' = "starting" => \A t \in TaskIds : jobs'[t] = "queued" => ~Held(t)'
  BY DEF Requeue, Admission, TypeOK, AtWork, Held, holds
<1> QED BY <1>1, <1>2, <1>3, <1>4, <1>5 DEF Admission

LEMMA AdmissionPlain ==
    ASSUME TypeOK, Admission,
           \/ BeginTick \/ StartNone \/ Publish \/ BeginFinish \/ Finish \/ Sleep
           \/ \E t \in TaskIds : LeaveRunning(t)
    PROVE  Admission'
<1>1. UNCHANGED <<jobs, processes, additions, worker, holds>>
  BY DEF BeginTick, StartNone, Publish, BeginFinish, Finish, Sleep, LeaveRunning, journal, workers
<1>2. /\ pc # "closed" /\ pc' \notin {"closed", "resuming"}
      /\ (pc' = "starting" => pc = "starting")
  BY DEF BeginTick, StartNone, Publish, BeginFinish, Finish, Sleep, LeaveRunning
<1> QED BY <1>1, <1>2 DEF Admission, Living, Held, holds

LEMMA AdmissionNext == AdmissionInv /\ [Next]_vars => AdmissionInv'
<1> SUFFICES ASSUME AdmissionInv, [Next]_vars PROVE Admission'
  BY Typing DEF AdmissionInv
<1>1. TypeOK /\ Admission
  BY DEF AdmissionInv
<1>2. CASE Operator \/ Decide
  BY <1>1, <1>2, AdmissionOperator
<1>3. CASE Scheduler /\ ~Decide
  BY <1>1, <1>3, AdmissionEndApply, AdmissionSend, AdmissionJoin, AdmissionSettle, AdmissionStart,
     AdmissionPersist, AdmissionLeave, AdmissionRequeue, AdmissionPlain DEF Scheduler, Close, RefuseResume
<1>4. CASE Interrupt \/ Restart
  BY <1>1, <1>4, AdmissionLeave, AdmissionRestart DEF Interrupt
<1>5. CASE \E t \in TaskIds : Worker(t)
  BY <1>1, <1>5, AdmissionWorker
<1>6. CASE UNCHANGED vars
  BY <1>1, <1>6 DEF Admission, Living, Held, vars, journal, scheduler, workers, holds
<1> QED BY <1>2, <1>3, <1>4, <1>5, <1>6 DEF Next, Stay

LEMMA AdmissionInvariance == Spec => []AdmissionInv
BY AdmissionInit, AdmissionNext, PTL DEF Spec

LEMMA OnlyStartAdmits ==
    ASSUME AdmissionInv, [Next]_vars, processes' \ processes # {}
    PROVE  \E t \in TaskIds : Start(t)
<1>1. CASE Operator \/ Decide \/ \E t \in TaskIds : Worker(t)
  BY <1>1 DEF Operator, Submit, Append, Decide, ApplyCommand, RejectCommand, Worker, Register,
              FirstCommit, Obey, Complete, Fail, Signalled, Exit, scheduler
<1>2. CASE Scheduler /\ ~Decide
  <2>1. CASE BeginTick \/ EndApply \/ Settle \/ StartNone \/ Persist \/ Publish \/ BeginFinish
             \/ Finish \/ Sleep \/ Close \/ Requeue \/ RefuseResume
    BY <2>1 DEF BeginTick, EndApply, Settle, StartNone, Persist, Publish, BeginFinish, Finish,
                Sleep, Close, Requeue, RefuseResume, Leave
  <2>2. ASSUME NEW t \in TaskIds, SendStop(t) \/ SendPause(t) \/ LeaveRunning(t) \/ Join(t)
        PROVE  FALSE
    BY <2>2 DEF SendStop, SendPause, LeaveRunning, Join
  <2> QED BY <1>2, <2>1, <2>2 DEF Scheduler
<1>3. CASE Interrupt \/ Restart \/ UNCHANGED vars
  BY <1>3 DEF Interrupt, Leave, Restart, vars, scheduler
<1> QED BY <1>1, <1>2, <1>3 DEF Next, Stay

LEMMA StartIsAdmitted ==
    ASSUME AdmissionInv, NEW t \in TaskIds, Start(t)
    PROVE  /\ processes' \ processes = {t}
           /\ ~Held(t) /\ ~paused /\ ~stopping
           /\ Cardinality(processes') <= limit
           /\ ~Living(t) /\ additions[t] # "completed"
<1>1. TypeOK /\ Admission
  BY DEF AdmissionInv
<1>2. /\ pc = "starting" /\ jobs[t] = "queued" /\ ~paused /\ ~stopping
      /\ Cardinality(processes) < limit /\ processes' = processes \cup {t}
  BY DEF Start, Startable
<1>3. t \notin processes
  BY <1>1, <1>2 DEF Admission, AtWork
<1>4. ~Held(t) /\ ~Living(t) /\ additions[t] # "completed"
  BY <1>1, <1>2, <1>3 DEF Admission
<1>5. Cardinality(processes') = Cardinality(processes) + 1
  BY <1>1, <1>2, <1>3, ActiveType, FS_AddElement
<1>6. Cardinality(processes') <= limit
  BY <1>1, <1>2, <1>5, ActiveType, ControlAssumption DEF TypeOK
<1> QED BY <1>2, <1>3, <1>4, <1>6

\* Workers are started only for tasks without a hold, within the limit, one per
\* task, and never for work that is recorded as done.
THEOREM OnlyAdmittedStart == Spec => StartsAreAdmitted
<1> DEFINE Admitted ==
       \A t \in processes' \ processes :
          /\ t \notin pausedTasks \cup stoppedTasks \cup removedTasks
          /\ ~paused /\ ~stopping
          /\ Cardinality(processes') <= limit
          /\ worker[t] \notin {"new", "live"} /\ additions[t] # "completed"
<1>1. AdmissionInv /\ [Next]_vars => Admitted
  <2> SUFFICES ASSUME AdmissionInv, [Next]_vars, NEW t \in processes' \ processes
               PROVE  /\ t \notin pausedTasks \cup stoppedTasks \cup removedTasks
                      /\ ~paused /\ ~stopping
                      /\ Cardinality(processes') <= limit
                      /\ worker[t] \notin {"new", "live"} /\ additions[t] # "completed"
    OBVIOUS
  <2>1. PICK u \in TaskIds : Start(u)
    BY OnlyStartAdmits
  <2> QED BY <2>1, StartIsAdmitted DEF Held, Living
<1>2. AdmissionInv /\ [Next]_vars => [Admitted]_vars
  BY <1>1
<1> QED BY <1>2, AdmissionInvariance, PTL DEF Spec, StartsAreAdmitted

----------------------------------------------------------------------------
(* The drained decision                                                    *)

\* Once the queue is drained nothing enters the batch any more.
Drain ==
    pc = "finished" =>
       /\ status \in BatchEnded /\ ~accepting /\ processes = {}
       /\ AllDecided
       /\ \A t \in TaskIds : additions[t] \in Ended \cup {"absent"}

DrainInv == AdmissionInv /\ Drain

LEMMA DrainInit == Init => DrainInv
BY AdmissionInit DEF Init, Drain, DrainInv

LEMMA DrainNext == DrainInv /\ [Next]_vars => DrainInv'
<1> SUFFICES ASSUME DrainInv, [Next]_vars PROVE Drain'
  BY AdmissionNext DEF DrainInv
<1>1. TypeOK /\ Drain
  BY DEF DrainInv, AdmissionInv
<1>2. CASE Operator
  <2>1. ASSUME NEW id \in CommandIds, NEW c \in Payloads, Submit(id, c)
        PROVE  Drain'
    <3>1. /\ UNCHANGED <<pc, status, accepting, processes, additions>>
          /\ commands'[id].status = IF status \in BatchEnded THEN "rejected" ELSE "received"
          /\ \A other \in CommandIds \ {id} : commands'[other] = commands[other]
      BY <1>1, <2>1 DEF Submit, TypeOK, settings, scheduler
    <3> QED BY <1>1, <3>1 DEF Drain, AllDecided, Received
  <2>2. ASSUME NEW id \in CommandIds, NEW t \in TaskIds, Append(id, t)
        PROVE  Drain'
    BY <1>1, <2>2 DEF Append, Drain, scheduler
  <2> QED BY <1>2, <2>1, <2>2 DEF Operator
<1>3. CASE Scheduler /\ ~Finish
  <2>1. CASE Decide
    BY <2>1 DEF Decide, ApplyCommand, RejectCommand, Locked, scheduler, Drain
  <2>2. CASE BeginTick \/ EndApply \/ Settle \/ StartNone \/ Persist \/ Publish \/ BeginFinish
             \/ Sleep \/ Close \/ Requeue \/ RefuseResume
    BY <2>2 DEF BeginTick, EndApply, Settle, StartNone, Persist, Publish, BeginFinish, Sleep, Close,
                Requeue, RefuseResume, Leave, Drain
  <2>3. ASSUME NEW t \in TaskIds,
               SendStop(t) \/ SendPause(t) \/ LeaveRunning(t) \/ Join(t) \/ Start(t)
        PROVE  Drain'
    BY <2>3 DEF SendStop, SendPause, LeaveRunning, Join, Start, Startable, Drain
  <2> QED BY <1>3, <2>1, <2>2, <2>3 DEF Scheduler
<1>4. CASE Finish
  <2>1. /\ status' \in BatchEnded /\ ~accepting' /\ processes' = {}
        /\ UNCHANGED <<commands, additions>>
    BY <1>4 DEF Finish, FinalStatus, BatchEnded, Ended, Drained, Unfinished, receipts
  <2> QED BY <1>4, <2>1 DEF Finish, Drained, Drain, AllDecided, Received
<1>5. CASE Interrupt \/ Restart
  BY <1>5 DEF Interrupt, Leave, Restart, Drain
<1>6. ASSUME NEW t \in TaskIds, Worker(t)
      PROVE  Drain'
  <2>1. UNCHANGED <<pc, status, accepting, processes, commands, additions>>
    BY <1>6 DEF Worker, Register, FirstCommit, Obey, Complete, Fail, Signalled, Exit, journal, settings, receipts,
                scheduler
  <2> QED BY <1>1, <2>1 DEF Drain, AllDecided, Received
<1>7. CASE UNCHANGED vars
  BY <1>1, <1>7 DEF Drain, AllDecided, Received, vars, journal, settings, receipts, scheduler
<1> QED BY <1>2, <1>3, <1>4, <1>5, <1>6, <1>7 DEF Next, Stay

\* The drained decision leaves no accepted addition, no worker and no command
\* behind, however operators interleave with the tick that precedes it.
THEOREM NothingIsLeftBehind == Spec => []NothingLeftBehind
<1>1. Spec => []DrainInv
  BY DrainInit, DrainNext, PTL DEF Spec
<1>2. DrainInv => NothingLeftBehind
  BY DEF DrainInv, AdmissionInv, Admission, Drain, NothingLeftBehind, Living
<1> QED BY <1>1, <1>2, PTL

----------------------------------------------------------------------------
(* Feedback and workers                                                    *)

Quiet == {"paused", "completed", "removed"}

\* A worker that lives is not observed as quiet, but between its start and the
\* next publication: and then its task is not held.
Fresh ==
    \A t \in TaskIds :
       (Living(t) /\ Observed(t) \in Quiet) =>
          pc = "closed" \/ (pc \in {"persisting", "publishing"} /\ ~Held(t) /\ ~paused)

\* Only tasks are removed; who waits is applied and waits for his own target;
\* a batch pause that waits and is not overtaken still holds the batch.
Overtaken(id) ==
    \E later \in CommandIds :
       /\ Applied(later) /\ Newer(later, id)
       /\ commands[later].kind = "resume" /\ commands[later].task = Batch

Waits ==
    /\ \A id \in CommandIds : commands[id].kind = "remove" => commands[id].task # Batch
    /\ \A id \in CommandIds : progress[id] = "waiting" =>
          /\ Applied(id) /\ pc # "closed"
          /\ commands[id].task # Batch => targets[id] = {commands[id].task}
          /\ (commands[id].kind = "pause" /\ commands[id].task = Batch /\ ~Overtaken(id)) => paused

ExitInv == JournalInv /\ DrainInv /\ Fresh /\ Waits

LEMMA ExitInit == Init => ExitInv
<1> SUFFICES ASSUME Init PROVE Fresh /\ Waits
  BY JournalInit, DrainInit DEF ExitInv
<1>1. Fresh
  BY DEF Init, Fresh, Living
<1>2. Waits
  BY DEF Init, Waits, Unused
<1> QED BY <1>1, <1>2

\* Steps that leave holds and observations alone.
LEMMA FreshOutside ==
    ASSUME Fresh, UNCHANGED <<pc, tasks, holds, paused>>,
           \A t \in TaskIds : Living(t)' => Living(t),
           \A t \in TaskIds : additions'[t] \in Quiet => additions[t] = additions'[t]
    PROVE  Fresh'
BY DEF Fresh, Observed, Held, holds, Quiet

LEMMA FreshNext ==
    ASSUME ExitInv, [Next]_vars
    PROVE  Fresh'
<1>1. TypeOK /\ Admission /\ Fresh
  BY DEF ExitInv, DrainInv, AdmissionInv
<1>2. CASE Operator
  <2>1. UNCHANGED <<pc, tasks, holds, paused, worker>>
    BY <1>2 DEF Operator, Submit, Append, settings, scheduler, workers
  <2>2. \A t \in TaskIds : additions'[t] \in Quiet => additions[t] = additions'[t]
    BY <1>1, <1>2 DEF Operator, Submit, Append, TypeOK, Quiet
  <2> QED BY <1>1, <2>1, <2>2, FreshOutside DEF Living
<1>3. CASE Decide
  <2>1. UNCHANGED <<pc, tasks, additions, worker>> /\ Locked
    BY <1>3 DEF Decide, ApplyCommand, RejectCommand, scheduler, workers
  <2> QED BY <1>1, <2>1 DEF Fresh, Observed, Living, Locked
<1>4. CASE BeginTick \/ EndApply \/ Settle \/ StartNone \/ BeginFinish \/ Finish \/ Sleep
  <2>1. UNCHANGED <<tasks, additions, worker, holds, paused>>
    BY <1>4 DEF BeginTick, EndApply, Settle, StartNone, BeginFinish, Finish, Sleep, journal,
                settings, workers
  <2>2. pc \notin {"persisting", "publishing", "closed"}
    BY <1>4 DEF BeginTick, EndApply, Settle, StartNone, BeginFinish, Finish, Sleep
  <2> QED BY <1>1, <2>1, <2>2 DEF Fresh, Observed, Living
<1>5. ASSUME NEW t \in TaskIds, SendStop(t) \/ SendPause(t) \/ LeaveRunning(t) \/ Join(t)
      PROVE  Fresh'
  <2>1. UNCHANGED <<tasks, additions>> /\ pc = "reaping"
    BY <1>5 DEF SendStop, SendPause, LeaveRunning, Join, journal
  <2>2. \A u \in TaskIds : Living(u)' => Living(u)
    BY <1>1, <1>5 DEF SendStop, SendPause, LeaveRunning, Join, workers, Living, TypeOK
  <2> QED BY <1>1, <2>1, <2>2 DEF Fresh, Observed
<1>6. ASSUME NEW t \in TaskIds, Start(t)
      PROVE  Fresh'
  <2>1. UNCHANGED <<tasks, additions, holds, paused>> /\ pc = "starting" /\ pc' = "persisting"
    BY <1>6 DEF Start, Startable, journal, settings
  <2>2. \A u \in TaskIds \ {t} : Living(u)' => Living(u)
    BY <1>1, <1>6 DEF Start, Living, TypeOK
  <2>3. ~Held(t) /\ ~paused
    BY <1>6, StartIsAdmitted DEF ExitInv, DrainInv
  <2> QED BY <1>1, <2>1, <2>2, <2>3 DEF Fresh, Observed, Held, holds
<1>7. CASE Persist
  <2>1. UNCHANGED <<tasks, worker, holds, paused>> /\ pc = "persisting" /\ pc' = "publishing"
    BY <1>7 DEF Persist, settings, workers
  <2>2. \A t \in TaskIds : Living(t) => jobs[t] \in AtWork
    BY <1>1, <2>1 DEF Admission
  <2>3. ASSUME NEW t \in TaskIds, Living(t), Observed(t)' \in Quiet
        PROVE  Observed(t) \in Quiet
    <3>1. additions' = [u \in TaskIds |-> IF additions[u] # "absent" /\ jobs[u] # "absent"
                                          THEN jobs[u] ELSE additions[u]]
      BY <1>7 DEF Persist
    <3>2. additions'[t] = jobs[t] \/ additions'[t] = additions[t]
      BY <3>1
    <3> QED BY <2>1, <2>2, <2>3, <3>2 DEF Observed, Quiet, AtWork
  <2> QED BY <1>1, <2>1, <2>3 DEF Fresh, Living, Held, holds
<1>8. CASE Publish
  <2>1. UNCHANGED worker /\ pc = "publishing"
    BY <1>8 DEF Publish, workers
  <2>2. \A t \in TaskIds : Living(t) => jobs[t] \in AtWork
    BY <1>1, <2>1 DEF Admission
  <2>3. \A t \in TaskIds : Living(t) => tasks'[t] = jobs[t]
    BY <1>8, <2>2 DEF Publish, PublishedTasks, AtWork
  <2> QED BY <2>1, <2>2, <2>3 DEF Fresh, Observed, Living, Quiet, AtWork
<1>9. CASE Close \/ Interrupt \/ RefuseResume
  BY <1>9 DEF Close, Interrupt, RefuseResume, Leave, Fresh
<1>10. CASE Restart \/ Requeue
  BY <1>10 DEF Restart, Requeue, Fresh, Living, workers
<1>11. ASSUME NEW t \in TaskIds, Worker(t)
       PROVE  Fresh'
  <2>1. UNCHANGED <<pc, tasks, additions, holds, paused>>
    BY <1>11 DEF Worker, Register, FirstCommit, Obey, Complete, Fail, Signalled, Exit, scheduler, journal, settings
  <2>2. \A u \in TaskIds : Living(u)' => Living(u)
    BY <1>1, <1>11 DEF Worker, Register, FirstCommit, Obey, Complete, Fail, Signalled, Exit, Living, TypeOK
  <2> QED BY <1>1, <2>1, <2>2, FreshOutside
<1>12. CASE UNCHANGED vars
  BY <1>1, <1>12, FreshOutside DEF vars, journal, settings, scheduler, workers, Living
<1> QED
  BY <1>2, <1>3, <1>4, <1>5, <1>6, <1>7, <1>8, <1>9, <1>10, <1>11, <1>12 DEF Next, Stay, Scheduler

\* Waiting commands, one conjunct for each.
WaitsFor(id) ==
    progress[id] = "waiting" =>
       /\ Applied(id) /\ pc # "closed"
       /\ commands[id].task # Batch => targets[id] = {commands[id].task}
       /\ (commands[id].kind = "pause" /\ commands[id].task = Batch /\ ~Overtaken(id)) => paused

\* Steps that apply nothing and let nobody wait anew.
LEMMA WaitsStay ==
    ASSUME Waits, AppliedStay, UNCHANGED <<targets, paused>>, pc' # "closed",
           \A id \in CommandIds : progress'[id] = "waiting" => progress[id] = "waiting",
           \A id \in CommandIds : commands'[id].kind = "remove" => commands'[id].task # Batch
    PROVE  Waits'
<1>1. ASSUME NEW id \in CommandIds, progress'[id] = "waiting"
      PROVE  WaitsFor(id)'
  <2>1. Applied(id) /\ Applied(id)' /\ commands'[id] = commands[id]
    BY <1>1 DEF Waits, AppliedStay
  <2>2. Overtaken(id) => Overtaken(id)'
    <3> SUFFICES ASSUME NEW later \in CommandIds, Applied(later), Newer(later, id),
                        commands[later].kind = "resume", commands[later].task = Batch
                 PROVE  Overtaken(id)'
      BY DEF Overtaken
    <3>1. Applied(later)' /\ commands'[later] = commands[later]
      BY DEF AppliedStay
    <3> QED BY <2>1, <3>1 DEF Overtaken, Newer
  <2> QED BY <1>1, <2>1, <2>2 DEF Waits, WaitsFor
<1> QED BY <1>1 DEF Waits, WaitsFor

\* Feedback only answers.
LEMMA FeedbackAnswers ==
    ASSUME NEW seen, NEW batch, progress' = Feedback(seen, batch), NEW id \in CommandIds
    PROVE  progress'[id] = "waiting" => progress[id] = "waiting"
BY DEF Feedback

\* When the batch has ended nobody waits any more.
LEMMA LeaveAnswers ==
    ASSUME NEW final \in BatchEnded, Leave(final), NEW id \in CommandIds
    PROVE  progress'[id] # "waiting"
<1>1. progress'[id] = IF progress[id] = "waiting" THEN Outcome(id, Observations, final) ELSE progress[id]
  BY DEF Leave, Feedback
<1>2. Outcome(id, Observations, final) # "waiting"
  BY DEF Outcome
<1> QED BY <1>1, <1>2

LEMMA WaitsApply ==
    ASSUME ExitInv, NEW k \in CommandIds, ApplyCommand(k)
    PROVE  Waits'
<1> DEFINE c == commands[k]
<1>1. TypeOK /\ Numbered /\ Waits
  BY DEF ExitInv, JournalInv
<1>2. /\ Received(k) /\ ~Applied(k) /\ Applied(k)'
      /\ commands'[k].kind = c.kind /\ commands'[k].task = c.task /\ commands'[k].revision = c.revision
      /\ \A id \in CommandIds \ {k} : commands'[id] = commands[id]
      /\ pc' = pc /\ pc # "closed"
  BY <1>1 DEF ApplyCommand, Next1, Received, Applied, TypeOK, Locked, scheduler
<1>3. ASSUME NEW id \in CommandIds \ {k}, progress'[id] = "waiting"
      PROVE  WaitsFor(id)'
  <2>1. progress[id] = "waiting" /\ targets'[id] = targets[id]
    BY <1>1, <1>3 DEF ApplyCommand, TypeOK, feedback
  <2>2. Applied(id) /\ Applied(id)' /\ commands'[id] = commands[id]
    BY <1>1, <1>2, <2>1 DEF Waits, Applied
  <2>3. Overtaken(id) => Overtaken(id)'
    BY <1>2, <2>2 DEF Overtaken, Applied, Newer
  <2>4. (c.kind = "resume" /\ c.task = Batch) => Overtaken(id)'
    <3>1. Newer(k, id)
      BY <1>1, <1>2, <2>2 DEF Numbered
    <3> QED BY <1>2, <2>2, <3>1 DEF Overtaken, Newer
  <2>5. ~(c.kind = "resume" /\ c.task = Batch) => (paused => paused')
    BY DEF ApplyCommand
  <2> QED BY <1>1, <1>2, <2>1, <2>2, <2>3, <2>4, <2>5 DEF Waits, WaitsFor
<1>4. ASSUME progress'[k] = "waiting"
      PROVE  WaitsFor(k)'
  <2>1. progress[k] # "waiting"
    BY <1>1, <1>2 DEF Waits
  <2>2. c.kind \in {"pause", "resume", "remove"} /\ targets'[k] = Targets(c)
    BY <1>1, <1>4, <2>1 DEF ApplyCommand, TypeOK, feedback
  <2>3. c.task # Batch => targets'[k] = {c.task}
    BY <2>2 DEF Targets
  <2>4. (c.kind = "pause" /\ c.task = Batch) => paused'
    BY DEF ApplyCommand
  <2> QED BY <1>2, <2>3, <2>4 DEF WaitsFor
<1>5. \A id \in CommandIds : commands'[id].kind = "remove" => commands'[id].task # Batch
  BY <1>1, <1>2 DEF Waits
<1> QED BY <1>3, <1>4, <1>5 DEF Waits, WaitsFor

LEMMA WaitsNext ==
    ASSUME ExitInv, [Next]_vars
    PROVE  Waits'
<1>1. TypeOK /\ Numbered /\ Drain /\ Waits
  BY DEF ExitInv, DrainInv, AdmissionInv, JournalInv
<1>2. ASSUME NEW id \in CommandIds, NEW c \in Payloads, Submit(id, c)
      PROVE  Waits'
  <2>1. UNCHANGED <<progress, targets, paused, pc>>
    BY <1>2 DEF Submit, settings, feedback, scheduler
  <2>2. /\ ~Applied(id) /\ ~Applied(id)' /\ commands'[id].kind = c.kind /\ commands'[id].task = c.task
        /\ \A other \in CommandIds \ {id} : commands'[other] = commands[other]
    BY <1>1, <1>2 DEF Submit, TypeOK, Applied, Unused
  <2>3. AppliedStay
    BY <2>2 DEF AppliedStay, Applied
  <2>4. c.kind = "remove" => c.task # Batch
    BY ControlAssumption DEF Commands, BatchKinds
  <2>5. \A a \in CommandIds : commands'[a].kind = "remove" => commands'[a].task # Batch
    BY <1>1, <2>2, <2>4 DEF Waits
  <2>6. CASE pc = "closed"
    <3>1. \A a \in CommandIds : progress[a] # "waiting"
      BY <1>1, <2>6 DEF Waits
    <3> QED BY <2>1, <2>5, <3>1 DEF Waits
  <2> QED BY <1>1, <2>1, <2>3, <2>5, <2>6, WaitsStay
<1>3. ASSUME NEW id \in CommandIds, NEW t \in TaskIds, Append(id, t)
      PROVE  Waits'
  <2>1. UNCHANGED <<progress, targets, paused, pc>>
    BY <1>3 DEF Append, settings, feedback, scheduler
  <2>2. /\ ~Applied(id) /\ ~Applied(id)' /\ commands'[id].kind = "add"
        /\ \A other \in CommandIds \ {id} : commands'[other] = commands[other]
    BY <1>1, <1>3 DEF Append, TypeOK, Applied, Unused
  <2>3. AppliedStay
    BY <2>2 DEF AppliedStay, Applied
  <2>5. \A a \in CommandIds : commands'[a].kind = "remove" => commands'[a].task # Batch
    BY <1>1, <2>2 DEF Waits
  <2>6. CASE pc = "closed"
    <3>1. \A a \in CommandIds : progress[a] # "waiting"
      BY <1>1, <2>6 DEF Waits
    <3> QED BY <2>1, <2>5, <3>1 DEF Waits
  <2> QED BY <1>1, <2>1, <2>3, <2>5, <2>6, WaitsStay
<1>4. ASSUME NEW id \in CommandIds, RejectCommand(id)
      PROVE  Waits'
  <2>1. UNCHANGED <<progress, targets, paused, pc>> /\ pc # "closed"
    BY <1>4 DEF RejectCommand, settings, feedback, scheduler, Locked
  <2>2. /\ ~Applied(id) /\ ~Applied(id)'
        /\ commands'[id].kind = commands[id].kind /\ commands'[id].task = commands[id].task
        /\ \A other \in CommandIds \ {id} : commands'[other] = commands[other]
    BY <1>1, <1>4 DEF RejectCommand, Next1, Received, TypeOK, Applied
  <2>3. AppliedStay
    BY <2>2 DEF AppliedStay, Applied
  <2>4. \A a \in CommandIds : commands'[a].kind = "remove" => commands'[a].task # Batch
    BY <1>1, <2>2 DEF Waits
  <2> QED BY <1>1, <2>1, <2>3, <2>4, WaitsStay
<1>5. ASSUME commands' = commands
      PROVE  AppliedStay /\ \A a \in CommandIds : commands'[a].kind = "remove" => commands'[a].task # Batch
  BY <1>1, <1>5 DEF AppliedStay, Applied, Waits
<1>6. CASE EndApply \/ Publish \/ Finish \/ Sleep
  <2>1. UNCHANGED <<commands, targets, paused>> /\ pc' # "closed"
    BY <1>6 DEF EndApply, Publish, Finish, Sleep, receipts, settings
  <2>2. \E seen, batch : progress' = Feedback(seen, batch)
    BY <1>6 DEF EndApply, Publish, Finish, Sleep
  <2>3. \A id \in CommandIds : progress'[id] = "waiting" => progress[id] = "waiting"
    BY <2>2, FeedbackAnswers
  <2> QED BY <1>1, <1>5, <2>1, <2>3, WaitsStay
<1>7. CASE BeginTick \/ Settle \/ StartNone \/ Persist \/ BeginFinish \/ Requeue
  <2>1. UNCHANGED <<commands, progress, targets, paused>> /\ pc' # "closed"
    BY <1>7 DEF BeginTick, Settle, StartNone, Persist, BeginFinish, Requeue, journal, receipts, settings, feedback
  <2> QED BY <1>1, <1>5, <2>1, WaitsStay
<1>8. ASSUME NEW t \in TaskIds,
             SendStop(t) \/ SendPause(t) \/ LeaveRunning(t) \/ Join(t) \/ Start(t)
      PROVE  Waits'
  <2>1. UNCHANGED <<commands, progress, targets>> /\ pc' # "closed" /\ (UNCHANGED paused)
    BY <1>8 DEF SendStop, SendPause, LeaveRunning, Join, Start, Startable, journal, receipts, settings,
                feedback
  <2> QED BY <1>1, <1>5, <2>1, WaitsStay
<1>9. CASE Close \/ Interrupt \/ RefuseResume
  <2>1. \A final \in BatchEnded : Leave(final) => \A id \in CommandIds : progress'[id] # "waiting"
    BY LeaveAnswers
  <2>2. \A id \in CommandIds : progress'[id] # "waiting"
    BY <1>1, <1>9, <2>1 DEF Close, Interrupt, RefuseResume, Drain, BatchEnded, Ended
  <2>3. commands' = commands
    BY <1>9 DEF Close, Interrupt, RefuseResume, Leave, receipts
  <2> QED BY <1>5, <2>2, <2>3 DEF Waits
<1>10. CASE Restart
  <2>1. UNCHANGED <<commands, progress>> /\ pc = "closed"
    BY <1>10 DEF Restart, receipts, feedback
  <2>2. \A id \in CommandIds : progress'[id] # "waiting"
    BY <1>1, <2>1 DEF Waits
  <2> QED BY <1>5, <2>1, <2>2 DEF Waits
<1>11. ASSUME UNCHANGED <<commands, progress, targets, paused, pc>>
       PROVE  Waits'
  BY <1>1, <1>11 DEF Waits, Applied, Overtaken, Newer
<1>12. ASSUME NEW t \in TaskIds, Worker(t)
       PROVE  Waits'
  BY <1>11, <1>12 DEF Worker, Register, FirstCommit, Obey, Complete, Fail, Signalled, Exit, journal, receipts,
                      settings, feedback, scheduler
<1>13. CASE UNCHANGED vars
  BY <1>11, <1>13 DEF vars, journal, receipts, settings, feedback, scheduler
<1> QED
  BY <1>2, <1>3, <1>4, <1>6, <1>7, <1>8, <1>9, <1>10, <1>12, <1>13, WaitsApply
     DEF Next, Operator, Decide, Scheduler, Stay

LEMMA ExitInvariance == Spec => []ExitInv
<1>1. Init => ExitInv
  BY ExitInit
<1>2. ExitInv /\ [Next]_vars => ExitInv'
  BY JournalNext, DrainNext, FreshNext, WaitsNext DEF ExitInv
<1> QED BY <1>1, <1>2, PTL DEF Spec

\* Who waits for a pause or a removal and is not overtaken holds his targets.
LEMMA WaitingHolds ==
    ASSUME ExitInv, NEW id \in CommandIds, progress[id] = "waiting", ~Superseded(id),
           commands[id].kind \in {"pause", "remove"}, NEW t \in targets[id]
    PROVE  Held(t) \/ paused
<1>1. TypeOK /\ HoldsExplained /\ Waits
  BY DEF ExitInv, JournalInv
<1>2. Applied(id) /\ t \in TaskIds
  BY <1>1 DEF Waits, TypeOK
<1>3. CASE commands[id].task = Batch
  <2>1. commands[id].kind = "pause"
    BY <1>1, <1>3 DEF Waits
  <2>2. ~Overtaken(id)
    BY <1>3, <2>1 DEF Superseded, Overtaken, TaskKinds
  <2> QED BY <1>1, <1>3, <2>1, <2>2 DEF Waits
<1>4. CASE commands[id].task # Batch
  <2>1. commands[id].task = t
    BY <1>1, <1>4 DEF Waits
  <2>2. CASE commands[id].kind = "remove"
    <3>1. Standing(t, "remove", {})
      BY <1>2, <2>1, <2>2 DEF Standing
    <3> QED BY <1>1, <1>2, <3>1 DEF HoldsExplained, Held
  <2>3. CASE commands[id].kind = "pause"
    <3>1. Standing(t, "pause", {"resume", "stop", "remove"})
      BY <1>2, <2>1, <2>3 DEF Standing, Superseded, TaskKinds
    <3> QED BY <1>1, <1>2, <3>1 DEF HoldsExplained, Held
  <2> QED BY <2>2, <2>3
<1> QED BY <1>3, <1>4

\* Feedback that completes a pause or a removal has seen every target quiet.
LEMMA CompletedSeen ==
    ASSUME NEW seen, NEW batch, progress' = Feedback(seen, batch), NEW id \in CommandIds,
           progress[id] = "waiting", progress'[id] = "completed",
           commands[id].kind \in {"pause", "remove"}
    PROVE  ~Superseded(id) /\ \A t \in targets[id] : seen[t] \in Quiet
<1>1. progress'[id] = Outcome(id, seen, batch)
  BY DEF Feedback
<1>2. ~Superseded(id) /\ targets[id] = {t \in targets[id] : seen[t] \in Reaches(commands[id].kind)}
  BY <1>1 DEF Outcome
<1>3. Reaches(commands[id].kind) \subseteq Quiet
  BY DEF Reaches, Quiet
<1> QED BY <1>2, <1>3

LEMMA FeedbackSteps ==
    ASSUME TypeOK, [Next]_vars, NEW id \in CommandIds,
           progress[id] = "waiting", progress'[id] = "completed", ~ApplyCommand(id)
    PROVE  \/ Publish
           \/ \E batch : progress' = Feedback(Observations, batch) /\ worker' = worker /\ pc # "closed"
<1>1. progress' # progress
  OBVIOUS
<1>2. CASE Operator \/ \E t \in TaskIds : Worker(t)
  BY <1>1, <1>2 DEF Operator, Submit, Append, Worker, Register, FirstCommit, Obey, Complete, Fail, Signalled, Exit,
                    journal, feedback
<1>3. CASE Decide
  <2>1. PICK k \in CommandIds : ApplyCommand(k) \/ RejectCommand(k)
    BY <1>3 DEF Decide
  <2>2. ~RejectCommand(k)
    BY <1>1 DEF RejectCommand, feedback
  <2>3. ApplyCommand(k)
    BY <2>1, <2>2
  <2>4. k # id
    BY <2>3
  <2> QED BY <2>3, <2>4 DEF ApplyCommand, feedback, TypeOK
<1>4. CASE EndApply \/ Finish \/ Sleep \/ Close \/ Interrupt \/ RefuseResume
  BY <1>4 DEF EndApply, Finish, Sleep, Close, Interrupt, RefuseResume, Leave, workers
<1>5. CASE BeginTick \/ Settle \/ StartNone \/ Persist \/ BeginFinish \/ Restart \/ Requeue \/ UNCHANGED vars
  BY <1>1, <1>5 DEF BeginTick, Settle, StartNone, Persist, BeginFinish, Restart, Requeue, vars, journal,
                    feedback
<1>6. ASSUME NEW t \in TaskIds,
             SendStop(t) \/ SendPause(t) \/ LeaveRunning(t) \/ Join(t) \/ Start(t)
      PROVE  FALSE
  BY <1>1, <1>6 DEF SendStop, SendPause, LeaveRunning, Join, Start, journal, feedback
<1> QED BY <1>2, <1>3, <1>4, <1>5, <1>6 DEF Next, Scheduler, Stay

LEMMA ExitStep ==
    ASSUME ExitInv, [Next]_vars, NEW id \in CommandIds,
           progress[id] = "waiting", progress'[id] = "completed",
           commands[id].kind \in {"pause", "remove"}, NEW t \in targets[id]
    PROVE  ~Living(t)'
<1>1. TypeOK /\ Admission /\ Fresh /\ Waits
  BY DEF ExitInv, DrainInv, AdmissionInv
<1>2. t \in TaskIds /\ ~ApplyCommand(id)
  BY <1>1 DEF TypeOK, Waits, ApplyCommand, Next1, Received, Applied
<1>3. CASE Publish
  <2>1. progress' = Feedback(Seen(PublishedTasks), PublishedStatus) /\ worker' = worker
    BY <1>3 DEF Publish, workers
  <2>2. Seen(PublishedTasks)[t] \in Quiet
    BY <2>1, CompletedSeen
  <2>3. Living(t) => jobs[t] \in AtWork
    BY <1>1, <1>2, <1>3 DEF Admission, Publish
  <2>4. jobs[t] \in AtWork => Seen(PublishedTasks)[t] = jobs[t]
    BY <1>2 DEF Seen, PublishedTasks, AtWork
  <2> QED BY <2>1, <2>2, <2>3, <2>4 DEF Living, Quiet, AtWork
<1>4. ASSUME NEW batch, progress' = Feedback(Observations, batch), worker' = worker, pc # "closed"
      PROVE  ~Living(t)'
  <2>1. ~Superseded(id) /\ Observations[t] \in Quiet
    BY <1>4, CompletedSeen
  <2>2. Observed(t) \in Quiet
    BY <1>2, <2>1 DEF Observations
  <2>3. Held(t) \/ paused
    BY <2>1, WaitingHolds
  <2>4. ~Living(t)
    BY <1>1, <1>2, <1>4, <2>2, <2>3 DEF Fresh
  <2> QED BY <1>4, <2>4 DEF Living
<1> QED BY <1>1, <1>2, <1>3, <1>4, FeedbackSteps

\* What is reported as paused or removed has no living worker any more.
THEOREM ConfirmedHaveExited == Spec => ConfirmedMeansExited
<1> DEFINE Confirms ==
       \A id \in CommandIds :
          (/\ progress[id] = "waiting" /\ progress'[id] = "completed"
           /\ commands[id].kind \in {"pause", "remove"})
          => \A t \in targets[id] : worker'[t] \notin {"new", "live"}
<1>1. ExitInv /\ [Next]_vars => Confirms
  BY ExitStep DEF Living
<1>2. ExitInv /\ [Next]_vars => [Confirms]_vars
  BY <1>1
<1> QED BY <1>2, ExitInvariance, PTL DEF Spec, ConfirmedMeansExited
=============================================================================
