# SmartSOM in TLA+

SmartSOM simulates a factory: jobs arrive at inputs, vehicles carry them between
buffers, machines work on them, and finished jobs leave through outputs. Policies
(rules or learned networks) decide; a *protocol* asks them in a fixed order and
guards every answer; the *physics* moves integer ticks. Around the simulator stands
an experiment platform that runs many episodes in worker processes, under a command
journal and a shared admission table.

The modules here model the parts whose correctness depends on orders of events
rather than on numbers. Paths below are relative to `src/smartsom/` in the
repository.

## 1. Inventory

| Part | Source | State | Operations | Module |
|---|---|---|---|---|
| production physics | `engine/production.py`, `engine/physical_services.py` | `jobs`, `storage`, `machine_state`, `agvs`, `queue`, `released`, `shipped`, `tick` | `_start`, `_transfer`, `_advance`, `_boundary`, `step`, `start_service`, `complete_services` | `FactoryCore`, `JointMoves`, `FactoryClock` |
| base reservation protocol | `engine/base_protocol.py` | `agvs[v].target/reservation/service`, `wake`, `empty_wait_due`, `rejected` | `decisions` (a generator that yields requests), `accept`, `cancel`, `complete_services`, `advance`, `check_reservations` | `BaseNegotiation` |
| central control | `engine/central_control.py` | `assignments` | `choose`, `reconcile`, `before_services`, `start_services`, `after_services` | `CentralControl` |
| event calendar | `idle_interval`, `down_at` in `engine/base_protocol.py` | `tick`, `wake`, `empty_wait_due` | the length of an interval without required events | `FactoryClock` |
| traffic rules | `traffic/rule_mover.py`, conflict part of `ProductionSimulator.step` | `wait`, `last`, positions | `moves`, the joint resolution | `Traffic` over `JointMoves` |
| routes and ports | `engine/base_routes.py`, `engine/port_lookup.py` | none (caches) | distances, port cells | `Traffic` (distances), constants |
| runtime control journal | `experiments/runtime_control.py` | `runtime.json`: `commands`, `revision`, `tasks`, `additions`, holds, `status` | `submit`, `apply`, `publish`, `append`, `restart`, `finish_if_drained` | `RuntimeControl` |
| native scheduler | `experiments/runtime_workers.py`, `author_batch.py` | `jobs`, `processes`, `stop_sent`, `pause_sent` | `tick`, `_persist`, tail loop, interrupt, resume | `RuntimeControl` |
| shared admission | `experiments/queue_admission.py` | `admission.json`: `slots`, `waiters`, `queue` | `initialize`, `note_wait`, `clear_wait`, `reserve`, `update_resources`, `retire`; `claim`, `detach`, `completed_source` | `QueueAdmission`; `BatchAdoption` for the queue fields |
| retry and append | `experiments/batch_append.py`, `batch_retry.py`, `incremental_batch.py` | parts of `runtime.json`, `batch.json`, `admission.json` | `append`, `synchronize` | `BatchAdoption` |
| process ownership | `experiments/control.py`, `background.py` | owner records, stop and pause requests | `Scope.bind`, `stop`, `request_pause` | inside the three modules above |
| sessions and checkpoints | `experiments/reservation_session.py`, `reservation_validation.py`, `freeze`/`evaluate` of `reservation_runtime.py` | `continuation/`, `last.pt`, `checkpoints/`, `validation/`, `best.pt`, `evaluation/` | `commit`, `publish`, `step`, `validate`, `copy_checkpoint`, `final_evaluate` | `TrainingSession` |
| episode driver | `experiments/reservation_runtime.py` (`_episode`) | none of its own | `decisions()` → policy → `moves` → `advance` until `done` | the `Next` of the engine modules |
| schedulers and brokers | `experiments/tuning_broker.py`, `runtime_resources.py`, ... | leases, processes | launch, measure, retire | not modelled; their admissions are `QueueAdmission`'s |
| domain, configuration | `domain/`, `config/` | immutable records | validation | assumptions on constants |
| policies, algorithms, learning | `policies/`, `algorithms/`, `learning/`, `dispatch/` | networks, replay | `choose`, update | any legal answer |
| observations, telemetry, trace, studio | `observations/`, `representations/`, `telemetry/`, `trace/`, `studio/` | – | read only | – |

How they interact. The driver calls `decisions()` and answers each yielded request
with the policy's choice; between two yields nothing else runs, but the protocol's
own state has changed since the request was prepared. When the generator ends, the
mover proposes moves from `traffic_view()`, and `advance` runs one physical interval:
`step` moves vehicles, `complete_services` transfers jobs (cancelling first what a
breakdown at the new tick makes impossible), `_advance` counts processing down with
the *old* availability, and `_boundary` switches availability, releases and admits
demands and releases finished jobs to the post buffers.

Above that, a *batch* is a directory with a driver process: its scheduler starts
workers, each of which runs one training or evaluation. Operators write commands into
the batch's journal (`runtime.json`, one lock), schedulers take slots from its admission
table (`admission.json`, another lock), and a live batch may adopt tasks of another
directory, whose own driver must then stay away (`driver.lock`, owner records and a
claim in *its* admission table). A worker keeps everything it has done in files, so
that a killed one can be continued.

Hard behaviours: the order inside an interval; promises (reservations) that live across
many intervals while breakdowns come and go; two kinds of promise against one
station (a delivery needs room in the station, an unloading service needs a slot of
one buffer); negotiation rounds in which quotas change after every acceptance;
zero-time loops that must end; chains and cycles of vehicles that follow each other;
a clock that leaps; concurrent writers of two journals with two locks, and decisions
taken on a snapshot of the other journal; three locks and three records that decide
together who may drive a directory; crashes between any two of these writes.

What makes each part correct:

- **physics**: every job has one owner that four records agree on; work is done in
  route order by capable machines; nothing is lost, nothing ships early; first in,
  first out at an input.
- **protocol**: stations and slots are never overbooked, every promised pickup has a
  job, promises are kept unless a breakdown excuses them, a promise can always be
  fulfilled (no station blocks its own deliveries), negotiation ends, work ships.
- **central control**: no two assignments share a job; a broken destination returns
  job and capacity.
- **event calendar**: everything happens at its own tick, nothing ends late, a vehicle
  is asked again in time.
- **traffic**: no collision, no swap, what may move does move, and the shared mover
  never asks for what physics would reject.
- **journal and scheduler**: commands applied once and in order, holds respected, an
  accepted append is executed or the batch is still open.
- **admission**: limits and budgets hold at every grant, a held task is not admitted,
  slots are exactly the living workers, an aged request is neither overtaken nor starved.
- **adoption**: an adopted directory has no driver of its own, its claim lasts as long as
  the work (the code keeps that only for work that has not been stopped in between), and
  comes back with all outcomes written.
- **sessions**: whatever is published, judged and selected is the same as without the
  crash, and every crash can be recovered from.

## 2. Modules

| Module | What it is |
|---|---|
| `FactoryCore` | state and intervals of the physics; no protocol |
| `BaseNegotiation` | the base protocol over `FactoryCore`; `Spec`, `DrivenSpec`, `FairSpec` |
| `CentralControl` | central assignment over `FactoryCore`; `Spec`, `FairSpec` |
| `JobLifecycle` | abstract specification: the life of each job, implemented by both protocols (`INSTANCE JobLifecycle WITH place <- loc, done <- step`) |
| `FactoryClock` | physical time of the base protocol: intervals, calendar, waits and retries |
| `JointMoves` | what physics makes of any joint movement command |
| `Traffic` | `SharedMover` over `JointMoves`, its recursive search call by call, and any other mover beside it |
| `Fleet` | the vehicles, which `FactoryClock` and `JointMoves` have in common |
| `RuntimeControl` | the command journal of a batch, its scheduler and its workers; `Spec`, `FairSpec` |
| `QueueAdmission` | the slot table that native and tuning schedulers share; `Spec`, `FairSpec` |
| `BatchAdoption` | tasks of one batch in the live queue of another; `Spec`, `FairSpec` |
| `TrainingSession` | one training run and its files, killed between any two writes |
| `MCBase`, `MCCentral`, `MCClock`, `MCTraffic`, `MCRuntime`, `MCAdmission`, `MCAdoption`, `MCTraining` | the instances used by TLC |
| `FactoryCoreProofs` | lemmas about one start, one service, one interval |
| `BaseNegotiationProofs`, `CentralControlProofs`, `RuntimeControlProofs`, `QueueAdmissionProofs`, `BatchAdoptionProofs`, `TrainingSessionProofs` | inductive invariants and theorems of the module in the name |
| `PhysicsProofs` | those of `FactoryClock`, `JointMoves` and `Traffic` |

Operators whose comment begins with "Mutant:" are plausible errors of the definition
that follows them. They are not used; each shows, put in its place, that a property
would notice the error.

### State correspondence

| Variable | Code |
|---|---|
| `loc[j]` | `jobs[j]["location"]`; `unreleased` before `_enqueue` makes the row |
| `step[j]` | `jobs[j]["step"]` |
| `store[b]` | `storage[b]`, the union of its slots |
| `mstat[m]`, `mjob[m]`, `down` | `machine_state[m]["status"]`, `["job"]`, `["down"]` |
| `cargo[v]`, `target[v]`, `service[v]` | `agvs[v]["job"]`, the owner in `["target"]`, `["service"]` |
| `shipped` | `core.shipped` (the same set object as `core.completed`) |
| `outages[m]` | declared outages of the scenario that have not started |
| `phase` | position in `decisions()` and in the driver's loop |
| `active`, `rejected` | the locals of the same name in `decisions()` |
| `emptyWait` | the keys of `empty_wait_due` |
| `onsite` | vehicles whose cell is a port of their target's owner |
| `task[v]` (`CentralControl`) | the `job` and `destination` of `assignments[v]` |

| Variable of `FactoryClock` | Code |
|---|---|
| `tick`, `wake`, `due` | `core.tick`, the tick in `wake`, `empty_wait_due` (0 for no entry) |
| `work[m]` | `remaining` of the operation of `m`, 0 without one |
| `offers`, `changed` | whether a vehicle has opportunities, and whether their signature differs from that in `wake` |
| `moving` | whether the interval is one tick because a vehicle moves or serves |
| `left`, `recorded` | what is left of the interval `advance` has chosen; a recorded run goes through it tick by tick |

| Variable of `JointMoves`, `Traffic` | Code |
|---|---|
| `cell[v]`, `command[v]` | `agvs[v]["cell"]`; the cell that the commanded direction leads to (its own for WAIT, no neighbour for an invalid move) |
| `service` | vehicles whose `service` is not `None` |
| `mover` | the command is `SharedMover`'s |
| `plan` | the arguments of `moves` (`ready` and `service` of the view, `tick`) and its `goals`; `None` outside a call |
| `order` | what the loop over `order` has left |
| `assigned` | the dictionary `assigned`, `None` for a vehicle without an entry |
| `stack` | the calls of `reserve` under way: vehicle, the cells its loop is through with, `saved` |

| Variable of `RuntimeControl` | Code |
|---|---|
| `commands[id]` | `commands[id]` of `runtime.json`: kind, task (`Batch` for none), revision, status |
| `revision`, `appliedRevision`, `limit`, `accepting`, `keepOpen`, `paused`, `stopping`, `status`, `active` | the fields of the same names (`applied_revision`, `max_concurrent`, ..., `active_slots`) |
| `additions[t]`, `tasks[t]` | the status of `additions[t]`, written by `_persist`, and of `tasks[t]`, written by `publish`; `absent` when there is no row |
| `pausedTasks`, `stoppedTasks`, `removedTasks` | `paused_tasks`, `stopped_tasks`, `removed_tasks` |
| `progress[id]`, `targets[id]` | `status` and `targets` of `commands[id]["progress"]` |
| `pc` | where the driver is in the tail loop of `execute_saved`; `resuming` between `restart` and the transaction that takes up the additions |
| `jobs`, `processes`, `pauseSent`, `stopSent` | the attributes of `NativeScheduler`; `todo` is what its loop over processes has left |
| `worker[t]` | the process of the present attempt: `new` until it has registered, `live`, or how it exited |
| `owner`, `request[t]` | `control/owner.json` exists; the requests that name the *present* owner |
| `rootStop` | a stop request in the driver's own control directory |
| `saved` | trainings (`Trainings`) whose directory has a `continuation/current.json` |

| Variable of `QueueAdmission` | Code |
|---|---|
| `slots` | `admission.json` `slots`: the charge of each reserved key |
| `since`, `feasible`, `aged` | the `since` of each waiter as a rank, its `feasible`, and `now - since >= 30` |
| `journal`, `host` | `max_concurrent`, budget, holds and priorities of `runtime.json`; what the host reports as headroom |
| `pc[k]` | the scheduler's loop for one key: wanted, noted, granted, running, exited; `orphan` if its driver has died |

| Variable of `BatchAdoption` | Code |
|---|---|
| `src`, `claim`, `admitted`, `quiescent` | of the source: outcomes in `batch.json`; `queue`, `generation` and its kind in `admission.json` |
| `owner`, `driver` | generation in `owner.json`; where that driver is between `Scope.bind` and its exit |
| `up`, `open`, `status[q]` | the queue's driver lives; `accepting`; what its driver has left behind: nothing (`live`), a stop or an end, `failed`, or a journal that was opened again without a driver (`reopened`) |
| `job[q]`, `hold[q]`, `halted`, `dirty` | `additions`, `stopped_tasks` and `stopping` of the queue's `runtime.json`; between a status change and `synchronize` |
| `worker[t]`, `saved` | holder of `trial.lock`; trainings with a `continuation/current.json` |
| `unclaimed[q]` | history: stopped work that was queued again when the claim was not there |
| `app` | the submission under way: what it has looked at, provisioned and claimed |

| Variable of `TrainingSession` | Code |
|---|---|
| `disk[<<name, n, kind>>]` | the model that a file holds (`pt`) or describes (`json`): `continuation/<generation>`, `current.json`, `last.pt`, `episodes.jsonl`, `checkpoints/episode-n.pt`, `validation/.../model.pt`, `best.pt`, `selection.json` |
| `panel[p]` | a directory of `evaluate`: made, with manifest (and the model it names), with `summary.json` |
| `cost[n]` | what `candidate_key` makes of the sample panel of milestone `n` |
| `todo` | the files that `commit`, `publish` and `copy_checkpoint` still have to write, and what they will hold; `Rank` is their order |
| `model` | `policy` with `rows`: the number of episodes, and the attempt that trained the last one |

### Action correspondence

| Action | Code in `engine/base_protocol.py` |
|---|---|
| `CancelIneligible` | the loop over vehicles at the start of `decisions` (612–614) |
| `StartMachine` | the loop over machines (615–644), `_start` |
| `Wake` | the selection of `active` (647–667) |
| `NegotiationRound` | one iteration of `while active` (668–789): all applications, then all owners |
| `EndNegotiation` | the `break` when nobody applies, or no active vehicle left |
| `SelectLoad`, `SelectUnload` | one choice of a site pair (791–853), `start_service` |
| `Advance` | `advance` (910–948) with the whole `ProductionSimulator.step` |
| `Ended` | the driver leaves its loop (`core.done`) |
| `FactoryClock!Decide` | `decisions` as far as clocks go, then the interval chosen by `advance` |
| `FactoryClock!Advance` | `_advance` and `_boundary` for the elapsed ticks |

| Action | Code in `engine/central_control.py` |
|---|---|
| `BeginBoundary` | `reconcile` before the first candidates of a boundary (45–49; `CentralEnvironment.step` calls it after `advance`) |
| `Process` | `choose` of a processing task (111–118, 161–164) |
| `Assign` | `choose` of a transport task (119–152, 165–178), `_target` |
| `ChooseAdvance` | `choose` of `ADVANCE`, then `reconcile` of `start_services` (159–160, 181–182) |
| `StartTaskService` | one iteration of `start_services` (183–200) |
| `Advance` | `advance` with `before_services` (84–90) and `after_services` (202–203) around the transfers |

| Action | Code of the traffic rules |
|---|---|
| `Plan` | `SharedMover.moves` is called: view, order, `Goals`, cells of vehicles in service (88–197) |
| `Serve` | the next iteration of `for v in order` (245–246) |
| `Try` | the next choice of the call on top that is open: take it and return all calls, or call `reserve` for the occupant (213–240) |
| `Fail` | no choice is left: restore `saved`, or let the vehicle wait (241–249) |
| `Return` | the moves go to physics (250–268) |
| `PolicyPropose` | a movement policy instead of the shared mover: any direction for any vehicle |
| `Step` | the loop of `ProductionSimulator.step` over rejections, then the moves |

| Action of `RuntimeControl` | Code in `experiments/` |
|---|---|
| `Submit`, `Append` | `runtime_control.submit`, `append` of an operator: any time the journal is not locked |
| `BeginTick`, `ApplyCommand`, `RejectCommand`, `EndApply` | `runtime_control.apply`: one transaction; `_apply` per receipt, `_update_progress`, then the new jobs of `NativeScheduler.tick` |
| `SendStop`, `SendPause`, `LeaveRunning`, `Join` | the loop of `tick` over its processes: request, leave alone, or reap |
| `Settle` | the holds decide the jobs without a process |
| `Start`, `StartNone` | `tick` starts at most one worker; `StartNone` also stands for a host without headroom |
| `Persist`, `Publish` | `_persist` (a transaction of its own), `runtime_control.publish` |
| `BeginFinish`, `Finish`, `Sleep` | `finish_if_drained`: a transaction that applies again and decides |
| `Close`, `Interrupt` | the driver leaves with `publish(active=0)`, after its work or by `KeyboardInterrupt` |
| `Restart` | `batch-resume` when no old worker lives: `restart` opens the journal |
| `Requeue`, `RefuseResume` | the transaction of `execute_saved` that queues unended additions (531–561), or its `ValueError`, which discards it and ends the driver as `failed` |
| `FirstCommit` | a training session without continuation writes its first one (`reservation_session.py:129`) |
| `Register`, `Obey`, `Complete`, `Fail`, `Signalled` | a worker: `Scope.bind`, the safe boundary of its loop, its exits |

| Action of `QueueAdmission` | Code in `experiments/queue_admission.py` |
|---|---|
| `NoteWait`, `ClearWait`, `Reserve`, `Grow`, `Retire` | `note_wait`, `clear_wait`, `reserve`, `update_resources`, `retire`, each under `admission.lock` |
| `Start`, `StartFails`, `Exit` | the scheduler's process between grant and join |
| `EditJournal`, `ChangeHost`, `Age` | an operator, other processes and time: at any moment |
| `Crash`, `Initialize` | the driver dies, its workers do not; `bind` of the next, which requires that they have gone, and `initialize` |

| Action of `BatchAdoption` | Code in `experiments/` |
|---|---|
| `Submit`, `Look`, `Provision`, `Claim`, `Commit`, `AppendFails`, `SubmitterKilled` | `batch_append.append`, step by step: locks, `read`, `completed_source`, `claim`, the end of the queue's transaction; its `except` |
| `Bind`, `TakeDriverLock`, `Initialize`, `SourceStart`, `SourceEnd`, `SourceExit` | the source's own `execute_saved` |
| `QueueStart`, `QueueJoin`, `QueueHold`, `Synchronize`, `Close`, `QueueCrash` | the queue's driver: `NativeScheduler.tick`, `synchronize`, `finish_if_drained`, its end by a kill or an interrupt |
| `QueueJoinUnasked` | a worker that stopped although nobody asked sets `stopping` for the whole queue (`runtime_workers.py:529`–535) |
| `QueueResume`, `QueueRefused`, `QueueReopened` | resume of the queue: adopted work is queued again, or refused for want of a continuation; or only the journal of a failed queue is opened |
| `StopTask`, `ResumeTask`, `StopQueue` | `batch-stop` and `batch-resume` of one task and `batch-stop` of the queue, applied |
| `FirstCommit` | as in `RuntimeControl` |

| Action of `TrainingSession` | Code in `experiments/` |
|---|---|
| `Attempt` | `ReservationSession.__init__`: load the committed generation or begin |
| `Write` | the next of the writes that `commit`, `publish` or `copy_checkpoint` does |
| `Rollout`, `Discard` | `step`: rollout, update and `commit`; or the deadline |
| `Validate`, `Select` | `reservation_validation.validate` before and after its panels |
| `Begin`, `Freeze`, `Summarize`, `TimesOut` | `evaluate` of one panel: evidence and `freeze` (directory, then manifest), its cases and summary, or the deadline |
| `FinalEvaluate`, `Complete` | `final_evaluate` |
| `Crash`, `Deadline` | the process is killed between any two of these; time is up |

`before_services` and the interrupts of `complete_services` look at the calendar of the
*new* tick, `after_services` still sees the *old* availability of the machines:
`Advance` cancels by `dn`, the machines down after the interval, and reconciles by
the unprimed `down`.

A round is one action although the generator yields in it: between the yields only
the policy runs, and it sees requests, not state. `StartMachine` is taken once per
machine in any order; the code's order is one of them, and the choices of different
machines do not touch the same buffer.

### Abstractions

Of the factory modules:

- *Slots of a buffer are pooled.* A buffer of several slots of capacity is one
  capacity; which slot a job lies in is not tracked.
- *Positions.* In the protocols, which vehicles stand at a port of their target is chosen
  at `EndNegotiation`, once per boundary; every placement the mover could produce is
  among the choices. How vehicles move is the subject of `JointMoves` and `Traffic`, where
  jobs are not tracked.
- *Time.* In the protocols an operation in progress may complete at any interval, an
  outage may start or end at any boundary (as often as declared), a demand may be
  released at any boundary, in the order of release ticks. When these things happen is the
  subject of `FactoryClock`, where work is only a number of ticks.
- *Asking.* `Wake` may leave a vehicle asleep although it has opportunities: the
  code does so when its signature is unchanged and the retry is not due. That the retry
  is then due in time is `FactoryClock`'s `RetryOnTime`.
- *Answers.* Any candidate offered is a possible answer. For outputs the code picks the
  vehicle that arrived first; the model lets any be first.
- *Precedence in traffic* (rush, ready, due date, waiting time, rotation) is any order, for
  every state and every traffic view.
- *Quality, reward, metrics, events* are left out: no control flow depends on them
  (`quality == "FAIL"` is set only when a job is shipped).
- *tick_limit* may end an episode after any interval; every safety property is about
  all prefixes anyway, and the liveness properties are about an episode long enough.
  `dynamic` scenarios, which run to the limit, have the same intervals. `FactoryClock`
  does end at its limit, so its run checks no deadlock.
- *Outages of one machine are not nested* (`OutagesNotNested`): the generators draw one
  after the other. They may overlap.

Of `RuntimeControl`:

- *One scheduler owns a journal.* A second driver is kept out by `driver.lock`; how is
  the subject of `BatchAdoption`.
- *Additions only.* The tasks are those of the tail loop. The tasks of the matrix run
  before it under the same `tick`; their `own_slots` is 0 here.
- *Kinds of commands.* `mode`, `budget` and `priority` only bias which job starts
  next, and any may. A change of the limit is one step up or down (`raise`,
  `lower`), checked by `positive`. The token `expected_revision` of a removal is the
  guard `Removable`: at the moment of the submission the target is what the operator saw.
- *Transactions.* The lock makes an operator wait, so operators act only when the
  scheduler is outside its two applying transactions (`Locked`); each of the others is one
  step. An interrupt inside a transaction leaves the journal as it was (`atomic_json` at
  its end), so interrupts come between steps.
- *A worker's safe boundary* reads stop before pause. What it computes is not modelled.
- *A resume waits for the old workers* (`batch-resume` refuses while one lives). It takes
  up the same plan with no job known, and keeps the holds and the receipts. An addition of
  `Trainings` that is neither queued nor saved makes it fail (`Lost`): the batch is then
  `failed`, and stays so, because the model leaves out `--retry-failed`, which meets the
  same check. A failed batch that is resumed without it only opens its journal.
- *Trainings* are tasks whose worker writes a continuation before it comes to a boundary
  (`FirstCommit`, `Underway`). An interrupt or a failure may come before that. Tune tasks
  are trainings of their own kind, which this check does not look at.

Of `QueueAdmission`: a resource is one number (the code compares memory, processors and
accelerators alike); the adaptive limit and calibration only change what is asked for.
Every locked operation reads the journal itself, so a change that comes between its
reading and its decision is one that comes after both.

Of `BatchAdoption`: one source. A submission of several batches at once is one per
source, and its failure after a claim is `AppendFails`. Live retry of failed tasks is left
out, and so are pauses: a paused task keeps its claim as a queued one does. An orderly end
is one step, although `finish_if_drained` and `batch.json` are written one after the other.
`begun` is the outcome of a task that may not be started afresh (`require_recovery`); `Lost`
also applies to work that never had a worker, as in the code. A stop of a task waits in the
journal of a live queue, so only a driver applies it.

Of `TrainingSession`: single files are replaced atomically, as `write_json` and the
temporary names do. The cases of a panel are one step; each has a receipt of its own in
`case-commits`, so a frozen panel is taken up where it stopped. Milestones count episodes.
A generation that was written but never named by `current.json` is left behind under a
name of its own, so it is not distinguished from a later one of the same episode.

## 3. Runs

| Run | Question | Instance |
|---|---|---|
| `base_pair` | are stations or jobs ever overbooked, a promise dropped, a delivery shut out; does the protocol implement the life of a job? | 2 machines with unit buffers, one for `a` (breaks down once), one for both; 2 vehicles; 4 jobs of routes `ab`, `ba`, `b`, `a` |
| `base_live` | does negotiation end, is every reservation served or cancelled, does all work ship? | 2 machines with a job each, 1 breakdown, early stops and empty waits |
| `central_pair` | do assignments hold their job, end only when they must, and always; does central control implement the life of a job? | 2 machines, 2 jobs of routes `ab` and `ba`, 1 breakdown, any controller |
| `clock` | does everything happen at its own tick, is a vehicle asked again in time? | releases at 0 and 4, outages 3–6 and 5–7, operations of 2 or 5 ticks, retry after 3, limit 9 |
| `traffic` | do vehicles collide or swap, do convoys move, does physics ever reject the shared mover? | 4 vehicles on 5 cells: a ring with a dead end; two owners with ports, one at the dead end; every call of the search is a step |
| `control_tasks` | are commands decided once and in order, do the holds follow, is a confirmation true, are starts admitted, is anything left behind? | 2 tasks (1 arrives by append), limit 1 of 2, 3 commands: pause, resume, stop and removal of a task, raise and lower of the limit; 1 interrupt |
| `control_live` | does an addition end, is a pause answered? | 1 training, 2 commands (pause or resume of the task, pause, resume, stop or close of the batch), kept open, 1 interrupt, fairness |
| `admission` | do grants respect the journal, do slots follow the workers, is anyone overtaken or starved? | 2 native tasks of 1 unit, 1 trial of 2; 5 journals, 3 sizes of host, 1 edit, 1 crash |
| `adoption` | can a source have two drivers, when does its claim go, and does it? | 2 tasks, 1 of which trains, 1 queue, 1 driver of the source, 1 killed submitter, 1 crash; 1 stop of the queue, interrupted worker or resume of a task; stops of a task at will; fairness |
| `training` | what does a crash between two writes change? | 2 episodes, 3 milestones, 2 modes, 2 costs, periodic models, with and without planned checkpoints, 2 crashes |
| `control_drain`, `training_resume` | see Findings | 1 task with 2 commands; 1 crash |

Why these bounds. A station of unit buffers holds three jobs; four jobs and two
vehicles are more than it and its input can take, so machines block, quotas reach
zero, a delivery waits behind a full pre buffer and a job queues for the input. One
breakdown is enough to interrupt each kind of service and each kind of reservation
at each point of its life. The job `ab` may do both operations on the second machine, which
gives the retained job. Two capable machines are what lets a vehicle be rejected by one
owner and apply to the other, hence negotiation of more than one round.

The clock's dates are chosen so that an outage begins inside an operation and inside a
retry interval, another begins before the first has ended, and a release falls into both.
Four vehicles on five cells are one free cell: displacement has to recurse along the ring,
and a full ring can only rotate; all placements and all joint commands are initial or
reachable states.

For the journal, three commands are enough for a pause, its undoing and a third that
arrives in between, or twice the same; two tasks let one be started, removed or
reported while the other's command waits, and a limit that is raised and lowered again can
fall below what runs; one interrupt gives two drivers over
one journal with receipts, holds and requests left by the first. In `control_live` it may come
before or after the first commit of a training, so both a resume and a refused one follow;
there the commands for the whole batch, which act on settings of their own, are submitted too.
That no worker starts against a hold of the batch is left to the theorem
`OnlyAdmittedStart`. In `admission` the small
tasks together take the room that the trial needs, so it starves unless it ages; the
journals are plenty, one worker at a time, a small budget, a hold and a priority. In
`adoption` a crash, a kill and a registration of the source fall between any two steps of
each other, and the driver of the source comes before, between or after adoptions; a second queue adds nothing that the theorems do not cover for any
number of queues. Two crashes in `training` let the second hit the recovery from the first.

| Property | Says |
|---|---|
| `Ownership` | one physical owner, four records agree (`_check`), shipped means in an output |
| `TargetSuitsCargo` | a reservation is one the cargo calls for, at every moment of its life |
| `StationAdmission` | jobs and promised deliveries fit a station (`check_reservations`) |
| `PickupBacked` | every promised pickup has its own job (`check_reservations`) |
| `ReservedDeliveryDrains` | no station blocks a delivery it has accepted |
| `CommitmentHeld` | a target changes only by its service or an excusing breakdown (`docs/decisions`, ADR 0053) |
| `LifecycleSpec` | refinement: `JobLifecycle!Spec`, for both protocols |
| `NegotiationEnds`, `ReservationServed`, `EveryJobShipped` | liveness of the base protocol; the last excuses owners that refuse again and again (`Refuses`) and vehicles that wait empty again and again (`Waits`) |
| `TaskOwnsJob` | an assignment owns its job, aboard or where the vehicle is heading; no two share one |
| `TaskKept`, `TaskEnds` | an assignment ends only by its delivery or by a breakdown of its destination, and it does end |
| `OnTime` | releases, outages and repairs take effect at their own tick, a repair not before the last outage is over; nothing happens inside an interval |
| `NothingOvershot` | no operation has a negative rest, no interval passes the end of the run |
| `RetryOnTime` | a vehicle with opportunities is asked again when its wait or its retry interval is over |
| `NoCollision`, `NoSwap` | whatever any mover commands |
| `FollowersMove` | convoys and cycles move (`docs/production-runtime.md:95`) |
| `MoverObeyed` | physics rejects nothing that the shared mover asks for |
| `HoldsExplained` | the holds are what the applied commands say in the order of their revisions |
| `DecidedInOrder` | a receipt is decided once, for good, and after all receipts before it |
| `ConfirmedMeansExited` | a pause or removal is confirmed only when no worker of its targets lives |
| `StartsAreAdmitted` | a start respects holds, limit, a living worker and completed work, also after a restart |
| `NothingLeftBehind` | the drained decision leaves no addition, worker or command behind |
| `AdditionServed`, `PauseAnswered` | an accepted addition ends or is held, unless the resume of its batch was refused; a waiting pause is answered |
| `WorkersHaveSlots` | slots are exactly the workers alive or not yet joined, also after a crash of the driver |
| `GrantsWithinJournal` | a grant keeps limit, budget and holds, counting every worker alive |
| `NoOvertaking` | an aged, feasible waiter is not overtaken by a later one of the same or a lower priority (`docs/unified-runtime-scheduler.md:75`) |
| `RequestServed` | nobody starves who is not held, too large or put behind others |
| `OneDriver` | an adopted source has no driver of its own |
| `ClaimHeld` | adopted work that waits or runs is covered by a claim, save for stopped work that was queued again after the claim had gone back |
| `ReturnedSettled` | a claim goes back with all work ended and all outcomes in the source |
| `ClaimReturned` | a claim goes back, unless the submitter was killed or the queue cannot be resumed for want of a continuation |
| `Recovers` | a session can be resumed after a crash at any point save two |
| `OneModelPerEpisode` | a rollout that is replayed never leaves two models of one episode in what anyone reads |
| `MilestonesJudged` | no crash makes a session skip a milestone |
| `FinalIsBest` | the model judged at the end is the cheapest eligible one |

Every safety property of the table is also a theorem (section 4), and so are the type
invariants, which no run repeats.

### Findings

Two runs end in a counterexample to what the documents say.

- `control_drain` (`CompletedMeansDone`): the tick has found no unfinished job, because
  the only task is stopped. A resume of that task is accepted before
  `finish_if_drained` takes the lock; its transaction applies it, which clears
  `stopped_tasks`, but decides with the tick's `unfinished` and the published
  status `stopped`. The batch ends as `completed`; `docs/unified-runtime-scheduler.md:123`
  forbids that. `NothingLeftBehind` holds in the same situation: the task *is* recorded as
  ended.
- `training_resume` (`Resumable`): `freeze()` makes the directory of a panel
  (`reservation_runtime.py:144`, `exist_ok` only with a `plan.json`, which panels do not
  have) and writes `manifest.json` last. A run killed in between raises `FileExistsError` at
  every later resume. `docs/reservation-experiments.md:262` calls the panels recoverable.

### Observations

Smaller disagreements that were met while modelling. The properties above are stated so
that they exclude them, and say so.

- *A milestone without description* (`reservation_validation.py:25`–31, 57): a run killed
  between `model.pt` and `model.pt.json` of a milestone does not repeat the copy, since the
  model exists. If that model is selected, `best.pt` has no description, and
  `final_evaluate` (`reservation_session.py:324`) fails on it. This is the second exception
  of `Recovers`.
- *A stop for nobody* (`runtime_workers.py:496`): a stop that falls between the start of a
  continued worker and its registration is addressed to the owner of the attempt before
  (`request_pause` refuses that case, `tick` does not for stops), and `stop_sent` keeps it
  from being repeated. The worker runs to its end.
- *A stop that was withdrawn* (`runtime_workers.py:529`): a worker obeys the stop of its
  task, a resume is applied before it is joined, and `tick` takes the exit for an
  interrupted worker, since neither the task nor the batch is being stopped now. The whole
  batch stops.
- *Additions without owner batch* (`author_batch.py:544`): after an interrupt only
  additions with `owner_root` are queued again. One without keeps `running`, which nobody
  starts and which is not an end. `AdditionServed` is checked with owner batches (`Owned`).
- *A refusal for work that never started* (`author_batch.py:552`–560): a hold, or a stop of
  the batch, gives an addition that waits the status `paused` or `stopped`
  (`runtime_workers.py:578`–583). If it trains, the next resume takes it for a started
  training and raises `ValueError`, although it never had a worker, and the batch ends as
  `failed` with all its additions (`RefuseResume`, reached with a task of `Lost` that has no
  owner). `incremental_batch.py:43` says what the check is meant for: "A started training
  task must never silently construct a fresh learner." For a training that did start and was
  interrupted before its first commit the refusal is what that sentence asks for; the batch
  is stuck all the same, and `AdditionServed` excuses both.
- *Work without a claim* (`runtime_workers.py:584`, `author_batch.py:561`): the claim on a
  source goes back once all adopted tasks are terminal, `stopped` included, whether one task
  was stopped or the whole queue. A resume of the task in the live queue, or of the queue,
  makes the work `queued` again, and nobody claims the source again; in between a driver of
  the source may have started, which `docs/current-workflow.md:383`–385 says the claim
  blocks. `trial.lock` keeps two workers of one task apart; the later one fails. `ClaimHeld`
  says exactly which work goes without a claim (`unclaimed`).
- *A claim for ever* (`author_batch.py:552`): a queue that cannot be resumed never ends its
  adopted work, so the source stays claimed (`Stranded`, which `ClaimReturned` excuses). The
  same check applies to work that only waited when the queue was stopped.
- *A journal without driver* (`author_batch.py:501`–530): resuming a failed batch without
  `--retry-failed` opens its journal to submissions and returns; nobody drives the queue
  that has just been opened (`QueueReopened`).
- *An old outcome* (`batch_append.py:363`–369): `synchronize` writes the outcomes of *all*
  members, also of those that ended before the claim was last returned, over rows that the
  source's own driver may have changed in between. `ReturnedSettled` requires only that
  the queue's outcome is in the source when the claim goes.
- *Nested outages* (`base_protocol.py:79`): `down_at` looks at the outage that started
  last, so one that lies inside another ends both. The generators do not draw such
  outages; a hand-written scenario may.

### Fairness

`DrivenSpec` has weak fairness of `Next`: the driver is a loop that
resumes the generator and steps the factory, it does not stop by itself.
`NegotiationEnds` needs nothing else. `FairSpec` adds strong fairness of five
events that the code bounds in ticks but the model has abstracted: an operation that
is worked on finishes (its remaining ticks only shrink while the machine is up), an
outage ends (`o.end` is finite), a demand is released (`release_at` is finite), a
vehicle with opportunities is asked (after `reevaluate_ticks` at the latest, see
`RetryOnTime`) and a vehicle with a target gets there (the mover's job; it is an assumption
here). No policy is assumed to be fair: buffers may refuse for ever, vehicles may wait
empty for ever, and `EveryJobShipped` excuses exactly that. In a factory whose stations
cannot hold all its work, jobs may also lock each other out (vehicles loaded with work for
full stations, post buffers waiting for empty vehicles); the code does not prevent that,
so `EveryJobShipped` is stated for a factory with room.

`CentralControl!FairSpec` assumes the same physical facts, and of the
controller only that it does not leave a machine unused for ever (`Process`): without
it an operation that is never started blocks its station and the assignments behind it.
It need not assign, and it may advance whenever it likes.

`RuntimeControl!FairSpec` assumes that the driver's loop runs (weak fairness of
`Scheduler`: it polls and sleeps a fixed time), that workers register, reach a boundary and
finish (weak fairness), that the host has headroom again and again (strong
fairness of `Start`, because a tick may find none), that a training writes its first
continuation (weak fairness of `FirstCommit`, which `Interrupt` and `Fail` may precede),
and that somebody resumes an interrupted batch (weak fairness of `Restart`; without it
`AdditionServed` is not to be expected). No
operator is fair.

`QueueAdmission!FairSpec` assumes weak fairness of what the schedulers do for each key
(they poll in a loop), of time (`Age`), of the end of workers, and of the next driver. It
does *not* assume strong fairness of `Reserve`: whether a request that is enabled again and
again ever gets through is what ageing has to achieve. Journal and host change finitely
often.

`BatchAdoption!FairSpec` assumes that a submission ends, that a queue without driver is
resumed where that is possible, and that its driver goes on with every task and
synchronizes: strong fairness, because a submission that holds the queue's lock disables a
tick for a while. Neither the operators' commands nor the interrupts are fair. The source's own driver is not fair.

The other modules have no liveness properties: `FactoryClock` and `Traffic` bound what
must happen by actions, and `TrainingSession` is a sequence of writes of one process.

## 4. Proofs

The theorems hold for every value of the constants that satisfies the assumptions of the
modules: any finite factory, calendar, road, policies and movers; any tasks, commands,
limits, journals and hosts; any number of queues, crashes and interrupts.

The inductive invariant `Inv` of the base protocol is the conjunction of

- `TypeOK`, `Structure` (ownership, work, service binding, targets and buffer
  purpose together: each needs the others at some step),
- `SlotLocks` and `BlockedMeansFull`: the release of a machine into its post buffer must
  not take a slot that an unloading service holds; a post buffer has none, because only
  pre buffers and outputs are targets of loaded vehicles,
- `ReleasedInOrder`, with which the admission queue is in release order, and
  `AdmittedInOrder`,
- `StationAdmission` and `PickupBacked`, kept by a round because an owner accepts at
  most its quota, by an interval because a transfer moves one unit from the
  commitments to the station's jobs, or out of both,
- `QuietService`, `ActiveIdle`: before the service phase no service exists that has not been
  completed, and only vehicles without target negotiate.

The step from one interval to the next is proved once in `FactoryCoreProofs` for an
arbitrary set `gone` of interrupted services; both protocols instantiate it with what
they interrupt. So are the count of a station's jobs and the steps of a job's life.

The invariant of central control replaces the two supply invariants and the phases by
`TaskOwnsJob` and `TaskServices` (a service is the service of a task). They are what
makes `reconcile` exact: between intervals it finds only tasks whose destination has
broken, after an interval it finds each task either ended together with its target,
or untouched, or just loaded (`AdvanceTask`).

Both protocols are proved to refine `JobLifecycle` (`JobsLive`): initial states map to
initial states, and every action moves each job by one step of its life or not at all.

`PhysicsProofs`, time: `ClockInv` adds to the types that the interval in progress ends no later
than the nearest date (`IntervalFits`), that it is one tick if anything moves
(`MovesByTick`), that `down` and `released` are those of the calendar at `tick`
(`OnCalendar`), and that a vehicle with opportunities that does not wait is not overdue
(`RetryPending`). `OutagesNotNested` is needed for one thing: that the end of the outage
that `down_at` looks at is the end of all that have begun (`RepairOnTime`).

`PhysicsProofs`, any mover: the proof characterises the least closed set of rejections: it is closed
(`NeverCollide`), contains all swapping pairs (`NeverSwap`), and the complement of any set
of vehicles that only follow one another is closed, so the least set contains none of them
(`FollowersDoMove`). No induction over the passes of the code's loop is needed.

`PhysicsProofs`, the shared mover: `Traffic` has the recursion of `reserve` as an explicit
stack, because what has to be an invariant is what `assigned` means *in the middle* of a
chain of displacements. `Sound` says it, of `assigned` and of every `saved`:
cells are neighbouring and distinct and nobody changes places (`Legal`, `Apart`), each
waiting call has taken the cell of the vehicle that is called next (`Chain`), and nobody but
the caller has the cell of a vehicle without one (`Backed`). A rollback is
then the return to a map that was sound for the shorter stack, and the end of the search
leaves no vehicle whose cell somebody else counts on. What follows:

- `AlwaysObeyed`: the assertions at the end of `moves` (`rule_mover.py:250`–261) and of the
  episode on rejections (`reservation_runtime.py:402`) cannot fail, whatever the road, the
  goals and the ranking of choices. `Cost` and `Goals` are not used in the proof.
- `MoverRefinesMoves`: the search is invisible to physics, and what it returns is one of the
  commands that `JointMoves` allows any mover. So `NeverCollide`, `NeverSwap` and
  `FollowersDoMove` hold with the shared mover.
- `SearchSucceeds`: the fallback for a vehicle that found nothing (`rule_mover.py:246`–249) is
  never used. The first call has its own cell left, because nobody was given the cell of a
  vehicle that has none, and no call tries it before (`OwnCellInv`).
- `RecursionBounded`: `other in stack` keeps the recursion within the number of vehicles
  (`DistinctCalls`).

`RuntimeControlProofs` builds its invariants in layers:

- `JournalInv`: types, `HoldsExplained` and `Numbered`: revisions are unique, and what is
  received is newer than all that is applied. `Numbered` is what makes the newest
  applied command on a task the one the holds reflect, and gives `DecidedInOrder`.
- `AdmissionInv`: a process has a job at work, a living worker has a process unless the
  driver is gone, a driver that resumes has no process yet (so, as `Restart` waits for the
  workers, none lives), completed additions are not queued, and between `Settle` and `Start` a
  queued job is not held. The last holds although operators may submit in between, because
  they submit and do not apply.
- `DrainInv`: once drained, the batch accepts nothing and rejects what is submitted.
- `ExitInv` adds `Fresh` (a living worker is not *observed* as quiet, except in the two steps
  between its start and its publication, and then its task is not held) and `Waits`
  (who waits is applied, waits for his own target, and a batch pause that is not overtaken
  still pauses). A confirmation needs a quiet observation of a held target, so it
  cannot see the gap that `Fresh` leaves open.

`QueueAdmissionProofs`: types, `WorkersHaveSlots` and `Generations` (orphans exist only while
no driver is up). With the slots equal to the workers alive, the sum that `reserve()`
compares with the budget is the sum over all workers, which gives `GrantsAreWithin`;
`NobodyOvertakes` follows from the order of the loop: an aged feasible waiter before `k`
blocks it, whatever happens to the waiters before that one.

`BatchAdoptionProofs`: `AdoptInv` adds `SubmissionInv` to `OneDriver`: a submission that is about
to claim has seen an owner not newer than the registered one, and if it is still the
registered one the source's driver is off, because the submission holds `driver.lock`. `HeldInv`
adds to `ClaimHeld` that a claim which can still be withdrawn covers no work but what goes
without a claim already (`NewClaimIdle`): so neither a failing submission nor a return takes
a claim from work. The steps of the scheduler, the stop of a queue and its resume are one
case each; that what had stopped is remembered in `unclaimed` is part of the actions.
`ReturnedSettled` needs none of this.

`TrainingSessionProofs`: a crash may come between any two writes, so the invariant `SessionInv`
says what the files mean together with the writes that are still pending: `Will(f)` is
what a file will hold once `todo` is done, and a crash drops `todo`. Its parts are

- `PhaseInv`, `PendingInv`: each phase has in hand only its own panels, and pending are the
  rest of one commit or publication, of one copy, or of one selection;
- `CommitInv`: `current.json` names a generation that is whole, because it is written after its
  files; the process has this model, or the next one while it is committing;
- `PublishInv`, `ReadInv`: what is published is the committed model or is about to be, nothing
  that anyone reads is ahead of `current.json`, and no description is without its model;
- `JudgeInv`, `PanelInv`: every milestone up to the committed model is judged or in hand, and a
  panel that is frozen has judged the model that its milestone still holds;
- `SelectInv`: `best.pt` is the cheapest eligible milestone, up to the last milestone that has been
  selected or is being selected;
- `FinalInv`: once the final evaluation has begun, no subject of a panel changes any more: what
  a later attempt publishes and selects again is what is there.

The last two carry `FinalIsBest` over crashes in the middle of a selection, and
`Recovers` is itself a part: the attempt that fails is excluded phase by phase. TLC checked
`SessionInv` on the instance of `training` and on three variants of it (the untrained model
eligible, fewer milestones, other periodic models) before it was proved.

What each theorem states is listed in `PROJECT.json` under `theorems`. Among them are also
facts that no run repeats: slots (`SlotsHold`), the work a machine holds (`WorkAlwaysFits`),
services (`ServicesBound`), the order of admissions (`AdmissionOrder`) and pickups for broken
destinations (`PickupsHeedBreakdowns`).

Only model-checked: the eight liveness properties (`NegotiationEnds`, `ReservationServed`,
`EveryJobShipped`, `TaskEnds`, `AdditionServed`, `PauseAnswered`, `RequestServed`,
`ClaimReturned`), which rest on fairness and `ENABLED` and are beyond the proof system. That the
search of the mover and the loops of a session end is not stated either; what their
theorems say is about every state they can reach.
The properties of the findings are false.

## 5. What is left

- Live retry of failed tasks (`batch_retry.py`) on top of `BatchAdoption`, and commands of the
  kind `retry`; matrix tasks in `RuntimeControl`.
- The Tune broker's own leases and host locks (`tuning_broker.py`, `runtime_resources.py`), of
  which `QueueAdmission` models only the admissions.
- Retention of old generations (`checkpoint_retention.py`) against a session that is being
  resumed, and recovery evaluation (`recovery_evaluation.py`).
- Bounds that would support the liveness properties and are safety themselves: how many rounds
  a negotiation can have, how many calls of `reserve` one call of `moves` makes.

## 6. Not modelled

- *Learning, observations, telemetry, trace, studio*: they compute or display numbers and
  keep no state that two parties share. They are more than half of the code.
- *Configuration, authoring and command line*: parsing, validation and selection of files by
  one process.
- *Schedulers and resource brokers, operating-system processes*: launching workers and
  measuring hosts is input and output; what they decide together goes through the
  admission table, which is modelled. How a process is found alive, stopped or killed on
  each operating system is assumed: a verified exit is an exit.
- *Domain and port lookup*: immutable records and static tables; they are the assumptions on
  the constants.
