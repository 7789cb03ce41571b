# Tiantong AI cloud: a TLA+ verification

The program is a FastAPI back end (`backend/`) over PostgreSQL (through
SQLAlchemy) and Redis, with worker processes that run the loop of
`backend/worker.py`. API requests and workers share rows and Redis lists and
have no other way to coordinate; what can go wrong in this system goes wrong
between two of them. This directory models those parts, checks them with TLC
and proves the most important results with TLAPS.

Contents: [inventory](#inventory), [modules and code](#modules-and-code),
[runs](#runs), [what the models refute](#what-the-models-refute),
[fairness](#fairness), [proofs](#proofs), [limits](#limits),
[not modelled](#not-modelled).

## Inventory

### How the parts interact

```
  API request ── rows (PostgreSQL) ── worker.py main loop
      │                                   │ polls, in this order
      ├─ tian-shang contract queue ───────┤  process_next_tian_shang_execution
      ├─ tiantong:execution:tasks ────────┤  process_next_employee_execution
      ├─ brain_execution_queue:normal ────┤  process_next_brain_runtime_execution
      ├─ tiantong:tasks ──────────────────┤  process_next_task ─┐
      └─ tiantong:orchestrator:events ────┴─────────────────────┘
         (pushed and popped by both sides)
```

All sessions are `autoflush=False` at READ COMMITTED. A handler reads a row
when it first uses it, decides on that copy, and its commit writes the columns
that differ from the copy. The models keep exactly this: a *Load* step that
takes the copy, a *Commit* step that writes it back, anything in between. A
flush before the commit locks the rows it writes; where a handler flushes
(agent runtime, computer workflows) the lock is a variable.

### Components

| component | state | operations | what is hard | what makes it correct |
|---|---|---|---|---|
| Brain Execution (`brain_execution/`) | run, approval records, task nodes, Redis list | plan, approve, start; worker: pop, check, execute nodes, retry | stale copies of the run; approval checked before the nodes are read; push before commit; crash of the worker | nothing runs before an approval; a successful run has all nodes done; an item is in one place and retried a bounded number of times |
| Task list and event list (`queue.py`, `task_queue.py`, `queue_worker.py`, `core/`, `routers/dual_engine_business.py`) | two Redis lists, status keys | enqueue, pop, requeue, report; review; synchronous dispatch by the API | a failed task is put back through *both* lists; workers and API requests pop each other's events; Redis fails in the middle | bounded retries, no early give-up, each event delivered by the rules of a retrying queue |
| Employee execution engine and task status (`execution_engine.py`, `routers/execution_engine.py`, `routers/task_center.py`, `routers/auto_dispatch.py`) | status of the task row, Redis lock with TTL, Redis list | claim, confirm, start, complete, fail; the task center sets any status | status loaded before the lock; lock released in two calls; two owners of the status | a task is executed once per assignment and by one process; the lock is given back |
| Business flows and daily scheduler (`worker.py:66-314`, `581-624`, `routers/ai_execution.py`) | task rows, results, daily Redis key | SET NX per day, enqueue, chain the next task; assign and complete by hand | enqueue before commit; a failure after completion repeats the task; a lost reply to a commit | one flow a day; a chain that does not fork; nothing is lost in silence |
| Alpha workflow (`alpha_workflow/`) | run, context, events, advisory lock; records in five other components | request, saga of many commits, compensate, cancel, recover | a replay arriving with the first request; cancel racing the saga; failure between two commits | replays get one run; compensation undoes what was committed; a recovered run is quiet |
| Agent runtime executions (`agent_runtime/service.py`, `executor.py`, `permission.py`) | execution status, approval, retry count, row lock | create, approve, reject, cancel, run with retries | decisions on stale rows; `reject` looks at nothing; results written over decisions | nothing runs unapproved; attempts are bounded and take turns; a rejection is the end |
| Computer workflows (`agent_runtime/workflows/computer/`, `executors/computer/`) | workflow, steps, checkpoints, evidence, screenshots, row lock | create, decide, ask, allow, deny, start, resume, pause, execute a step | two starts read one next step; performed before anything is committed; the outcome of a commit is unknown | each step is performed once per stored result, in order, and only after its confirmation |
| Device center (`device_center/`) | tokens, devices, credentials, observations | register, approve, disable, revoke, heartbeat, observe | decisions and heartbeats on copies; two registrations with one token; five commits in one registration | a shut device refuses; a used token is never fresh again |
| Knowledge center (`knowledge_center/`) | assets, versions, chunks, reviews | draft, edit, decide, publish, add and restore versions | edits, decisions and publications that overlap; numbers counted before they are inserted | versions are in order; the index follows the text; what is published stays |
| Tian-shang contracts, brain orchestrator, skills, tools, research, approval, release and deploy centers | rows | mostly one request each | little concurrency | checks inside one handler |
| Dashboards, metrics, employees' scores, business data | read models | queries | none | – |
| Users, sessions, permissions | accounts | login, checks | outside the models | every modelled request is made by a caller that may make it |

`PROJECT.json` lists every component with its status, and under `hazards` the
places where the code is hard to test, with the properties that cover them.

## Modules and code

| module | models |
|---|---|
| `RetryQueue` | the abstract promise: an item is in one place, is put back at most `MaxRetry` times, and once settled never returns |
| `StepLedger` | the abstract promise of a computer workflow: steps are carried out one at a time and in order, with their confirmations, and never again once recorded; one result |
| `BrainExecution` | Brain Execution; its Redis list implements `RetryQueue` |
| `TaskQueues` | the two lists and everything that pushes to and pops from them; the list of events implements `RetryQueue` |
| `ExecutionEngine` | claim, start, complete and fail of the execution engine, its worker and lock, and the endpoints of the task and dispatch centers that write the same status |
| `BusinessFlow` | the daily scheduler and the chains of tasks on top of the two lists |
| `AlphaWorkflow` | the Alpha run, the commits of its saga, its compensation, cancellation and recovery |
| `AgentRuntime` | agent executions from creation to result |
| `ComputerWorkflow` | a computer workflow with its checkpoints and the transaction that executes a step; implements `StepLedger` |
| `DeviceCenter` | registration, decisions, heartbeats and observations |
| `KnowledgeCenter` | the life of assets and versions, and the search index |
| `MC...` | symmetry of the instances TLC checks |
| `..._proof` | theorems and their proofs |

In each of the modules a faulty variant of some operations (named for what is wrong
with it, with a comment that says "faulty") stands before the operation itself. They
are used by no specification; they record which mistakes the properties detect.
Variables marked *history* are read by no guard; they remember what the
properties speak of.

**BrainExecution.** `status`, `approval`, `plans`, `done` are the tables of a
run; `queue`, `itemRun`, `attempt` the Redis list. Only one priority
(`normal`) is modelled, since `/start` pushes no other. An API request is a *Load* and a
*Commit* (`CreatePlanLoad`/`CreatePlanCommit`, ...), `/start` with the push in
between as in `executor.py:33`. The worker steps follow the commits of
`brain_execution/worker.py`: check the approval, commit RUNNING, read the
nodes, execute each with a commit, complete; `ExecutionFails` stands for the
simulated failures and for every exception of the node loop. `Abort` ends a
handler or a worker anywhere. A run without nodes completes at once, as in the code.

**TaskQueues.** `tasks` and `events` are the two lists, `body` the payload an
event carries by reference (`requeue_task` changes it in place), `rows` the
log of executions. `HandleEvent` is `Orchestrator.run` (review, push), `PopQueue`
takes the head of the list, whoever pushed it. The review is the predicate
`Blocked`: its text leaves out the field that the review itself adds, so the
verdict at push and at pop agree. Left out: the bodies of the task types, TTLs and the recent list of
statuses, coordination events (nothing in the back end sends them).
Faults: a process dies anywhere; Redis raises while "running" is reported
(after `rows` was committed), inside a requeue, or while "completed" is reported.

**ExecutionEngine.** `status` merges the statuses in which the engine does
nothing into `other`. `waiting_review` is never written: no caller passes
`waiting_review=True`. A request is served once, so the set `Requests` bounds the
instance; `Ops` says which endpoints they call. `seen` is the status in the
ORM object: it is taken before the lock (`LoadTask`, `AcquireExecutionLock`)
and again after a commit has expired the row (`ReloadTask`). `PushExecution`
precedes `CommitRequest`, as in `enqueue_execution_task`. Releasing the lock is
two calls (`GetLock`, `DeleteLock`). Faults: a handler ends anywhere, the
database fails in the worker, a lock expires.

**BusinessFlow.** `row` and `results` are `task_center_tasks` and their
results, `queue` and `events` the two lists as bags of copies by attempt (their
order and their failures are in `TaskQueues`), `key` the daily Redis key. The
scheduler is `AcquireDay` (SET NX), `CheckDay`/`SkipDay` (the look at the
table), `EnqueueDay`, `CommitDay` or one of its failures (`FailDay` gives the
key back, `CommitUnheard` is a commit whose reply is lost), `MarkDay`. A task
goes through `TakeTask`, `BeginTask`, `ReadTask`, `FinishTask`, `CreateNext`,
`EnqueueNext`, `EndTask`; `NoteFault` and `FailTask` put both copies back, also after the
successor has been pushed. Row ids come from a sequence; an id whose insert is rolled back is `void`. Names that `AlphaWorkflow`
also uses begin with `Flow`, so that one module can extend both. The Sprint 18 feedback
loop is a chain of two steps of the same shape.

**AlphaWorkflow.** A run is named by the request that inserted it. `saga` is
the position of the request, each position the last commit it has made (`task`,
`linked`, `agent`, `knowledge`, `skill`, `cited`, `finished`); `task`, `agent`,
`data` are what the run has left in the other components. `Locking` is the
advisory transaction lock on scope and trace. A failure in any position runs
the compensation, a crash leaves everything as it is. `call` are the cancel and
recover requests with the copy of the row they decide on; the recovery reads
the row again after its lock, and the session gives it the old copy.

**AgentRuntime.** `row` is `agent_executions` (status, approval, retries),
`rowLock` the transaction that has flushed it, `req` each request with its copy.
`Begin`/`Execute`/`Retry` are the passes of `run_execution_flow`: every retry
commits and refreshes the copy. Decisions (`approve`, `reject`, `cancel`) are a
load and a commit; the approver then runs the execution in the same request.
The executor succeeds, fails, or times out.

**ComputerWorkflow.** `workflow`, `step`, `checkpoint` are the rows that
decisions change, `evidence` stands for plan, action, evidence and verification
of a step, which are committed together; `files` are the screenshots; `lock`
is the row lock of the first flush. `LoadStart`/`LoadResume` choose the next
step and what is to be done about it (`Begin`: finish, ask, or open); `Lock`,
`Perform`, `Store` are the transaction of `execute_step`. `StoreFails`, and
`Store` without an answer, leave the request unsure of its commit; `Requery` is the clean-up
that looks for the evidence on a new connection. `Fail` is an exception or a crash anywhere.

**DeviceCenter.** `token`, `device`, `credential`, `observation` are the
tables. A registration is the sequence of commits of `register_device` (consume
the token, look for the code, insert); a code that another registration has
inserted meanwhile is refused by the table. A decision or heartbeat is a copy and a
commit of the columns it changes (`Written`). A heartbeat commits its nonce
before it writes "online".

**KnowledgeCenter.** `asset`, `version`, `chunks` are the tables. Every writer
updates the asset's row first and so holds it; therefore the reads interleave
and each write is one step. The numbers of an asset's versions are unique in the
table, and a request whose number is taken ends in `Fail`. A request remembers which kinds of writes it has
`missed` since it read; the properties exclude exactly those overlaps that the
code does not prevent, and name them.

## Runs

All runs have small sets of model values; the specifications have no other
unbounded value than the counters that these sets bound.

| run | instance | shows |
|---|---|---|
| `brain_core` | 1 run, 2 items, 1 fair worker, 1 request at a time, 2 plans of 2 nodes, 1 retry, all faults | `NoExecutionWithoutApproval`, `ImplementsRetryQueue`; `SuccessNeedsEveryNode`: a run that a worker completes has every node of one of its plans done; `ItemsSettle` |
| `tasks_core` | 1 task, 3 events, 1 worker, 1 API request, 1 retry each, all faults | `ExecutionsBounded`, `GivesUpAfterRetries`, `EventsImplementRetryQueue` |
| `tasks_drain` | 1 allowed and 1 blocked task, 3 events, 2 fair workers, 1 retry each, all faults | `TasksDrain`: the list of tasks runs empty and the workers come to rest |
| `engine_core` | 1 task, 1 worker, 3 requests to any endpoint but `/start`, all faults | `StartedOncePerAssignment`, `CompletedWasRunning` |
| `engine_lock` | high-risk task, 2 fair workers, 3 requests to claim, `/start` and the task center, no faults | `ExecutionExclusive`, `WorkerReleasesLock` |
| `flow_core` | 2 fair workers, 5 row ids, chains of 2 steps, 1 retry, 1 request, 1 fault | `OneDailyFlow`, `ChainsDoNotFork`, `NothingLost`, `DailyFlowEnds` |
| `alpha_core` | 2 requests of 2 users with 1 trace and 2 inputs, 2 cancel or recover calls, failure or crash after any commit | `ReplayMatches`, `OnlyLastRecordSurvives`, `RecoveredRunIsQuiet`, `CompletedIsWhole`, `RunsEnd` |
| `agent_core` | 1 execution, 3 requests, 1 retry, any request may die | `NothingRunsUnapproved`, `AttemptsBounded`, `AttemptsTakeTurns`, `ClosedIsOver`, `ApprovedEnds` |
| `computer_core` | 2 steps, the second guarded, 2 checkpoints, 2 requests, 1 fault | `PerformedOnce`, `PerformedWhenDue` (in order, and with the confirmation), `DeliveredWhole`: a workflow gets its result once all steps are stored, `CaptureKept`, `ImplementsStepLedger` |
| `device_core` | 3 devices (decisions on one), 2 tokens, 3 codes, 1 nonce, 1 observation, 2 requests | `TokenIsLimited`: a token gives no more devices than requests can overlap; `LastDecisionHolds`, `ShutDeviceRefuses` |
| `knowledge_core` | 2 assets (decisions on one), 3 versions, 2 texts, 1 report, 2 requests | `VersionsInOrder`, `IndexFollowsContent`, `PublishedAsSeen`, `HighRiskConfirmed`, `ReportOnce` |

The runs check what several actors can break. The type invariants are proved
for every instance and so are in no run. The same goes for `ItemInOnePlace` and `OneQuestion`.

Why these bounds:

- One run, task, execution or workflow is enough because neither code nor model
  ever relates two of them (they meet only in the order of a list; `tasks_drain`
  has two). Where they share something, a token, a code, a report, a trace, there are two.
- Two requests give every overlap of two handlers at each of their reads and
  commits; the agent runtime has a third one, which rejects while two approvals run.
- In `brain_core` two plans let a replan race an execution, and two items a
  retry race a new `/start`. A second worker and overlapping requests are left
  to the proofs, which hold for any number of both.
- One retry separates "retried" from "given up"; three events suffice for a
  task, its requeued copy and an API event between them.
- Five row ids in `flow_core` are a flow of two steps, a second copy of its
  second step, and two steps of a flow that a request creates. A second fault
  would need a sixth id, which is past what TLC does in minutes.
- Three devices in `device_core` are one more than the two requests that can
  register with one token at the same time, each with a code of its own.
- Three versions in `knowledge_core` let two additions to one asset overlap. The
  state constraint `ThirdVersion` lets the third one exist only together with one text
  and one asset and no report: the numbers do not depend on them. Two versions
  come with everything.
- Two steps in `computer_core` give a first and a last step, one without and one
  with a confirmation; two checkpoint rows give a step asked about twice.

Deadlock is checked for `BrainExecution`. The other runs switch it off: ids of
tasks, events, rows and requests are used once, and when they are used up and
everybody is idle the system rests.

`ExecutionsBounded` uses `Cost`: an event with attempt *e* that carries a task
with attempt *n* can cause its own execution, those of the copy the task list
gets, and those of its own next delivery; after the task's last attempt only the
deliveries that are left count. `Cost[0][0]` is 4 for one retry each and 32 for
three each.

## What the models refute

One run checks a statement of the repository that TLC refutes; `findings` in
`PROJECT.json` quotes it:

| run | statement | what happens |
|---|---|---|
| `brain_plan_approval` | a plan is approved before it is executed | a revocation and a new plan commit between the worker's approval check and its node query, and the worker's stale RUNNING overwrites them: the new plan is executed |

The models reach more behaviour that surprises, and that no run is about. The
passing properties name the exception where there is one.

- Brain: `/start` pushes the item before it commits QUEUED; a fast worker drops
  the item and the run waits for ever. A blocking `/approve`, `/start` or worker
  check assigns WAIT_APPROVAL around the transition table of a run. Two
  overlapping `/plan` requests each delete the nodes they see and insert their
  own (`planner.py:86-93`): the run has two plans, and is then completed with
  the nodes of one of them done. `SuccessNeedsEveryNode` claims no more.
- Tasks: both lists requeue a failed task, so that it is executed more often
  than `max_retries` says (`Cost`). An API request pops the head of the list
  and may answer with the result of another event. The last event of a failing
  task stays in the list, since no service runs `queue_worker`.
- Engine: two workers that both load "assigned" before either takes the lock
  execute the task twice. An item that is refused is written as a failure,
  over "completed" too. A claim whose lock is busy when it is popped is
  dropped. The task center starts a high-risk task without the two
  confirmations, and the engine then completes it.
- Flows: an assignment by hand, or a failure after the result, forks a chain; a worker that dies with the
  daily key pending leaves the day without a flow (both excluded by `mishap` and `daylost`).
- Alpha: two recoveries that both loaded the row as pending both recover it,
  because the second read after the lock returns the first copy. The saga
  writes its outcome over a cancellation that met it, so no property says that a
  cancellation is final.
- Agent runtime: a rejection that overlaps a run is overwritten by its result.
  A second overlapping approval runs the execution again.
- Computer workflows: pause takes a workflow in any status and resume executes
  a paused one, so a workflow that nobody approved, or that was cancelled, can be
  executed; its confirmations are asked for all the same. A cancellation that meets
  an execution before its first flush is overwritten by the status of the step.
- Devices: an approval brings a revoked device back with its revoked
  credential. `docs/V2_DEVICE_AUTHENTICATION_POLICY.md` promises more than the code
  does under overlap. A token "may be used only once" (line 16), but registrations that have all read it
  before the first commit all go through: `TokenIsLimited` states the bound that is left. A disabled device is
  refused at once, and so is the credential of a revoked one (lines 35-36), but a revocation that overlaps an
  approval can leave the device revoked but enabled, and a heartbeat under way makes it online:
  `LastDecisionHolds` speaks only of decisions that met no other.
- Knowledge: a published asset goes back to review by a decision and its published
  version is then edited in place. A version can be added to, or restored in, an asset that stays published.

## Fairness

Liveness is checked under weak fairness of a worker's steps in `brain_core`,
`tasks_drain`, `engine_lock` and `flow_core`: `worker.py` polls in an endless
loop and a handler that runs comes to its end. Weak fairness of a worker
assumes that the queues with a higher priority are empty infinitely often
(`worker.py:655-659` starts over after each item it has found). In
`engine_lock`, `alpha_core` and `agent_core` the steps of a request that has been
received are fair as well: it is a function that runs to its end.

No fairness is assumed of requests arriving, of faults, of a lock expiring, of
a saga or request going on after its process has died (`dead`, `dropped`), or of
`queue_worker`, which no service runs. In `tasks_drain` and `brain_core` faults
may happen at any time, but the retry counters, and for a crash the loss of
the item, bound what they can repeat. `DailyFlowEnds` and `ApprovedEnds` exclude
histories in which something has been lost, and name it.

## Proofs

Everything in `..._proof` is checked by TLAPS down to the last leaf, for every
value of the constants that meets the named assumptions (identities are
distinct, limits are natural numbers, workers are not requests).

| module | theorems |
|---|---|
| `BrainExecution_proof` | `TypeCorrect`, `OnePlace` (`ItemInOnePlace`), `ApprovalRequired` (`NoExecutionWithoutApproval`), `CompletionIsWhole` (`SuccessNeedsEveryNode`), `QueueRefinement` (`ImplementsRetryQueue`) |
| `TaskQueues_proof` | `TypeCorrect`, `GivesUp` (`GivesUpAfterRetries`), `BoundedExecutions` (`ExecutionsBounded`), `EventRefinement` (`EventsImplementRetryQueue`) |
| `ExecutionEngine_proof` | `TypeCorrect`, `CompletedOnlyAfterRunning` (`CompletedWasRunning`); `StartsAreBounded` for finitely many workers and `/start` requests; `StartedOnce` (`StartedOncePerAssignment`) with at most one worker and `/start` not called; `Exclusive` (`ExecutionExclusive`) as long as no lock expires and `/complete` and `/fail` are not called, whatever else fails |
| `Workflows_proof` | of `AlphaWorkflow`: `TypeCorrect`, `ReplaysMatch`, `CompletedRunsAreWhole` (`CompletedIsWhole`), `CompensationLeavesLastRecord`, `RecoveredRunsAreQuiet`; of `BusinessFlow`: `FlowTyping`, `OneFlowADay` (`OneDailyFlow`), `ChainsAreChains` (`ChainsDoNotFork`), `NoTaskIsLost` (`NothingLost`) |
| `AgentRuntime_proof` | `TypeCorrect`, `ApprovalComesFirst`, `AttemptsAreBounded`, `AttemptsAreSerial`, `ClosedStays` |
| `ComputerWorkflow_proof` | `TypeCorrect`, `StepsArePerformedOnce`, `StepsAreInOrder` and `GuardedStepsAreAllowed` (together `StepsAreDue`), `StepsAreAskedAboutOnce`, `CompletionIsWhole` (`DeliveredWhole`), `LedgerRefinement` (`ImplementsStepLedger`), `CapturesAreKept` |
| `DeviceCenter_proof` | `TypeCorrect`, `TokensLimited` (`TokenIsLimited`), `DecisionsHold`, `ShutRefuses` |
| `KnowledgeCenter_proof` | `TypeCorrect`, `VersionsOrdered`, `IndexFollows`, `PublishedStays`, `HighRiskIsConfirmed`, `ReportIsUsedOnce` |

The arguments. Each is an inductive invariant (`IInv`, or `BaseInv` and `Tokens`
for `BusinessFlow`), that TLC has checked on the instance of a run before it was
proved; a lemma per action shows that the step preserves it, and the theorems
follow from it. The budget of `TaskQueues` is the exception: it says that an
assignment of numbers exists, which TLC cannot enumerate.

- **BrainExecution.** `ApprovalRequired` is not inductive: a commit writes what a
  handler saw earlier. The invariant adds that whatever status a worker or
  request has loaded, or is about to write, is itself backed by an approval.
  `OnePlace` needs that a held item is in no list and with one worker only, and
  that an unpushed one is nowhere. `CompletionIsWhole` needs that as long as a
  worker has a node in hand, every node of the same plan that the run has is in
  its hands too or done; that plan numbers are never used again; and that the
  flush of its last commit fails when the node it writes was deleted by a replan.
  The refinement maps each item to "queued",
  "held" or "settled" by where it is, and reuses `OnePlace` for every step.
- **TaskQueues.** `GivesUp` needs that every attempt counted anywhere (in a
  list, in the payload of an event, with an actor) is backed by as many log
  rows. That in turn needs `OnePlace` for events: `requeue_task` changes the
  payload of the event it executes, which nobody else may hold.
  `BoundedExecutions` is a budget. The executions of a task are numbered
  `1..Cost[0][0]`; the producer of the task, a copy in the list, an event in its
  list and an actor that holds either own as many numbers in a row as `Cost`
  says, no two of them the same ones, and none of the numbers already used. An
  execution uses its carrier's first number; when it fails, the recursion of
  `Cost` splits the rest between the copy and the event that it puts back. That
  the recursion defines `Cost` at all is an induction over the retries that are
  left, carried out with sets of numbers and the well-foundedness of `<`.
- **ExecutionEngine.** `CompletedOnlyAfterRunning` adds that a row seen as
  "running" belongs to a task that has run. `StartsAreBounded` counts: the starts of a
  task, the workers that have loaded it as "assigned" and the requests that may
  still call `/start` stay within the quota of its assignments (`Quota`), and
  while the task is "assigned" there is room in it for every worker. TLC reaches
  the quota: two workers do execute a task twice. `StartedOnce` is its case of
  one worker and no `/start`. `Exclusive` adds that
  whoever is inside holds the lock under its own name; `/complete` and `/fail`,
  which release a lock they never took, and an expiring lock break this.
- **AlphaWorkflow.** The properties speak of a run at its end; inductive is what
  a run has at every commit of its saga (`RunInv`), that a request which found no
  run of its scope under the advisory lock is right about it until it inserts
  one (`ScopeInv`), and what the copies of cancel and recover tell about the row (`CallInv`).
- **BusinessFlow.** `BaseInv`: the daily key lets one worker schedule at a time,
  and there is no flow of the day as long as that worker has an open row; an id
  is in no list and with nobody before it is drawn; a committed row follows its
  parent. `OneDailyFlow` is part of it: a scheduler whose commit is not heard
  leaves the key behind, and one that gives the key back has rolled its row back.
  `Tokens`: a task that neither failed nor was assigned again is in exactly one
  place: open or not pushed yet, in one of the lists as a first attempt, run by
  one worker, or passed on to one successor. Hence a chain does not fork, and a
  token is lost only with a mishap.
- **AgentRuntime.** One execution at a time. As long as it was approved once at
  most, a single request runs it and has called the executor once more than
  the row counts retries; a request that executes without a retry before it holds the row.
- **ComputerWorkflow.** The stored steps are a prefix of the plan, and the
  request that holds the row works on the step after it, although it chose the
  step before it had the lock: a step that is no longer next is stored, and its
  plan refuses it. A step is performed as often as it was wasted, plus one while it is
  stored or under way. A checkpoint and its step are answered together, so
  that a step which can be begun again has either no checkpoint or an approved one.
  For `LedgerRefinement` a step of the model is seen in the ledger only when it
  allows, performs or stores a step or ends a performance without storing it;
  everything else stutters, since at most the holder of the row is performing.
- **DeviceCenter.** A registration's token is used from its first commit on, and
  a used token is never fresh again. The devices of a token and the
  registrations with it that are under way are together never more than the
  requests: an insertion trades one for the other, and while the token is fresh
  it has no device at all. The sets are counted, so devices and requests are
  assumed to be finite (`FiniteAssumption`). The copy of an undisturbed decision has the
  exact `enabled` column, and only heartbeats have written the status meanwhile.
- **KnowledgeCenter.** What a request still knows of the rows it has read as
  long as it has missed no write of the kind that would falsify it (`Knows`), and
  that an asset has its current version (`RowInv`).
  A number that was counted is by then taken, or one more than the highest
  (`Counted`); the unique constraint refuses it in the first case.
  `VersionsInOrder` needs no exception for overlaps.

Only model-checked: the liveness properties (`ItemsSettle`, `TasksDrain`,
`WorkerReleasesLock`, `DailyFlowEnds`, `RunsEnd`, `ApprovedEnds`), which are out
of the prover's reach. `StartedOnce` and `Exclusive` are proved for the instances
named above only, because they are false for others. Every other property of the
passing runs is a theorem.

## Limits

- Redis and PostgreSQL are assumed to do what a single command or commit
  promises; a commit is atomic, and a list operation too.
- A request that fails rolls back its session; what it pushed stays.
- Authentication, ownership and input validation are outside: every modelled request passes them.
- Times appear only as events (a pop that times out, a lock that expires).
- `ComputerWorkflow`: a commit whose outcome is unknown has ended before the
  query that looks for its evidence; the approval row repeats
  `approval_status`; `WORKFLOW_AUTO_CONTINUE_ENABLED` (`runner.py:545-546`, off by default),
  which leaves the status of an execution in progress after some steps, takeovers, budgets and observations are left out.
- `KnowledgeCenter`: search, citations, tags and sources are left out, and so
  are the employees' rights.
- `AlphaWorkflow`: what a saga leaves in other components is a record that is there or not; the
  scenarios are a table of settings.

## Not modelled

`PROJECT.json` gives the reason for each component with status
`not_modelled`: computations and read models without state of their own
(dashboards, metrics, scores, text analysis, meetings), records that one
request writes and nothing reads concurrently (stores, imports, skills
registry, tool permissions, approval, release and deploy centers), pure I/O
(executors, research adapters), authentication, migrations and static files.

What would be next: tian-shang contracts, a fifth list with one consumer, whose
contract and task are completed by two commits; takeovers of computer
workflows; observations of a device as sessions of their own.
