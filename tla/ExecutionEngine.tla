--------------------------- MODULE ExecutionEngine ---------------------------
(***************************************************************************)
(* The employee execution engine (execution_engine.py, its router, and the *)
(* dispatch center that feeds it) on the task rows of the task center      *)
(* (routers/task_center.py), which writes the same status on its own.      *)
(*                                                                         *)
(* A worker pops an item, loads the task, takes the Redis lock of the task *)
(* and only then looks at the status it has loaded BEFORE the lock.  Every *)
(* handler loads the row, computes and commits; nothing but the lock, and  *)
(* that only on the way into an execution, orders two of them.             *)
(*                                                                         *)
(* A request is served once: the number of Requests bounds every instance. *)
(***************************************************************************)
EXTENDS Naturals, Sequences

CONSTANTS Tasks,      \* tasks with an assigned employee
          HighRisk,   \* the tasks for which infer_execution_risk is high or critical
          Workers,    \* processes running the main loop of worker.py
          Requests,   \* API requests
          Ops,        \* the endpoints that are called
          ApiIds,     \* the worker_ids that API requests give
          WorkerId,   \* "employee_worker", the same for every worker process
          Free, NoTask, NoId

Endpoints == {"claim", "confirm", "start", "complete", "fail", "set"}

ASSUME HighRiskAssumption == HighRisk \subseteq Tasks
ASSUME OpsAssumption == Ops \subseteq Endpoints
ASSUME ActorsAssumption == Workers \cap Requests = {}
ASSUME IdsAssumption == /\ Free \notin ApiIds \cup {WorkerId}
                        /\ NoId \notin ApiIds \cup {WorkerId, Free}
ASSUME NoTaskAssumption == NoTask \notin Tasks

VARIABLES
  status,    \* committed status of each task; "other" stands for those of the
             \* task center in which the engine does nothing (created, split,
             \* result_submitted, accepted, rejected, audited, summarized)
  lock,      \* tiantong:execution:lock:<task_id>
  queue,     \* the list tiantong:execution:tasks
  starts,    \* execution_started log rows of each task
  assigns,   \* how often each task was put into "assigned"
  ran,       \* tasks that have been "running"
  actor      \* what each worker and each request is doing

vars == <<status, lock, queue, starts, assigns, ran, actor>>

history == <<starts, assigns, ran>>

Actors == Workers \cup Requests

Statuses == {"other", "assigned", "running", "completed", "failed"}

\* seen is the status in the ORM object, owner the worker_id, cleared whether
\* boss_confirmed and security_audited are both set, target the status to write
Rest(pc) == [pc |-> pc, op |-> "none", task |-> NoTask, owner |-> NoId, cleared |-> FALSE,
             seen |-> "other", target |-> "other"]

Init ==
  /\ status \in [Tasks -> {"other", "assigned"}]
  /\ lock = [t \in Tasks |-> Free]
  /\ queue = <<>>
  /\ starts = [t \in Tasks |-> 0]
  /\ assigns = [t \in Tasks |-> IF status[t] = "assigned" THEN 1 ELSE 0]
  /\ ran = {}
  /\ actor = [a \in Actors |-> Rest("idle")]

------------------------------------------------------------------------------
(* Sessions                                                                 *)

Goto(a, pc) == actor' = [actor EXCEPT ![a].pc = pc]

\* A worker goes back to its queue, a request has been answered
Done(a) == actor' = [actor EXCEPT ![a] = Rest(IF a \in Workers THEN "idle" ELSE "done")]

\* A commit writes the status only if it differs from the one that was loaded
WriteStatus(a, new) ==
  status' = [status EXCEPT ![actor[a].task] = IF actor[a].seen = new THEN @ ELSE new]

MayExecute(t, cleared) == t \in HighRisk => cleared

\* A request loads the row of its task
Receive(q, op, pc, t, id, cleared, target) ==
  /\ actor[q].pc = "idle"
  /\ op \in Ops
  /\ actor' = [actor EXCEPT ![q] = [pc |-> pc, op |-> op, task |-> t, owner |-> id,
                                    cleared |-> cleared, seen |-> status[t], target |-> target]]
  /\ UNCHANGED <<status, lock, queue, history>>

------------------------------------------------------------------------------
(* Endpoints                                                                *)

\* claim_task: enqueue_execution_task validates the task it has loaded
ClaimTask(q, t, cleared) ==
  /\ status[t] = "assigned"
  /\ MayExecute(t, cleared)
  /\ Receive(q, "claim", "push", t, NoId, cleared, "assigned")

\* confirm_dispatch: the task becomes "assigned" in the session, whatever it was
\* (the analysis of the dispatch center may refuse more than MayExecute does)
ConfirmDispatch(q, t, cleared) ==
  /\ MayExecute(t, cleared)
  /\ Receive(q, "confirm", "push", t, NoId, cleared, "assigned")

\* rpush comes before the commit
PushExecution(q) ==
  /\ actor[q].pc = "push"
  /\ queue' = Append(queue, [task |-> actor[q].task, cleared |-> actor[q].cleared])
  /\ Goto(q, "commit")
  /\ UNCHANGED <<status, lock, history>>

StartTask(q, t, id, cleared) == Receive(q, "start", "lock", t, id, cleared, "running")

CompleteTask(q, t, id) == Receive(q, "complete", "complete", t, id, FALSE, "completed")

FailTask(q, t, id) == Receive(q, "fail", "fail", t, id, FALSE, "failed")

\* The endpoints of the task center: set_task_status checks the name of the new
\* status and nothing else; /start of the task center sets "running"
SetTaskStatus(q, t, new) == Receive(q, "set", "commit", t, NoId, FALSE, new)

CommitRequest(q) ==
  LET t == actor[q].task
      new == actor[q].target IN
  /\ actor[q].pc = "commit"
  /\ IF actor[q].op = "claim"
     THEN UNCHANGED <<status, assigns, ran>>
     ELSE /\ WriteStatus(q, new)
          /\ assigns' = IF new = "assigned" THEN [assigns EXCEPT ![t] = @ + 1] ELSE assigns
          /\ ran' = IF new = "running" THEN ran \cup {t} ELSE ran
  /\ Done(q)
  /\ UNCHANGED <<lock, queue, starts>>

------------------------------------------------------------------------------
(* process_next_execution_task, and the steps it shares with the endpoints   *)

PopExecutionTask(w) ==
  /\ actor[w].pc = "idle"
  /\ queue # <<>>
  /\ actor' = [actor EXCEPT ![w] = [Rest("load") EXCEPT !.op = "start", !.task = Head(queue).task,
                                    !.cleared = Head(queue).cleared, !.owner = WorkerId]]
  /\ queue' = Tail(queue)
  /\ UNCHANGED <<status, lock, history>>

LoadTask(w) ==
  /\ actor[w].pc = "load"
  /\ actor' = [actor EXCEPT ![w].pc = "lock", ![w].seen = status[actor[w].task]]
  /\ UNCHANGED <<status, lock, queue, history>>

\* A faulty lock without NX
AcquireAlways(a) ==
  LET t == actor[a].task IN
  /\ actor[a].pc = "lock"
  /\ lock' = [lock EXCEPT ![t] = actor[a].owner]
  /\ Goto(a, "start")
  /\ UNCHANGED <<status, queue, history>>

\* acquire_execution_lock: an item whose lock is busy is dropped
AcquireExecutionLock(a) ==
  LET t == actor[a].task IN
  /\ actor[a].pc = "lock"
  /\ IF lock[t] = Free
     THEN /\ lock' = [lock EXCEPT ![t] = actor[a].owner]
          /\ Goto(a, "start")
     ELSE /\ Done(a)
          /\ UNCHANGED lock
  /\ UNCHANGED <<status, queue, history>>

MayStart(a) == MayExecute(actor[a].task, actor[a].cleared) /\ actor[a].seen = "assigned"

\* A faulty start that takes a task in any status
StartAny(a) ==
  LET t == actor[a].task IN
  /\ actor[a].pc = "start"
  /\ MayExecute(t, actor[a].cleared)
  /\ WriteStatus(a, "running")
  /\ starts' = [starts EXCEPT ![t] = @ + 1]
  /\ ran' = ran \cup {t}
  /\ IF a \in Workers THEN Goto(a, "reload") ELSE Done(a)
  /\ UNCHANGED <<lock, queue, assigns>>

\* start_task_execution; the request of an API keeps the lock when it ends
StartTaskExecution(a) ==
  LET t == actor[a].task IN
  /\ actor[a].pc = "start"
  /\ MayStart(a)
  /\ WriteStatus(a, "running")
  /\ starts' = [starts EXCEPT ![t] = @ + 1]
  /\ ran' = ran \cup {t}
  /\ IF a \in Workers THEN Goto(a, "reload") ELSE Done(a)
  /\ UNCHANGED <<lock, queue, assigns>>

\* A faulty worker that leaves the lock behind when the start is refused
RefuseAndKeep(a) ==
  /\ actor[a].pc = "start"
  /\ ~MayStart(a)
  /\ Done(a)
  /\ UNCHANGED <<status, lock, queue, history>>

\* start_task_execution raises: a request answers, a worker fails the task
StartRefused(a) ==
  /\ actor[a].pc = "start"
  /\ ~MayStart(a)
  /\ Goto(a, IF a \in Workers THEN "fail" ELSE "release")
  /\ UNCHANGED <<status, lock, queue, history>>

\* The commit has expired the row, and the next use of the task loads it again
ReloadTask(w) ==
  /\ actor[w].pc = "reload"
  /\ actor' = [actor EXCEPT ![w].pc = "complete", ![w].seen = status[actor[w].task]]
  /\ UNCHANGED <<status, lock, queue, history>>

\* A faulty completion that does not look at the status
CompleteAny(a) ==
  /\ actor[a].pc = "complete"
  /\ WriteStatus(a, "completed")
  /\ Goto(a, "release")
  /\ UNCHANGED <<lock, queue, history>>

\* complete_task_execution
CompleteTaskExecution(a) ==
  /\ actor[a].pc = "complete"
  /\ IF actor[a].seen = "running"
     THEN /\ WriteStatus(a, "completed")
          /\ Goto(a, "release")
     ELSE /\ IF a \in Workers THEN Goto(a, "fail") ELSE Done(a)
          /\ UNCHANGED status
  /\ UNCHANGED <<lock, queue, history>>

\* fail_task_execution has no condition
FailTaskExecution(a) ==
  /\ actor[a].pc = "fail"
  /\ WriteStatus(a, "failed")
  /\ Goto(a, "release")
  /\ UNCHANGED <<lock, queue, history>>

\* release_execution_lock: get, and delete if the value is one's own or missing
GetLock(a) ==
  /\ actor[a].pc = "release"
  /\ IF lock[actor[a].task] \in {actor[a].owner, Free} THEN Goto(a, "delete") ELSE Done(a)
  /\ UNCHANGED <<status, lock, queue, history>>

DeleteLock(a) ==
  /\ actor[a].pc = "delete"
  /\ lock' = [lock EXCEPT ![actor[a].task] = Free]
  /\ Done(a)
  /\ UNCHANGED <<status, queue, history>>

------------------------------------------------------------------------------
(* Failures                                                                 *)

\* The process dies, or a call fails in a way that ends the handler
Abort(a) ==
  /\ actor[a].pc \notin {"idle", "done"}
  /\ Done(a)
  /\ UNCHANGED <<status, lock, queue, history>>

\* The database fails: the worker tries to fail the task, or cannot
DatabaseFails(w) ==
  /\ actor[w].pc \in {"start", "reload", "complete", "fail"}
  /\ \E pc \in {"fail", "release"} : Goto(w, pc)
  /\ UNCHANGED <<status, lock, queue, history>>

\* The lock lives for ten minutes
LockExpires(t) ==
  /\ lock[t] # Free
  /\ lock' = [lock EXCEPT ![t] = Free]
  /\ UNCHANGED <<status, queue, history, actor>>

------------------------------------------------------------------------------
(* Specifications                                                           *)

Receives(q) ==
  \E t \in Tasks :
    \/ \E cleared \in BOOLEAN : \/ ClaimTask(q, t, cleared)
                                \/ ConfirmDispatch(q, t, cleared)
                                \/ \E id \in ApiIds : StartTask(q, t, id, cleared)
    \/ \E id \in ApiIds : CompleteTask(q, t, id) \/ FailTask(q, t, id)
    \/ \E new \in {"other", "assigned", "running"} : SetTaskStatus(q, t, new)

\* What workers and requests share
Execute(a) ==
  \/ AcquireExecutionLock(a)
  \/ StartTaskExecution(a)
  \/ StartRefused(a)
  \/ CompleteTaskExecution(a)
  \/ FailTaskExecution(a)
  \/ GetLock(a)
  \/ DeleteLock(a)

RequestStep(q) == PushExecution(q) \/ CommitRequest(q) \/ Execute(q)

WorkerStep(w) == PopExecutionTask(w) \/ LoadTask(w) \/ ReloadTask(w) \/ Execute(w)

Failure ==
  \/ \E a \in Actors : Abort(a)
  \/ \E w \in Workers : DatabaseFails(w)

Fault ==
  \/ Failure
  \/ \E t \in Tasks : LockExpires(t)

NoFaultNext ==
  \/ \E q \in Requests : Receives(q) \/ RequestStep(q)
  \/ \E w \in Workers : WorkerStep(w)

Next == NoFaultNext \/ Fault

Spec == Init /\ [][Next]_vars

NoFaultSpec == Init /\ [][NoFaultNext]_vars

\* Handlers die and the database fails, but within the ten minutes of a lock
NoExpirySpec == Init /\ [][NoFaultNext \/ Failure]_vars

FairNoFaultSpec ==
  /\ NoFaultSpec
  /\ \A w \in Workers : WF_vars(WorkerStep(w))
  /\ \A q \in Requests : WF_vars(RequestStep(q))

------------------------------------------------------------------------------
(* Properties                                                               *)

SharedPCs == {"idle", "lock", "start", "complete", "fail", "release", "delete"}

WorkerPCs == SharedPCs \cup {"load", "reload"}

RequestPCs == SharedPCs \cup {"push", "commit", "done"}

Owners == ApiIds \cup {WorkerId}

ActorType == [pc : WorkerPCs \cup RequestPCs, op : Endpoints \cup {"none"}, task : Tasks \cup {NoTask},
              owner : Owners \cup {NoId}, cleared : BOOLEAN, seen : Statuses, target : Statuses]

\* Every variable has its type; a request never enters the part of
\* process_next_execution_task that follows a start, a worker never a handler
TypeOK ==
  /\ status \in [Tasks -> Statuses]
  /\ lock \in [Tasks -> Owners \cup {Free}]
  /\ queue \in Seq([task : Tasks, cleared : BOOLEAN])
  /\ starts \in [Tasks -> Nat]
  /\ assigns \in [Tasks -> Nat]
  /\ ran \subseteq Tasks
  /\ actor \in [Actors -> ActorType]
  /\ \A w \in Workers : actor[w].pc \in WorkerPCs
  /\ \A q \in Requests : actor[q].pc \in RequestPCs

\* Whatever endpoints race, locks expire and stale rows are written back, a task
\* is completed only if it has been running
CompletedWasRunning == \A t \in Tasks : status[t] = "completed" => t \in ran

\* A task is executed once for each time it was assigned.  Holds as long as one
\* worker process takes every task from the queue; violated by two processes, or
\* by one and the /start endpoint: the status is read before the lock is taken
StartedOncePerAssignment == \A t \in Tasks : starts[t] <= assigns[t]

InSection == {"start", "reload", "complete", "fail", "release", "delete"}

\* Two processes are never inside an execution of the same task, as long as the
\* lock does not expire and nobody calls /complete or /fail, which delete locks
\* that are not their own
ExecutionExclusive ==
  \A a, b \in Actors :
    actor[a].pc \in InSection /\ actor[b].pc \in InSection /\ actor[a].task = actor[b].task
    => a = b

\* A worker gives the lock back however its execution ends (nobody calling the
\* API under the name of the workers)
WorkerReleasesLock == \A t \in Tasks : lock[t] = WorkerId ~> lock[t] # WorkerId
==============================================================================
