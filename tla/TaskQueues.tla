----------------------------- MODULE TaskQueues -----------------------------
(***************************************************************************)
(* The two Redis lists every background task travels through.  The worker  *)
(* pops a task from tiantong:tasks (queue.py), wraps it into an event that *)
(* is reviewed and pushed to tiantong:orchestrator:events (task_queue.py), *)
(* and then pops the HEAD of that list (queue_worker.py), which need not   *)
(* be the event it has just pushed.  The API does the same for its own     *)
(* business events, and the command center pushes events and pops none.    *)
(*                                                                         *)
(* A task that fails is put back twice: _handle_task_direct requeues the   *)
(* task, raises, and process_next_event requeues the event that carries    *)
(* the same task.  Both lists count their retries on their own.            *)
(***************************************************************************)
EXTENDS Naturals, Sequences, FiniteSets

CONSTANTS Tasks,         \* task_ids that may be enqueued
          Blocked,       \* the tasks whose review (approval_engine.py) is not "allowed"
          Events,        \* event_ids, one for each push_queue
          Workers,       \* processes running the main loop of worker.py
          Callers,       \* API requests in dispatch_business_event
          MaxRetries,    \* max_retries of a task
          EventRetries,  \* max_retries of an event
          NoTask, NoEvent

ASSUME BlockedAssumption == Blocked \subseteq Tasks
ASSUME MaxRetriesAssumption == MaxRetries \in Nat
ASSUME EventRetriesAssumption == EventRetries \in Nat
ASSUME NoTaskAssumption == NoTask \notin Tasks
ASSUME NoEventAssumption == NoEvent \notin Events
ASSUME ActorsAssumption == Workers \cap Callers = {}

VARIABLES
  tasks,        \* the list tiantong:tasks: copies of tasks with their attempt
  events,       \* the list tiantong:orchestrator:events
  body,         \* what each event carries
  tries,        \* attempt of each event
  taskStatus,   \* tiantong:task_status:<task_id>
  eventStatus,  \* tiantong:orchestrator:event_status:<event_id>
  rows,         \* number of jd_sync_logs rows of a task: its executions
  producer,     \* how far enqueue_task has come with each task
  actor         \* what each worker and each API request is doing

vars == <<tasks, events, body, tries, taskStatus, eventStatus, rows, producer, actor>>

status == <<taskStatus, eventStatus>>

Actors == Workers \cup Callers

Unused == [kind |-> "unused", task |-> NoTask, attempt |-> 0]
Call   == [kind |-> "call",   task |-> NoTask, attempt |-> 0]

Copy(t, n) == [task |-> t, attempt |-> n]

\* An actor between two lists; own is the event it has pushed, which an API
\* request will report on
At(pc, own) == [pc |-> pc, task |-> NoTask, attempt |-> 0, event |-> NoEvent, own |-> own]

Idle == At("idle", NoEvent)

PCs == {"idle", "route", "pushed", "submitted", "pop", "exec", "work", "failing", "retried",
        "healing", "requeued", "reply"}

Init ==
  /\ tasks = <<>>
  /\ events = <<>>
  /\ body = [e \in Events |-> Unused]
  /\ tries = [e \in Events |-> 0]
  /\ taskStatus = [t \in Tasks |-> "none"]
  /\ eventStatus = [e \in Events |-> "none"]
  /\ rows = [t \in Tasks |-> 0]
  /\ producer = [t \in Tasks |-> "new"]
  /\ actor = [a \in Actors |-> Idle]

------------------------------------------------------------------------------
(* Producers                                                                *)

\* enqueue_task: the push and the status are two calls of Redis
EnqueueTask(t) ==
  /\ producer[t] = "new"
  /\ tasks' = Append(tasks, Copy(t, 0))
  /\ producer' = [producer EXCEPT ![t] = "pushed"]
  /\ UNCHANGED <<events, body, tries, status, rows, actor>>

ReportQueued(t) ==
  /\ producer[t] = "pushed"
  /\ taskStatus' = [taskStatus EXCEPT ![t] = "queued"]
  /\ producer' = [producer EXCEPT ![t] = "done"]
  /\ UNCHANGED <<tasks, events, body, tries, eventStatus, rows, actor>>

\* push_queue, up to the write of the status
PushQueue(e, b) ==
  /\ body[e] = Unused
  /\ body' = [body EXCEPT ![e] = b]
  /\ events' = Append(events, e)

------------------------------------------------------------------------------
(* The review, and the first half of handle_task and dispatch_business_event *)

\* evaluate_command looks at the text of the event only, so a task has the same
\* decision each time it is reviewed
Allowed(t) == t \notin Blocked

Goto(a, pc) == actor' = [actor EXCEPT ![a].pc = pc]

DequeueTask(w) ==
  /\ actor[w].pc = "idle"
  /\ tasks # <<>>
  /\ actor' = [actor EXCEPT ![w] = [pc |-> "route", task |-> Head(tasks).task,
                                    attempt |-> Head(tasks).attempt,
                                    event |-> NoEvent, own |-> NoEvent]]
  /\ tasks' = Tail(tasks)
  /\ UNCHANGED <<events, body, tries, status, rows, producer>>

\* Orchestrator.run for a task: a task that is not allowed is dropped without a
\* trace, yet the worker goes on to pop an event
HandleEvent(w, e) ==
  LET task == [kind |-> "task", task |-> actor[w].task, attempt |-> actor[w].attempt] IN
  /\ actor[w].pc = "route"
  /\ IF Allowed(actor[w].task)
     THEN /\ PushQueue(e, task)
          /\ actor' = [actor EXCEPT ![w] = At("pushed", e)]
     ELSE /\ actor' = [actor EXCEPT ![w] = At("pop", NoEvent)]
          /\ UNCHANGED <<body, events>>
  /\ UNCHANGED <<tasks, tries, status, rows, producer>>

\* dispatch_business_event: an event that passes the review, or one that does not
DispatchBusinessEvent(c, e) ==
  /\ actor[c].pc = "idle"
  /\ \/ /\ PushQueue(e, Call)
        /\ actor' = [actor EXCEPT ![c] = At("pushed", e)]
     \/ /\ actor' = [actor EXCEPT ![c] = At("pop", NoEvent)]
        /\ UNCHANGED <<body, events>>
  /\ UNCHANGED <<tasks, tries, status, rows, producer>>

\* A step of a command in the command center: an event is pushed, none is popped
SubmitCommand(c, e) ==
  /\ actor[c].pc = "idle"
  /\ PushQueue(e, Call)
  /\ actor' = [actor EXCEPT ![c] = At("submitted", e)]
  /\ UNCHANGED <<tasks, tries, status, rows, producer>>

\* The end of push_queue, and what its caller does next
ReportPushed(a) ==
  /\ actor[a].pc \in {"pushed", "submitted"}
  /\ eventStatus' = [eventStatus EXCEPT ![actor[a].own] = "queued"]
  /\ actor' = [actor EXCEPT ![a] =
       IF @.pc = "submitted" THEN Idle
       ELSE At("pop", IF a \in Callers THEN @.own ELSE NoEvent)]
  /\ UNCHANGED <<tasks, events, body, tries, taskStatus, rows, producer>>

------------------------------------------------------------------------------
(* process_next_event                                                       *)

\* A worker starts its loop again, an API request reads the status of its event
Finished(a) ==
  actor' = [actor EXCEPT ![a] = IF a \in Callers THEN At("reply", @.own) ELSE Idle]

\* A faulty pop that leaves the event in the list
PeekQueue(a) ==
  /\ actor[a].pc = "pop"
  /\ events # <<>>
  /\ actor' = [actor EXCEPT ![a].pc = "exec", ![a].event = Head(events)]
  /\ eventStatus' = [eventStatus EXCEPT ![Head(events)] = "running"]
  /\ UNCHANGED <<tasks, events, body, tries, taskStatus, rows, producer>>

PopQueue(a) ==
  /\ actor[a].pc = "pop"
  /\ events # <<>>
  /\ actor' = [actor EXCEPT ![a].pc = "exec", ![a].event = Head(events)]
  /\ eventStatus' = [eventStatus EXCEPT ![Head(events)] = "running"]
  /\ events' = Tail(events)
  /\ UNCHANGED <<tasks, body, tries, taskStatus, rows, producer>>

\* blpop times out on an empty list
PopTimeout(a) ==
  /\ actor[a].pc = "pop"
  /\ events = <<>>
  /\ Finished(a)
  /\ UNCHANGED <<tasks, events, body, tries, status, rows, producer>>

BodyOf(a) == body[actor[a].event]

Complete(a) ==
  /\ eventStatus' = [eventStatus EXCEPT ![actor[a].event] = "completed"]
  /\ Finished(a)

\* A business event or a skill of an AI employee, in one call
ExecuteCall(a) ==
  /\ actor[a].pc = "exec"
  /\ BodyOf(a).kind = "call"
  /\ Complete(a)
  /\ UNCHANGED <<tasks, events, body, tries, taskStatus, rows, producer>>

\* The call raises; or execute_queued_event or _handle_task_direct raises before
\* the execution is logged (a review that says no, a task without its owner)
ExecuteRaises(a) ==
  /\ actor[a].pc = "exec"
  /\ Goto(a, "healing")
  /\ UNCHANGED <<tasks, events, body, tries, status, rows, producer>>

\* _handle_task_direct, up to the commit of the log row
BeginTask(a) ==
  /\ actor[a].pc = "exec"
  /\ BodyOf(a).kind = "task"
  /\ Allowed(BodyOf(a).task)
  /\ rows' = [rows EXCEPT ![BodyOf(a).task] = @ + 1]
  /\ taskStatus' = [taskStatus EXCEPT ![BodyOf(a).task] = "running"]
  /\ Goto(a, "work")
  /\ UNCHANGED <<tasks, events, body, tries, eventStatus, producer>>

TaskSucceeds(a) ==
  /\ actor[a].pc = "work"
  /\ taskStatus' = [taskStatus EXCEPT ![BodyOf(a).task] = "success"]
  /\ Complete(a)
  /\ UNCHANGED <<tasks, events, body, tries, rows, producer>>

\* The exception handler rolls back and commits the row as failed
TaskFails(a) ==
  /\ actor[a].pc = "work"
  /\ Goto(a, "failing")
  /\ UNCHANGED <<tasks, events, body, tries, status, rows, producer>>

\* Faulty bounds: the last retry is given away, retries without end
RetryOnceLess(n, limit) == n + 1 < limit
RetryForever(n, limit) == TRUE

MayRetryTask(n, limit) == n < limit

\* A faulty requeue_task that pushes the copy before it counts the attempt
RequeueUncounted(a) ==
  LET b == BodyOf(a) IN
  /\ actor[a].pc = "failing"
  /\ IF MayRetryTask(b.attempt, MaxRetries)
     THEN /\ body' = [body EXCEPT ![actor[a].event].attempt = @ + 1]
          /\ tasks' = Append(tasks, Copy(b.task, b.attempt))
          /\ Goto(a, "retried")
          /\ UNCHANGED taskStatus
     ELSE /\ taskStatus' = [taskStatus EXCEPT ![b.task] = "failed"]
          /\ Goto(a, "healing")
          /\ UNCHANGED <<body, tasks>>
  /\ UNCHANGED <<events, tries, eventStatus, rows, producer>>

\* requeue_task changes the attempt in the event's own payload before it pushes
RequeueTask(a) ==
  LET b == BodyOf(a) IN
  /\ actor[a].pc = "failing"
  /\ IF MayRetryTask(b.attempt, MaxRetries)
     THEN /\ body' = [body EXCEPT ![actor[a].event].attempt = @ + 1]
          /\ tasks' = Append(tasks, Copy(b.task, b.attempt + 1))
          /\ Goto(a, "retried")
          /\ UNCHANGED taskStatus
     ELSE /\ taskStatus' = [taskStatus EXCEPT ![b.task] = "failed"]
          /\ Goto(a, "healing")
          /\ UNCHANGED <<body, tasks>>
  /\ UNCHANGED <<events, tries, eventStatus, rows, producer>>

ReportRetrying(a) ==
  /\ actor[a].pc = "retried"
  /\ taskStatus' = [taskStatus EXCEPT ![BodyOf(a).task] = "retrying"]
  /\ Goto(a, "healing")
  /\ UNCHANGED <<tasks, events, body, tries, eventStatus, rows, producer>>

MayRetryEvent(n, limit) == n < limit

\* The exception handler of process_next_event
RequeueEvent(a) ==
  LET e == actor[a].event IN
  /\ actor[a].pc = "healing"
  /\ IF MayRetryEvent(tries[e], EventRetries)
     THEN /\ tries' = [tries EXCEPT ![e] = @ + 1]
          /\ events' = Append(events, e)
          /\ Goto(a, "requeued")
          /\ UNCHANGED eventStatus
     ELSE /\ eventStatus' = [eventStatus EXCEPT ![e] = "failed"]
          /\ Finished(a)
          /\ UNCHANGED <<tries, events>>
  /\ UNCHANGED <<tasks, body, taskStatus, rows, producer>>

ReportRequeued(a) ==
  /\ actor[a].pc = "requeued"
  /\ eventStatus' = [eventStatus EXCEPT ![actor[a].event] = "retrying"]
  /\ Finished(a)
  /\ UNCHANGED <<tasks, events, body, tries, taskStatus, rows, producer>>

\* read_queued_result answers the API request with whatever the status of its
\* own event is (a request whose event was blocked fails with a KeyError)
ReadQueuedResult(c) ==
  /\ actor[c].pc = "reply"
  /\ actor' = [actor EXCEPT ![c] = Idle]
  /\ UNCHANGED <<tasks, events, body, tries, status, rows, producer>>

------------------------------------------------------------------------------
(* Failures of the environment                                              *)

\* The process dies, or Redis fails where nobody catches it: what the actor had
\* popped is lost
Abort(a) ==
  /\ actor[a].pc # "idle"
  /\ actor' = [actor EXCEPT ![a] = Idle]
  /\ UNCHANGED <<tasks, events, body, tries, status, rows, producer>>

\* Redis fails after the commit of the log row, outside the try block: nobody
\* requeues the task, the event is requeued
ReportRunningRaises(a) ==
  /\ actor[a].pc = "exec"
  /\ BodyOf(a).kind = "task"
  /\ Allowed(BodyOf(a).task)
  /\ rows' = [rows EXCEPT ![BodyOf(a).task] = @ + 1]
  /\ Goto(a, "healing")
  /\ UNCHANGED <<tasks, events, body, tries, status, producer>>

\* The exception handler itself raises: in its commit or a status, or in the push
\* of requeue_task, which has counted the attempt by then and loses the copy; the
\* event is requeued all the same
RequeueTaskRaises(a) ==
  /\ \/ /\ actor[a].pc \in {"failing", "retried"}
        /\ UNCHANGED body
     \/ /\ actor[a].pc = "failing"
        /\ MayRetryTask(BodyOf(a).attempt, MaxRetries)
        /\ body' = [body EXCEPT ![actor[a].event].attempt = @ + 1]
  /\ Goto(a, "healing")
  /\ UNCHANGED <<tasks, events, tries, status, rows, producer>>

\* Redis fails when the completed event is to be reported: the task is done,
\* the event is requeued
ReportCompletedRaises(a) ==
  /\ actor[a].pc = "work"
  /\ taskStatus' = [taskStatus EXCEPT ![BodyOf(a).task] = "success"]
  /\ Goto(a, "healing")
  /\ UNCHANGED <<tasks, events, body, tries, eventStatus, rows, producer>>

------------------------------------------------------------------------------
(* Specifications                                                           *)

\* What an actor does between popping and the end of process_next_event
EventStep(a) ==
  \/ ReportPushed(a)
  \/ PopQueue(a)
  \/ PopTimeout(a)
  \/ ExecuteCall(a)
  \/ ExecuteRaises(a)
  \/ BeginTask(a)
  \/ TaskSucceeds(a)
  \/ TaskFails(a)
  \/ RequeueTask(a)
  \/ ReportRetrying(a)
  \/ RequeueEvent(a)
  \/ ReportRequeued(a)

WorkerStep(w) ==
  \/ DequeueTask(w)
  \/ \E e \in Events : HandleEvent(w, e)
  \/ EventStep(w)

CallerStep(c) == EventStep(c) \/ ReadQueuedResult(c)

Produce ==
  \/ \E t \in Tasks : EnqueueTask(t) \/ ReportQueued(t)
  \/ \E c \in Callers, e \in Events : DispatchBusinessEvent(c, e) \/ SubmitCommand(c, e)

Fault == \E a \in Actors : \/ Abort(a)
                           \/ ReportRunningRaises(a)
                           \/ RequeueTaskRaises(a)
                           \/ ReportCompletedRaises(a)

NoFaultNext ==
  \/ Produce
  \/ \E w \in Workers : WorkerStep(w)
  \/ \E c \in Callers : CallerStep(c)

Next == NoFaultNext \/ Fault

Spec == Init /\ [][Next]_vars

FairSpec == Spec /\ \A w \in Workers : WF_vars(WorkerStep(w))

------------------------------------------------------------------------------
(* Properties                                                               *)

TaskStates  == {"none", "queued", "running", "retrying", "success", "failed"}
EventStates == {"none", "queued", "running", "retrying", "completed", "failed"}

CopyType  == [task : Tasks, attempt : 0..MaxRetries]
BodyType  == [kind : {"unused", "task", "call"}, task : Tasks \cup {NoTask},
              attempt : 0..MaxRetries]
ActorType == [pc : PCs, task : Tasks \cup {NoTask}, attempt : 0..MaxRetries,
              event : Events \cup {NoEvent}, own : Events \cup {NoEvent}]

\* Every variable has its type, and neither list retries beyond its own limit
TypeOK ==
  /\ tasks \in Seq(CopyType)
  /\ events \in Seq(Events)
  /\ body \in [Events -> BodyType]
  /\ tries \in [Events -> 0..EventRetries]
  /\ taskStatus \in [Tasks -> TaskStates]
  /\ eventStatus \in [Events -> EventStates]
  /\ rows \in [Tasks -> Nat]
  /\ producer \in [Tasks -> {"new", "pushed", "done"}]
  /\ actor \in [Actors -> ActorType]

\* Between the pop of an event and its end or its requeue
Holding == {"exec", "work", "failing", "retried", "healing"}

InList(e) == \E k \in DOMAIN events : events[k] = e

Place == [e \in Events |-> IF body[e].kind = "unused" THEN "unused"
                           ELSE IF InList(e) THEN "queued"
                           ELSE IF \E a \in Actors : actor[a].pc \in Holding /\ actor[a].event = e
                           THEN "held" ELSE "settled"]

EventQueue == INSTANCE RetryQueue WITH Items <- Events, MaxRetry <- EventRetries,
                                       place <- Place, tries <- tries

\* The list of events (task_queue.py, queue_worker.py) on its own keeps the
\* promises of RetryQueue, with workers and API requests popping each other's
\* events: none is duplicated, retried too often or revived
EventsImplementRetryQueue == EventQueue!RQSpec

\* A task reported as failed has been executed max_retries + 1 times at least,
\* whichever copies of it ran, in whichever process, and whatever Redis lost
GivesUpAfterRetries == \A t \in Tasks : taskStatus[t] = "failed" => rows[t] > MaxRetries

\* The executions that an event with attempt e can still cause when it carries
\* a task with attempt n: its own, those of the task's next copy, and those of
\* its own next delivery, which carries the next attempt too; after the last
\* attempt of the task, one for each delivery that is left
Cost[n \in 0..MaxRetries] ==
  [e \in 0..EventRetries |->
     IF n = MaxRetries THEN 1 + (EventRetries - e)
     ELSE 1 + Cost[n + 1][0] + (IF e < EventRetries THEN Cost[n + 1][e + 1] ELSE 0)]

\* The two retry counters multiply the copies of a failing task, but only up to
\* a bound: no order of deliveries executes a task more often than Cost[0][0]
ExecutionsBounded == \A t \in Tasks : rows[t] <= Cost[0][0]

\* However often tasks and events are requeued, and whatever fails, in the end
\* the list of tasks is empty and every worker waits for new work
TasksDrain == <>[](tasks = <<>> /\ \A w \in Workers : actor[w].pc = "idle")
=============================================================================
