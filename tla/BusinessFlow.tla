---------------------------- MODULE BusinessFlow ----------------------------
(***************************************************************************)
(* Chains of tasks run by the worker (backend/worker.py): the daily flow   *)
(* that each worker's scheduler tries to create once a day, the flows that *)
(* requests create (routers/ai_execution.py), and the tasks of a chain     *)
(* that create their successor.  The feedback loop of Sprint 18 is a chain *)
(* of two steps of the same shape.                                         *)
(*                                                                         *)
(* A copy of a task in tiantong:tasks is wrapped into an event when a      *)
(* worker takes it, and the worker then pops an event, not always its own; *)
(* TaskQueues has the two lists in detail, here both are bags.  A failed   *)
(* execution puts back a copy of the task and the event as well.           *)
(*                                                                         *)
(* Names that AlphaWorkflow has too begin with "Flow" here: one module     *)
(* extends both for their proofs.                                          *)
(***************************************************************************)
EXTENDS Naturals

CONSTANTS Tasks,         \* ids of task_center_tasks rows, drawn from a sequence
          Workers,       \* processes running the main loop of worker.py
          Steps,         \* length of a chain
          MaxRetries,    \* max_retries of a flow task
          EventRetries,  \* max_retries of an event
          MaxCalls,      \* requests that create, assign or complete a task
          MaxFaults,     \* failures and crashes
          None           \* no task

ASSUME StepsAssumption   == Steps \in Nat \ {0}
ASSUME RetriesAssumption == MaxRetries \in Nat /\ EventRetries \in Nat
ASSUME BoundsAssumption  == MaxCalls \in Nat /\ MaxFaults \in Nat
ASSUME TasksAssumption   == Tasks \subseteq Nat
ASSUME NoneAssumption    == None \notin Tasks

VARIABLES
  row,      \* task_center_tasks: status, step, parent, and does it belong to a daily flow
  results,  \* number of task_center_results rows of a task
  queue,    \* tiantong:tasks: copies of a task by attempt
  events,   \* tiantong:orchestrator:events: by attempt of the task and of the event
  key,      \* tiantong:scheduler:daily:<today>:<scope>
  worker,   \* what each worker is doing
  unsent,   \* tasks that a request has committed and not pushed yet
  calls,    \* requests so far
  faults,   \* faults so far
  mishap,   \* history: what has gone wrong with a task
  daylost   \* history: a scheduler has left the key behind without a flow

bounds      == <<calls, faults>>
flowHistory == <<mishap, daylost>>
flowVars    == <<row, results, queue, events, key, worker, unsent, bounds, flowHistory>>

\* "open" rows are not committed yet and nobody but their session sees them;
\* "void" ids belong to rows that were rolled back
Unseen       == {"none", "open", "void"}
FlowStatuses == Unseen \cup {"assigned", "running", "completed"}
Committed    == {t \in Tasks : row[t].status \notin Unseen}

NoRow == [status |-> "none", step |-> 0, parent |-> None, daily |-> FALSE]
Idle  == [pc |-> "idle", task |-> None, attempt |-> 0, tries |-> 0, child |-> None, done |-> FALSE]

Attempts == 0 .. MaxRetries
Tries    == 0 .. EventRetries

\* The next id of the sequence; a rollback does not give an id back
Free(t)  == row[t].status = "none" /\ \A u \in Tasks : row[u].status = "none" => t <= u
Push(t)  == queue' = [queue EXCEPT ![t][0] = @ + 1]
Rest(w)  == worker' = [worker EXCEPT ![w] = Idle]
FlowGoto(w, pc) == worker' = [worker EXCEPT ![w].pc = pc]
Note(t, what) == mishap' = [mishap EXCEPT ![t] = @ \cup {what}]

Called  == calls < MaxCalls /\ calls' = calls + 1 /\ faults' = faults
Faulted == faults < MaxFaults /\ faults' = faults + 1 /\ calls' = calls

\* The task that a chain descends from is the parent of its first task too: None here
Task(step, parent, daily) ==
  [status |-> "assigned", step |-> step, parent |-> parent, daily |-> daily]

------------------------------------------------------------------------------
(* The daily scheduler                                                      *)

Scheduling == {"acquired", "checked", "queued", "marked"}

\* SET NX: the worker that gets the key goes on
AcquireDay(w) ==
  /\ worker[w].pc = "idle"
  /\ key = "free"
  /\ key' = "pending"
  /\ FlowGoto(w, "acquired")
  /\ UNCHANGED <<row, results, queue, events, unsent, bounds, flowHistory>>

CreatedToday == \E u \in Committed : row[u].daily /\ row[u].step = 1

\* Faulty: the key alone decides
CheckKeyOnly(w, t) ==
  /\ worker[w].pc = "acquired"
  /\ Free(t)
  /\ row' = [row EXCEPT ![t].status = "open"]
  /\ worker' = [worker EXCEPT ![w].pc = "checked", ![w].task = t]
  /\ UNCHANGED <<results, queue, events, key, unsent, bounds, flowHistory>>

\* There is no flow of today: the insert is flushed and has its id
CheckDay(w, t) ==
  /\ worker[w].pc = "acquired"
  /\ ~CreatedToday
  /\ Free(t)
  /\ row' = [row EXCEPT ![t].status = "open"]
  /\ worker' = [worker EXCEPT ![w].pc = "checked", ![w].task = t]
  /\ UNCHANGED <<results, queue, events, key, unsent, bounds, flowHistory>>

\* There is one already
SkipDay(w) ==
  /\ worker[w].pc = "acquired"
  /\ CreatedToday
  /\ key' = "created"
  /\ Rest(w)
  /\ UNCHANGED <<row, results, queue, events, unsent, bounds, flowHistory>>

EnqueueDay(w) ==
  /\ worker[w].pc = "checked"
  /\ Push(worker[w].task)
  /\ FlowGoto(w, "queued")
  /\ UNCHANGED <<row, results, events, key, unsent, bounds, flowHistory>>

MarkDay(w) ==
  /\ worker[w].pc = "queued"
  /\ key' = "created"
  /\ FlowGoto(w, "marked")
  /\ UNCHANGED <<row, results, queue, events, unsent, bounds, flowHistory>>

CommitDay(w) ==
  /\ worker[w].pc = "marked"
  /\ row' = [row EXCEPT ![worker[w].task] = Task(1, None, TRUE)]
  /\ Rest(w)
  /\ UNCHANGED <<results, queue, events, key, unsent, bounds, flowHistory>>

Void(w) ==
  row' = IF worker[w].pc \in {"checked", "queued", "marked"}
         THEN [row EXCEPT ![worker[w].task].status = "void"] ELSE row

\* Faulty: the key stays after an error
FailDayKeepingKey(w, removed) ==
  /\ worker[w].pc \in Scheduling
  /\ Faulted
  /\ Void(w)
  /\ daylost' = (daylost \/ ~removed)
  /\ Rest(w)
  /\ UNCHANGED <<results, queue, events, key, unsent, mishap>>

\* An error is answered with a rollback and the removal of the key, which may fail as well
FailDay(w, removed) ==
  /\ worker[w].pc \in Scheduling
  /\ Faulted
  /\ Void(w)
  /\ key' = IF removed THEN "free" ELSE key
  /\ daylost' = (daylost \/ ~removed)
  /\ Rest(w)
  /\ UNCHANGED <<results, queue, events, unsent, mishap>>

\* The database has committed, and the connection fails before it says so
CommitUnheard(w) ==
  /\ worker[w].pc = "marked"
  /\ Faulted
  /\ row' = [row EXCEPT ![worker[w].task] = Task(1, None, TRUE)]
  /\ key' = "free"
  /\ Rest(w)
  /\ UNCHANGED <<results, queue, events, unsent, flowHistory>>

------------------------------------------------------------------------------
(* Requests                                                                 *)

\* The first task of a flow is committed and then pushed
CreateFlow(t) ==
  /\ Called
  /\ Free(t)
  /\ row' = [row EXCEPT ![t] = Task(1, None, FALSE)]
  /\ unsent' = unsent \cup {t}
  /\ UNCHANGED <<results, queue, events, key, worker, flowHistory>>

\* A task in any status is assigned again
AssignTask(t) ==
  /\ Called
  /\ t \in Committed
  /\ row' = [row EXCEPT ![t].status = "assigned"]
  /\ unsent' = unsent \cup {t}
  /\ Note(t, "again")
  /\ UNCHANGED <<results, queue, events, key, worker, daylost>>

\* Completed by hand, with a result and without a successor
CompleteTask(t) ==
  /\ Called
  /\ t \in Committed
  /\ row' = [row EXCEPT ![t].status = "completed"]
  /\ results' = [results EXCEPT ![t] = @ + 1]
  /\ UNCHANGED <<queue, events, key, worker, unsent, flowHistory>>

Send(t) ==
  /\ t \in unsent
  /\ Push(t)
  /\ unsent' = unsent \ {t}
  /\ UNCHANGED <<row, results, events, key, worker, bounds, flowHistory>>

\* The request ends between the two
LoseRequest(t) ==
  /\ t \in unsent
  /\ Faulted
  /\ unsent' = unsent \ {t}
  /\ Note(t, "lost")
  /\ UNCHANGED <<row, results, queue, events, key, worker, daylost>>

------------------------------------------------------------------------------
(* Execution                                                                *)

Wrapped(t, a) == [events EXCEPT ![t][a][0] = @ + 1]

Taken(w, u, b, e) ==
  worker' = [worker EXCEPT ![w] =
               [Idle EXCEPT !.pc = "taken", !.task = u, !.attempt = b, !.tries = e]]

\* Faulty: the copy stays in the list
PeekTask(w, t, a, u, b, e) ==
  /\ worker[w].pc = "idle"
  /\ queue[t][a] > 0
  /\ Wrapped(t, a)[u][b][e] > 0
  /\ events' = [Wrapped(t, a) EXCEPT ![u][b][e] = @ - 1]
  /\ Taken(w, u, b, e)
  /\ UNCHANGED <<row, results, queue, key, unsent, bounds, flowHistory>>

\* A copy of t is taken and wrapped, and the event that is popped carries u
TakeTask(w, t, a, u, b, e) ==
  /\ worker[w].pc = "idle"
  /\ queue[t][a] > 0
  /\ queue' = [queue EXCEPT ![t][a] = @ - 1]
  /\ Wrapped(t, a)[u][b][e] > 0
  /\ events' = [Wrapped(t, a) EXCEPT ![u][b][e] = @ - 1]
  /\ Taken(w, u, b, e)
  /\ UNCHANGED <<row, results, key, unsent, bounds, flowHistory>>

\* process_next_event puts the event back as often as it may; b is the attempt it carries
Repush(w, b) ==
  LET e == worker[w].tries IN
  events' = IF e < EventRetries THEN [events EXCEPT ![worker[w].task][b][e + 1] = @ + 1]
            ELSE events

\* There is no such row, perhaps not yet
TaskNotFound(w) ==
  /\ worker[w].pc = "taken"
  /\ worker[w].task \notin Committed
  /\ Repush(w, worker[w].attempt)
  /\ Note(worker[w].task, "early")
  /\ Rest(w)
  /\ UNCHANGED <<row, results, queue, key, unsent, bounds, daylost>>

BeginTask(w) ==
  /\ worker[w].pc = "taken"
  /\ worker[w].task \in Committed
  /\ row' = [row EXCEPT ![worker[w].task].status = "running"]
  /\ FlowGoto(w, "running")
  /\ UNCHANGED <<results, queue, events, key, unsent, bounds, flowHistory>>

\* The commit has expired the row: it is read again for the payload of the skill
ReadTask(w) ==
  /\ worker[w].pc = "running"
  /\ worker' = [worker EXCEPT ![w].pc = "skill",
                              ![w].done = (row[worker[w].task].status = "completed")]
  /\ UNCHANGED <<row, results, queue, events, key, unsent, bounds, flowHistory>>

\* The skill has an answer.  A status that was read as completed is not written
FinishTask(w) ==
  /\ worker[w].pc = "skill"
  /\ LET t == worker[w].task IN
     /\ results' = [results EXCEPT ![t] = @ + 1]
     /\ row' = IF worker[w].done THEN row ELSE [row EXCEPT ![t].status = "completed"]
  /\ FlowGoto(w, "done")
  /\ UNCHANGED <<queue, events, key, unsent, bounds, flowHistory>>

\* Faulty: one step too early
LastStepEarly(w) ==
  /\ worker[w].pc = "done"
  /\ row[worker[w].task].step + 1 >= Steps
  /\ Rest(w)
  /\ UNCHANGED <<row, results, queue, events, key, unsent, bounds, flowHistory>>

LastStep(w) ==
  /\ worker[w].pc = "done"
  /\ row[worker[w].task].step = Steps
  /\ Rest(w)
  /\ UNCHANGED <<row, results, queue, events, key, unsent, bounds, flowHistory>>

\* The successor belongs to the same flow
NextTask(t) == Task(row[t].step + 1, t, row[t].daily)

\* create_next_flow_task_if_needed and create_sprint18_feedback_task_if_needed
CreateNext(w, t) ==
  /\ worker[w].pc = "done"
  /\ row[worker[w].task].step < Steps
  /\ Free(t)
  /\ row' = [row EXCEPT ![t] = NextTask(worker[w].task)]
  /\ worker' = [worker EXCEPT ![w].pc = "created", ![w].child = t]
  /\ UNCHANGED <<results, queue, events, key, unsent, bounds, flowHistory>>

EnqueueNext(w) ==
  /\ worker[w].pc = "created"
  /\ Push(worker[w].child)
  /\ worker' = [worker EXCEPT ![w].pc = "pushed", ![w].child = None]
  /\ UNCHANGED <<row, results, events, key, unsent, bounds, flowHistory>>

\* The log of the execution is committed and reported; until then it may still fail
EndTask(w) ==
  /\ worker[w].pc = "pushed"
  /\ Rest(w)
  /\ UNCHANGED <<row, results, queue, events, key, unsent, bounds, flowHistory>>

\* A successor that is created and not pushed is nobody's task any more
Orphaned(w) == IF worker[w].pc = "created" THEN {worker[w].child} ELSE {}

NoteFault(w, what) ==
  mishap' = [t \in Tasks |-> CASE t \in Orphaned(w)   -> mishap[t] \cup {"lost"}
                               [] t = worker[w].task -> mishap[t] \cup {what}
                               [] OTHER              -> mishap[t]]

\* _handle_task_direct puts back the task, and process_next_event the event.  The event
\* carries the same dictionary, so that it has the new attempt too
FailTask(w) ==
  /\ worker[w].pc \in {"running", "skill", "done", "created", "pushed"}
  /\ Faulted
  /\ LET t == worker[w].task  a == worker[w].attempt IN
     IF a < MaxRetries
     THEN queue' = [queue EXCEPT ![t][a + 1] = @ + 1] /\ Repush(w, a + 1)
     ELSE queue' = queue /\ Repush(w, a)
  /\ NoteFault(w, "failed")
  /\ Rest(w)
  /\ UNCHANGED <<row, results, key, unsent, daylost>>

\* The process dies, and what it has taken is gone
Crash(w) ==
  /\ worker[w].pc # "idle"
  /\ Faulted
  /\ Void(w)
  /\ daylost' = (daylost \/ worker[w].pc \in Scheduling)
  /\ NoteFault(w, "lost")
  /\ Rest(w)
  /\ UNCHANGED <<results, queue, events, key, unsent>>

------------------------------------------------------------------------------
FlowInit ==
  /\ row = [t \in Tasks |-> NoRow]
  /\ results = [t \in Tasks |-> 0]
  /\ queue = [t \in Tasks |-> [a \in Attempts |-> 0]]
  /\ events = [t \in Tasks |-> [a \in Attempts |-> [e \in Tries |-> 0]]]
  /\ key = "free"
  /\ worker = [w \in Workers |-> Idle]
  /\ unsent = {}
  /\ calls = 0
  /\ faults = 0
  /\ mishap = [t \in Tasks |-> {}]
  /\ daylost = FALSE

SchedulerStep(w) ==
  \/ AcquireDay(w) \/ SkipDay(w) \/ EnqueueDay(w) \/ MarkDay(w) \/ CommitDay(w)
  \/ \E t \in Tasks : CheckDay(w, t)

ExecutionStep(w) ==
  \/ \E t \in Tasks, a \in Attempts :
       /\ queue[t][a] > 0
       /\ \E u \in Tasks, b \in Attempts, e \in Tries : TakeTask(w, t, a, u, b, e)
  \/ TaskNotFound(w) \/ BeginTask(w) \/ ReadTask(w) \/ FinishTask(w)
  \/ LastStep(w) \/ EnqueueNext(w) \/ EndTask(w)
  \/ \E t \in Tasks : CreateNext(w, t)

WorkerStep(w) == SchedulerStep(w) \/ ExecutionStep(w)

RequestStep == \E t \in Tasks : CreateFlow(t) \/ AssignTask(t) \/ CompleteTask(t) \/ Send(t)

FlowFault ==
  \/ \E w \in Workers : \/ \E removed \in BOOLEAN : FailDay(w, removed)
                        \/ CommitUnheard(w) \/ FailTask(w) \/ Crash(w)
  \/ \E t \in Tasks : LoseRequest(t)

FlowNext == (\E w \in Workers : WorkerStep(w)) \/ RequestStep \/ FlowFault

FlowSpec == FlowInit /\ [][FlowNext]_flowVars

\* The main loop of each worker goes on: it tries the scheduler in every round, and
\* each handler runs to its end
FlowFairSpec ==
  FlowSpec /\ \A w \in Workers : WF_flowVars(SchedulerStep(w)) /\ WF_flowVars(ExecutionStep(w))

------------------------------------------------------------------------------
(* Properties                                                               *)

RowType == [status : FlowStatuses, step : 0 .. Steps, parent : Tasks \cup {None}, daily : BOOLEAN]

WorkerType ==
  [pc : Scheduling \cup {"idle", "taken", "running", "skill", "done", "created", "pushed"},
   task : Tasks \cup {None}, attempt : Attempts, tries : Tries,
   child : Tasks \cup {None}, done : BOOLEAN]

\* Every variable keeps its type; the id of a worker's task is drawn before it is used.
FlowTypeOK ==
  /\ row \in [Tasks -> RowType]
  /\ results \in [Tasks -> Nat]
  /\ queue \in [Tasks -> [Attempts -> Nat]]
  /\ events \in [Tasks -> [Attempts -> [Tries -> Nat]]]
  /\ key \in {"free", "pending", "created"}
  /\ worker \in [Workers -> WorkerType]
  /\ unsent \subseteq Tasks
  /\ calls \in 0 .. MaxCalls
  /\ faults \in 0 .. MaxFaults
  /\ mishap \in [Tasks -> SUBSET {"again", "early", "failed", "lost"}]
  /\ daylost \in BOOLEAN

\* One daily flow a day, whoever dies, fails or is not heard: neither the key alone nor
\* the look at the table alone is enough (run_daily_scheduler).
OneDailyFlow ==
  \A t, u \in Committed :
    (row[t].daily /\ row[t].step = 1 /\ row[u].daily /\ row[u].step = 1) => t = u

Children(t) == {u \in Committed : row[u].parent = t}

\* A chain forks only at a task that has failed, and was put back twice, or that was
\* assigned again by hand; every successor continues its parent by one step and has a
\* result of it to start from.
ChainsDoNotFork ==
  /\ \A t \in Tasks : \A u, v \in Children(t) :
       u # v => mishap[t] \cap {"again", "failed"} # {}
  /\ \A u \in Committed : row[u].step > 1 =>
       /\ row[u].parent \in Committed
       /\ row[u].step = row[row[u].parent].step + 1
       /\ results[row[u].parent] > 0

InLists(t) == (\E a \in Attempts : queue[t][a] > 0 \/ \E e \in Tries : events[t][a][e] > 0)
Held(t) == \E w \in Workers : worker[w].task = t \/ worker[w].child = t

Continued(t) == row[t].step = Steps \/ Children(t) # {}

\* A task that is neither in a list nor with anybody has run and has its successor, or
\* something is known to have gone wrong with it: nothing is lost in silence.
NothingLost ==
  \A t \in Committed :
    (~InLists(t) /\ ~Held(t) /\ t \notin unsent /\ mishap[t] = {}) =>
      row[t].status = "completed" /\ Continued(t)

Mishaps == daylost \/ \E t \in Tasks : mishap[t] # {}

\* The day's flow is created and runs to its last step if nobody fails or dies and no
\* worker looks for a task before it is committed.
DailyFlowEnds ==
  <>(Mishaps \/ \E t \in Committed :
                  row[t].daily /\ row[t].step = Steps /\ row[t].status = "completed")
=============================================================================
