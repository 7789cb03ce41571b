-------------------------- MODULE TaskQueues_proof --------------------------
(***************************************************************************)
(* Proofs about TaskQueues for every number of tasks, events, workers, API *)
(* requests and retries.                                                   *)
(***************************************************************************)
EXTENDS TaskQueues, FiniteSetTheorems, WellFoundedInduction, TLAPS

(***************************************************************************)
(* The inductive invariant: where the events are (ListInv), and that the   *)
(* attempt of every copy of a task, in either list or with an actor, is    *)
(* backed by as many logged executions (CountInv).  The second needs the   *)
(* first: requeue_task changes the payload of the event it is executing,   *)
(* which nobody else may hold.                                             *)
(***************************************************************************)

Holds(a) == actor[a].pc \in Holding

\* An event is in the list once, with one actor, or in neither place
EventInOnePlace ==
  /\ \A j, k \in DOMAIN events : events[j] = events[k] => j = k
  /\ \A a \in Actors : Holds(a) => \A k \in DOMAIN events : events[k] # actor[a].event
  /\ \A a, b \in Actors : Holds(a) /\ Holds(b) /\ actor[a].event = actor[b].event => a = b

\* What is in the list or with an actor was pushed
LiveEventIsUsed ==
  /\ \A k \in DOMAIN events : body[events[k]].kind # "unused"
  /\ \A a \in Actors : Holds(a) => body[actor[a].event].kind # "unused"

\* What the program counter of an actor says of its events
ActorHasEvents ==
  \A a \in Actors :
    /\ Holds(a) \/ actor[a].pc = "requeued" => actor[a].event \in Events
    /\ actor[a].pc \in {"pushed", "submitted"} => actor[a].own \in Events
    /\ actor[a].pc \in {"work", "failing", "retried"} => body[actor[a].event].kind = "task"

ListInv ==
  /\ events \in Seq(Events)
  /\ body \in [Events -> BodyType]
  /\ tries \in [Events -> 0..EventRetries]
  /\ actor \in [Actors -> ActorType]
  /\ \A e \in Events : body[e].kind = "task" => body[e].task \in Tasks
  /\ EventInOnePlace
  /\ LiveEventIsUsed
  /\ ActorHasEvents

\* Every attempt is backed by a log row, and an execution in progress by one more
TasksLogged == \A k \in DOMAIN tasks : tasks[k].attempt <= rows[tasks[k].task]

BodiesLogged == \A e \in Events : body[e].kind = "task" => body[e].attempt <= rows[body[e].task]

ActorLogged(a) ==
  /\ actor[a].pc = "route" => actor[a].task \in Tasks /\ actor[a].attempt <= rows[actor[a].task]
  /\ actor[a].pc \in {"work", "failing"} => BodyOf(a).attempt < rows[BodyOf(a).task]

AttemptsLogged == TasksLogged /\ BodiesLogged /\ \A a \in Actors : ActorLogged(a)

CountInv ==
  /\ tasks \in Seq(CopyType)
  /\ taskStatus \in [Tasks -> TaskStates]
  /\ eventStatus \in [Events -> EventStates]
  /\ rows \in [Tasks -> Nat]
  /\ producer \in [Tasks -> {"new", "pushed", "done"}]
  /\ AttemptsLogged
  /\ GivesUpAfterRetries

IInv == ListInv /\ CountInv

LEMMA InvariantImpliesProperties ==
  IInv => TypeOK /\ GivesUpAfterRetries
BY DEF IInv, ListInv, CountInv, TypeOK

LEMMA InitEstablishesInvariant == Init => IInv
<1> SUFFICES ASSUME Init PROVE IInv
  OBVIOUS
<1>1. /\ Unused \in BodyType /\ Unused.kind = "unused"
      /\ Idle \in ActorType /\ Idle.pc = "idle"
  BY MaxRetriesAssumption DEF Unused, BodyType, Idle, At, ActorType, PCs
<1>2. ListInv
  BY <1>1, EventRetriesAssumption
  DEF Init, ListInv, EventInOnePlace, LiveEventIsUsed, ActorHasEvents, Holds, Holding
<1>3. CountInv
  BY <1>1
  DEF Init, CountInv, AttemptsLogged, TasksLogged, BodiesLogged, ActorLogged, TaskStates, EventStates,
      GivesUpAfterRetries
<1> QED
  BY <1>2, <1>3 DEF IInv

------------------------------------------------------------------------------
(* Steps of one actor that move no event                                     *)

\* What an actor may become while the list and the payloads stay as they are
MayBecome(a, new) ==
  /\ new \in ActorType
  /\ new.pc \in Holding => Holds(a) /\ new.event = actor[a].event
  /\ new.pc = "requeued" => new.event \in Events
  /\ new.pc \in {"pushed", "submitted"} => new.own \in Events
  /\ new.pc \in {"work", "failing", "retried"} => body[new.event].kind = "task"

LEMMA ListFrame ==
  ASSUME ListInv, NEW a \in Actors, NEW new, MayBecome(a, new),
         actor' = [actor EXCEPT ![a] = new], UNCHANGED <<events, body, tries>>
  PROVE  ListInv'
<1>1. /\ actor' \in [Actors -> ActorType] /\ actor'[a] = new
      /\ \A b \in Actors \ {a} : actor'[b] = actor[b]
  BY DEF ListInv, MayBecome
<1>2. \A b \in Actors : Holds(b)' => Holds(b) /\ actor'[b].event = actor[b].event
  BY <1>1 DEF MayBecome, Holds
<1>3. EventInOnePlace'
  BY <1>2 DEF ListInv, EventInOnePlace
<1>4. LiveEventIsUsed'
  BY <1>2 DEF ListInv, LiveEventIsUsed
<1>5. ActorHasEvents'
  <2>1. SUFFICES ASSUME NEW b \in Actors
                 PROVE  /\ Holds(b)' \/ actor'[b].pc = "requeued" => actor'[b].event \in Events
                        /\ actor'[b].pc \in {"pushed", "submitted"} => actor'[b].own \in Events
                        /\ actor'[b].pc \in {"work", "failing", "retried"}
                             => body[actor'[b].event].kind = "task"
    BY DEF ActorHasEvents
  <2>2. CASE b = a
    BY <1>1, <1>2, <2>2 DEF ListInv, ActorHasEvents, MayBecome
  <2>3. CASE b # a
    BY <1>1, <1>2, <2>3 DEF ListInv, ActorHasEvents
  <2> QED
    BY <2>2, <2>3
<1> QED
  BY <1>1, <1>3, <1>4, <1>5 DEF ListInv

\* The log only grows
RowsGrow ==
  /\ rows' \in [Tasks -> Nat]
  /\ \A t \in Tasks : rows[t] <= rows'[t]

\* Statuses keep their types, and "failed" is only reported with enough rows
StatusWritten ==
  /\ taskStatus' \in [Tasks -> TaskStates]
  /\ eventStatus' \in [Events -> EventStates]
  /\ producer' \in [Tasks -> {"new", "pushed", "done"}]
  /\ \A t \in Tasks : taskStatus'[t] = "failed" => taskStatus[t] = "failed" \/ rows'[t] > MaxRetries

LEMMA TasksStayLogged ==
  ASSUME IInv, RowsGrow, UNCHANGED tasks
  PROVE  tasks' \in Seq(CopyType) /\ TasksLogged'
<1>1. \A k \in DOMAIN tasks : tasks[k] \in CopyType
  BY DEF IInv, CountInv
<1> QED
  BY <1>1, MaxRetriesAssumption
  DEF IInv, CountInv, AttemptsLogged, TasksLogged, RowsGrow, CopyType

LEMMA BodiesStayLogged ==
  ASSUME IInv, RowsGrow, UNCHANGED body
  PROVE  BodiesLogged'
BY MaxRetriesAssumption
DEF IInv, ListInv, CountInv, AttemptsLogged, BodiesLogged, RowsGrow, BodyType

\* An actor that does not move, and whose event is left alone, stays logged
LEMMA ActorStaysLogged ==
  ASSUME IInv, RowsGrow, NEW b \in Actors, actor'[b] = actor[b],
         Holds(b) => body'[actor[b].event] = body[actor[b].event]
  PROVE  ActorLogged(b)'
<1>1. ActorLogged(b) /\ actor[b] \in ActorType
  BY DEF IInv, ListInv, CountInv, AttemptsLogged
<1>2. actor[b].attempt \in Nat
  BY <1>1, MaxRetriesAssumption DEF ActorType
<1>3. actor[b].pc = "route" => actor[b].task \in Tasks /\ actor[b].attempt <= rows'[actor[b].task]
  BY <1>1, <1>2 DEF ActorLogged, RowsGrow, IInv, CountInv
<1>4. ASSUME actor[b].pc \in {"work", "failing"}
      PROVE  BodyOf(b).attempt < rows'[BodyOf(b).task] /\ BodyOf(b)' = BodyOf(b)
  <2>1. Holds(b) /\ actor[b].event \in Events /\ BodyOf(b).kind = "task"
    BY <1>4 DEF IInv, ListInv, ActorHasEvents, Holds, Holding, BodyOf
  <2>2. BodyOf(b).task \in Tasks /\ BodyOf(b).attempt \in Nat
    BY <2>1, MaxRetriesAssumption DEF IInv, ListInv, BodyOf, BodyType
  <2> QED
    BY <1>1, <1>4, <2>1, <2>2 DEF ActorLogged, RowsGrow, IInv, CountInv, BodyOf
<1> QED
  BY <1>3, <1>4 DEF ActorLogged

LEMMA CountStep ==
  ASSUME IInv, RowsGrow, StatusWritten, tasks' \in Seq(CopyType), TasksLogged', BodiesLogged',
         \A b \in Actors : ActorLogged(b)'
  PROVE  CountInv'
<1>1. GivesUpAfterRetries'
  BY MaxRetriesAssumption DEF IInv, CountInv, GivesUpAfterRetries, RowsGrow, StatusWritten
<1> QED
  BY <1>1 DEF CountInv, AttemptsLogged, RowsGrow, StatusWritten

\* One actor moves; tasks and payloads stay as they are
LEMMA MoveStep ==
  ASSUME IInv, NEW a \in Actors, NEW new, MayBecome(a, new), actor' = [actor EXCEPT ![a] = new],
         new.pc # "route",
         new.pc \in {"work", "failing"} => body[new.event].attempt < rows'[body[new.event].task],
         UNCHANGED <<tasks, events, body, tries>>, RowsGrow, StatusWritten
  PROVE  IInv'
<1>1. ListInv'
  BY ListFrame DEF IInv
<1>2. actor'[a] = new /\ \A b \in Actors \ {a} : actor'[b] = actor[b]
  BY DEF IInv, ListInv
<1>3. ActorLogged(a)'
  BY <1>2 DEF ActorLogged, BodyOf
<1>4. \A b \in Actors \ {a} : ActorLogged(b)'
  BY <1>2, ActorStaysLogged
<1>5. CountInv'
  BY <1>3, <1>4, TasksStayLogged, BodiesStayLogged, CountStep
<1> QED
  BY <1>1, <1>5 DEF IInv

\* A step that writes no status, or one that writes one
LEMMA NoRowsWritten == ASSUME IInv, UNCHANGED rows PROVE RowsGrow
BY DEF IInv, CountInv, RowsGrow

LEMMA NoStatusWritten ==
  ASSUME IInv, UNCHANGED <<taskStatus, eventStatus, producer>>
  PROVE  StatusWritten
BY DEF IInv, CountInv, StatusWritten

LEMMA EventStatusWritten ==
  ASSUME IInv, NEW e, NEW s \in EventStates, eventStatus' = [eventStatus EXCEPT ![e] = s],
         UNCHANGED <<taskStatus, producer>>
  PROVE  StatusWritten
BY DEF IInv, CountInv, StatusWritten

------------------------------------------------------------------------------
(* The actions                                                               *)

\* What becomes of an actor that is done with its event
LEMMA DoneWithEvent ==
  ASSUME IInv, NEW a \in Actors
  PROVE  /\ MayBecome(a, Idle) /\ Idle.pc = "idle"
         /\ MayBecome(a, At("reply", actor[a].own))
         /\ At("reply", actor[a].own).pc = "reply"
<1>1. actor[a].own \in Events \cup {NoEvent}
  BY DEF IInv, ListInv, ActorType
<1> QED
  BY <1>1, MaxRetriesAssumption DEF Idle, At, MayBecome, ActorType, PCs, Holding

LEMMA FinishedStep ==
  ASSUME IInv, NEW a \in Actors, Finished(a),
         UNCHANGED <<tasks, events, body, tries>>, RowsGrow, StatusWritten
  PROVE  IInv'
<1> DEFINE reply == At("reply", actor[a].own)
<1>1. actor' = [actor EXCEPT ![a] = reply] \/ actor' = [actor EXCEPT ![a] = Idle]
  BY DEF Finished
<1>2. MayBecome(a, Idle) /\ Idle.pc = "idle" /\ MayBecome(a, reply) /\ reply.pc = "reply"
  BY DoneWithEvent
<1> HIDE DEF reply
<1> QED
  BY <1>1, <1>2, MoveStep

\* An actor goes on with the event it holds
LEMMA GotoStep ==
  ASSUME IInv, NEW a \in Actors, NEW pc \in Holding, Holds(a), Goto(a, pc),
         pc \in {"work", "failing", "retried"} => BodyOf(a).kind = "task",
         pc \in {"work", "failing"} => BodyOf(a).attempt < rows'[BodyOf(a).task],
         UNCHANGED <<tasks, events, body, tries>>, RowsGrow, StatusWritten
  PROVE  IInv'
<1> DEFINE new == [actor[a] EXCEPT !.pc = pc]
<1>1. actor' = [actor EXCEPT ![a] = new] /\ actor[a] \in ActorType
  BY DEF Goto, IInv, ListInv
<1>2. new \in ActorType /\ new.pc = pc /\ new.event = actor[a].event
  BY <1>1 DEF ActorType, PCs, Holding
<1>3. pc # "route" /\ pc # "requeued" /\ pc \notin {"pushed", "submitted"}
  BY DEF Holding
<1> HIDE DEF new
<1>4. MayBecome(a, new)
  BY <1>2, <1>3 DEF MayBecome, BodyOf
<1> QED
  BY <1>1, <1>2, <1>3, <1>4, MoveStep DEF BodyOf

LEMMA AbortStep ==
  ASSUME IInv, NEW a \in Actors, Abort(a)
  PROVE  IInv'
BY DoneWithEvent, MoveStep, NoRowsWritten, NoStatusWritten DEF Abort, status

LEMMA ReadQueuedResultStep ==
  ASSUME IInv, NEW c \in Callers, ReadQueuedResult(c)
  PROVE  IInv'
BY DoneWithEvent, MoveStep, NoRowsWritten, NoStatusWritten DEF ReadQueuedResult, status, Actors

LEMMA PopTimeoutStep ==
  ASSUME IInv, NEW a \in Actors, PopTimeout(a)
  PROVE  IInv'
BY FinishedStep, NoRowsWritten, NoStatusWritten DEF PopTimeout, status

LEMMA ReportPushedStep ==
  ASSUME IInv, NEW a \in Actors, ReportPushed(a)
  PROVE  IInv'
<1> DEFINE pop == At("pop", IF a \in Callers THEN actor[a].own ELSE NoEvent)
<1>1. actor' = [actor EXCEPT ![a] = Idle] \/ actor' = [actor EXCEPT ![a] = pop]
  BY DEF ReportPushed
<1>2. actor[a].own \in Events \cup {NoEvent}
  BY DEF IInv, ListInv, ActorType
<1>3. MayBecome(a, pop) /\ pop.pc = "pop" /\ MayBecome(a, Idle) /\ Idle.pc = "idle"
  BY <1>2, DoneWithEvent, MaxRetriesAssumption DEF At, MayBecome, ActorType, PCs, Holding
<1> HIDE DEF pop
<1>4. StatusWritten /\ RowsGrow
  BY EventStatusWritten, NoRowsWritten DEF ReportPushed, EventStates
<1> QED
  BY <1>1, <1>3, <1>4, MoveStep DEF ReportPushed

LEMMA ExecuteCallStep ==
  ASSUME IInv, NEW a \in Actors, ExecuteCall(a)
  PROVE  IInv'
<1>1. StatusWritten /\ RowsGrow
  BY EventStatusWritten, NoRowsWritten DEF ExecuteCall, Complete, EventStates
<1> QED
  BY <1>1, FinishedStep DEF ExecuteCall, Complete

LEMMA ExecuteRaisesStep ==
  ASSUME IInv, NEW a \in Actors, ExecuteRaises(a)
  PROVE  IInv'
BY GotoStep, NoRowsWritten, NoStatusWritten DEF ExecuteRaises, status, Holds, Holding

LEMMA ReportRequeuedStep ==
  ASSUME IInv, NEW a \in Actors, ReportRequeued(a)
  PROVE  IInv'
<1>1. StatusWritten /\ RowsGrow
  BY EventStatusWritten, NoRowsWritten DEF ReportRequeued, EventStates
<1> QED
  BY <1>1, FinishedStep DEF ReportRequeued

\* The task an actor is executing
LEMMA ExecutedTask ==
  ASSUME IInv, NEW a \in Actors, Holds(a), BodyOf(a).kind = "task"
  PROVE  /\ actor[a].event \in Events
         /\ BodyOf(a).task \in Tasks
         /\ BodyOf(a).attempt \in 0..MaxRetries
         /\ BodyOf(a).attempt <= rows[BodyOf(a).task]
         /\ rows[BodyOf(a).task] \in Nat
BY DEF IInv, ListInv, CountInv, ActorHasEvents, AttemptsLogged, BodiesLogged, BodyOf, BodyType

\* _handle_task_direct logs the execution
LEMMA RowLogged ==
  ASSUME IInv, NEW a \in Actors, Holds(a), BodyOf(a).kind = "task",
         rows' = [rows EXCEPT ![BodyOf(a).task] = @ + 1]
  PROVE  /\ RowsGrow
         /\ BodyOf(a).task \in Tasks
         /\ BodyOf(a).attempt < rows'[BodyOf(a).task]
<1>1. /\ BodyOf(a).task \in Tasks
      /\ BodyOf(a).attempt \in Nat /\ BodyOf(a).attempt <= rows[BodyOf(a).task]
      /\ rows[BodyOf(a).task] \in Nat
  BY ExecutedTask, MaxRetriesAssumption
<1>2. RowsGrow /\ rows'[BodyOf(a).task] = rows[BodyOf(a).task] + 1
  BY <1>1 DEF IInv, CountInv, RowsGrow
<1> QED
  BY <1>1, <1>2

LEMMA BeginTaskStep ==
  ASSUME IInv, NEW a \in Actors, BeginTask(a)
  PROVE  IInv'
<1>1. Holds(a) /\ BodyOf(a).kind = "task"
  BY DEF BeginTask, Holds, Holding
<1>2. RowsGrow /\ BodyOf(a).task \in Tasks /\ BodyOf(a).attempt < rows'[BodyOf(a).task]
  BY <1>1, RowLogged DEF BeginTask
<1>3. StatusWritten
  BY <1>2 DEF IInv, CountInv, BeginTask, StatusWritten, TaskStates
<1> QED
  BY <1>1, <1>2, <1>3, GotoStep DEF BeginTask, Holding

LEMMA ReportRunningRaisesStep ==
  ASSUME IInv, NEW a \in Actors, ReportRunningRaises(a)
  PROVE  IInv'
<1>1. Holds(a) /\ BodyOf(a).kind = "task"
  BY DEF ReportRunningRaises, Holds, Holding
<1>2. RowsGrow
  BY <1>1, RowLogged DEF ReportRunningRaises
<1> QED
  BY <1>1, <1>2, GotoStep, NoStatusWritten DEF ReportRunningRaises, status, Holding

\* An actor whose execution has been logged
LEMMA LoggedExecution ==
  ASSUME IInv, NEW a \in Actors, actor[a].pc \in {"work", "failing"}
  PROVE  /\ Holds(a)
         /\ BodyOf(a).kind = "task"
         /\ BodyOf(a).attempt < rows[BodyOf(a).task]
BY DEF IInv, ListInv, CountInv, ActorHasEvents, AttemptsLogged, ActorLogged, BodyOf, Holds, Holding

LEMMA TaskSucceedsStep ==
  ASSUME IInv, NEW a \in Actors, TaskSucceeds(a)
  PROVE  IInv'
<1>1. RowsGrow
  BY NoRowsWritten DEF TaskSucceeds
<1>2. StatusWritten
  BY DEF IInv, CountInv, TaskSucceeds, Complete, StatusWritten, TaskStates, EventStates
<1> QED
  BY <1>1, <1>2, FinishedStep DEF TaskSucceeds, Complete

LEMMA TaskFailsStep ==
  ASSUME IInv, NEW a \in Actors, TaskFails(a)
  PROVE  IInv'
<1>1. Holds(a) /\ BodyOf(a).kind = "task" /\ BodyOf(a).attempt < rows[BodyOf(a).task]
  BY LoggedExecution DEF TaskFails
<1> QED
  BY <1>1, GotoStep, NoRowsWritten, NoStatusWritten DEF TaskFails, status, Holding

LEMMA ReportRetryingStep ==
  ASSUME IInv, NEW a \in Actors, ReportRetrying(a)
  PROVE  IInv'
<1>1. RowsGrow
  BY NoRowsWritten DEF ReportRetrying
<1>2. StatusWritten
  BY DEF IInv, CountInv, ReportRetrying, StatusWritten, TaskStates
<1> QED
  BY <1>1, <1>2, GotoStep DEF ReportRetrying, Holds, Holding

LEMMA ReportCompletedRaisesStep ==
  ASSUME IInv, NEW a \in Actors, ReportCompletedRaises(a)
  PROVE  IInv'
<1>1. RowsGrow
  BY NoRowsWritten DEF ReportCompletedRaises
<1>2. StatusWritten
  BY DEF IInv, CountInv, ReportCompletedRaises, StatusWritten, TaskStates
<1> QED
  BY <1>1, <1>2, GotoStep DEF ReportCompletedRaises, Holds, Holding

LEMMA ReportQueuedStep ==
  ASSUME IInv, NEW t \in Tasks, ReportQueued(t)
  PROVE  IInv'
<1>1. ListInv'
  BY DEF IInv, ListInv, ReportQueued, EventInOnePlace, LiveEventIsUsed, ActorHasEvents, Holds
<1>2. RowsGrow
  BY NoRowsWritten DEF ReportQueued
<1>3. StatusWritten
  BY DEF IInv, CountInv, ReportQueued, StatusWritten, TaskStates
<1>4. \A b \in Actors : ActorLogged(b)'
  BY <1>2, ActorStaysLogged DEF ReportQueued
<1> QED
  BY <1>1, <1>2, <1>3, <1>4, TasksStayLogged, BodiesStayLogged, CountStep DEF IInv, ReportQueued

------------------------------------------------------------------------------
(* Steps that move tasks and events                                          *)

LEMMA AppendFacts ==
  ASSUME NEW S, NEW s \in Seq(S), NEW x \in S
  PROVE  /\ Append(s, x) \in Seq(S)
         /\ DOMAIN Append(s, x) = DOMAIN s \cup {Len(s) + 1}
         /\ Len(s) + 1 \notin DOMAIN s
         /\ \A k \in DOMAIN s : Append(s, x)[k] = s[k]
         /\ Append(s, x)[Len(s) + 1] = x
<1>1. Len(s) \in Nat /\ DOMAIN s = 1..Len(s)
  OBVIOUS
<1>2. Append(s, x) \in Seq(S) /\ Len(Append(s, x)) = Len(s) + 1
  OBVIOUS
<1>3. DOMAIN Append(s, x) = 1..(Len(s) + 1)
  BY <1>2
<1>4. \A k \in 1..Len(s) : Append(s, x)[k] = s[k]
  OBVIOUS
<1>5. Append(s, x)[Len(s) + 1] = x
  OBVIOUS
<1>6. 1..(Len(s) + 1) = 1..Len(s) \cup {Len(s) + 1}
  BY <1>1
<1> QED
  BY <1>1, <1>2, <1>3, <1>4, <1>5, <1>6

LEMMA TailFacts ==
  ASSUME NEW S, NEW s \in Seq(S), s # <<>>
  PROVE  /\ Tail(s) \in Seq(S)
         /\ Head(s) = s[1] /\ Head(s) \in S /\ 1 \in DOMAIN s
         /\ \A k \in DOMAIN Tail(s) : /\ k \in Nat /\ k + 1 \in DOMAIN s /\ k + 1 # 1
                                      /\ Tail(s)[k] = s[k + 1]
<1>1. Len(s) \in Nat \ {0} /\ DOMAIN s = 1..Len(s) /\ Head(s) = s[1] /\ Head(s) \in S
  OBVIOUS
<1>2. /\ Tail(s) \in Seq(S) /\ DOMAIN Tail(s) = 1..(Len(s) - 1)
      /\ \A k \in DOMAIN Tail(s) : Tail(s)[k] = s[k + 1]
  OBVIOUS
<1> QED
  BY <1>1, <1>2

\* A copy of a task is pushed whose attempt is backed by the log
LEMMA TaskPushed ==
  ASSUME IInv, NEW t \in Tasks, NEW n \in 0..MaxRetries, n <= rows[t],
         tasks' = Append(tasks, Copy(t, n)), UNCHANGED rows
  PROVE  tasks' \in Seq(CopyType) /\ TasksLogged'
<1>1. Copy(t, n) \in CopyType /\ Copy(t, n).task = t /\ Copy(t, n).attempt = n
  BY DEF Copy, CopyType
<1>2. tasks \in Seq(CopyType)
  BY DEF IInv, CountInv
<1> DEFINE c == Copy(t, n)
<1> HIDE DEF c
<1>3. /\ Append(tasks, c) \in Seq(CopyType)
      /\ DOMAIN Append(tasks, c) = DOMAIN tasks \cup {Len(tasks) + 1}
      /\ \A k \in DOMAIN tasks : Append(tasks, c)[k] = tasks[k]
      /\ Append(tasks, c)[Len(tasks) + 1] = c
  BY <1>1, <1>2, AppendFacts DEF c
<1>4. tasks' = Append(tasks, c) /\ c.task = t /\ c.attempt = n
  BY <1>1 DEF c
<1> QED
  BY <1>3, <1>4 DEF IInv, CountInv, AttemptsLogged, TasksLogged

LEMMA EnqueueTaskStep ==
  ASSUME IInv, NEW t \in Tasks, EnqueueTask(t)
  PROVE  IInv'
<1>1. ListInv'
  BY DEF IInv, ListInv, EnqueueTask, EventInOnePlace, LiveEventIsUsed, ActorHasEvents, Holds
<1>2. RowsGrow
  BY NoRowsWritten DEF EnqueueTask
<1>3. StatusWritten
  BY DEF IInv, CountInv, EnqueueTask, StatusWritten, status
<1>4. \A b \in Actors : ActorLogged(b)'
  BY <1>2, ActorStaysLogged DEF EnqueueTask
<1>5. tasks' \in Seq(CopyType) /\ TasksLogged'
  <2>1. rows[t] \in Nat
    BY DEF IInv, CountInv
  <2>2. 0 \in 0..MaxRetries /\ 0 <= rows[t]
    BY <2>1, MaxRetriesAssumption
  <2> QED
    BY <2>2, TaskPushed DEF EnqueueTask
<1> QED
  BY <1>1, <1>2, <1>3, <1>4, <1>5, BodiesStayLogged, CountStep DEF IInv, EnqueueTask

LEMMA DequeueTaskStep ==
  ASSUME IInv, NEW w \in Workers, DequeueTask(w)
  PROVE  IInv'
<1> DEFINE h   == Head(tasks)
           new == [pc |-> "route", task |-> h.task, attempt |-> h.attempt,
                   event |-> NoEvent, own |-> NoEvent]
<1>1. /\ w \in Actors /\ actor' = [actor EXCEPT ![w] = new]
      /\ UNCHANGED <<events, body, tries, taskStatus, eventStatus, rows, producer>>
  BY DEF DequeueTask, Actors, status
<1>2. /\ tasks' = Tail(tasks) /\ tasks' \in Seq(CopyType)
      /\ h = tasks[1] /\ h \in CopyType /\ 1 \in DOMAIN tasks
      /\ \A k \in DOMAIN tasks' : k + 1 \in DOMAIN tasks /\ tasks'[k] = tasks[k + 1]
  BY TailFacts DEF IInv, CountInv, DequeueTask
<1>3. new \in ActorType /\ new.pc = "route" /\ new.task = h.task /\ new.attempt = h.attempt
  BY <1>2 DEF ActorType, CopyType, PCs
<1>4. h.task \in Tasks /\ h.attempt <= rows[h.task]
  BY <1>2 DEF IInv, CountInv, AttemptsLogged, TasksLogged, CopyType
<1> HIDE DEF h, new
<1>5. MayBecome(w, new)
  BY <1>3 DEF MayBecome, Holding
<1>6. ListInv'
  BY <1>1, <1>5, ListFrame DEF IInv
<1>7. RowsGrow /\ StatusWritten
  BY <1>1, NoRowsWritten, NoStatusWritten
<1>8. TasksLogged'
  BY <1>1, <1>2 DEF IInv, CountInv, AttemptsLogged, TasksLogged
<1>9. actor'[w] = new /\ \A b \in Actors \ {w} : actor'[b] = actor[b]
  BY <1>1 DEF IInv, ListInv
<1>10. ActorLogged(w)'
  BY <1>1, <1>3, <1>4, <1>9 DEF ActorLogged
<1>11. \A b \in Actors \ {w} : ActorLogged(b)'
  BY <1>1, <1>7, <1>9, ActorStaysLogged
<1> QED
  BY <1>1, <1>2, <1>6, <1>7, <1>8, <1>10, <1>11, BodiesStayLogged, CountStep DEF IInv

\* A new event is in no place yet
LEMMA PushStep ==
  ASSUME IInv, NEW a \in Actors, NEW e \in Events, NEW b \in BodyType, NEW pc \in {"pushed", "submitted"},
         b.kind # "unused", b.kind = "task" => b.task \in Tasks /\ b.attempt <= rows[b.task],
         PushQueue(e, b), actor' = [actor EXCEPT ![a] = At(pc, e)],
         UNCHANGED <<tasks, tries, taskStatus, eventStatus, rows, producer>>
  PROVE  IInv'
<1> DEFINE new == At(pc, e)
<1>1. new \in ActorType /\ new.pc = pc /\ new.own = e
  BY MaxRetriesAssumption DEF At, ActorType, PCs
<1>2. /\ actor' \in [Actors -> ActorType] /\ actor'[a] = new
      /\ \A c \in Actors \ {a} : actor'[c] = actor[c]
  BY <1>1 DEF IInv, ListInv
<1> HIDE DEF new
<1>3. body[e].kind = "unused"
  BY DEF PushQueue, Unused
<1>4. /\ body' \in [Events -> BodyType] /\ body'[e] = b
      /\ \A d \in Events \ {e} : body'[d] = body[d]
  BY DEF IInv, ListInv, PushQueue
<1>5. /\ events' \in Seq(Events) /\ DOMAIN events' = DOMAIN events \cup {Len(events) + 1}
      /\ \A k \in DOMAIN events : events'[k] = events[k]
      /\ events'[Len(events) + 1] = e
  BY AppendFacts DEF IInv, ListInv, PushQueue
<1>6. \A k \in DOMAIN events : events[k] \in Events \ {e}
  BY <1>3 DEF IInv, ListInv, LiveEventIsUsed
<1>7. \A c \in Actors : Holds(c)' => Holds(c) /\ c # a /\ actor'[c] = actor[c]
  BY <1>1, <1>2 DEF Holds, Holding
<1>8. \A c \in Actors : Holds(c) => actor[c].event \in Events \ {e}
  BY <1>3 DEF IInv, ListInv, LiveEventIsUsed, ActorHasEvents
<1>9. EventInOnePlace'
  BY <1>5, <1>6, <1>7, <1>8 DEF IInv, ListInv, EventInOnePlace
<1>10. LiveEventIsUsed'
  <2>1. \A k \in DOMAIN events' : body'[events'[k]].kind # "unused"
    BY <1>4, <1>5, <1>6 DEF IInv, ListInv, LiveEventIsUsed
  <2>2. \A c \in Actors : Holds(c)' => body'[actor'[c].event].kind # "unused"
    BY <1>4, <1>7, <1>8 DEF IInv, ListInv, LiveEventIsUsed
  <2> QED
    BY <2>1, <2>2 DEF LiveEventIsUsed
<1>11. ActorHasEvents'
  <2>1. ASSUME NEW c \in Actors
        PROVE  /\ Holds(c)' \/ actor'[c].pc = "requeued" => actor'[c].event \in Events
               /\ actor'[c].pc \in {"pushed", "submitted"} => actor'[c].own \in Events
    BY <1>1, <1>2, <1>7 DEF IInv, ListInv, ActorHasEvents
  <2>2. ASSUME NEW c \in Actors, actor'[c].pc \in {"work", "failing", "retried"}
        PROVE  body'[actor'[c].event].kind = "task"
    <3>1. Holds(c) /\ actor'[c] = actor[c]
      BY <1>7, <2>2 DEF Holds, Holding
    <3>2. actor[c].event \in Events \ {e}
      BY <1>8, <3>1
    <3> QED
      BY <1>4, <2>2, <3>1, <3>2 DEF IInv, ListInv, ActorHasEvents
  <2> QED
    BY <2>1, <2>2 DEF ActorHasEvents
<1>12. ListInv'
  BY <1>2, <1>4, <1>5, <1>9, <1>10, <1>11 DEF IInv, ListInv
<1>13. RowsGrow /\ StatusWritten
  BY NoRowsWritten, NoStatusWritten
<1>14. BodiesLogged'
  BY <1>4 DEF IInv, CountInv, AttemptsLogged, BodiesLogged
<1>15. \A c \in Actors \ {a} : ActorLogged(c)'
  BY <1>2, <1>4, <1>8, <1>13, ActorStaysLogged
<1>16. ActorLogged(a)'
  BY <1>1, <1>2 DEF ActorLogged
<1> QED
  BY <1>12, <1>13, <1>14, <1>15, <1>16, TasksStayLogged, CountStep DEF IInv

\* An actor that has nothing to push goes on to the list of events
LEMMA SkipStep ==
  ASSUME IInv, NEW a \in Actors, actor' = [actor EXCEPT ![a] = At("pop", NoEvent)],
         UNCHANGED <<tasks, events, body, tries, taskStatus, eventStatus, rows, producer>>
  PROVE  IInv'
<1> DEFINE new == At("pop", NoEvent)
<1>1. MayBecome(a, new) /\ new.pc = "pop"
  BY MaxRetriesAssumption DEF At, MayBecome, ActorType, PCs, Holding
<1> HIDE DEF new
<1>2. actor' = [actor EXCEPT ![a] = new]
  BY DEF new
<1> QED
  BY <1>1, <1>2, MoveStep, NoRowsWritten, NoStatusWritten

LEMMA HandleEventStep ==
  ASSUME IInv, NEW w \in Workers, NEW e \in Events, HandleEvent(w, e)
  PROVE  IInv'
<1> DEFINE b == [kind |-> "task", task |-> actor[w].task, attempt |-> actor[w].attempt]
<1>1. w \in Actors /\ UNCHANGED <<tasks, tries, taskStatus, eventStatus, rows, producer>>
  BY DEF HandleEvent, Actors, status
<1>2. actor[w].task \in Tasks /\ actor[w].attempt <= rows[actor[w].task] /\ actor[w] \in ActorType
  BY <1>1 DEF IInv, ListInv, CountInv, AttemptsLogged, ActorLogged, HandleEvent
<1>3. /\ b \in BodyType /\ b.kind # "unused" /\ b.task \in Tasks /\ b.attempt <= rows[b.task]
  BY <1>2 DEF BodyType, ActorType
<1>4. CASE PushQueue(e, b) /\ actor' = [actor EXCEPT ![w] = At("pushed", e)]
  <2> HIDE DEF b
  <2> QED
    BY <1>1, <1>3, <1>4, PushStep
<1>5. CASE UNCHANGED <<body, events>> /\ actor' = [actor EXCEPT ![w] = At("pop", NoEvent)]
  BY <1>1, <1>5, SkipStep
<1> QED
  BY <1>4, <1>5 DEF HandleEvent

LEMMA CallIsBody == Call \in BodyType /\ Call.kind = "call"
BY MaxRetriesAssumption DEF Call, BodyType

LEMMA DispatchBusinessEventStep ==
  ASSUME IInv, NEW c \in Callers, NEW e \in Events, DispatchBusinessEvent(c, e)
  PROVE  IInv'
<1>1. c \in Actors /\ UNCHANGED <<tasks, tries, taskStatus, eventStatus, rows, producer>>
  BY DEF DispatchBusinessEvent, Actors, status
<1>2. CASE PushQueue(e, Call) /\ actor' = [actor EXCEPT ![c] = At("pushed", e)]
  BY <1>1, <1>2, PushStep, CallIsBody
<1>3. CASE UNCHANGED <<body, events>> /\ actor' = [actor EXCEPT ![c] = At("pop", NoEvent)]
  BY <1>1, <1>3, SkipStep
<1> QED
  BY <1>2, <1>3 DEF DispatchBusinessEvent

LEMMA SubmitCommandStep ==
  ASSUME IInv, NEW c \in Callers, NEW e \in Events, SubmitCommand(c, e)
  PROVE  IInv'
<1>1. c \in Actors /\ UNCHANGED <<tasks, tries, taskStatus, eventStatus, rows, producer>>
  BY DEF SubmitCommand, Actors, status
<1> QED
  BY <1>1, PushStep, CallIsBody DEF SubmitCommand

\* The head of the list moves to the actor
LEMMA PopQueueStep ==
  ASSUME IInv, NEW a \in Actors, PopQueue(a)
  PROVE  IInv'
<1> DEFINE h   == Head(events)
           new == [actor[a] EXCEPT !.pc = "exec", !.event = h]
<1>1. /\ UNCHANGED <<tasks, body, tries, taskStatus, rows, producer>> /\ ~Holds(a)
      /\ eventStatus' = [eventStatus EXCEPT ![h] = "running"]
  BY DEF PopQueue, Holds, Holding
<1>2. /\ events' \in Seq(Events) /\ h = events[1] /\ h \in Events /\ 1 \in DOMAIN events
      /\ \A k \in DOMAIN events' : /\ k \in Nat /\ k + 1 \in DOMAIN events /\ k + 1 # 1
                                   /\ events'[k] = events[k + 1]
  BY TailFacts DEF IInv, ListInv, PopQueue
<1>3. new \in ActorType /\ new.pc = "exec" /\ new.event = h
  BY <1>2 DEF IInv, ListInv, ActorType, PCs
<1>4. actor' = [actor EXCEPT ![a] = new]
  BY DEF PopQueue
<1> HIDE DEF h, new
<1>5. /\ actor' \in [Actors -> ActorType] /\ actor'[a] = new
      /\ \A c \in Actors \ {a} : actor'[c] = actor[c]
  BY <1>3, <1>4 DEF IInv, ListInv
<1>6. /\ body[h].kind # "unused"
      /\ \A c \in Actors : Holds(c) => actor[c].event # h
      /\ \A k \in DOMAIN events' : events'[k] # h
  BY <1>2 DEF IInv, ListInv, LiveEventIsUsed, EventInOnePlace
<1>7. \A c \in Actors \ {a} : Holds(c)' => Holds(c)
  BY <1>5 DEF Holds
<1>8. EventInOnePlace'
  <2>1. ASSUME NEW j \in DOMAIN events', NEW k \in DOMAIN events', events'[j] = events'[k]
        PROVE  j = k
    <3>1. j + 1 = k + 1
      BY <1>2, <2>1 DEF IInv, ListInv, EventInOnePlace
    <3> QED
      BY <1>2, <3>1
  <2>2. ASSUME NEW c \in Actors, Holds(c)', NEW k \in DOMAIN events'
        PROVE  events'[k] # actor'[c].event
    <3>1. CASE c = a
      BY <1>3, <1>5, <1>6, <3>1
    <3>2. CASE c # a
      BY <1>2, <1>5, <1>7, <2>2, <3>2 DEF IInv, ListInv, EventInOnePlace
    <3> QED
      BY <3>1, <3>2
  <2>3. ASSUME NEW c \in Actors, NEW d \in Actors, Holds(c)', Holds(d)',
               actor'[c].event = actor'[d].event
        PROVE  c = d
    BY <1>3, <1>5, <1>6, <1>7, <2>3 DEF IInv, ListInv, EventInOnePlace
  <2> QED
    BY <2>1, <2>2, <2>3 DEF EventInOnePlace
<1>9. LiveEventIsUsed'
  <2>1. \A k \in DOMAIN events' : body'[events'[k]].kind # "unused"
    BY <1>1, <1>2 DEF IInv, ListInv, LiveEventIsUsed
  <2>2. \A c \in Actors : Holds(c)' => body'[actor'[c].event].kind # "unused"
    BY <1>1, <1>3, <1>5, <1>6, <1>7 DEF IInv, ListInv, LiveEventIsUsed
  <2> QED
    BY <2>1, <2>2 DEF LiveEventIsUsed
<1>10. ActorHasEvents'
  BY <1>1, <1>2, <1>3, <1>5, <1>7 DEF IInv, ListInv, ActorHasEvents
<1>11. ListInv'
  BY <1>1, <1>2, <1>5, <1>8, <1>9, <1>10 DEF IInv, ListInv
<1>12. RowsGrow /\ StatusWritten
  BY <1>1, NoRowsWritten, EventStatusWritten DEF EventStates
<1>13. \A c \in Actors \ {a} : ActorLogged(c)'
  BY <1>1, <1>5, <1>12, ActorStaysLogged
<1>14. ActorLogged(a)'
  BY <1>3, <1>5 DEF ActorLogged
<1> QED
  BY <1>1, <1>11, <1>12, <1>13, <1>14, TasksStayLogged, BodiesStayLogged, CountStep DEF IInv

\* The actor's event moves to the end of the list
LEMMA RequeueEventStep ==
  ASSUME IInv, NEW a \in Actors, RequeueEvent(a)
  PROVE  IInv'
<1> DEFINE e   == actor[a].event
           new == [actor[a] EXCEPT !.pc = "requeued"]
<1>1. UNCHANGED <<tasks, body, taskStatus, rows, producer>> /\ Holds(a)
  BY DEF RequeueEvent, Holds, Holding
<1>2. e \in Events /\ actor[a] \in ActorType /\ body[e].kind # "unused"
  BY <1>1 DEF IInv, ListInv, ActorHasEvents, LiveEventIsUsed
<1>3. RowsGrow
  BY <1>1, NoRowsWritten
<1>4. CASE ~MayRetryEvent(tries[e], EventRetries)
  <2>1. StatusWritten
    BY <1>1, <1>4, EventStatusWritten DEF RequeueEvent, EventStates
  <2> QED
    BY <1>1, <1>3, <1>4, <2>1, FinishedStep DEF RequeueEvent
<1>5. CASE MayRetryEvent(tries[e], EventRetries)
  <2>1. /\ tries' = [tries EXCEPT ![e] = @ + 1] /\ events' = Append(events, e)
        /\ actor' = [actor EXCEPT ![a] = new] /\ UNCHANGED eventStatus
    BY <1>5 DEF RequeueEvent, Goto
  <2>2. new \in ActorType /\ new.pc = "requeued" /\ new.event = e
    BY <1>2 DEF ActorType, PCs
  <2>3. tries' \in [Events -> 0..EventRetries]
    BY <1>2, <1>5, <2>1, EventRetriesAssumption DEF IInv, ListInv, MayRetryEvent
  <2>4. /\ \A k \in DOMAIN events : events[k] # e
        /\ \A c \in Actors \ {a} : Holds(c) => actor[c].event # e
    BY <1>1 DEF IInv, ListInv, EventInOnePlace
  <2> HIDE DEF e, new
  <2>5. /\ actor' \in [Actors -> ActorType] /\ actor'[a] = new
        /\ \A c \in Actors \ {a} : actor'[c] = actor[c]
    BY <2>1, <2>2 DEF IInv, ListInv
  <2>6. /\ events' \in Seq(Events) /\ DOMAIN events' = DOMAIN events \cup {Len(events) + 1}
        /\ \A k \in DOMAIN events : events'[k] = events[k]
        /\ events'[Len(events) + 1] = e
    BY <1>2, <2>1, AppendFacts DEF IInv, ListInv
  <2>7. \A c \in Actors : Holds(c)' => Holds(c) /\ c # a /\ actor'[c] = actor[c]
    BY <2>2, <2>5 DEF Holds, Holding
  <2>8. EventInOnePlace'
    BY <2>4, <2>6, <2>7 DEF IInv, ListInv, EventInOnePlace
  <2>9. LiveEventIsUsed'
    BY <1>1, <1>2, <2>6, <2>7 DEF IInv, ListInv, LiveEventIsUsed
  <2>10. ActorHasEvents'
    BY <1>1, <1>2, <2>2, <2>5, <2>7 DEF IInv, ListInv, ActorHasEvents
  <2>11. ListInv'
    BY <1>1, <2>3, <2>5, <2>6, <2>8, <2>9, <2>10 DEF IInv, ListInv
  <2>12. StatusWritten
    BY <1>1, <2>1, NoStatusWritten
  <2>13. \A c \in Actors \ {a} : ActorLogged(c)'
    BY <1>1, <1>3, <2>5, ActorStaysLogged
  <2>14. ActorLogged(a)'
    BY <2>2, <2>5 DEF ActorLogged
  <2> QED
    BY <1>1, <1>3, <2>11, <2>12, <2>13, <2>14, TasksStayLogged, BodiesStayLogged, CountStep
    DEF IInv
<1> QED
  BY <1>4, <1>5

\* The attempt in the payload of the event that is being executed is counted
LEMMA AttemptCounted ==
  ASSUME IInv, NEW a \in Actors, NEW pc \in {"retried", "healing"}, actor[a].pc = "failing",
         BodyOf(a).attempt < MaxRetries, Goto(a, pc),
         body' = [body EXCEPT ![actor[a].event].attempt = @ + 1],
         tasks' \in Seq(CopyType), TasksLogged',
         UNCHANGED <<events, tries, taskStatus, eventStatus, rows, producer>>
  PROVE  IInv'
<1> DEFINE e   == actor[a].event
           b   == [body[e] EXCEPT !.attempt = @ + 1]
           new == [actor[a] EXCEPT !.pc = pc]
<1>1. /\ Holds(a) /\ e \in Events /\ body[e].kind = "task" /\ body[e].task \in Tasks
      /\ body[e].attempt \in 0..MaxRetries /\ body[e].attempt < rows[body[e].task]
      /\ rows[body[e].task] \in Nat /\ body[e] \in BodyType
  BY LoggedExecution, ExecutedTask DEF BodyOf, IInv, ListInv
<1>2. /\ b \in BodyType /\ b.kind = body[e].kind /\ b.task = body[e].task
      /\ b.attempt = body[e].attempt + 1
  BY <1>1, MaxRetriesAssumption DEF BodyType, BodyOf
<1>3. body' = [body EXCEPT ![e] = b]
  OBVIOUS
<1>4. /\ new \in ActorType /\ new.pc = pc /\ new.event = e
      /\ actor' = [actor EXCEPT ![a] = new]
  BY DEF IInv, ListInv, ActorType, PCs, Goto
<1> HIDE DEF e, b, new
<1>5. /\ body' \in [Events -> BodyType] /\ body'[e] = b
      /\ \A d \in Events \ {e} : body'[d] = body[d]
  BY <1>1, <1>2, <1>3 DEF IInv, ListInv
<1>6. /\ actor' \in [Actors -> ActorType] /\ actor'[a] = new
      /\ \A c \in Actors \ {a} : actor'[c] = actor[c]
  BY <1>4 DEF IInv, ListInv
<1>7. \A d \in Events : body'[d].kind = body[d].kind /\ body'[d].task = body[d].task
  BY <1>2, <1>5
<1>8. \A c \in Actors : Holds(c)' => Holds(c) /\ actor'[c].event = actor[c].event
  BY <1>1, <1>4, <1>6 DEF Holds, e
<1>9. \A c \in Actors : Holds(c) => actor[c].event \in Events
  BY DEF IInv, ListInv, ActorHasEvents
<1>10. EventInOnePlace'
  BY <1>8 DEF IInv, ListInv, EventInOnePlace
<1>11. LiveEventIsUsed'
  <2>1. LiveEventIsUsed /\ events' = events /\ \A k \in DOMAIN events : events[k] \in Events
    BY DEF IInv, ListInv
  <2>2. ASSUME NEW k \in DOMAIN events'
        PROVE  body'[events'[k]].kind # "unused"
    BY <1>7, <2>1, <2>2 DEF LiveEventIsUsed
  <2>3. ASSUME NEW c \in Actors, Holds(c)'
        PROVE  body'[actor'[c].event].kind # "unused"
    BY <1>7, <1>8, <1>9, <2>1, <2>3 DEF LiveEventIsUsed
  <2> QED
    BY <2>2, <2>3 DEF LiveEventIsUsed
<1>12. ActorHasEvents'
  <2>1. ASSUME NEW c \in Actors
        PROVE  /\ Holds(c)' \/ actor'[c].pc = "requeued" => actor'[c].event \in Events
               /\ actor'[c].pc \in {"pushed", "submitted"} => actor'[c].own \in Events
    BY <1>4, <1>6, <1>8, <1>9 DEF IInv, ListInv, ActorHasEvents
  <2>2. ASSUME NEW c \in Actors, actor'[c].pc \in {"work", "failing", "retried"}
        PROVE  body'[actor'[c].event].kind = "task"
    <3>1. Holds(c)' /\ Holds(c) /\ actor[c].event \in Events
      BY <1>8, <1>9, <2>2 DEF Holds, Holding
    <3>2. body[actor[c].event].kind = "task"
      BY <1>1, <1>6, <2>2 DEF IInv, ListInv, ActorHasEvents, e
    <3> QED
      BY <1>7, <1>8, <3>1, <3>2
  <2> QED
    BY <2>1, <2>2 DEF ActorHasEvents
<1>13. ListInv'
  BY <1>5, <1>6, <1>7, <1>10, <1>11, <1>12 DEF IInv, ListInv
<1>14. RowsGrow /\ StatusWritten
  BY NoRowsWritten, NoStatusWritten
<1>15. BodiesLogged'
  <2>1. b.attempt <= rows[b.task]
    BY <1>1, <1>2
  <2> QED
    BY <1>1, <1>5, <2>1 DEF IInv, CountInv, AttemptsLogged, BodiesLogged
<1>16. \A c \in Actors \ {a} : ActorLogged(c)'
  <2>1. \A c \in Actors \ {a} : Holds(c) => actor[c].event \in Events \ {e}
    BY <1>1, <1>9 DEF IInv, ListInv, EventInOnePlace, e
  <2> QED
    BY <1>5, <1>6, <1>14, <2>1, ActorStaysLogged
<1>17. ActorLogged(a)'
  BY <1>4, <1>6 DEF ActorLogged
<1> QED
  BY <1>13, <1>14, <1>15, <1>16, <1>17, CountStep DEF IInv

LEMMA RequeueTaskStep ==
  ASSUME IInv, NEW a \in Actors, RequeueTask(a)
  PROVE  IInv'
<1> DEFINE b == BodyOf(a)
<1>1. /\ Holds(a) /\ b.kind = "task" /\ b.task \in Tasks
      /\ b.attempt \in 0..MaxRetries /\ b.attempt < rows[b.task] /\ rows[b.task] \in Nat
  BY LoggedExecution, ExecutedTask DEF RequeueTask
<1>2. UNCHANGED <<events, tries, eventStatus, rows, producer>> /\ actor[a].pc = "failing"
  BY DEF RequeueTask
<1>3. CASE MayRetryTask(b.attempt, MaxRetries)
  <2>1. /\ body' = [body EXCEPT ![actor[a].event].attempt = @ + 1]
        /\ tasks' = Append(tasks, Copy(b.task, b.attempt + 1))
        /\ Goto(a, "retried") /\ UNCHANGED taskStatus
    BY <1>3 DEF RequeueTask
  <2>2. b.attempt < MaxRetries /\ b.attempt + 1 \in 0..MaxRetries /\ b.attempt + 1 <= rows[b.task]
    BY <1>1, <1>3, MaxRetriesAssumption DEF MayRetryTask
  <2> HIDE DEF b
  <2>3. tasks' \in Seq(CopyType) /\ TasksLogged'
    BY <1>1, <1>2, <2>1, <2>2, TaskPushed
  <2> QED
    BY <1>2, <2>1, <2>2, <2>3, AttemptCounted DEF b
<1>4. CASE ~MayRetryTask(b.attempt, MaxRetries)
  <2>1. /\ taskStatus' = [taskStatus EXCEPT ![b.task] = "failed"]
        /\ Goto(a, "healing") /\ UNCHANGED <<body, tasks>>
    BY <1>4 DEF RequeueTask
  <2>2. rows[b.task] > MaxRetries
    BY <1>1, <1>4, MaxRetriesAssumption DEF MayRetryTask
  <2>3. RowsGrow
    BY <1>2, NoRowsWritten
  <2> HIDE DEF b
  <2>4. StatusWritten
    BY <1>1, <1>2, <2>1, <2>2 DEF IInv, CountInv, StatusWritten, TaskStates
  <2> QED
    BY <1>1, <1>2, <2>1, <2>3, <2>4, GotoStep DEF Holding
<1> QED
  BY <1>3, <1>4

LEMMA RequeueTaskRaisesStep ==
  ASSUME IInv, NEW a \in Actors, RequeueTaskRaises(a)
  PROVE  IInv'
<1>1. /\ UNCHANGED <<tasks, events, tries, taskStatus, eventStatus, rows, producer>>
      /\ Goto(a, "healing") /\ Holds(a)
  BY DEF RequeueTaskRaises, status, Holds, Holding
<1>2. RowsGrow /\ StatusWritten
  BY <1>1, NoRowsWritten, NoStatusWritten
<1>3. CASE /\ actor[a].pc = "failing" /\ MayRetryTask(BodyOf(a).attempt, MaxRetries)
           /\ body' = [body EXCEPT ![actor[a].event].attempt = @ + 1]
  <2>1. tasks' \in Seq(CopyType) /\ TasksLogged'
    BY <1>1, <1>2, TasksStayLogged
  <2> QED
    BY <1>1, <1>3, <2>1, AttemptCounted DEF MayRetryTask
<1>4. CASE UNCHANGED body
  BY <1>1, <1>2, <1>4, GotoStep DEF Holding
<1> QED
  BY <1>3, <1>4 DEF RequeueTaskRaises

------------------------------------------------------------------------------
(* The invariant and what follows from it                                    *)

LEMMA NextPreservesInvariant == IInv /\ [Next]_vars => IInv'
<1> SUFFICES ASSUME IInv, [Next]_vars PROVE IInv'
  OBVIOUS
<1>1. CASE UNCHANGED vars
  <2>1. ListInv'
    BY <1>1 DEF vars, IInv, ListInv, EventInOnePlace, LiveEventIsUsed, ActorHasEvents, Holds
  <2>2. CountInv'
    BY <1>1 DEF vars, IInv, CountInv, AttemptsLogged, TasksLogged, BodiesLogged, ActorLogged,
                BodyOf, GivesUpAfterRetries
  <2> QED
    BY <2>1, <2>2 DEF IInv
<1>2. CASE Produce
  BY <1>2, EnqueueTaskStep, ReportQueuedStep, DispatchBusinessEventStep, SubmitCommandStep
  DEF Produce
<1>3. ASSUME NEW a \in Actors, EventStep(a) PROVE IInv'
  BY <1>3, ReportPushedStep, PopQueueStep, PopTimeoutStep, ExecuteCallStep, ExecuteRaisesStep,
     BeginTaskStep, TaskSucceedsStep, TaskFailsStep, RequeueTaskStep, ReportRetryingStep,
     RequeueEventStep, ReportRequeuedStep
  DEF EventStep
<1>4. ASSUME NEW w \in Workers, WorkerStep(w) PROVE IInv'
  BY <1>3, <1>4, DequeueTaskStep, HandleEventStep DEF WorkerStep, Actors
<1>5. ASSUME NEW c \in Callers, CallerStep(c) PROVE IInv'
  BY <1>3, <1>5, ReadQueuedResultStep DEF CallerStep, Actors
<1>6. CASE Fault
  BY <1>6, AbortStep, ReportRunningRaisesStep, RequeueTaskRaisesStep, ReportCompletedRaisesStep
  DEF Fault
<1> QED
  BY <1>1, <1>2, <1>4, <1>5, <1>6 DEF Next, NoFaultNext

LEMMA InvariantHolds == Spec => []IInv
BY InitEstablishesInvariant, NextPreservesInvariant, PTL DEF Spec

\* Every variable keeps its type: neither requeue_task nor requeue_event goes
\* beyond the limit of its list, however the two interleave
THEOREM TypeCorrect == Spec => []TypeOK
BY InvariantHolds, InvariantImpliesProperties, PTL

\* "failed" is reported for a task only after max_retries + 1 executions of it
\* have been logged
THEOREM GivesUp == Spec => []GivesUpAfterRetries
BY InvariantHolds, InvariantImpliesProperties, PTL

------------------------------------------------------------------------------
(* The list of events implements RetryQueue                                  *)

Held(e) == \E a \in Actors : Holds(a) /\ actor[a].event = e

\* A step of the queue, or one that moves no event
Refines == UNCHANGED <<Place, tries>> \/ EventQueue!RQNext

LEMMA EventPlacesSame ==
  ASSUME UNCHANGED <<events, tries>>,
         \A e \in Events : body'[e].kind = body[e].kind,
         \A e \in Events : Held(e)' = Held(e)
  PROVE  Refines
<1>1. \A e \in Events : InList(e)' = InList(e)
  BY DEF InList
<1> QED
  BY <1>1 DEF Refines, Place, Held, Holds

\* An actor lets go of its event, keeps it, or had none
LEMMA MoveRefines ==
  ASSUME IInv, NEW a \in Actors, NEW new, actor' = [actor EXCEPT ![a] = new],
         new.pc \in Holding => Holds(a) /\ new.event = actor[a].event,
         UNCHANGED <<events, tries>>, \A e \in Events : body'[e].kind = body[e].kind
  PROVE  Refines
<1>1. actor'[a] = new /\ \A b \in Actors \ {a} : actor'[b] = actor[b]
  BY DEF IInv, ListInv
<1>2. CASE Holds(a) /\ new.pc \notin Holding
  <2>1. PICK e \in Events : /\ e = actor[a].event /\ body[e].kind # "unused"
                            /\ ~InList(e) /\ Held(e)
    BY <1>2 DEF IInv, ListInv, ActorHasEvents, LiveEventIsUsed, EventInOnePlace, InList, Held
  <2>2. ~Held(e)'
    BY <1>1, <1>2, <2>1 DEF IInv, ListInv, EventInOnePlace, Held, Holds
  <2>3. \A d \in Events \ {e} : Held(d)' = Held(d)
    BY <1>1, <1>2, <2>1 DEF Held, Holds
  <2>4. \A d \in Events : InList(d)' = InList(d)
    BY DEF InList
  <2>5. EventQueue!Settle(e)
    BY <2>1, <2>2, <2>3, <2>4 DEF EventQueue!Settle, Place, Held, Holds
  <2> QED
    BY <2>1, <2>5 DEF Refines, EventQueue!RQNext
<1>3. CASE new.pc \in Holding \/ ~Holds(a)
  <2>1. \A b \in Actors : Holds(b)' = Holds(b) /\ (Holds(b) => actor'[b].event = actor[b].event)
    BY <1>1, <1>3 DEF Holds
  <2>2. \A e \in Events : Held(e)' = Held(e)
    BY <2>1 DEF Held
  <2> QED
    BY <2>2, EventPlacesSame
<1> QED
  BY <1>2, <1>3

LEMMA FinishedRefines ==
  ASSUME IInv, NEW a \in Actors, Finished(a), UNCHANGED <<events, body, tries>>
  PROVE  Refines
<1>1. actor' = [actor EXCEPT ![a] = At("reply", actor[a].own)] \/ actor' = [actor EXCEPT ![a] = Idle]
  BY DEF Finished
<1>2. At("reply", actor[a].own).pc \notin Holding /\ Idle.pc \notin Holding
  BY DEF At, Idle, Holding
<1> QED
  BY <1>1, <1>2, MoveRefines

LEMMA GotoRefines ==
  ASSUME IInv, NEW a \in Actors, NEW pc \in Holding, Holds(a), Goto(a, pc),
         UNCHANGED <<events, tries>>, \A e \in Events : body'[e].kind = body[e].kind
  PROVE  Refines
<1> DEFINE new == [actor[a] EXCEPT !.pc = pc]
<1>1. actor' = [actor EXCEPT ![a] = new] /\ actor[a] \in ActorType
  BY DEF Goto, IInv, ListInv
<1>2. new.event = actor[a].event
  BY <1>1 DEF ActorType
<1> HIDE DEF new
<1> QED
  BY <1>1, <1>2, MoveRefines

\* push_queue submits the event
LEMMA PushRefines ==
  ASSUME IInv, NEW a \in Actors, NEW e \in Events, NEW b, NEW new, ~Holds(a), new.pc \notin Holding,
         b.kind # "unused", PushQueue(e, b), actor' = [actor EXCEPT ![a] = new], UNCHANGED tries
  PROVE  Refines
<1>1. /\ body[e].kind = "unused" /\ body'[e] = b
      /\ \A d \in Events \ {e} : body'[d] = body[d]
  BY DEF IInv, ListInv, PushQueue, Unused
<1>2. /\ DOMAIN events' = DOMAIN events \cup {Len(events) + 1}
      /\ \A k \in DOMAIN events : events'[k] = events[k]
      /\ events'[Len(events) + 1] = e
  BY AppendFacts DEF IInv, ListInv, PushQueue
<1>3. InList(e)' /\ \A d \in Events \ {e} : InList(d)' = InList(d)
  BY <1>2 DEF InList
<1>4. actor'[a] = new /\ \A c \in Actors \ {a} : actor'[c] = actor[c]
  BY DEF IInv, ListInv
<1>5. \A d \in Events : Held(d)' = Held(d)
  BY <1>4 DEF Held, Holds
<1>6. EventQueue!Submit(e)
  <2>1. body[e].kind = "unused" /\ body'[e].kind # "unused" /\ tries' = tries
    BY <1>1
  <2>2. Place[e] = "unused"
    BY <2>1 DEF Place
  <2>3. Place' = [Place EXCEPT ![e] = "queued"]
    <3>1. Place'[e] = "queued"
      BY <1>3, <2>1 DEF Place
    <3>2. ASSUME NEW d \in Events \ {e}
          PROVE  Place'[d] = Place[d]
      BY <1>1, <1>3, <1>5 DEF Place, Held, Holds
    <3>3. /\ Place = [d \in Events |-> Place[d]]
          /\ Place' = [d \in Events |-> Place'[d]]
      BY DEF Place
    <3> QED
      BY <3>1, <3>2, <3>3
  <2> QED
    BY <2>1, <2>2, <2>3 DEF EventQueue!Submit
<1> QED
  BY <1>6 DEF Refines, EventQueue!RQNext

\* pop_queue takes the head of the list
LEMMA PopRefines ==
  ASSUME IInv, NEW a \in Actors, PopQueue(a)
  PROVE  Refines
<1> DEFINE new == [actor[a] EXCEPT !.pc = "exec", !.event = Head(events)]
<1>1. /\ ~Holds(a) /\ UNCHANGED <<body, tries>> /\ events # <<>> /\ events' = Tail(events)
      /\ events \in Seq(Events) /\ actor[a] \in ActorType
  BY DEF PopQueue, Holds, Holding, IInv, ListInv
<1>2. PICK h \in Events : /\ h = Head(events) /\ h = events[1]
                          /\ DOMAIN events = 1..Len(events) /\ Len(events) \in Nat \ {0}
                          /\ DOMAIN events' = 1..(Len(events) - 1)
                          /\ \A k \in DOMAIN events' : events'[k] = events[k + 1]
  BY <1>1
<1>3. new.pc = "exec" /\ new.event = h /\ actor' = [actor EXCEPT ![a] = new]
  BY <1>1, <1>2 DEF ActorType, PopQueue
<1> HIDE DEF new
<1>4. body[h].kind # "unused" /\ InList(h)
  BY <1>2 DEF IInv, ListInv, LiveEventIsUsed, InList
<1>5. ~InList(h)'
  <2>1. ASSUME NEW k \in DOMAIN events' PROVE events'[k] # h
    <3>1. k + 1 \in DOMAIN events /\ 1 \in DOMAIN events /\ k + 1 # 1 /\ events'[k] = events[k + 1]
      BY <1>2
    <3> QED
      BY <1>2, <3>1 DEF IInv, ListInv, EventInOnePlace
  <2> QED
    BY <2>1 DEF InList
<1>6. ASSUME NEW d \in Events \ {h} PROVE InList(d)' = InList(d)
  <2>1. ASSUME NEW k \in DOMAIN events, events[k] = d
        PROVE  k - 1 \in DOMAIN events' /\ events'[k - 1] = d
    BY <1>2, <2>1
  <2>2. ASSUME NEW k \in DOMAIN events', events'[k] = d
        PROVE  k + 1 \in DOMAIN events /\ events[k + 1] = d
    BY <1>2, <2>2
  <2> QED
    BY <2>1, <2>2 DEF InList
<1>7. actor'[a] = new /\ \A c \in Actors \ {a} : actor'[c] = actor[c]
  BY <1>3 DEF IInv, ListInv
<1>8. Held(h)' /\ \A d \in Events \ {h} : Held(d)' = Held(d)
  BY <1>1, <1>3, <1>7 DEF Held, Holds, Holding
<1>9. EventQueue!Take(h)
  <2>1. Place[h] = "queued"
    BY <1>4 DEF Place
  <2>2. Place' = [Place EXCEPT ![h] = "held"]
    BY <1>1, <1>4, <1>5, <1>6, <1>8 DEF Place, Held, Holds
  <2> QED
    BY <1>1, <2>1, <2>2 DEF EventQueue!Take
<1> QED
  BY <1>2, <1>9 DEF Refines, EventQueue!RQNext

\* requeue_event puts the actor's event back
LEMMA RequeueRefines ==
  ASSUME IInv, NEW a \in Actors, RequeueEvent(a)
  PROVE  Refines
<1> DEFINE new == [actor[a] EXCEPT !.pc = "requeued"]
<1>1. Holds(a) /\ UNCHANGED body /\ actor[a] \in ActorType
  BY DEF RequeueEvent, Holds, Holding, IInv, ListInv
<1>2. PICK e \in Events : e = actor[a].event /\ body[e].kind # "unused" /\ ~InList(e) /\ Held(e)
  BY <1>1 DEF IInv, ListInv, ActorHasEvents, LiveEventIsUsed, EventInOnePlace, InList, Held
<1>3. CASE ~MayRetryEvent(tries[e], EventRetries)
  BY <1>1, <1>2, <1>3, FinishedRefines DEF RequeueEvent
<1>4. CASE MayRetryEvent(tries[e], EventRetries)
  <2>1. /\ tries' = [tries EXCEPT ![e] = @ + 1] /\ events' = Append(events, e)
        /\ actor' = [actor EXCEPT ![a] = new] /\ tries[e] < EventRetries
    BY <1>2, <1>4 DEF RequeueEvent, Goto, MayRetryEvent
  <2>2. new.pc = "requeued"
    BY <1>1 DEF ActorType
  <2>3. ~Held(e)'
    BY <1>1, <1>2, <2>1, <2>2 DEF IInv, ListInv, EventInOnePlace, Held, Holds, Holding
  <2> HIDE DEF new
  <2>4. actor'[a] = new /\ \A c \in Actors \ {a} : actor'[c] = actor[c]
    BY <2>1 DEF IInv, ListInv
  <2>5. \A d \in Events \ {e} : Held(d)' = Held(d)
    BY <1>1, <1>2, <2>2, <2>4 DEF Held, Holds, Holding
  <2>6. /\ DOMAIN events' = DOMAIN events \cup {Len(events) + 1}
        /\ \A k \in DOMAIN events : events'[k] = events[k]
        /\ events'[Len(events) + 1] = e
    BY <1>2, <2>1, AppendFacts DEF IInv, ListInv
  <2>7. InList(e)' /\ \A d \in Events \ {e} : InList(d)' = InList(d)
    BY <2>6 DEF InList
  <2>8. EventQueue!PutBack(e)
    BY <1>1, <1>2, <2>1, <2>3, <2>5, <2>7 DEF EventQueue!PutBack, Place, Held, Holds
  <2> QED
    BY <1>2, <2>8 DEF Refines, EventQueue!RQNext
<1> QED
  BY <1>3, <1>4

\* The attempt of the payload is not part of the queue
LEMMA CountingRefines ==
  ASSUME IInv, NEW a \in Actors, RequeueTask(a) \/ RequeueTaskRaises(a)
  PROVE  Refines
<1>1. /\ Holds(a) /\ UNCHANGED <<events, tries>>
      /\ Goto(a, "retried") \/ Goto(a, "healing")
      /\ UNCHANGED body \/ body' = [body EXCEPT ![actor[a].event].attempt = @ + 1]
  BY DEF RequeueTask, RequeueTaskRaises, Holds, Holding
<1>2. ASSUME NEW e \in Events PROVE body'[e].kind = body[e].kind
  <2>1. body'[e] = body[e] \/ body'[e] = [body[e] EXCEPT !.attempt = @ + 1]
    BY <1>1 DEF IInv, ListInv
  <2>2. body[e] \in BodyType
    BY DEF IInv, ListInv
  <2> QED
    BY <2>1, <2>2 DEF BodyType
<1> QED
  BY <1>1, <1>2, GotoRefines DEF Holding

LEMMA ProduceRefines ==
  ASSUME IInv, Produce
  PROVE  Refines
<1>1. CASE \E t \in Tasks : EnqueueTask(t) \/ ReportQueued(t)
  <2>1. UNCHANGED <<events, tries, body, actor>>
    BY <1>1 DEF EnqueueTask, ReportQueued
  <2> QED
    BY <2>1, EventPlacesSame DEF Held, Holds
<1>2. ASSUME NEW c \in Callers, NEW e \in Events, DispatchBusinessEvent(c, e) \/ SubmitCommand(c, e)
      PROVE  Refines
  <2>1. c \in Actors /\ ~Holds(c) /\ UNCHANGED tries
    BY <1>2 DEF DispatchBusinessEvent, SubmitCommand, Actors, Holds, Holding
  <2>2. /\ At("pushed", e).pc \notin Holding /\ At("submitted", e).pc \notin Holding
        /\ At("pop", NoEvent).pc \notin Holding /\ Call.kind # "unused"
    BY DEF At, Holding, Call
  <2>3. CASE \E new \in {At("pushed", e), At("submitted", e)} :
               PushQueue(e, Call) /\ actor' = [actor EXCEPT ![c] = new]
    BY <2>1, <2>2, <2>3, PushRefines
  <2>4. CASE actor' = [actor EXCEPT ![c] = At("pop", NoEvent)] /\ UNCHANGED <<body, events>>
    BY <2>1, <2>2, <2>4, MoveRefines
  <2> QED
    BY <1>2, <2>3, <2>4 DEF DispatchBusinessEvent, SubmitCommand
<1> QED
  BY <1>1, <1>2 DEF Produce

LEMMA HandleEventRefines ==
  ASSUME IInv, NEW w \in Workers, NEW e \in Events, HandleEvent(w, e)
  PROVE  Refines
<1> DEFINE b == [kind |-> "task", task |-> actor[w].task, attempt |-> actor[w].attempt]
<1>1. w \in Actors /\ ~Holds(w) /\ UNCHANGED tries /\ b.kind # "unused"
  BY DEF HandleEvent, Actors, Holds, Holding
<1>2. At("pushed", e).pc \notin Holding /\ At("pop", NoEvent).pc \notin Holding
  BY DEF At, Holding
<1>3. \/ PushQueue(e, b) /\ actor' = [actor EXCEPT ![w] = At("pushed", e)]
      \/ UNCHANGED <<body, events>> /\ actor' = [actor EXCEPT ![w] = At("pop", NoEvent)]
  BY DEF HandleEvent
<1> HIDE DEF b
<1> QED
  BY <1>1, <1>2, <1>3, PushRefines, MoveRefines

LEMMA DequeueTaskRefines ==
  ASSUME IInv, NEW w \in Workers, DequeueTask(w)
  PROVE  Refines
<1> DEFINE new == [pc |-> "route", task |-> Head(tasks).task, attempt |-> Head(tasks).attempt,
                   event |-> NoEvent, own |-> NoEvent]
<1>1. /\ w \in Actors /\ actor' = [actor EXCEPT ![w] = new] /\ new.pc \notin Holding
      /\ UNCHANGED <<events, body, tries>>
  BY DEF DequeueTask, Actors, Holding
<1> HIDE DEF new
<1> QED
  BY <1>1, MoveRefines

LEMMA EventStepRefines ==
  ASSUME IInv, NEW a \in Actors, EventStep(a)
  PROVE  Refines
<1>1. CASE ReportPushed(a)
  <2>1. /\ UNCHANGED <<events, body, tries>>
        /\ \/ actor' = [actor EXCEPT ![a] = Idle]
           \/ actor' = [actor EXCEPT ![a] = At("pop", actor[a].own)]
           \/ actor' = [actor EXCEPT ![a] = At("pop", NoEvent)]
    BY <1>1 DEF ReportPushed
  <2>2. /\ Idle.pc \notin Holding /\ At("pop", NoEvent).pc \notin Holding
        /\ At("pop", actor[a].own).pc \notin Holding
    BY DEF Idle, At, Holding
  <2> QED
    BY <2>1, <2>2, MoveRefines
<1>2. CASE PopTimeout(a) \/ ExecuteCall(a) \/ TaskSucceeds(a) \/ ReportRequeued(a)
  <2>1. Finished(a) /\ UNCHANGED <<events, body, tries>>
    BY <1>2 DEF PopTimeout, ExecuteCall, TaskSucceeds, ReportRequeued, Complete
  <2> QED
    BY <2>1, FinishedRefines
<1>3. CASE ExecuteRaises(a) \/ BeginTask(a) \/ TaskFails(a) \/ ReportRetrying(a)
  <2>1. /\ Holds(a) /\ UNCHANGED <<events, body, tries>>
        /\ Goto(a, "work") \/ Goto(a, "failing") \/ Goto(a, "healing")
    BY <1>3 DEF ExecuteRaises, BeginTask, TaskFails, ReportRetrying, Holds, Holding
  <2> QED
    BY <2>1, GotoRefines DEF Holding
<1> QED
  BY <1>1, <1>2, <1>3, PopRefines, RequeueRefines, CountingRefines DEF EventStep

LEMMA FaultRefines ==
  ASSUME IInv, Fault
  PROVE  Refines
<1>1. ASSUME NEW a \in Actors, Abort(a) PROVE Refines
  <2>1. Idle.pc \notin Holding
    BY DEF Idle, At, Holding
  <2> QED
    BY <1>1, <2>1, MoveRefines DEF Abort
<1>2. ASSUME NEW a \in Actors, ReportRunningRaises(a) \/ ReportCompletedRaises(a) PROVE Refines
  BY <1>2, GotoRefines DEF ReportRunningRaises, ReportCompletedRaises, Holds, Holding
<1> QED
  BY <1>1, <1>2, CountingRefines DEF Fault

\* The list of events, popped by workers and API requests alike, implements the
\* abstract retrying queue: each step of either process is one of its steps or none
THEOREM EventRefinement == Spec => EventsImplementRetryQueue
<1>1. Init => EventQueue!RQInit
  <2> SUFFICES ASSUME Init PROVE EventQueue!RQInit
    OBVIOUS
  <2> QED
    BY DEF Init, EventQueue!RQInit, Place, Unused
<1>2. IInv /\ [Next]_vars => [EventQueue!RQNext]_(EventQueue!qvars)
  <2> SUFFICES ASSUME IInv, [Next]_vars PROVE Refines
    BY DEF EventQueue!qvars, Refines
  <2>1. CASE UNCHANGED vars
    BY <2>1, EventPlacesSame DEF vars, Held, Holds
  <2>2. ASSUME NEW c \in Callers, ReadQueuedResult(c) PROVE Refines
    <3>1. Idle.pc \notin Holding /\ c \in Actors
      BY DEF Idle, At, Holding, Actors
    <3> QED
      BY <2>2, <3>1, MoveRefines DEF ReadQueuedResult
  <2>3. ASSUME NEW c \in Callers, CallerStep(c) PROVE Refines
    BY <2>2, <2>3, EventStepRefines DEF CallerStep, Actors
  <2>4. ASSUME NEW w \in Workers, WorkerStep(w) PROVE Refines
    BY <2>4, EventStepRefines, DequeueTaskRefines, HandleEventRefines DEF WorkerStep, Actors
  <2> QED
    BY <2>1, <2>3, <2>4, ProduceRefines, FaultRefines DEF Next, NoFaultNext
<1> QED
  BY <1>1, <1>2, InvariantHolds, PTL DEF Spec, EventsImplementRetryQueue, EventQueue!RQSpec

------------------------------------------------------------------------------
(***************************************************************************)
(* The executions of a task are bounded by Cost[0][0].  The argument is a  *)
(* budget: the executions are numbered 1..Cost[0][0], and everything that  *)
(* may still cause some (the producer of the task, a copy in the list, an  *)
(* event in its list, an actor that holds either) has as many numbers in a *)
(* row to itself as Cost says.  A step uses a number up, hands numbers on, *)
(* or gives some back; the recursion of Cost is what lets a failed         *)
(* execution share its numbers between the copy and the event it requeues. *)
(***************************************************************************)

(* Cost                                                                      *)

\* Every set of numbers has a least one
LEMMA LeastNumber ==
  ASSUME NEW T, T \subseteq Nat, T # {}
  PROVE  \E x \in T : \A y \in T : ~(y < x)
<1>1. \E x \in T : \A y \in T : ~(<<y, x>> \in OpToRel(<, Nat))
  BY NatLessThanWellFounded, WFMin
<1> QED
  BY <1>1 DEF OpToRel

\* Induction over the numbers, for a set instead of a predicate
LEMMA NatSetInduction ==
  ASSUME NEW S, 0 \in S, \A n \in Nat : n \in S => n + 1 \in S
  PROVE  \A n \in Nat : n \in S
<1>1. SUFFICES ASSUME NEW k \in Nat, k \notin S PROVE FALSE
  OBVIOUS
<1>2. PICK x \in Nat \ S : \A y \in Nat \ S : ~(y < x)
  BY <1>1, LeastNumber
<1> QED
  BY <1>2

\* One row of Cost, given the next one
CostRow(n, next) ==
  [e \in 0..EventRetries |->
     IF n = MaxRetries THEN 1 + (EventRetries - e)
     ELSE 1 + next[0] + (IF e < EventRetries THEN next[e + 1] ELSE 0)]

Rows == [0..EventRetries -> Nat \ {0}]

\* A row of positive numbers has one before it
LEMMA CostRowType ==
  ASSUME NEW n \in 0..MaxRetries, NEW next, n = MaxRetries \/ next \in Rows
  PROVE  CostRow(n, next) \in Rows
<1>1. /\ 0 \in 0..EventRetries
      /\ \A e \in 0..EventRetries : e < EventRetries => e + 1 \in 0..EventRetries
  BY EventRetriesAssumption
<1>2. CASE n = MaxRetries
  BY <1>2, EventRetriesAssumption DEF CostRow, Rows
<1>3. CASE n # MaxRetries
  <2>1. next \in Rows
    BY <1>3
  <2>2. \A e \in 0..EventRetries :
          1 + next[0] + (IF e < EventRetries THEN next[e + 1] ELSE 0) \in Nat \ {0}
    BY <1>1, <2>1 DEF Rows
  <2> QED
    BY <1>3, <2>2 DEF CostRow, Rows
<1> QED
  BY <1>2, <1>3

IsCost(f) == f = [n \in 0..MaxRetries |-> CostRow(n, f[n + 1])]

LEMMA CostChosen == Cost = CHOOSE f : IsCost(f)
BY DEF Cost, IsCost, CostRow

\* The last k + 1 rows are given by the recursion
Suffix(k, f) ==
  /\ f \in [(MaxRetries - k)..MaxRetries -> Rows]
  /\ \A n \in (MaxRetries - k)..MaxRetries : f[n] = CostRow(n, f[n + 1])

\* The recursion has a solution, found from the last row backwards
LEMMA SuffixesExist == \A k \in Nat : k <= MaxRetries => \E f : Suffix(k, f)
<1> DEFINE S == {k \in Nat : k <= MaxRetries => \E f : Suffix(k, f)}
<1>1. 0 \in S
  <2> DEFINE f == [n \in (MaxRetries - 0)..MaxRetries |-> CostRow(n, 0)]
  <2>1. (MaxRetries - 0)..MaxRetries = {MaxRetries} /\ MaxRetries \in 0..MaxRetries
    BY MaxRetriesAssumption
  <2>2. \A x : CostRow(MaxRetries, x) = CostRow(MaxRetries, 0)
    BY DEF CostRow
  <2>3. CostRow(MaxRetries, 0) \in Rows
    BY <2>1, CostRowType
  <2>4. Suffix(0, f)
    BY <2>1, <2>2, <2>3 DEF Suffix
  <2> QED
    BY <2>4
<1>2. ASSUME NEW k \in Nat, k \in S
      PROVE  k + 1 \in S
  <2>1. SUFFICES ASSUME k + 1 <= MaxRetries PROVE \E f : Suffix(k + 1, f)
    OBVIOUS
  <2>2. PICK f : Suffix(k, f)
    BY <1>2, <2>1, MaxRetriesAssumption
  <2> DEFINE m == MaxRetries - (k + 1)
             g == [n \in m..MaxRetries |-> IF n = m THEN CostRow(m, f[m + 1]) ELSE f[n]]
  <2>3. /\ m \in 0..MaxRetries /\ m # MaxRetries /\ MaxRetries - k = m + 1
        /\ m + 1 \in (m + 1)..MaxRetries /\ m \in m..MaxRetries
        /\ \A n \in m..MaxRetries : n # m => n \in (m + 1)..MaxRetries
        /\ \A n \in (m + 1)..MaxRetries : n \in m..MaxRetries /\ n # m
    BY <2>1, MaxRetriesAssumption
  <2>4. f[m + 1] \in Rows
    BY <2>2, <2>3 DEF Suffix
  <2>5. CostRow(m, f[m + 1]) \in Rows
    BY <2>3, <2>4, CostRowType
  <2>6. g[m] = CostRow(m, f[m + 1]) /\ \A n \in (m + 1)..MaxRetries : g[n] = f[n]
    BY <2>3
  <2>7. ASSUME NEW n \in m..MaxRetries
        PROVE  g[n] \in Rows /\ g[n] = CostRow(n, g[n + 1])
    <3>1. CASE n = m
      <4>1. g[m + 1] = f[m + 1]
        BY <2>3, <2>6
      <4> QED
        BY <2>5, <2>6, <3>1, <4>1
    <3>2. CASE n # m
      <4>1. n \in (m + 1)..MaxRetries /\ g[n] = f[n]
        BY <2>3, <2>6, <3>2
      <4>2. f[n] \in Rows /\ f[n] = CostRow(n, f[n + 1])
        BY <2>2, <2>3, <4>1 DEF Suffix
      <4>3. CASE n = MaxRetries
        BY <4>1, <4>2, <4>3 DEF CostRow
      <4>4. CASE n # MaxRetries
        <5>1. n + 1 \in (m + 1)..MaxRetries
          BY <2>3, <4>1, <4>4, MaxRetriesAssumption
        <5> QED
          BY <2>6, <4>1, <4>2, <5>1
      <4> QED
        BY <4>3, <4>4
    <3> QED
      BY <3>1, <3>2
  <2>8. g \in [m..MaxRetries -> Rows]
    BY <2>7
  <2> HIDE DEF g
  <2>9. Suffix(k + 1, g)
    BY <2>7, <2>8 DEF Suffix
  <2> QED
    BY <2>9
<1> HIDE DEF S
<1>3. \A k \in Nat : k \in S
  BY <1>1, <1>2, NatSetInduction
<1> QED
  BY <1>3 DEF S

\* The recursion defines Cost
LEMMA CostRows ==
  \A n \in 0..MaxRetries : Cost[n] \in Rows /\ Cost[n] = CostRow(n, Cost[n + 1])
<1>1. PICK f : Suffix(MaxRetries, f)
  BY SuffixesExist, MaxRetriesAssumption
<1>2. (MaxRetries - MaxRetries)..MaxRetries = 0..MaxRetries
  BY MaxRetriesAssumption
<1>3. f \in [0..MaxRetries -> Rows] /\ \A n \in 0..MaxRetries : f[n] = CostRow(n, f[n + 1])
  BY <1>1, <1>2 DEF Suffix
<1>4. IsCost(f)
  BY <1>3 DEF IsCost
<1>5. IsCost(Cost)
  BY <1>4, CostChosen
<1> DEFINE Good == {k \in Nat : k <= MaxRetries => Cost[MaxRetries - k] \in Rows}
<1>6. \A n \in 0..MaxRetries : Cost[n] = CostRow(n, Cost[n + 1])
  BY <1>5 DEF IsCost
<1>7. 0 \in Good
  BY <1>6, CostRowType, MaxRetriesAssumption
<1>8. ASSUME NEW k \in Nat, k \in Good
      PROVE  k + 1 \in Good
  <2>1. SUFFICES ASSUME k + 1 <= MaxRetries PROVE Cost[MaxRetries - (k + 1)] \in Rows
    OBVIOUS
  <2>2. MaxRetries - (k + 1) \in 0..MaxRetries /\ (MaxRetries - (k + 1)) + 1 = MaxRetries - k
    BY <2>1, MaxRetriesAssumption
  <2>3. Cost[MaxRetries - k] \in Rows
    BY <1>8, <2>1, MaxRetriesAssumption
  <2> QED
    BY <1>6, <2>2, <2>3, CostRowType
<1> HIDE DEF Good
<1>9. \A k \in Nat : k \in Good
  BY <1>7, <1>8, NatSetInduction
<1>10. ASSUME NEW n \in 0..MaxRetries
       PROVE  Cost[n] \in Rows
  <2>1. MaxRetries - n \in Nat /\ MaxRetries - n <= MaxRetries /\ MaxRetries - (MaxRetries - n) = n
    BY MaxRetriesAssumption
  <2>2. MaxRetries - n \in Good
    BY <1>9, <2>1
  <2> QED
    BY <2>1, <2>2 DEF Good
<1> QED
  BY <1>6, <1>10

\* What a delivery that is over has left of the cost of its event
Rest(n, e) == IF e < EventRetries THEN Cost[n][e + 1] ELSE 0

LEMMA CostFacts ==
  ASSUME NEW n \in 0..MaxRetries, NEW e \in 0..EventRetries
  PROVE  /\ Cost[n][e] \in Nat \ {0} /\ Rest(n, e) \in Nat
         /\ n < MaxRetries => /\ n + 1 \in 0..MaxRetries
                              /\ Cost[n + 1][0] \in Nat /\ Rest(n + 1, e) \in Nat
                              /\ Cost[n][e] = 1 + Cost[n + 1][0] + Rest(n + 1, e)
         /\ ~(n < MaxRetries) => Cost[n][e] = 1 + (EventRetries - e)
<1>1. Cost[n] \in Rows /\ Cost[n] = CostRow(n, Cost[n + 1])
  BY CostRows
<1>2. Cost[n][e] = IF n = MaxRetries THEN 1 + (EventRetries - e)
                   ELSE 1 + Cost[n + 1][0] + Rest(n + 1, e)
  BY <1>1 DEF CostRow, Rest
<1>3. 0 \in 0..EventRetries /\ (e < EventRetries => e + 1 \in 0..EventRetries)
  BY EventRetriesAssumption
<1>4. n < MaxRetries => n # MaxRetries /\ n + 1 \in 0..MaxRetries
  BY MaxRetriesAssumption
<1>5. ~(n < MaxRetries) => n = MaxRetries
  BY MaxRetriesAssumption
<1>6. n < MaxRetries => Cost[n + 1] \in Rows
  BY <1>4, CostRows
<1>7. Cost[n][e] \in Nat \ {0} /\ Rest(n, e) \in Nat
  BY <1>1, <1>3 DEF Rows, Rest
<1>8. n < MaxRetries => Cost[n + 1][0] \in Nat /\ Rest(n + 1, e) \in Nat
  BY <1>3, <1>6 DEF Rows, Rest
<1> QED
  BY <1>2, <1>4, <1>5, <1>7, <1>8

\* A delivery that is over has used one execution at least
LEMMA DeliveriesShrink ==
  \A n \in 0..MaxRetries : \A e \in 0..EventRetries : Rest(n, e) + 1 <= Cost[n][e]
<1> DEFINE P(n) == \A e \in 0..EventRetries : Rest(n, e) + 1 <= Cost[n][e]
           Good == {k \in Nat : k <= MaxRetries => P(MaxRetries - k)}
<1>1. 0 \in Good
  <2>1. MaxRetries \in 0..MaxRetries /\ ~(MaxRetries < MaxRetries) /\ MaxRetries - 0 = MaxRetries
    BY MaxRetriesAssumption
  <2>2. \A e \in 0..EventRetries : Cost[MaxRetries][e] = 1 + (EventRetries - e)
    BY <2>1, CostFacts
  <2>3. \A e \in 0..EventRetries : Rest(MaxRetries, e) + 1 <= Cost[MaxRetries][e]
    BY <2>2, EventRetriesAssumption DEF Rest
  <2> QED
    BY <2>1, <2>3
<1>2. ASSUME NEW k \in Nat, k \in Good
      PROVE  k + 1 \in Good
  <2>1. SUFFICES ASSUME k + 1 <= MaxRetries PROVE P(MaxRetries - (k + 1))
    OBVIOUS
  <2> DEFINE m == MaxRetries - (k + 1)
  <2>2. m \in 0..MaxRetries /\ m < MaxRetries /\ m + 1 = MaxRetries - k
    BY <2>1, MaxRetriesAssumption
  <2>3. P(m + 1)
    BY <1>2, <2>1, <2>2, MaxRetriesAssumption
  <2> HIDE DEF m
  <2>4. ASSUME NEW e \in 0..EventRetries
        PROVE  Rest(m, e) + 1 <= Cost[m][e]
    <3>1. /\ Cost[m][e] = 1 + Cost[m + 1][0] + Rest(m + 1, e)
          /\ Cost[m + 1][0] \in Nat /\ Rest(m + 1, e) \in Nat /\ m + 1 \in 0..MaxRetries
      BY <2>2, CostFacts
    <3>2. CASE ~(e < EventRetries)
      BY <3>1, <3>2 DEF Rest
    <3>3. CASE e < EventRetries
      <4>1. /\ e + 1 \in 0..EventRetries /\ Rest(m, e) = Cost[m][e + 1]
            /\ Rest(m + 1, e) = Cost[m + 1][e + 1]
        BY <3>3, EventRetriesAssumption DEF Rest
      <4>2. Cost[m][e + 1] = 1 + Cost[m + 1][0] + Rest(m + 1, e + 1)
        BY <2>2, <4>1, CostFacts
      <4>3. /\ Rest(m + 1, e + 1) + 1 <= Cost[m + 1][e + 1]
            /\ Rest(m + 1, e + 1) \in Nat /\ Cost[m + 1][e + 1] \in Nat
        BY <2>3, <3>1, <4>1, CostFacts
      <4> QED
        BY <3>1, <4>1, <4>2, <4>3
    <3> QED
      BY <3>2, <3>3
  <2> QED
    BY <2>4 DEF m
<1> HIDE DEF Good, P
<1>3. \A k \in Nat : k \in Good
  BY <1>1, <1>2, NatSetInduction
<1>4. ASSUME NEW n \in 0..MaxRetries
      PROVE  P(n)
  <2>1. MaxRetries - n \in Nat /\ MaxRetries - n <= MaxRetries /\ MaxRetries - (MaxRetries - n) = n
    BY MaxRetriesAssumption
  <2> QED
    BY <1>3, <2>1 DEF Good
<1> QED
  BY <1>4 DEF P

------------------------------------------------------------------------------
(* Budgets                                                                   *)

\* lo[l] is the first of the W[l] numbers of l, and n numbers are used up
(* Executions are numbered 1..B.  A carrier of a task (a copy, an event, a  *)
(* worker) that may still cause W[l] of them has that many numbers in a row *)
(* to itself, from lo[l] on; n numbers are used up.                        *)
(***************************************************************************)
Apart(L, W, lo) ==
  \A k, l \in L : k # l /\ W[k] > 0 /\ W[l] > 0 =>
    lo[k] + W[k] <= lo[l] \/ lo[l] + W[l] <= lo[k]

Within(L, B, W, lo) == \A l \in L : W[l] > 0 => lo[l] >= 1 /\ lo[l] + W[l] <= B + 1

Unspent(L, W, lo, used) ==
  \A l \in L : \A u \in used : W[l] > 0 => u < lo[l] \/ lo[l] + W[l] <= u

Allotted(L, B, n, W, lo, used) ==
  /\ lo \in [L -> Nat] /\ used \subseteq 1..B /\ Cardinality(used) = n
  /\ Apart(L, W, lo) /\ Within(L, B, W, lo) /\ Unspent(L, W, lo, used)

Budget(L, B, n, W) == \E lo, used : Allotted(L, B, n, W, lo, used)

\* No more numbers are used up than there are
LEMMA BudgetBounds ==
  ASSUME NEW L, NEW B \in Nat, NEW n, NEW W, Budget(L, B, n, W)
  PROVE  n \in Nat /\ n <= B
<1>1. PICK used : used \subseteq 1..B /\ Cardinality(used) = n
  BY DEF Budget, Allotted
<1>2. IsFiniteSet(1..B) /\ Cardinality(1..B) = B
  BY FS_Interval
<1>3. IsFiniteSet(used) /\ Cardinality(used) <= Cardinality(1..B)
  BY <1>1, <1>2, FS_Subset
<1>4. Cardinality(used) \in Nat
  BY <1>3, FS_CardinalityType
<1> QED
  BY <1>1, <1>2, <1>3, <1>4

\* At first one carrier has all of them
LEMMA BudgetStart ==
  ASSUME NEW L, NEW B \in Nat, NEW W \in [L -> Nat], NEW k \in L, W[k] <= B,
         \A l \in L \ {k} : W[l] = 0
  PROVE  Budget(L, B, 0, W)
<1> DEFINE lo == [l \in L |-> 1]
<1>1. lo \in [L -> Nat] /\ {} \subseteq 1..B /\ Cardinality({}) = 0
  BY FS_EmptySet
<1>2. Apart(L, W, lo)
  BY DEF Apart
<1>3. Within(L, B, W, lo)
  BY DEF Within
<1>4. Unspent(L, W, lo, {})
  BY DEF Unspent
<1> HIDE DEF lo
<1>5. Allotted(L, B, 0, W, lo, {})
  BY <1>1, <1>2, <1>3, <1>4 DEF Allotted
<1> QED
  BY <1>5 DEF Budget

\* Everybody may give numbers back
LEMMA BudgetShrinks ==
  ASSUME NEW L, NEW B \in Nat, NEW n, NEW W \in [L -> Nat], NEW V \in [L -> Nat],
         Budget(L, B, n, W), \A l \in L : V[l] <= W[l]
  PROVE  Budget(L, B, n, V)
<1>1. PICK lo, used : Allotted(L, B, n, W, lo, used)
  BY DEF Budget
<1>2. lo \in [L -> Nat] /\ used \subseteq 1..B /\ Cardinality(used) = n
  BY <1>1 DEF Allotted
<1>3. Apart(L, V, lo)
  BY <1>1, <1>2 DEF Allotted, Apart
<1>4. Within(L, B, V, lo)
  BY <1>1, <1>2 DEF Allotted, Within
<1>5. Unspent(L, V, lo, used)
  BY <1>1, <1>2 DEF Allotted, Unspent
<1>6. Allotted(L, B, n, V, lo, used)
  BY <1>2, <1>3, <1>4, <1>5 DEF Allotted
<1> QED
  BY <1>6 DEF Budget

\* k keeps the first of its numbers and gives the others, or some of them, to m
LEMMA BudgetPassed ==
  ASSUME NEW L, NEW B \in Nat, NEW n, NEW W \in [L -> Nat], NEW V \in [L -> Nat],
         Budget(L, B, n, W), NEW k \in L, NEW m \in L, k # m, W[m] = 0, V[k] + V[m] <= W[k],
         \A l \in L \ {k, m} : V[l] <= W[l]
  PROVE  Budget(L, B, n, V)
<1>1. PICK lo, used : Allotted(L, B, n, W, lo, used)
  BY DEF Budget
<1>2. lo \in [L -> Nat] /\ used \subseteq 1..B /\ Cardinality(used) = n
  BY <1>1 DEF Allotted
<1> DEFINE new == [lo EXCEPT ![m] = lo[k] + V[k]]
<1>3. new \in [L -> Nat] /\ new[m] = lo[k] + V[k] /\ \A l \in L \ {m} : new[l] = lo[l]
  BY <1>2
<1> HIDE DEF new
<1>4. Apart(L, V, new)
  <2>1. ASSUME NEW l \in L \ {k, m}, NEW j \in L \ {m}, j # l, V[l] > 0, V[j] > 0
        PROVE  lo[l] + V[l] <= lo[j] \/ lo[j] + V[j] <= lo[l]
    <3>1. V[j] <= W[j] /\ V[l] <= W[l]
      BY <2>1
    <3> QED
      BY <1>1, <1>2, <2>1, <3>1 DEF Allotted, Apart
  <2>2. ASSUME NEW l \in L \ {k, m}, V[l] > 0, V[m] > 0
        PROVE  lo[l] + V[l] <= new[m] \/ new[m] + V[m] <= lo[l]
    <3>1. W[k] > 0 /\ W[l] > 0 /\ V[l] <= W[l]
      BY <2>2
    <3>2. lo[l] + W[l] <= lo[k] \/ lo[k] + W[k] <= lo[l]
      BY <1>1, <3>1 DEF Allotted, Apart
    <3> QED
      BY <1>2, <1>3, <3>1, <3>2
  <2>3. lo[k] + V[k] <= new[m]
    BY <1>2, <1>3
  <2> QED
    BY <1>3, <2>1, <2>2, <2>3 DEF Apart
<1>5. Within(L, B, V, new)
  <2>1. ASSUME NEW l \in L, V[l] > 0
        PROVE  new[l] >= 1 /\ new[l] + V[l] <= B + 1
    <3>1. CASE l = m
      <4>1. W[k] > 0
        BY <2>1, <3>1
      <4>2. lo[k] >= 1 /\ lo[k] + W[k] <= B + 1
        BY <1>1, <4>1 DEF Allotted, Within
      <4> QED
        BY <1>2, <1>3, <3>1, <4>2
    <3>2. CASE l # m
      <4>1. V[l] <= W[l]
        BY <3>2
      <4>2. lo[l] >= 1 /\ lo[l] + W[l] <= B + 1
        BY <1>1, <2>1, <4>1 DEF Allotted, Within
      <4> QED
        BY <1>2, <1>3, <3>2, <4>1, <4>2
    <3> QED
      BY <3>1, <3>2
  <2> QED
    BY <2>1 DEF Within
<1>6. Unspent(L, V, new, used)
  <2>1. ASSUME NEW l \in L, NEW u \in used, V[l] > 0
        PROVE  u < new[l] \/ new[l] + V[l] <= u
    <3>1. CASE l = m
      <4>1. W[k] > 0
        BY <2>1, <3>1
      <4>2. u < lo[k] \/ lo[k] + W[k] <= u
        BY <1>1, <4>1 DEF Allotted, Unspent
      <4> QED
        BY <1>2, <1>3, <3>1, <4>2
    <3>2. CASE l # m
      <4>1. V[l] <= W[l]
        BY <3>2
      <4>2. u < lo[l] \/ lo[l] + W[l] <= u
        BY <1>1, <2>1, <4>1 DEF Allotted, Unspent
      <4> QED
        BY <1>2, <1>3, <3>2, <4>1, <4>2
    <3> QED
      BY <3>1, <3>2
  <2> QED
    BY <2>1 DEF Unspent
<1>7. Allotted(L, B, n, V, new, used)
  BY <1>2, <1>3, <1>4, <1>5, <1>6 DEF Allotted
<1> QED
  BY <1>7 DEF Budget

\* k uses a number up
LEMMA BudgetSpent ==
  ASSUME NEW L, NEW B \in Nat, NEW n, NEW W \in [L -> Nat], NEW V \in [L -> Nat],
         Budget(L, B, n, W), NEW k \in L, V[k] + 1 <= W[k],
         \A l \in L \ {k} : V[l] <= W[l]
  PROVE  Budget(L, B, n + 1, V)
<1>1. PICK lo, used : Allotted(L, B, n, W, lo, used)
  BY DEF Budget
<1>2. lo \in [L -> Nat] /\ used \subseteq 1..B /\ Cardinality(used) = n
  BY <1>1 DEF Allotted
<1> DEFINE u == lo[k] + V[k]
           new == used \cup {u}
<1>3. W[k] > 0
  OBVIOUS
<1>4. u \in 1..B
  BY <1>1, <1>2, <1>3 DEF Allotted, Within
<1>5. u \notin used
  BY <1>1, <1>2, <1>3 DEF Allotted, Unspent
<1>6. new \subseteq 1..B /\ Cardinality(new) = n + 1
  <2>1. IsFiniteSet(used)
    <3>1. IsFiniteSet(1..B)
      BY FS_Interval
    <3> QED
      BY <1>2, <3>1, FS_Subset
  <2> QED
    BY <1>2, <1>4, <1>5, <2>1, FS_AddElement
<1>7. \A l \in L : V[l] <= W[l]
  OBVIOUS
<1>8. Apart(L, V, lo)
  BY <1>1, <1>2, <1>7 DEF Allotted, Apart
<1>9. Within(L, B, V, lo)
  BY <1>1, <1>2, <1>7 DEF Allotted, Within
<1>10. Unspent(L, V, lo, new)
  <2>1. ASSUME NEW l \in L, V[l] > 0
        PROVE  u < lo[l] \/ lo[l] + V[l] <= u
    <3>1. CASE l = k
      BY <1>2, <3>1
    <3>2. CASE l # k
      <4>1. W[l] > 0 /\ V[l] <= W[l]
        BY <1>7, <2>1
      <4>2. lo[l] + W[l] <= lo[k] \/ lo[k] + W[k] <= lo[l]
        BY <1>1, <1>3, <3>2, <4>1 DEF Allotted, Apart
      <4> QED
        BY <1>2, <4>1, <4>2
    <3> QED
      BY <3>1, <3>2
  <2>2. ASSUME NEW l \in L, NEW x \in used, V[l] > 0
        PROVE  x < lo[l] \/ lo[l] + V[l] <= x
    BY <1>1, <1>2, <1>7, <2>2 DEF Allotted, Unspent
  <2> QED
    BY <2>1, <2>2 DEF Unspent
<1> HIDE DEF u, new
<1>11. Allotted(L, B, n + 1, V, lo, new)
  BY <1>2, <1>6, <1>8, <1>9, <1>10 DEF Allotted
<1> QED
  BY <1>11 DEF Budget

------------------------------------------------------------------------------
(* The carriers of a task and what they may still cause                      *)

\* Who may still cause executions of a task: its producer, a copy in the list
\* (numbered from the first one ever pushed), an event in its list, an actor
NewAt      == <<"new", 0>>
CopyAt(j)  == <<"copy", j>>
EventAt(e) == <<"event", e>>
ActorAt(a) == <<"actor", a>>

Carriers == {NewAt} \cup {CopyAt(j) : j \in Nat} \cup {EventAt(e) : e \in Events}
                    \cup {ActorAt(a) : a \in Actors}

\* No carrier is counted as two
LEMMA CarriersDiffer ==
  /\ NewAt \in Carriers
  /\ \A j \in Nat : CopyAt(j) \in Carriers /\ CopyAt(j) # NewAt
  /\ \A e \in Events : EventAt(e) \in Carriers /\ EventAt(e) # NewAt
  /\ \A a \in Actors : ActorAt(a) \in Carriers /\ ActorAt(a) # NewAt
  /\ \A i, j \in Nat : CopyAt(i) = CopyAt(j) => i = j
  /\ \A d, e \in Events : EventAt(d) = EventAt(e) => d = e
  /\ \A a, b \in Actors : ActorAt(a) = ActorAt(b) => a = b
  /\ \A j \in Nat, e \in Events : CopyAt(j) # EventAt(e)
  /\ \A j \in Nat, a \in Actors : CopyAt(j) # ActorAt(a)
  /\ \A e \in Events, a \in Actors : EventAt(e) # ActorAt(a)
<1>1. /\ NewAt \in Carriers /\ \A j \in Nat : CopyAt(j) \in Carriers
      /\ \A e \in Events : EventAt(e) \in Carriers
      /\ \A a \in Actors : ActorAt(a) \in Carriers
  BY DEF Carriers
<1>2. /\ NewAt[1] = "new" /\ \A j : CopyAt(j)[1] = "copy" /\ CopyAt(j)[2] = j
      /\ \A e : EventAt(e)[1] = "event" /\ EventAt(e)[2] = e
      /\ \A a : ActorAt(a)[1] = "actor" /\ ActorAt(a)[2] = a
  BY DEF NewAt, CopyAt, EventAt, ActorAt
<1>3. "new" # "copy" /\ "new" # "event" /\ "new" # "actor" /\ "copy" # "event"
      /\ "copy" # "actor" /\ "event" # "actor"
  OBVIOUS
<1>4. /\ \A j : CopyAt(j) # NewAt
      /\ \A e : EventAt(e) # NewAt
      /\ \A a : ActorAt(a) # NewAt
  BY <1>2, <1>3
<1>5. /\ \A i, j : CopyAt(i) = CopyAt(j) => i = j
      /\ \A d, e : EventAt(d) = EventAt(e) => d = e
      /\ \A a, b : ActorAt(a) = ActorAt(b) => a = b
  BY <1>2
<1>6. /\ \A j, e : CopyAt(j) # EventAt(e)
      /\ \A j, a : CopyAt(j) # ActorAt(a)
      /\ \A e, a : EventAt(e) # ActorAt(a)
  BY <1>2, <1>3
<1> QED
  BY <1>1, <1>4, <1>5, <1>6

LEMMA CarrierCases ==
  ASSUME NEW l \in Carriers
  PROVE  \/ l = NewAt
         \/ \E j \in Nat : l = CopyAt(j)
         \/ \E e \in Events : l = EventAt(e)
         \/ \E a \in Actors : l = ActorAt(a)
BY DEF Carriers

Carries(e, t) == body[e].kind = "task" /\ body[e].task = t

\* What an event that an actor holds can still cause
HeldCost(pc, n, e) == IF pc = "exec" THEN Cost[n][e]
                      ELSE IF pc \in {"work", "failing"} THEN Cost[n][e] - 1
                      ELSE Rest(n, e)

NewWeight(t) == IF producer[t] = "new" THEN Cost[0][0] ELSE 0

\* d copies have left the list
CopyWeight(t, d, j) == IF d < j /\ j - d \in DOMAIN tasks /\ tasks[j - d].task = t
                       THEN Cost[tasks[j - d].attempt][0] ELSE 0

EventWeight(t, e) == IF InList(e) /\ Carries(e, t) THEN Cost[body[e].attempt][tries[e]] ELSE 0

ActorWeight(t, a) ==
  IF actor[a].pc = "route" /\ actor[a].task = t THEN Cost[actor[a].attempt][0]
  ELSE IF Holds(a) /\ Carries(actor[a].event, t)
       THEN HeldCost(actor[a].pc, BodyOf(a).attempt, tries[actor[a].event])
       ELSE 0

Weight(t, d, l) ==
  IF l = NewAt THEN NewWeight(t)
  ELSE IF l[1] = "copy" THEN CopyWeight(t, d, l[2])
  ELSE IF l[1] = "event" THEN EventWeight(t, l[2])
  ELSE ActorWeight(t, l[2])

Weights(t, d) == [l \in Carriers |-> Weight(t, d, l)]

\* What Weights says of each kind of carrier, before and after a step
LEMMA WeightAt ==
  ASSUME NEW t, NEW d
  PROVE  /\ Weights(t, d)[NewAt] = NewWeight(t)
         /\ \A j \in Nat : Weights(t, d)[CopyAt(j)] = CopyWeight(t, d, j)
         /\ \A e \in Events : Weights(t, d)[EventAt(e)] = EventWeight(t, e)
         /\ \A a \in Actors : Weights(t, d)[ActorAt(a)] = ActorWeight(t, a)
         /\ Weights(t, d)'[NewAt] = NewWeight(t)'
         /\ \A j \in Nat : Weights(t, d)'[CopyAt(j)] = CopyWeight(t, d, j)'
         /\ \A e \in Events : Weights(t, d)'[EventAt(e)] = EventWeight(t, e)'
         /\ \A a \in Actors : Weights(t, d)'[ActorAt(a)] = ActorWeight(t, a)'
<1>1. \A l \in Carriers : /\ Weights(t, d)[l] = Weight(t, d, l)
                          /\ Weights(t, d)'[l] = Weight(t, d, l)'
  BY DEF Weights
<1>2. Weight(t, d, NewAt) = NewWeight(t) /\ Weight(t, d, NewAt)' = NewWeight(t)'
  BY DEF Weight
<1>3. ASSUME NEW j \in Nat
      PROVE  /\ Weight(t, d, CopyAt(j)) = CopyWeight(t, d, j)
             /\ Weight(t, d, CopyAt(j))' = CopyWeight(t, d, j)'
  <2>1. CopyAt(j) # NewAt /\ CopyAt(j)[1] = "copy" /\ CopyAt(j)[2] = j
    BY CarriersDiffer DEF CopyAt
  <2> QED
    BY <2>1 DEF Weight
<1>4. ASSUME NEW e \in Events
      PROVE  /\ Weight(t, d, EventAt(e)) = EventWeight(t, e)
             /\ Weight(t, d, EventAt(e))' = EventWeight(t, e)'
  <2>1. EventAt(e) # NewAt /\ EventAt(e)[1] = "event" /\ EventAt(e)[2] = e
    BY CarriersDiffer DEF EventAt
  <2> QED
    BY <2>1 DEF Weight
<1>5. ASSUME NEW a \in Actors
      PROVE  /\ Weight(t, d, ActorAt(a)) = ActorWeight(t, a)
             /\ Weight(t, d, ActorAt(a))' = ActorWeight(t, a)'
  <2>1. ActorAt(a) # NewAt /\ ActorAt(a)[1] = "actor" /\ ActorAt(a)[2] = a
    BY CarriersDiffer DEF ActorAt
  <2> QED
    BY <2>1 DEF Weight
<1> QED
  BY <1>1, <1>2, <1>3, <1>4, <1>5, CarriersDiffer

LEMMA CostZero == Cost[0][0] \in Nat \ {0} /\ \A n \in 0..MaxRetries : Cost[n][0] \in Nat \ {0}
BY CostFacts, MaxRetriesAssumption, EventRetriesAssumption

LEMMA HeldCostType ==
  ASSUME NEW pc, NEW n \in 0..MaxRetries, NEW e \in 0..EventRetries
  PROVE  HeldCost(pc, n, e) \in Nat
BY CostFacts DEF HeldCost

LEMMA WeightTypes ==
  IInv => \A t \in Tasks, d \in Nat :
    /\ NewWeight(t) \in Nat
    /\ \A j \in Nat : CopyWeight(t, d, j) \in Nat
    /\ \A e \in Events : EventWeight(t, e) \in Nat
    /\ \A a \in Actors : ActorWeight(t, a) \in Nat
    /\ Weights(t, d) \in [Carriers -> Nat]
<1> SUFFICES ASSUME IInv, NEW t \in Tasks, NEW d \in Nat
             PROVE  /\ NewWeight(t) \in Nat
                    /\ \A j \in Nat : CopyWeight(t, d, j) \in Nat
                    /\ \A e \in Events : EventWeight(t, e) \in Nat
                    /\ \A a \in Actors : ActorWeight(t, a) \in Nat
                    /\ Weights(t, d) \in [Carriers -> Nat]
  OBVIOUS
<1>1. NewWeight(t) \in Nat
  BY CostZero DEF NewWeight
<1>2. ASSUME NEW j \in Nat PROVE CopyWeight(t, d, j) \in Nat
  <2>1. j - d \in DOMAIN tasks => tasks[j - d].attempt \in 0..MaxRetries
    <3>1. \A k \in DOMAIN tasks : tasks[k] \in CopyType
      BY DEF IInv, CountInv
    <3> QED
      BY <3>1 DEF CopyType
  <2> QED
    BY <2>1, CostZero DEF CopyWeight
<1>3. ASSUME NEW e \in Events PROVE EventWeight(t, e) \in Nat
  <2>1. body[e].attempt \in 0..MaxRetries /\ tries[e] \in 0..EventRetries
    BY DEF IInv, ListInv, BodyType
  <2> QED
    BY <2>1, CostFacts DEF EventWeight
<1>4. ASSUME NEW a \in Actors PROVE ActorWeight(t, a) \in Nat
  <2>1. actor[a].attempt \in 0..MaxRetries
    BY DEF IInv, ListInv, ActorType
  <2>2. Holds(a) => BodyOf(a).attempt \in 0..MaxRetries /\ tries[actor[a].event] \in 0..EventRetries
    BY DEF IInv, ListInv, ActorHasEvents, BodyType, BodyOf
  <2>3. Holds(a) => HeldCost(actor[a].pc, BodyOf(a).attempt, tries[actor[a].event]) \in Nat
    BY <2>2, HeldCostType
  <2> QED
    BY <2>1, <2>3, CostZero DEF ActorWeight
<1>5. ASSUME NEW l \in Carriers PROVE Weights(t, d)[l] \in Nat
  BY <1>1, <1>2, <1>3, <1>4, CarrierCases, WeightAt
<1>6. Weights(t, d) \in [Carriers -> Nat]
  BY <1>5 DEF Weights
<1> QED
  BY <1>1, <1>2, <1>3, <1>4, <1>6

LEMMA WeightTypesNext ==
  IInv' => (\A t \in Tasks, d \in Nat :
              /\ NewWeight(t) \in Nat
              /\ \A j \in Nat : CopyWeight(t, d, j) \in Nat
              /\ \A e \in Events : EventWeight(t, e) \in Nat
              /\ \A a \in Actors : ActorWeight(t, a) \in Nat
              /\ Weights(t, d) \in [Carriers -> Nat])'
BY WeightTypes, PTL

------------------------------------------------------------------------------
(* Steps within the budget                                                   *)

InBudget(t, d) == Budget(Carriers, Cost[0][0], rows[t], Weights(t, d))

\* No carrier but those in S can cause more than before
NoMore(t, d, l) == Weights(t, d)'[l] <= Weights(t, d)[l]

LEMMA NatReflexive == \A x \in Nat : x <= x /\ 0 <= x
OBVIOUS

LEMMA ProducerStays ==
  ASSUME IInv, NEW t \in Tasks, NEW d \in Nat, producer'[t] = "new" => producer[t] = "new"
  PROVE  NoMore(t, d, NewAt)
<1>1. NewWeight(t)' = NewWeight(t) \/ NewWeight(t)' = 0
  BY DEF NewWeight
<1>2. NewWeight(t) \in Nat
  BY WeightTypes
<1> QED
  BY <1>1, <1>2, WeightAt, NatReflexive DEF NoMore

LEMMA CopiesStay ==
  ASSUME IInv, NEW t \in Tasks, NEW d \in Nat, UNCHANGED tasks
  PROVE  \A j \in Nat : NoMore(t, d, CopyAt(j))
<1>1. ASSUME NEW j \in Nat
      PROVE  CopyWeight(t, d, j)' = CopyWeight(t, d, j) /\ CopyWeight(t, d, j) \in Nat
  BY WeightTypes DEF CopyWeight
<1> QED
  BY <1>1, WeightAt, NatReflexive DEF NoMore

\* What an event has with the one who holds it, or with the list
SameEvent(e) == body'[e] = body[e] /\ tries'[e] = tries[e]

\* An event that does not enter the list causes no more than before
LEMMA EventStays ==
  ASSUME IInv, NEW t \in Tasks, NEW d \in Nat, NEW e \in Events,
         InList(e)' => InList(e) /\ SameEvent(e)
  PROVE  NoMore(t, d, EventAt(e))
<1>1. EventWeight(t, e) \in Nat
  BY WeightTypes
<1>2. EventWeight(t, e)' = EventWeight(t, e) \/ EventWeight(t, e)' = 0
  BY DEF EventWeight, SameEvent, Carries
<1> QED
  BY <1>1, <1>2, WeightAt, NatReflexive DEF NoMore

LEMMA EventsStay ==
  ASSUME IInv, NEW t \in Tasks, NEW d \in Nat, UNCHANGED <<events, body, tries>>
  PROVE  \A e \in Events : NoMore(t, d, EventAt(e))
BY EventStays DEF InList, SameEvent

\* Nor does an actor that stays as it is, with an event nobody changes
LEMMA ActorStays ==
  ASSUME IInv, NEW t \in Tasks, NEW d \in Nat, NEW a \in Actors, actor'[a] = actor[a],
         Holds(a) => SameEvent(actor[a].event)
  PROVE  NoMore(t, d, ActorAt(a))
<1>1. ActorWeight(t, a) \in Nat
  BY WeightTypes
<1>2. Holds(a)' <=> Holds(a)
  BY DEF Holds
<1>3. ActorWeight(t, a)' = ActorWeight(t, a)
  <2>1. CASE Holds(a)
    BY <1>2, <2>1 DEF ActorWeight, SameEvent, Carries, BodyOf
  <2>2. CASE ~Holds(a)
    BY <1>2, <2>2 DEF ActorWeight
  <2> QED
    BY <2>1, <2>2
<1> QED
  BY <1>1, <1>3, WeightAt, NatReflexive DEF NoMore

\* The three ways to stay within the budget
LEMMA Shrinks ==
  ASSUME IInv, IInv', NEW t \in Tasks, NEW d \in Nat, InBudget(t, d), rows'[t] = rows[t],
         \A l \in Carriers : NoMore(t, d, l)
  PROVE  InBudget(t, d)'
<1>1. Weights(t, d) \in [Carriers -> Nat] /\ Weights(t, d)' \in [Carriers -> Nat]
  BY WeightTypes, WeightTypesNext
<1>2. Budget(Carriers, Cost[0][0], rows[t], Weights(t, d))
  BY DEF InBudget
<1>3. Cost[0][0] \in Nat
  BY CostZero
<1>4. \A l \in Carriers : Weights(t, d)'[l] <= Weights(t, d)[l]
  BY DEF NoMore
<1>5. Budget(Carriers, Cost[0][0], rows[t], Weights(t, d)')
  BY <1>1, <1>2, <1>3, <1>4, BudgetShrinks
<1> QED
  BY <1>5 DEF InBudget

LEMMA Passes ==
  ASSUME IInv, IInv', NEW t \in Tasks, NEW d \in Nat, InBudget(t, d), rows'[t] = rows[t],
         NEW k \in Carriers, NEW m \in Carriers, k # m, Weights(t, d)[m] = 0,
         Weights(t, d)'[k] + Weights(t, d)'[m] <= Weights(t, d)[k],
         \A l \in Carriers \ {k, m} : NoMore(t, d, l)
  PROVE  InBudget(t, d)'
<1>1. Weights(t, d) \in [Carriers -> Nat] /\ Weights(t, d)' \in [Carriers -> Nat]
  BY WeightTypes, WeightTypesNext
<1>2. Budget(Carriers, Cost[0][0], rows[t], Weights(t, d))
  BY DEF InBudget
<1>3. Cost[0][0] \in Nat
  BY CostZero
<1>4. \A l \in Carriers \ {k, m} : Weights(t, d)'[l] <= Weights(t, d)[l]
  BY DEF NoMore
<1>5. Budget(Carriers, Cost[0][0], rows[t], Weights(t, d)')
  BY <1>1, <1>2, <1>3, <1>4, BudgetPassed
<1> QED
  BY <1>5 DEF InBudget

LEMMA Spends ==
  ASSUME IInv, IInv', NEW t \in Tasks, NEW d \in Nat, InBudget(t, d), rows'[t] = rows[t] + 1,
         NEW k \in Carriers, Weights(t, d)'[k] + 1 <= Weights(t, d)[k],
         \A l \in Carriers \ {k} : NoMore(t, d, l)
  PROVE  InBudget(t, d)'
<1>1. Weights(t, d) \in [Carriers -> Nat] /\ Weights(t, d)' \in [Carriers -> Nat]
  BY WeightTypes, WeightTypesNext
<1>2. Budget(Carriers, Cost[0][0], rows[t], Weights(t, d))
  BY DEF InBudget
<1>3. Cost[0][0] \in Nat
  BY CostZero
<1>4. \A l \in Carriers \ {k} : Weights(t, d)'[l] <= Weights(t, d)[l]
  BY DEF NoMore
<1>5. Budget(Carriers, Cost[0][0], rows[t] + 1, Weights(t, d)')
  BY <1>1, <1>2, <1>3, <1>4, BudgetSpent
<1> QED
  BY <1>5 DEF InBudget

\* Only one actor moves
LEMMA OthersStay ==
  ASSUME IInv, NEW t \in Tasks, NEW d \in Nat, NEW a \in Actors,
         UNCHANGED <<tasks, events, body, tries, producer>>,
         \A b \in Actors \ {a} : actor'[b] = actor[b]
  PROVE  \A l \in Carriers \ {ActorAt(a)} : NoMore(t, d, l)
<1>1. NoMore(t, d, NewAt) /\ \A j \in Nat : NoMore(t, d, CopyAt(j))
  BY ProducerStays, CopiesStay
<1>2. \A e \in Events : NoMore(t, d, EventAt(e))
  BY EventsStay
<1>3. \A b \in Actors \ {a} : NoMore(t, d, ActorAt(b))
  BY ActorStays DEF SameEvent
<1> QED
  BY <1>1, <1>2, <1>3, CarrierCases

\* Steps of one actor that move nothing between the lists
LEMMA ActorShrinks ==
  ASSUME IInv, IInv', NEW t \in Tasks, NEW d \in Nat, NEW a \in Actors, InBudget(t, d),
         UNCHANGED <<tasks, events, body, tries, producer, rows>>,
         \A b \in Actors \ {a} : actor'[b] = actor[b],
         ActorWeight(t, a)' <= ActorWeight(t, a)
  PROVE  InBudget(t, d)'
<1>1. \A l \in Carriers \ {ActorAt(a)} : NoMore(t, d, l)
  BY OthersStay
<1>2. NoMore(t, d, ActorAt(a))
  BY WeightAt DEF NoMore
<1> QED
  BY <1>1, <1>2, Shrinks

LEMMA EmptyHands ==
  ASSUME NEW t, NEW a, actor[a].pc \notin Holding \cup {"route"}
  PROVE  ActorWeight(t, a) = 0
BY DEF ActorWeight, Holds

LEMMA HandsEmptied ==
  ASSUME NEW t, NEW a, actor'[a].pc \notin Holding \cup {"route"}
  PROVE  ActorWeight(t, a)' = 0
BY DEF ActorWeight, Holds

\* An actor lets go of what it holds
LEMMA LetsGo ==
  ASSUME IInv, IInv', NEW t \in Tasks, NEW d \in Nat, NEW a \in Actors, InBudget(t, d),
         UNCHANGED <<tasks, events, body, tries, producer, rows>>,
         NEW new, actor' = [actor EXCEPT ![a] = new], new.pc \notin Holding \cup {"route"}
  PROVE  InBudget(t, d)'
<1>1. actor'[a] = new /\ \A b \in Actors \ {a} : actor'[b] = actor[b]
  BY DEF IInv, ListInv
<1>2. ActorWeight(t, a)' = 0
  BY <1>1, HandsEmptied
<1>3. ActorWeight(t, a) \in Nat
  BY WeightTypes
<1> QED
  BY <1>1, <1>2, <1>3, ActorShrinks

\* An actor goes on with the event it holds
LEMMA GoesOn ==
  ASSUME IInv, IInv', NEW t \in Tasks, NEW d \in Nat, NEW a \in Actors, InBudget(t, d),
         UNCHANGED <<tasks, events, body, tries, producer, rows>>,
         NEW pc \in Holding, Holds(a), Goto(a, pc),
         \/ pc = "healing"
         \/ pc = "failing" /\ actor[a].pc = "work"
  PROVE  InBudget(t, d)'
<1>1. /\ actor'[a].pc = pc /\ actor'[a].event = actor[a].event
      /\ \A b \in Actors \ {a} : actor'[b] = actor[b]
  BY DEF IInv, ListInv, Goto, ActorType
<1>2. Holds(a)' /\ pc # "route" /\ actor[a].pc # "route"
  BY <1>1 DEF Holds, Holding
<1>3. BodyOf(a)' = BodyOf(a) /\ (Carries(actor[a].event, t)' <=> Carries(actor[a].event, t))
  BY <1>1 DEF BodyOf, Carries
<1> DEFINE n == BodyOf(a).attempt
           e == tries[actor[a].event]
<1>4. n \in 0..MaxRetries /\ e \in 0..EventRetries
  BY DEF IInv, ListInv, ActorHasEvents, BodyType, BodyOf
<1>5. ActorWeight(t, a) = IF Carries(actor[a].event, t) THEN HeldCost(actor[a].pc, n, e) ELSE 0
  BY <1>2 DEF ActorWeight
<1>6. ActorWeight(t, a)' = IF Carries(actor[a].event, t) THEN HeldCost(pc, n, e) ELSE 0
  BY <1>1, <1>2, <1>3 DEF ActorWeight
<1>7. HeldCost(pc, n, e) <= HeldCost(actor[a].pc, n, e)
  <2>1. Cost[n][e] \in Nat /\ Rest(n, e) \in Nat /\ Rest(n, e) + 1 <= Cost[n][e]
    BY <1>4, CostFacts, DeliveriesShrink
  <2> HIDE DEF n, e
  <2> QED
    BY <2>1 DEF HeldCost, Holding, Holds
<1> HIDE DEF n, e
<1>8. ActorWeight(t, a)' <= ActorWeight(t, a)
  BY <1>5, <1>6, <1>7, NatReflexive
<1> QED
  BY <1>1, <1>8, ActorShrinks

------------------------------------------------------------------------------
(* The actions within the budget                                             *)

LEMMA FinishesBounded ==
  ASSUME IInv, IInv', NEW t \in Tasks, NEW d \in Nat, NEW a \in Actors, InBudget(t, d),
         UNCHANGED <<tasks, events, body, tries, producer, rows>>, Finished(a)
  PROVE  InBudget(t, d)'
<1>1. /\ At("reply", actor[a].own).pc \notin Holding \cup {"route"}
      /\ Idle.pc \notin Holding \cup {"route"}
  BY DEF At, Idle, Holding
<1>2. \/ actor' = [actor EXCEPT ![a] = At("reply", actor[a].own)]
      \/ actor' = [actor EXCEPT ![a] = Idle]
  BY DEF Finished
<1> QED
  BY <1>1, <1>2, LetsGo

\* An execution is logged
LEMMA LogsBounded ==
  ASSUME IInv, IInv', NEW t \in Tasks, NEW d \in Nat, NEW a \in Actors, InBudget(t, d),
         UNCHANGED <<tasks, events, body, tries, producer>>,
         actor[a].pc = "exec", BodyOf(a).kind = "task",
         rows' = [rows EXCEPT ![BodyOf(a).task] = @ + 1],
         NEW pc \in {"work", "healing"}, Goto(a, pc)
  PROVE  InBudget(t, d)'
<1>1. /\ actor'[a].pc = pc /\ actor'[a].event = actor[a].event
      /\ \A b \in Actors \ {a} : actor'[b] = actor[b]
  BY DEF IInv, ListInv, Goto, ActorType
<1>2. Holds(a) /\ Holds(a)' /\ pc # "route" /\ actor[a].pc # "route"
  BY <1>1 DEF Holds, Holding
<1>3. BodyOf(a)' = BodyOf(a) /\ (Carries(actor[a].event, t)' <=> Carries(actor[a].event, t))
  BY <1>1 DEF BodyOf, Carries
<1> DEFINE n == BodyOf(a).attempt
           e == tries[actor[a].event]
<1>4. n \in 0..MaxRetries /\ e \in 0..EventRetries
  BY <1>2 DEF IInv, ListInv, ActorHasEvents, BodyType, BodyOf
<1>5. ActorWeight(t, a) = IF Carries(actor[a].event, t) THEN HeldCost("exec", n, e) ELSE 0
  BY <1>2 DEF ActorWeight
<1>6. ActorWeight(t, a)' = IF Carries(actor[a].event, t) THEN HeldCost(pc, n, e) ELSE 0
  BY <1>1, <1>2, <1>3 DEF ActorWeight
<1>7. HeldCost(pc, n, e) + 1 <= HeldCost("exec", n, e)
  <2>1. Cost[n][e] \in Nat /\ Rest(n, e) \in Nat /\ Rest(n, e) + 1 <= Cost[n][e]
    BY <1>4, CostFacts, DeliveriesShrink
  <2> HIDE DEF n, e
  <2> QED
    BY <2>1 DEF HeldCost
<1> HIDE DEF n, e
<1>8. \A l \in Carriers \ {ActorAt(a)} : NoMore(t, d, l)
  BY <1>1, OthersStay
<1>9. Carries(actor[a].event, t) <=> BodyOf(a).task = t
  BY DEF Carries, BodyOf
<1>10. rows \in [Tasks -> Nat]
  BY DEF IInv, CountInv
<1>11. CASE Carries(actor[a].event, t)
  <2>1. rows'[t] = rows[t] + 1
    BY <1>9, <1>10, <1>11
  <2>2. ActorAt(a) \in Carriers
    BY CarriersDiffer
  <2>3. Weights(t, d)'[ActorAt(a)] + 1 <= Weights(t, d)[ActorAt(a)]
    BY <1>5, <1>6, <1>7, <1>11, WeightAt
  <2> QED
    BY <1>8, <2>1, <2>2, <2>3, Spends
<1>12. CASE ~Carries(actor[a].event, t)
  <2>1. rows'[t] = rows[t]
    BY <1>9, <1>10, <1>12
  <2>2. NoMore(t, d, ActorAt(a))
    BY <1>5, <1>6, <1>12, WeightAt, NatReflexive DEF NoMore
  <2> QED
    BY <1>8, <2>1, <2>2, Shrinks
<1> QED
  BY <1>11, <1>12

\* The copy a worker takes is its own now, and the others move up
LEMMA DequeuesBounded ==
  ASSUME IInv, IInv', NEW t \in Tasks, NEW d \in Nat, NEW w \in Workers, InBudget(t, d),
         DequeueTask(w)
  PROVE  InBudget(t, d + 1)'
<1> DEFINE h == Head(tasks)
           W == Weights(t, d)
           V == Weights(t, d + 1)'
           k == CopyAt(d + 1)
           m == ActorAt(w)
<1>1. w \in Actors /\ UNCHANGED <<events, body, tries, producer, rows>> /\ actor[w].pc = "idle"
  BY DEF DequeueTask, Actors
<1>2. /\ tasks' = Tail(tasks) /\ h = tasks[1] /\ 1 \in DOMAIN tasks /\ h \in CopyType
      /\ \A i \in DOMAIN tasks' : i \in Nat /\ i + 1 \in DOMAIN tasks /\ tasks'[i] = tasks[i + 1]
  BY TailFacts DEF IInv, CountInv, DequeueTask
<1>3. /\ actor'[w].pc = "route" /\ actor'[w].task = h.task /\ actor'[w].attempt = h.attempt
      /\ \A b \in Actors \ {w} : actor'[b] = actor[b]
  <2> DEFINE new == [pc |-> "route", task |-> h.task, attempt |-> h.attempt,
                     event |-> NoEvent, own |-> NoEvent]
  <2>1. actor' = [actor EXCEPT ![w] = new]
    BY DEF DequeueTask
  <2>2. new.pc = "route" /\ new.task = h.task /\ new.attempt = h.attempt
    OBVIOUS
  <2> HIDE DEF new, h
  <2> QED
    BY <1>1, <2>1, <2>2 DEF IInv, ListInv
<1>4. W \in [Carriers -> Nat] /\ V \in [Carriers -> Nat]
  <2>1. d + 1 \in Nat
    OBVIOUS
  <2> QED
    BY <2>1, WeightTypes, WeightTypesNext
<1>5. k \in Carriers /\ m \in Carriers /\ k # m
  BY <1>1, CarriersDiffer
<1>6. W[m] = 0
  BY <1>1, EmptyHands, WeightAt DEF Holding
<1>7. W[k] = IF h.task = t THEN Cost[h.attempt][0] ELSE 0
  <2>1. CopyWeight(t, d, d + 1) = IF h.task = t THEN Cost[h.attempt][0] ELSE 0
    <3>1. d < d + 1 /\ (d + 1) - d = 1
      OBVIOUS
    <3> QED
      BY <1>2, <3>1 DEF CopyWeight
  <2> QED
    BY <2>1, WeightAt
<1>8. V[m] = IF h.task = t THEN Cost[h.attempt][0] ELSE 0
  <2>1. ActorWeight(t, w)' = IF h.task = t THEN Cost[h.attempt][0] ELSE 0
    BY <1>3 DEF ActorWeight, Holds, Holding
  <2> QED
    BY <1>1, <2>1, WeightAt
<1>9. V[k] = 0
  <2>1. CopyWeight(t, d + 1, d + 1)' = 0
    BY DEF CopyWeight
  <2> QED
    BY <2>1, WeightAt
<1>10. ASSUME NEW j \in Nat, j # d + 1
       PROVE  V[CopyAt(j)] <= W[CopyAt(j)]
  <2>1. CopyWeight(t, d + 1, j)' = CopyWeight(t, d, j) \/ CopyWeight(t, d + 1, j)' = 0
    <3>1. CASE d + 1 < j /\ j - (d + 1) \in DOMAIN tasks'
      <4>1. d < j /\ (j - (d + 1)) + 1 = j - d
        BY <3>1
      <4>2. j - d \in DOMAIN tasks /\ tasks'[j - (d + 1)] = tasks[j - d]
        BY <1>2, <3>1, <4>1
      <4> QED
        BY <3>1, <4>1, <4>2 DEF CopyWeight
    <3>2. CASE ~(d + 1 < j /\ j - (d + 1) \in DOMAIN tasks')
      BY <3>2 DEF CopyWeight
    <3> QED
      BY <3>1, <3>2
  <2>2. CopyWeight(t, d, j) \in Nat
    BY WeightTypes
  <2>3. V[CopyAt(j)] = CopyWeight(t, d + 1, j)' /\ W[CopyAt(j)] = CopyWeight(t, d, j)
    BY WeightAt
  <2> QED
    BY <2>1, <2>2, <2>3, NatReflexive
<1>11. V[NewAt] <= W[NewAt]
  <2>1. NewWeight(t)' = NewWeight(t) /\ NewWeight(t) \in Nat
    BY <1>1, WeightTypes DEF NewWeight
  <2> QED
    BY <2>1, WeightAt, NatReflexive
<1>12. ASSUME NEW e \in Events PROVE V[EventAt(e)] <= W[EventAt(e)]
  <2>1. EventWeight(t, e)' = EventWeight(t, e) /\ EventWeight(t, e) \in Nat
    BY <1>1, WeightTypes DEF EventWeight, InList, Carries
  <2> QED
    BY <2>1, WeightAt, NatReflexive
<1>13. ASSUME NEW b \in Actors \ {w} PROVE V[ActorAt(b)] <= W[ActorAt(b)]
  <2>1. NoMore(t, d, ActorAt(b))
    BY <1>1, <1>3, ActorStays DEF SameEvent
  <2>2. ActorWeight(t, b)' <= ActorWeight(t, b)
    BY <2>1, WeightAt DEF NoMore
  <2> QED
    BY <2>2, WeightAt
<1>14. V[k] + V[m] <= W[k]
  <2>1. h.attempt \in 0..MaxRetries
    BY <1>2 DEF CopyType
  <2> QED
    BY <1>7, <1>8, <1>9, <2>1, CostZero
<1>15. \A l \in Carriers \ {k, m} : V[l] <= W[l]
  <2> HIDE DEF V, W
  <2> QED
    BY <1>10, <1>11, <1>12, <1>13, CarrierCases
<1>16. Budget(Carriers, Cost[0][0], rows[t], W) /\ Cost[0][0] \in Nat
  BY CostZero DEF InBudget
<1> HIDE DEF W, V, k, m
<1>17. Budget(Carriers, Cost[0][0], rows[t], V)
  BY <1>4, <1>5, <1>6, <1>14, <1>15, <1>16, BudgetPassed
<1> QED
  BY <1>1, <1>17 DEF InBudget, V

\* An event that nobody has is pushed; it may carry the task its actor has taken
LEMMA PushesBounded ==
  ASSUME IInv, IInv', NEW t \in Tasks, NEW d \in Nat, NEW a \in Actors, NEW e \in Events,
         NEW b, InBudget(t, d),
         PushQueue(e, b), NEW pc \in {"pushed", "submitted"},
         actor' = [actor EXCEPT ![a] = At(pc, e)],
         UNCHANGED <<tasks, tries, producer, rows>>, tries[e] = 0,
         \/ b = Call
         \/ /\ actor[a].pc = "route"
            /\ b = [kind |-> "task", task |-> actor[a].task, attempt |-> actor[a].attempt]
  PROVE  InBudget(t, d)'
<1>1. At(pc, e).pc = pc /\ pc \notin Holding \cup {"route"}
  BY DEF At, Holding
<1>2. actor'[a].pc = pc /\ \A c \in Actors \ {a} : actor'[c] = actor[c]
  BY <1>1 DEF IInv, ListInv
<1>3. body[e].kind = "unused" /\ body'[e] = b /\ \A f \in Events \ {e} : body'[f] = body[f]
  BY DEF PushQueue, Unused, IInv, ListInv
<1>4. \A f \in Events \ {e} : InList(f)' => InList(f)
  <2>1. /\ DOMAIN events' = DOMAIN events \cup {Len(events) + 1}
        /\ \A k \in DOMAIN events : events'[k] = events[k]
        /\ events'[Len(events) + 1] = e
    BY AppendFacts DEF IInv, ListInv, PushQueue
  <2> QED
    BY <2>1 DEF InList
<1>5. NoMore(t, d, NewAt) /\ \A j \in Nat : NoMore(t, d, CopyAt(j))
  BY ProducerStays, CopiesStay
<1>6. \A f \in Events \ {e} : NoMore(t, d, EventAt(f))
  BY <1>3, <1>4, EventStays DEF SameEvent
<1>7. \A c \in Actors \ {a} : NoMore(t, d, ActorAt(c))
  <2>1. \A c \in Actors : Holds(c) => actor[c].event \in Events \ {e}
    BY <1>3 DEF IInv, ListInv, LiveEventIsUsed, ActorHasEvents
  <2> QED
    BY <1>2, <1>3, <2>1, ActorStays DEF SameEvent
<1>8. \A l \in Carriers \ {ActorAt(a), EventAt(e)} : NoMore(t, d, l)
  BY <1>5, <1>6, <1>7, CarrierCases
<1>9. ActorAt(a) \in Carriers /\ EventAt(e) \in Carriers /\ ActorAt(a) # EventAt(e)
  BY CarriersDiffer
<1>10. Weights(t, d)[EventAt(e)] = 0
  <2>1. ~InList(e)
    BY <1>3 DEF IInv, ListInv, LiveEventIsUsed, InList
  <2> QED
    BY <2>1, WeightAt DEF EventWeight
<1>11. Weights(t, d)'[ActorAt(a)] = 0
  BY <1>1, <1>2, HandsEmptied, WeightAt
<1>12. EventWeight(t, e)' \in Nat /\ ActorWeight(t, a) \in Nat
  BY WeightTypes, WeightTypesNext
<1>13. EventWeight(t, e)' <= ActorWeight(t, a)
  <2>1. CASE b = Call
    <3>1. EventWeight(t, e)' = 0
      BY <1>3, <2>1 DEF EventWeight, Carries, Call
    <3> QED
      BY <1>12, <3>1
  <2>2. CASE /\ actor[a].pc = "route"
             /\ b = [kind |-> "task", task |-> actor[a].task, attempt |-> actor[a].attempt]
    <3>1. b.task = actor[a].task /\ b.attempt = actor[a].attempt /\ tries'[e] = 0
      BY <2>2
    <3>2. EventWeight(t, e)' = 0 \/ EventWeight(t, e)' = ActorWeight(t, a)
      BY <1>3, <2>2, <3>1 DEF EventWeight, Carries, ActorWeight
    <3> QED
      BY <1>12, <3>2
  <2> QED
    BY <2>1, <2>2
<1>14. Weights(t, d)'[ActorAt(a)] + Weights(t, d)'[EventAt(e)] <= Weights(t, d)[ActorAt(a)]
  BY <1>11, <1>12, <1>13, WeightAt
<1> QED
  BY <1>8, <1>9, <1>10, <1>14, Passes

\* The head of the list of events is with an actor now
LEMMA PopsBounded ==
  ASSUME IInv, IInv', NEW t \in Tasks, NEW d \in Nat, NEW a \in Actors, InBudget(t, d), PopQueue(a)
  PROVE  InBudget(t, d)'
<1> PICK h : h = Head(events)
  OBVIOUS
<1>1. UNCHANGED <<tasks, body, tries, rows, producer>> /\ actor[a].pc = "pop"
  BY DEF PopQueue
<1>2. /\ h = events[1] /\ h \in Events /\ 1 \in DOMAIN events
      /\ \A k \in DOMAIN events' : /\ k \in Nat /\ k + 1 \in DOMAIN events /\ k + 1 # 1
                                   /\ events'[k] = events[k + 1]
  BY TailFacts DEF IInv, ListInv, PopQueue
<1>3. /\ actor'[a].pc = "exec" /\ actor'[a].event = h
      /\ \A b \in Actors \ {a} : actor'[b] = actor[b]
  BY DEF IInv, ListInv, PopQueue, ActorType
<1>4. InList(h) /\ ~InList(h)' /\ \A e \in Events : InList(e)' => InList(e)
  <2>1. InList(h)
    BY <1>2 DEF InList
  <2>2. \A k \in DOMAIN events' : events'[k] # h
    BY <1>2 DEF IInv, ListInv, EventInOnePlace
  <2>3. \A e \in Events : InList(e)' => InList(e)
    BY <1>2 DEF InList
  <2> QED
    BY <2>1, <2>2, <2>3 DEF InList
<1>5. NoMore(t, d, NewAt) /\ \A j \in Nat : NoMore(t, d, CopyAt(j))
  BY <1>1, ProducerStays, CopiesStay
<1>6. \A e \in Events : NoMore(t, d, EventAt(e))
  BY <1>1, <1>4, EventStays DEF SameEvent
<1>7. \A b \in Actors \ {a} : NoMore(t, d, ActorAt(b))
  BY <1>1, <1>3, ActorStays DEF SameEvent
<1>8. \A l \in Carriers \ {EventAt(h), ActorAt(a)} : NoMore(t, d, l)
  BY <1>5, <1>6, <1>7, CarrierCases
<1>9. ActorAt(a) \in Carriers /\ EventAt(h) \in Carriers /\ EventAt(h) # ActorAt(a)
  BY <1>2, CarriersDiffer
<1>10. Weights(t, d)[ActorAt(a)] = 0
  BY <1>1, EmptyHands, WeightAt DEF Holding
<1>11. Weights(t, d)'[EventAt(h)] = 0
  <2>1. EventWeight(t, h)' = 0
    BY <1>4 DEF EventWeight
  <2> QED
    BY <1>2, <2>1, WeightAt
<1>12. Weights(t, d)'[ActorAt(a)] = Weights(t, d)[EventAt(h)]
  <2>1. Holds(a)' /\ (Carries(h, t)' <=> Carries(h, t)) /\ BodyOf(a)' = body[h]
    BY <1>1, <1>3 DEF Holds, Holding, Carries, BodyOf
  <2>2. ActorWeight(t, a)' =
          IF Carries(h, t) THEN HeldCost("exec", body[h].attempt, tries[h]) ELSE 0
    BY <1>1, <1>3, <2>1 DEF ActorWeight, Carries
  <2>3. ActorWeight(t, a)' = EventWeight(t, h)
    BY <1>4, <2>2 DEF EventWeight, HeldCost
  <2> QED
    BY <1>2, <2>3, WeightAt
<1>13. Weights(t, d)[EventAt(h)] \in Nat
  BY <1>2, WeightTypes, WeightAt
<1>14. Weights(t, d)'[EventAt(h)] + Weights(t, d)'[ActorAt(a)] <= Weights(t, d)[EventAt(h)]
  BY <1>11, <1>12, <1>13
<1> QED
  BY <1>1, <1>8, <1>9, <1>10, <1>14, Passes

\* A copy is pushed to the list of tasks
LEMMA CopyPushed ==
  ASSUME IInv, NEW t \in Tasks, NEW d \in Nat, NEW u \in Tasks, NEW n \in 0..MaxRetries,
         tasks' = Append(tasks, Copy(u, n))
  PROVE  /\ Len(tasks) + 1 + d \in Nat
         /\ Weights(t, d)[CopyAt(Len(tasks) + 1 + d)] = 0
         /\ Weights(t, d)'[CopyAt(Len(tasks) + 1 + d)] = IF u = t THEN Cost[n][0] ELSE 0
         /\ \A j \in Nat \ {Len(tasks) + 1 + d} : NoMore(t, d, CopyAt(j))
<1> PICK i : i = Len(tasks) + 1
  OBVIOUS
<1> PICK c : c = Copy(u, n)
  OBVIOUS
<1>1. c \in CopyType /\ c.task = u /\ c.attempt = n
  BY DEF Copy, CopyType
<1>2. tasks \in Seq(CopyType) /\ Len(tasks) \in Nat
  BY DEF IInv, CountInv
<1>3. /\ DOMAIN tasks' = DOMAIN tasks \cup {i} /\ i \notin DOMAIN tasks
      /\ \A k \in DOMAIN tasks : tasks'[k] = tasks[k]
      /\ tasks'[i] = c
  BY <1>1, <1>2, AppendFacts
<1>4. i + d \in Nat /\ d < i + d /\ (i + d) - d = i /\ Len(tasks) + 1 + d = i + d
  BY <1>2
<1>5. CopyWeight(t, d, i + d) = 0
  BY <1>3, <1>4 DEF CopyWeight
<1>6. CopyWeight(t, d, i + d)' = IF u = t THEN Cost[n][0] ELSE 0
  BY <1>1, <1>3, <1>4 DEF CopyWeight
<1>7. ASSUME NEW j \in Nat \ {i + d}
      PROVE  NoMore(t, d, CopyAt(j))
  <2>1. d < j => j - d # i
    BY <1>2, <1>7
  <2>2. CopyWeight(t, d, j)' = CopyWeight(t, d, j)
    <3>1. CASE ~(d < j)
      BY <3>1 DEF CopyWeight
    <3>2. CASE d < j
      BY <1>3, <2>1, <3>2 DEF CopyWeight
    <3> QED
      BY <3>1, <3>2
  <2>3. CopyWeight(t, d, j) \in Nat
    BY WeightTypes
  <2> QED
    BY <2>2, <2>3, WeightAt, NatReflexive DEF NoMore
<1> QED
  BY <1>4, <1>5, <1>6, <1>7, WeightAt

\* The producer hands its whole budget to the first copy
LEMMA EnqueuesBounded ==
  ASSUME IInv, IInv', NEW t \in Tasks, NEW d \in Nat, NEW u \in Tasks, InBudget(t, d),
         EnqueueTask(u)
  PROVE  InBudget(t, d)'
<1> DEFINE j == Len(tasks) + 1 + d
<1>1. /\ UNCHANGED <<events, body, tries, rows, actor>> /\ producer[u] = "new"
      /\ tasks' = Append(tasks, Copy(u, 0)) /\ 0 \in 0..MaxRetries
  BY MaxRetriesAssumption DEF EnqueueTask
<1>2. producer'[u] = "pushed" /\ \A x \in Tasks \ {u} : producer'[x] = producer[x]
  BY DEF EnqueueTask, IInv, CountInv
<1>3. /\ j \in Nat /\ Weights(t, d)[CopyAt(j)] = 0
      /\ Weights(t, d)'[CopyAt(j)] = IF u = t THEN Cost[0][0] ELSE 0
      /\ \A i \in Nat \ {j} : NoMore(t, d, CopyAt(i))
  BY <1>1, CopyPushed
<1> HIDE DEF j
<1>4. \A e \in Events : NoMore(t, d, EventAt(e))
  BY <1>1, EventsStay
<1>5. \A a \in Actors : NoMore(t, d, ActorAt(a))
  BY <1>1, ActorStays DEF SameEvent
<1>6. \A l \in Carriers \ {NewAt, CopyAt(j)} : NoMore(t, d, l)
  BY <1>3, <1>4, <1>5, CarrierCases
<1>7. CASE u = t
  <2>1. Weights(t, d)'[NewAt] = 0 /\ Weights(t, d)[NewAt] = Cost[0][0]
    BY <1>1, <1>2, <1>7, WeightAt DEF NewWeight
  <2>2. Weights(t, d)'[NewAt] + Weights(t, d)'[CopyAt(j)] <= Weights(t, d)[NewAt]
    BY <1>3, <1>7, <2>1, CostZero
  <2>3. NewAt \in Carriers /\ CopyAt(j) \in Carriers /\ NewAt # CopyAt(j)
    BY <1>3, CarriersDiffer
  <2> QED
    BY <1>1, <1>3, <1>6, <2>2, <2>3, Passes
<1>8. CASE u # t
  <2>1. NoMore(t, d, NewAt)
    BY <1>2, <1>8, ProducerStays
  <2>2. NoMore(t, d, CopyAt(j))
    BY <1>3, <1>8, NatReflexive DEF NoMore
  <2> QED
    BY <1>1, <1>6, <2>1, <2>2, Shrinks
<1> QED
  BY <1>7, <1>8

\* A failed task whose attempt was counted: what is left is that of its next copy and
\* that of the event's next delivery
LEMMA CountedWeights ==
  ASSUME IInv, IInv', NEW t \in Tasks, NEW a \in Actors, actor[a].pc = "failing",
         MayRetryTask(BodyOf(a).attempt, MaxRetries),
         body' = [body EXCEPT ![actor[a].event].attempt = @ + 1],
         NEW pc \in {"retried", "healing"}, Goto(a, pc), UNCHANGED <<events, tries>>
  PROVE  /\ BodyOf(a).attempt + 1 \in 0..MaxRetries /\ BodyOf(a).task \in Tasks
         /\ actor[a].event \in Events
         /\ \A b \in Actors \ {a} : actor'[b] = actor[b]
         /\ \A e \in Events \ {actor[a].event} : body'[e] = body[e]
         /\ BodyOf(a).task = t =>
              ActorWeight(t, a) = ActorWeight(t, a)' + Cost[BodyOf(a).attempt + 1][0]
         /\ BodyOf(a).task # t => ActorWeight(t, a)' = 0
<1> PICK e : e = actor[a].event
  OBVIOUS
<1> PICK n : n = body[e].attempt
  OBVIOUS
<1>1. Holds(a) /\ BodyOf(a).kind = "task" /\ BodyOf(a) = body[e] /\ actor[a].pc # "route"
  BY LoggedExecution DEF BodyOf
<1>2. e \in Events /\ n \in 0..MaxRetries /\ tries[e] \in 0..EventRetries /\ body[e].task \in Tasks
  BY <1>1 DEF IInv, ListInv, ActorHasEvents, BodyType
<1>3. n < MaxRetries /\ n + 1 \in 0..MaxRetries
  BY <1>1, <1>2, MaxRetriesAssumption DEF MayRetryTask
<1>4. /\ actor'[a].pc = pc /\ actor'[a].event = e
      /\ \A b \in Actors \ {a} : actor'[b] = actor[b]
  BY DEF IInv, ListInv, Goto, ActorType
<1>5. /\ body'[e].attempt = n + 1 /\ body'[e].kind = "task" /\ body'[e].task = body[e].task
      /\ \A f \in Events \ {e} : body'[f] = body[f]
  <2>1. body' = [body EXCEPT ![e] = [body[e] EXCEPT !.attempt = n + 1]]
    OBVIOUS
  <2>2. body \in [Events -> BodyType]
    BY DEF IInv, ListInv
  <2> QED
    BY <1>1, <1>2, <2>1, <2>2 DEF BodyType
<1>6. ActorWeight(t, a) = IF body[e].task = t THEN HeldCost("failing", n, tries[e]) ELSE 0
  BY <1>1 DEF ActorWeight, Carries
<1>7. ActorWeight(t, a)' = IF body[e].task = t THEN HeldCost(pc, n + 1, tries[e]) ELSE 0
  <2>1. Holds(a)' /\ pc # "route"
    BY <1>4 DEF Holds, Holding
  <2> QED
    BY <1>4, <1>5, <2>1 DEF ActorWeight, Carries, BodyOf
<1>8. /\ HeldCost("failing", n, tries[e]) = Cost[n][tries[e]] - 1
      /\ HeldCost(pc, n + 1, tries[e]) = Rest(n + 1, tries[e])
  BY DEF HeldCost
<1>9. /\ Cost[n][tries[e]] = 1 + Cost[n + 1][0] + Rest(n + 1, tries[e])
      /\ Cost[n + 1][0] \in Nat /\ Rest(n + 1, tries[e]) \in Nat
  BY <1>2, <1>3, CostFacts
<1>10. HeldCost("failing", n, tries[e]) = HeldCost(pc, n + 1, tries[e]) + Cost[n + 1][0]
  BY <1>8, <1>9
<1> QED
  BY <1>1, <1>2, <1>3, <1>4, <1>5, <1>6, <1>7, <1>10

\* Nobody else is touched when an actor counts its event up
LEMMA CountedFrame ==
  ASSUME IInv, NEW t \in Tasks, NEW d \in Nat, NEW a \in Actors, Holds(a),
         \A b \in Actors \ {a} : actor'[b] = actor[b],
         \A e \in Events \ {actor[a].event} : body'[e] = body[e],
         UNCHANGED <<events, tries, producer>>
  PROVE  /\ NoMore(t, d, NewAt)
         /\ \A e \in Events : NoMore(t, d, EventAt(e))
         /\ \A b \in Actors \ {a} : NoMore(t, d, ActorAt(b))
<1>1. NoMore(t, d, NewAt)
  BY ProducerStays
<1>2. ASSUME NEW e \in Events PROVE NoMore(t, d, EventAt(e))
  <2>1. e = actor[a].event => ~InList(e)'
    BY DEF IInv, ListInv, EventInOnePlace, InList
  <2>2. InList(e)' => InList(e) /\ SameEvent(e)
    BY <2>1 DEF InList, SameEvent
  <2> QED
    BY <2>2, EventStays
<1>3. ASSUME NEW b \in Actors \ {a} PROVE NoMore(t, d, ActorAt(b))
  <2>1. Holds(b) => actor[b].event \in Events \ {actor[a].event}
    BY DEF IInv, ListInv, EventInOnePlace, ActorHasEvents
  <2>2. Holds(b) => SameEvent(actor[b].event)
    BY <2>1 DEF SameEvent
  <2> QED
    BY <2>2, ActorStays
<1> QED
  BY <1>1, <1>2, <1>3

\* requeue_task: the actor shares what it has with the copy it pushes
LEMMA RetriesBounded ==
  ASSUME IInv, IInv', NEW t \in Tasks, NEW d \in Nat, NEW a \in Actors, InBudget(t, d),
         RequeueTask(a)
  PROVE  InBudget(t, d)'
<1>1. UNCHANGED <<events, tries, rows, producer>> /\ actor[a].pc = "failing" /\ Holds(a)
  BY DEF RequeueTask, Holds, Holding
<1>2. CASE ~MayRetryTask(BodyOf(a).attempt, MaxRetries)
  <2>1. Goto(a, "healing") /\ UNCHANGED <<body, tasks>>
    BY <1>2 DEF RequeueTask
  <2>2. "healing" \in Holding
    BY DEF Holding
  <2> QED
    BY <1>1, <2>1, <2>2, GoesOn
<1>3. CASE MayRetryTask(BodyOf(a).attempt, MaxRetries)
  <2> PICK n : n = BodyOf(a).attempt
    OBVIOUS
  <2> PICK u : u = BodyOf(a).task
    OBVIOUS
  <2> DEFINE j == Len(tasks) + 1 + d
  <2>1. /\ body' = [body EXCEPT ![actor[a].event].attempt = @ + 1]
        /\ tasks' = Append(tasks, Copy(u, n + 1)) /\ Goto(a, "retried")
    BY <1>3 DEF RequeueTask
  <2>2. /\ n + 1 \in 0..MaxRetries /\ u \in Tasks
        /\ \A b \in Actors \ {a} : actor'[b] = actor[b]
        /\ \A e \in Events \ {actor[a].event} : body'[e] = body[e]
        /\ u = t => ActorWeight(t, a) = ActorWeight(t, a)' + Cost[n + 1][0]
        /\ u # t => ActorWeight(t, a)' = 0
    BY <1>1, <1>3, <2>1, CountedWeights
  <2>3. /\ NoMore(t, d, NewAt)
        /\ \A e \in Events : NoMore(t, d, EventAt(e))
        /\ \A b \in Actors \ {a} : NoMore(t, d, ActorAt(b))
    BY <1>1, <2>2, CountedFrame
  <2>4. /\ j \in Nat /\ Weights(t, d)[CopyAt(j)] = 0
        /\ Weights(t, d)'[CopyAt(j)] = IF u = t THEN Cost[n + 1][0] ELSE 0
        /\ \A i \in Nat \ {j} : NoMore(t, d, CopyAt(i))
    BY <2>1, <2>2, CopyPushed
  <2> HIDE DEF j
  <2>5. \A l \in Carriers \ {ActorAt(a), CopyAt(j)} : NoMore(t, d, l)
    BY <2>3, <2>4, CarrierCases
  <2>6. ActorAt(a) \in Carriers /\ CopyAt(j) \in Carriers /\ ActorAt(a) # CopyAt(j)
    BY <2>4, CarriersDiffer
  <2>7. ActorWeight(t, a) \in Nat /\ ActorWeight(t, a)' \in Nat /\ Cost[n + 1][0] \in Nat
    BY <2>2, WeightTypes, WeightTypesNext, CostZero
  <2>8. Weights(t, d)'[ActorAt(a)] + Weights(t, d)'[CopyAt(j)] <= Weights(t, d)[ActorAt(a)]
    BY <2>2, <2>4, <2>7, WeightAt
  <2> QED
    BY <1>1, <2>4, <2>5, <2>6, <2>8, Passes
<1> QED
  BY <1>2, <1>3

\* requeue_task fails: the copy is lost, and what it could have caused
LEMMA RetryRaisesBounded ==
  ASSUME IInv, IInv', NEW t \in Tasks, NEW d \in Nat, NEW a \in Actors, InBudget(t, d),
         RequeueTaskRaises(a)
  PROVE  InBudget(t, d)'
<1>1. UNCHANGED <<tasks, events, tries, rows, producer>> /\ Holds(a) /\ Goto(a, "healing")
  BY DEF RequeueTaskRaises, Holds, Holding
<1>2. CASE UNCHANGED body
  <2>1. "healing" \in Holding
    BY DEF Holding
  <2> QED
    BY <1>1, <1>2, <2>1, GoesOn
<1>3. CASE /\ actor[a].pc = "failing"
           /\ MayRetryTask(BodyOf(a).attempt, MaxRetries)
           /\ body' = [body EXCEPT ![actor[a].event].attempt = @ + 1]
  <2> PICK n : n = BodyOf(a).attempt
    OBVIOUS
  <2>1. /\ n + 1 \in 0..MaxRetries
        /\ \A b \in Actors \ {a} : actor'[b] = actor[b]
        /\ \A e \in Events \ {actor[a].event} : body'[e] = body[e]
        /\ BodyOf(a).task = t => ActorWeight(t, a) = ActorWeight(t, a)' + Cost[n + 1][0]
        /\ BodyOf(a).task # t => ActorWeight(t, a)' = 0
    BY <1>1, <1>3, CountedWeights
  <2>2. /\ NoMore(t, d, NewAt)
        /\ \A e \in Events : NoMore(t, d, EventAt(e))
        /\ \A b \in Actors \ {a} : NoMore(t, d, ActorAt(b))
    BY <1>1, <2>1, CountedFrame
  <2>3. \A j \in Nat : NoMore(t, d, CopyAt(j))
    BY <1>1, CopiesStay
  <2>4. ActorWeight(t, a) \in Nat /\ ActorWeight(t, a)' \in Nat /\ Cost[n + 1][0] \in Nat
    BY <2>1, WeightTypes, WeightTypesNext, CostZero
  <2>5. ActorWeight(t, a)' <= ActorWeight(t, a)
    BY <2>1, <2>4
  <2>6. NoMore(t, d, ActorAt(a))
    BY <2>5, WeightAt DEF NoMore
  <2>7. \A l \in Carriers : NoMore(t, d, l)
    BY <2>2, <2>3, <2>6, CarrierCases
  <2> QED
    BY <1>1, <2>7, Shrinks
<1> QED
  BY <1>2, <1>3 DEF RequeueTaskRaises

\* An event goes back into the list
LEMMA RequeuesBounded ==
  ASSUME IInv, IInv', NEW t \in Tasks, NEW d \in Nat, NEW a \in Actors, InBudget(t, d),
         RequeueEvent(a)
  PROVE  InBudget(t, d)'
<1> PICK e : e = actor[a].event
  OBVIOUS
<1>1. /\ UNCHANGED <<tasks, body, rows, producer>> /\ Holds(a)
      /\ actor[a].pc = "healing" /\ actor[a].pc # "route"
  BY DEF RequeueEvent, Holds, Holding
<1>2. CASE ~MayRetryEvent(tries[e], EventRetries)
  <2>1. UNCHANGED <<tries, events>> /\ Finished(a)
    BY <1>2 DEF RequeueEvent
  <2> QED
    BY <1>1, <2>1, FinishesBounded
<1>3. CASE MayRetryEvent(tries[e], EventRetries)
  <2>1. /\ tries' = [tries EXCEPT ![e] = @ + 1] /\ events' = Append(events, e)
        /\ Goto(a, "requeued")
    BY <1>3 DEF RequeueEvent
  <2>2. /\ e \in Events /\ ~InList(e) /\ body[e].attempt \in 0..MaxRetries
        /\ tries[e] \in 0..EventRetries
    BY <1>1 DEF IInv, ListInv, ActorHasEvents, EventInOnePlace, InList, BodyType
  <2>3. tries'[e] = tries[e] + 1 /\ \A f \in Events \ {e} : tries'[f] = tries[f]
    BY <2>1, <2>2 DEF IInv, ListInv
  <2>4. InList(e)' /\ \A f \in Events \ {e} : InList(f)' => InList(f)
    <3>1. /\ DOMAIN events' = DOMAIN events \cup {Len(events) + 1}
          /\ \A k \in DOMAIN events : events'[k] = events[k]
          /\ events'[Len(events) + 1] = e
      BY <2>1, <2>2, AppendFacts DEF IInv, ListInv
    <3> QED
      BY <3>1 DEF InList
  <2>5. actor'[a].pc = "requeued" /\ \A b \in Actors \ {a} : actor'[b] = actor[b]
    BY <2>1 DEF IInv, ListInv, Goto, ActorType
  <2>6. NoMore(t, d, NewAt) /\ \A j \in Nat : NoMore(t, d, CopyAt(j))
    BY <1>1, ProducerStays, CopiesStay
  <2>7. \A f \in Events \ {e} : NoMore(t, d, EventAt(f))
    BY <1>1, <2>3, <2>4, EventStays DEF SameEvent
  <2>8. ASSUME NEW b \in Actors \ {a} PROVE NoMore(t, d, ActorAt(b))
    <3>1. Holds(b) => actor[b].event \in Events \ {e}
      BY <1>1 DEF IInv, ListInv, EventInOnePlace, ActorHasEvents
    <3>2. Holds(b) => SameEvent(actor[b].event)
      BY <1>1, <2>3, <3>1 DEF SameEvent
    <3> QED
      BY <2>5, <3>2, ActorStays
  <2>9. \A l \in Carriers \ {ActorAt(a), EventAt(e)} : NoMore(t, d, l)
    BY <2>6, <2>7, <2>8, CarrierCases
  <2>10. ActorAt(a) \in Carriers /\ EventAt(e) \in Carriers /\ ActorAt(a) # EventAt(e)
    BY <2>2, CarriersDiffer
  <2>11. Weights(t, d)[EventAt(e)] = 0
    BY <2>2, WeightAt DEF EventWeight
  <2>12. Weights(t, d)'[ActorAt(a)] = 0
    BY <2>5, HandsEmptied, WeightAt DEF Holding
  <2>13. Weights(t, d)'[EventAt(e)] = Weights(t, d)[ActorAt(a)]
    <3>1. ActorWeight(t, a) = IF Carries(e, t) THEN Rest(body[e].attempt, tries[e]) ELSE 0
      BY <1>1 DEF ActorWeight, HeldCost, BodyOf
    <3>2. tries[e] < EventRetries
      BY <1>3 DEF MayRetryEvent
    <3>3. EventWeight(t, e)' = IF Carries(e, t) THEN Cost[body[e].attempt][tries[e] + 1] ELSE 0
      BY <1>1, <2>3, <2>4 DEF EventWeight, Carries
    <3>4. EventWeight(t, e)' = ActorWeight(t, a)
      BY <3>1, <3>2, <3>3 DEF Rest
    <3> QED
      BY <2>2, <3>4, WeightAt
  <2>14. Weights(t, d)[ActorAt(a)] \in Nat
    <3>1. ActorWeight(t, a) \in Nat
      BY WeightTypes
    <3> QED
      BY <3>1, WeightAt
  <2>15. Weights(t, d)'[ActorAt(a)] + Weights(t, d)'[EventAt(e)] <= Weights(t, d)[ActorAt(a)]
    BY <2>12, <2>13, <2>14
  <2> QED
    BY <1>1, <2>9, <2>10, <2>11, <2>15, Passes
<1> QED
  BY <1>2, <1>3

\* An event that was not pushed has no deliveries behind it
Fresh == \A e \in Events : body[e].kind = "unused" => tries[e] = 0

LEMMA NextKeepsFresh == ASSUME IInv, Fresh, [Next]_vars PROVE Fresh'
<1>1. CASE UNCHANGED <<body, tries>>
  BY <1>1 DEF Fresh
<1>2. ASSUME NEW e \in Events, NEW b, b.kind # "unused", PushQueue(e, b), UNCHANGED tries
      PROVE  Fresh'
  BY <1>2 DEF Fresh, PushQueue, IInv, ListInv
<1>3. ASSUME NEW a \in Actors, RequeueEvent(a) PROVE Fresh'
  <2>1. actor[a].event \in Events /\ body[actor[a].event].kind # "unused"
    BY <1>3 DEF RequeueEvent, IInv, ListInv, LiveEventIsUsed, ActorHasEvents, Holds, Holding
  <2> QED
    BY <1>3, <2>1 DEF RequeueEvent, Fresh, IInv, ListInv
<1>4. ASSUME NEW a \in Actors, RequeueTask(a) \/ RequeueTaskRaises(a) PROVE Fresh'
  <2>1. \/ UNCHANGED body
        \/ body' = [body EXCEPT ![actor[a].event].attempt = @ + 1]
    BY <1>4 DEF RequeueTask, RequeueTaskRaises
  <2>2. \A e \in Events : body'[e].kind = body[e].kind
    <3>1. body \in [Events -> BodyType]
      BY DEF IInv, ListInv
    <3> QED
      BY <2>1, <3>1 DEF BodyType
  <2> QED
    BY <1>4, <2>2 DEF Fresh, RequeueTask, RequeueTaskRaises
<1>5. ASSUME NEW a \in Actors, EventStep(a) PROVE Fresh'
  BY <1>1, <1>3, <1>4, <1>5
  DEF EventStep, ReportPushed, PopQueue, PopTimeout, ExecuteCall, ExecuteRaises, BeginTask,
      TaskSucceeds, TaskFails, ReportRetrying, ReportRequeued
<1>6. ASSUME NEW w \in Workers, NEW e \in Events, HandleEvent(w, e) PROVE Fresh'
  BY <1>1, <1>2, <1>6 DEF HandleEvent
<1>7. ASSUME NEW c \in Callers, NEW e \in Events, DispatchBusinessEvent(c, e) \/ SubmitCommand(c, e)
      PROVE  Fresh'
  BY <1>1, <1>2, <1>7, CallIsBody DEF DispatchBusinessEvent, SubmitCommand
<1>8. CASE Produce
  BY <1>1, <1>7, <1>8 DEF Produce, EnqueueTask, ReportQueued
<1>9. CASE Fault
  BY <1>1, <1>4, <1>9 DEF Fault, Abort, ReportRunningRaises, ReportCompletedRaises
<1>10. ASSUME NEW w \in Workers, WorkerStep(w) PROVE Fresh'
  BY <1>1, <1>5, <1>6, <1>10 DEF WorkerStep, DequeueTask, Actors
<1>11. ASSUME NEW c \in Callers, CallerStep(c) PROVE Fresh'
  BY <1>1, <1>5, <1>11 DEF CallerStep, ReadQueuedResult, Actors
<1>12. CASE UNCHANGED vars
  BY <1>1, <1>12 DEF vars
<1> QED
  BY <1>8, <1>9, <1>10, <1>11, <1>12 DEF Next, NoFaultNext

\* The executions of every task stay within the budget
AllInBudget == \A t \in Tasks : \E d \in Nat : InBudget(t, d)

BoundInv == IInv /\ Fresh /\ AllInBudget

LEMMA InitInBudget == Init => Fresh /\ AllInBudget
<1> SUFFICES ASSUME Init PROVE Fresh /\ AllInBudget
  OBVIOUS
<1>1. IInv
  BY InitEstablishesInvariant
<1>2. Fresh
  BY DEF Init, Fresh
<1>3. ASSUME NEW t \in Tasks PROVE InBudget(t, 0)
  <2> DEFINE W == Weights(t, 0)
  <2>1. W \in [Carriers -> Nat]
    BY <1>1, WeightTypes
  <2>2. W[NewAt] = Cost[0][0] /\ NewAt \in Carriers
    BY WeightAt, CarriersDiffer DEF Init, NewWeight
  <2>3. \A j \in Nat : W[CopyAt(j)] = 0
    <3>1. DOMAIN tasks = {}
      BY DEF Init
    <3> QED
      BY <3>1, WeightAt DEF CopyWeight
  <2>4. \A e \in Events : W[EventAt(e)] = 0
    <3>1. DOMAIN events = {}
      BY DEF Init
    <3> QED
      BY <3>1, WeightAt DEF EventWeight, InList
  <2>5. ASSUME NEW a \in Actors PROVE W[ActorAt(a)] = 0
    <3>1. actor[a].pc \notin Holding \cup {"route"}
      BY DEF Init, Idle, At, Holding
    <3> QED
      BY <3>1, EmptyHands, WeightAt
  <2>6. Cost[0][0] \in Nat /\ Cost[0][0] <= Cost[0][0]
    BY CostZero
  <2>7. rows[t] = 0
    BY DEF Init
  <2> HIDE DEF W
  <2>8. \A l \in Carriers \ {NewAt} : W[l] = 0
    BY <2>3, <2>4, <2>5, CarrierCases
  <2>9. Budget(Carriers, Cost[0][0], 0, W)
    BY <2>1, <2>2, <2>6, <2>8, BudgetStart
  <2> QED
    BY <2>7, <2>9 DEF InBudget, W
<1> QED
  BY <1>2, <1>3 DEF AllInBudget

\* A step keeps each task within its budget; when a copy leaves the list, the others are
\* counted from one more
LEMMA StepInBudget ==
  ASSUME IInv, IInv', Fresh, [Next]_vars, NEW t \in Tasks, NEW d \in Nat, InBudget(t, d)
  PROVE  InBudget(t, d)' \/ InBudget(t, d + 1)'
<1>1. CASE UNCHANGED vars
  BY <1>1, ProducerStays, CopiesStay, EventsStay, ActorStays, CarrierCases, Shrinks
  DEF vars, SameEvent
<1>2. ASSUME NEW u \in Tasks, ReportQueued(u) PROVE InBudget(t, d)'
  <2>1. UNCHANGED <<tasks, events, body, tries, rows, actor>>
    BY <1>2 DEF ReportQueued
  <2>2. producer'[t] = "new" => producer[t] = "new"
    BY <1>2 DEF ReportQueued, IInv, CountInv
  <2>3. \A l \in Carriers : NoMore(t, d, l)
    BY <2>1, <2>2, ProducerStays, CopiesStay, EventsStay, ActorStays, CarrierCases DEF SameEvent
  <2> QED
    BY <2>1, <2>3, Shrinks
<1>3. ASSUME NEW a \in Actors, NEW own, actor' = [actor EXCEPT ![a] = At("pop", own)],
             UNCHANGED <<tasks, events, body, tries, producer, rows>>
      PROVE  InBudget(t, d)'
  <2>1. At("pop", own).pc \notin Holding \cup {"route"}
    BY DEF At, Holding
  <2> QED
    BY <1>3, <2>1, LetsGo
<1>4. ASSUME NEW a \in Actors, actor' = [actor EXCEPT ![a] = Idle],
             UNCHANGED <<tasks, events, body, tries, producer, rows>>
      PROVE  InBudget(t, d)'
  <2>1. Idle.pc \notin Holding \cup {"route"}
    BY DEF Idle, At, Holding
  <2> QED
    BY <1>4, <2>1, LetsGo
<1>5. ASSUME NEW c \in Actors, NEW e \in Events,
             DispatchBusinessEvent(c, e) \/ SubmitCommand(c, e)
      PROVE  InBudget(t, d)'
  <2>1. UNCHANGED <<tasks, tries, producer, rows>>
    BY <1>5 DEF DispatchBusinessEvent, SubmitCommand
  <2>2. ASSUME PushQueue(e, Call), NEW pc \in {"pushed", "submitted"},
               actor' = [actor EXCEPT ![c] = At(pc, e)]
        PROVE  InBudget(t, d)'
    <3>1. tries[e] = 0
      BY <2>2 DEF Fresh, PushQueue, Unused
    <3> QED
      BY <2>1, <2>2, <3>1, PushesBounded
  <2> QED
    BY <1>3, <1>5, <2>1, <2>2 DEF DispatchBusinessEvent, SubmitCommand
<1>6. ASSUME NEW w \in Workers, NEW e \in Events, HandleEvent(w, e)
      PROVE  InBudget(t, d)'
  <2> DEFINE b == [kind |-> "task", task |-> actor[w].task, attempt |-> actor[w].attempt]
  <2>1. w \in Actors /\ UNCHANGED <<tasks, tries, producer, rows>> /\ actor[w].pc = "route"
    BY <1>6 DEF HandleEvent, Actors
  <2>2. CASE PushQueue(e, b) /\ actor' = [actor EXCEPT ![w] = At("pushed", e)]
    <3>1. tries[e] = 0
      BY <2>2 DEF Fresh, PushQueue, Unused
    <3>2. b = [kind |-> "task", task |-> actor[w].task, attempt |-> actor[w].attempt]
      OBVIOUS
    <3> HIDE DEF b
    <3> QED
      BY <2>1, <2>2, <3>1, <3>2, PushesBounded
  <2>3. CASE UNCHANGED <<body, events>> /\ actor' = [actor EXCEPT ![w] = At("pop", NoEvent)]
    BY <1>3, <2>1, <2>3
  <2> QED
    BY <1>6, <2>2, <2>3 DEF HandleEvent
<1>7. ASSUME NEW a \in Actors, ReportPushed(a) PROVE InBudget(t, d)'
  <2>1. \/ actor' = [actor EXCEPT ![a] = Idle]
        \/ actor' = [actor EXCEPT ![a] = At("pop", IF a \in Callers THEN actor[a].own ELSE NoEvent)]
    BY <1>7 DEF ReportPushed
  <2> QED
    BY <1>3, <1>4, <1>7, <2>1 DEF ReportPushed
<1>8. ASSUME NEW a \in Actors,
             PopTimeout(a) \/ ExecuteCall(a) \/ TaskSucceeds(a) \/ ReportRequeued(a)
      PROVE  InBudget(t, d)'
  BY <1>8, FinishesBounded DEF PopTimeout, ExecuteCall, TaskSucceeds, ReportRequeued, Complete
<1>9. ASSUME NEW a \in Actors,
             ExecuteRaises(a) \/ TaskFails(a) \/ ReportRetrying(a) \/ ReportCompletedRaises(a)
      PROVE  InBudget(t, d)'
  <2>1. /\ UNCHANGED <<tasks, events, body, tries, producer, rows>> /\ Holds(a)
        /\ Goto(a, "healing") \/ (Goto(a, "failing") /\ actor[a].pc = "work")
    BY <1>9 DEF ExecuteRaises, TaskFails, ReportRetrying, ReportCompletedRaises, Holds, Holding
  <2>2. "healing" \in Holding /\ "failing" \in Holding
    BY DEF Holding
  <2> QED
    BY <2>1, <2>2, GoesOn
<1>10. ASSUME NEW a \in Actors, BeginTask(a) \/ ReportRunningRaises(a) PROVE InBudget(t, d)'
  BY <1>10, LogsBounded DEF BeginTask, ReportRunningRaises
<1>11. ASSUME NEW a \in Actors, EventStep(a) PROVE InBudget(t, d)'
  BY <1>7, <1>8, <1>9, <1>10, <1>11, PopsBounded, RetriesBounded, RequeuesBounded DEF EventStep
<1>12. ASSUME NEW a \in Actors, Abort(a) \/ ReadQueuedResult(a) PROVE InBudget(t, d)'
  BY <1>4, <1>12 DEF Abort, ReadQueuedResult
<1>13. CASE Produce
  BY <1>2, <1>5, <1>13, EnqueuesBounded DEF Produce, Actors
<1>14. CASE Fault
  BY <1>9, <1>10, <1>12, <1>14, RetryRaisesBounded DEF Fault
<1>15. ASSUME NEW w \in Workers, WorkerStep(w) PROVE InBudget(t, d)' \/ InBudget(t, d + 1)'
  BY <1>6, <1>11, <1>15, DequeuesBounded DEF WorkerStep, Actors
<1>16. ASSUME NEW c \in Callers, CallerStep(c) PROVE InBudget(t, d)'
  BY <1>11, <1>12, <1>16 DEF CallerStep, Actors
<1> QED
  BY <1>1, <1>13, <1>14, <1>15, <1>16 DEF Next, NoFaultNext

\* However the two lists multiply the copies of a failing task, in whatever order they are
\* delivered and whatever Redis loses, the task is executed Cost[0][0] times at most
THEOREM BoundedExecutions == Spec => []ExecutionsBounded
<1>1. BoundInv /\ [Next]_vars => BoundInv'
  <2> SUFFICES ASSUME BoundInv, [Next]_vars PROVE BoundInv'
    OBVIOUS
  <2>1. IInv /\ IInv' /\ Fresh /\ Fresh'
    BY NextPreservesInvariant, NextKeepsFresh DEF BoundInv
  <2>2. ASSUME NEW t \in Tasks PROVE \E d \in Nat : InBudget(t, d)'
    <3>1. PICK d \in Nat : InBudget(t, d)
      BY DEF BoundInv, AllInBudget
    <3>2. InBudget(t, d)' \/ InBudget(t, d + 1)'
      BY <2>1, <3>1, StepInBudget
    <3>3. d + 1 \in Nat
      OBVIOUS
    <3> QED
      BY <3>2, <3>3
  <2> QED
    BY <2>1, <2>2 DEF BoundInv, AllInBudget
<1>2. BoundInv => ExecutionsBounded
  <2> SUFFICES ASSUME BoundInv, NEW t \in Tasks PROVE rows[t] <= Cost[0][0]
    BY DEF ExecutionsBounded
  <2>1. PICK d \in Nat : Budget(Carriers, Cost[0][0], rows[t], Weights(t, d))
    BY DEF BoundInv, AllInBudget, InBudget
  <2> QED
    BY <2>1, CostZero, BudgetBounds
<1>3. Init => BoundInv
  BY InitEstablishesInvariant, InitInBudget DEF BoundInv
<1> QED
  BY <1>1, <1>2, <1>3, PTL DEF Spec
=============================================================================
