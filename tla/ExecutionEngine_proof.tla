------------------------ MODULE ExecutionEngine_proof ------------------------
(***************************************************************************)
(* Proofs about ExecutionEngine for every number of tasks, workers and     *)
(* API requests.                                                           *)
(***************************************************************************)
EXTENDS ExecutionEngine, FiniteSetTheorems, TLAPS

(***************************************************************************)
(* Every handler writes a status from a row it loaded earlier, so what is  *)
(* inductive is not CompletedWasRunning alone but also what the loaded     *)
(* rows say: a row seen as "running" belongs to a task that has run.       *)
(***************************************************************************)

\* What the program counter of an actor says of its record
Fits(a, new) ==
  /\ new \in ActorType
  /\ a \in Workers => new.pc \in WorkerPCs
  /\ a \in Requests => new.pc \in RequestPCs
  /\ new.pc \notin {"idle", "done"} => new.task \in Tasks
  /\ new.pc \in {"load", "lock"} => new.owner \in Owners
  /\ new.pc \in {"push", "commit"} => new.target \in {"other", "assigned", "running"}

SeenRunning(new) == new.seen = "running" => new.task \in ran

RowsFit ==
  /\ status \in [Tasks -> Statuses]
  /\ lock \in [Tasks -> Owners \cup {Free}]
  /\ queue \in Seq([task : Tasks, cleared : BOOLEAN])
  /\ starts \in [Tasks -> Nat]
  /\ assigns \in [Tasks -> Nat]
  /\ ran \subseteq Tasks
  /\ \A t \in Tasks : status[t] \in {"running", "completed"} => t \in ran

IInv ==
  /\ RowsFit
  /\ actor \in [Actors -> ActorType]
  /\ \A a \in Actors : Fits(a, actor[a]) /\ SeenRunning(actor[a])

LEMMA InvariantImpliesProperties == IInv => TypeOK /\ CompletedWasRunning
BY DEF IInv, RowsFit, Fits, TypeOK, CompletedWasRunning, Actors

LEMMA RestFits ==
  ASSUME NEW a \in Actors
  PROVE  /\ Fits(a, Rest(IF a \in Workers THEN "idle" ELSE "done"))
         /\ Fits(a, Rest("idle"))
         /\ \A pc \in {"idle", "done"} : Rest(pc).pc = pc /\ SeenRunning(Rest(pc))
BY ActorsAssumption
DEF Fits, SeenRunning, Rest, ActorType, WorkerPCs, RequestPCs, SharedPCs, Endpoints, Statuses, Owners, Actors

LEMMA InitEstablishesInvariant == Init => IInv
<1> SUFFICES ASSUME Init PROVE IInv
  OBVIOUS
<1>1. RowsFit
  BY DEF Init, RowsFit, Statuses
<1>2. \A a \in Actors : actor[a] = Rest("idle")
  BY DEF Init
<1>3. Rest("idle") \in ActorType
  BY DEF Rest, ActorType, WorkerPCs, RequestPCs, SharedPCs, Endpoints, Statuses, Owners
<1> QED
  BY <1>1, <1>2, <1>3, RestFits DEF Init, IInv

LEMMA CountedOnce ==
  ASSUME NEW f \in [Tasks -> Nat], NEW t \in Tasks
  PROVE  /\ [f EXCEPT ![t] = @ + 1] \in [Tasks -> Nat]
         /\ [f EXCEPT ![t] = @ + 1][t] = f[t] + 1
         /\ \A u \in Tasks : f[u] <= [f EXCEPT ![t] = @ + 1][u]
OBVIOUS

------------------------------------------------------------------------------
(* How one step disturbs the invariant                                       *)

\* One actor moves, and the tasks that have run are not forgotten
LEMMA ActorMoves ==
  ASSUME IInv, RowsFit', ran \subseteq ran', NEW a \in Actors, NEW new,
         actor' = [actor EXCEPT ![a] = new], Fits(a, new), SeenRunning(new)'
  PROVE  IInv'
<1>1. /\ actor' \in [Actors -> ActorType]
      /\ actor'[a] = new
      /\ \A b \in Actors \ {a} : actor'[b] = actor[b]
  BY DEF IInv, Fits
<1>2. \A b \in Actors : Fits(b, actor'[b])
  BY <1>1 DEF IInv
<1>3. \A b \in Actors \ {a} : actor'[b].seen = "running" => actor'[b].task \in ran'
  BY <1>1 DEF IInv, SeenRunning
<1>4. actor'[a].seen = "running" => actor'[a].task \in ran'
  BY <1>1 DEF SeenRunning
<1> QED
  BY <1>1, <1>2, <1>3, <1>4 DEF IInv, SeenRunning, Fits
LEMMA GotoMoves ==
  ASSUME IInv, RowsFit', ran \subseteq ran', NEW a \in Actors, NEW pc, Goto(a, pc),
         a \in Workers => pc \in WorkerPCs, a \in Requests => pc \in RequestPCs,
         actor[a].pc \notin {"idle", "done"}, pc \notin {"load", "lock", "push"},
         pc = "commit" => actor[a].pc = "push"
  PROVE  IInv'
<1>1. PICK new : new = [actor[a] EXCEPT !.pc = pc]
  OBVIOUS
<1>2. /\ new \in ActorType
      /\ new.pc = pc
      /\ new.task = actor[a].task /\ new.seen = actor[a].seen /\ new.target = actor[a].target
  BY <1>1 DEF IInv, ActorType, Actors
<1>3. actor' = [actor EXCEPT ![a] = new]
  BY <1>1 DEF Goto
<1>4. Fits(a, actor[a]) /\ SeenRunning(actor[a])
  BY DEF IInv
<1>5. Fits(a, new) /\ SeenRunning(new)
  BY <1>2, <1>4 DEF Fits, SeenRunning
<1>6. SeenRunning(new)'
  BY <1>5 DEF SeenRunning
<1> QED
  BY <1>3, <1>5, <1>6, ActorMoves

LEMMA DoneMoves ==
  ASSUME IInv, RowsFit', ran \subseteq ran', NEW a \in Actors, Done(a)
  PROVE  IInv'
<1>1. PICK new : /\ new = Rest(IF a \in Workers THEN "idle" ELSE "done")
                 /\ actor' = [actor EXCEPT ![a] = new]
  BY DEF Done
<1>2. Fits(a, new) /\ SeenRunning(new)
  BY <1>1, RestFits
<1>3. SeenRunning(new)'
  BY <1>2 DEF SeenRunning
<1> QED
  BY <1>1, <1>2, <1>3, ActorMoves

LEMMA StatusWritten ==
  ASSUME IInv, NEW a \in Actors, NEW new \in Statuses, WriteStatus(a, new),
         ran \subseteq ran', new \in {"running", "completed"} => actor[a].task \in ran'
  PROVE  /\ status' \in [Tasks -> Statuses]
         /\ \A t \in Tasks : status'[t] \in {"running", "completed"} => t \in ran'
BY DEF IInv, RowsFit, WriteStatus

------------------------------------------------------------------------------
(* Every step keeps the invariant                                            *)

LEMMA ReceiveKeeps ==
  ASSUME IInv, NEW q \in Requests, Receives(q)
  PROVE  IInv'
<1>1. PICK op \in Endpoints, pc \in {"push", "lock", "complete", "fail", "commit"}, t \in Tasks,
           id \in Owners \cup {NoId}, cleared \in BOOLEAN, target \in Statuses :
        /\ Receive(q, op, pc, t, id, cleared, target)
        /\ pc = "lock" => id \in Owners
        /\ pc \in {"push", "commit"} => target \in {"other", "assigned", "running"}
  BY ZenonT(60)
  DEF Receives, ClaimTask, ConfirmDispatch, StartTask, CompleteTask, FailTask, SetTaskStatus,
      Endpoints, Owners, Statuses
<1> DEFINE old == [pc |-> pc, op |-> op, task |-> t, owner |-> id, cleared |-> cleared,
                   seen |-> status[t], target |-> target]
<1>2. PICK new : new = old
  OBVIOUS
<1>3. actor' = [actor EXCEPT ![q] = new]
  BY <1>1, <1>2 DEF Receive
<1>4. Fits(q, new)
  BY <1>1, <1>2, ActorsAssumption DEF Fits, ActorType, WorkerPCs, RequestPCs, SharedPCs, IInv, RowsFit, Actors
<1>5. RowsFit' /\ ran' = ran /\ SeenRunning(new)
  BY <1>1, <1>2 DEF Receive, RowsFit, history, IInv, SeenRunning
<1>6. SeenRunning(new)'
  BY <1>5 DEF SeenRunning
<1> QED
  BY <1>3, <1>4, <1>5, <1>6, ActorMoves DEF Actors

LEMMA ExecuteKeeps ==
  ASSUME IInv, NEW a \in Actors, Execute(a)
  PROVE  IInv'
<1>1. /\ RowsFit /\ Fits(a, actor[a]) /\ SeenRunning(actor[a]) /\ actor[a] \in ActorType
      /\ \A pc \in SharedPCs : /\ a \in Workers => pc \in WorkerPCs
                               /\ a \in Requests => pc \in RequestPCs
  BY DEF IInv, WorkerPCs, RequestPCs
<1>2. ASSUME AcquireExecutionLock(a) PROVE IInv'
  <2>1. RowsFit' /\ ran' = ran
    BY <1>1, <1>2 DEF AcquireExecutionLock, RowsFit, Fits, history
  <2> QED
    BY <1>1, <1>2, <2>1, GotoMoves, DoneMoves DEF AcquireExecutionLock, SharedPCs
<1>3. ASSUME StartTaskExecution(a) PROVE IInv'
  <2>1. actor[a].task \in Tasks
    BY <1>1, <1>3 DEF StartTaskExecution, Fits
  <2>2. ran \subseteq ran' /\ actor[a].task \in ran'
    BY <1>3 DEF StartTaskExecution
  <2>3. /\ status' \in [Tasks -> Statuses]
        /\ \A t \in Tasks : status'[t] \in {"running", "completed"} => t \in ran'
    BY <1>3, <2>2, StatusWritten DEF StartTaskExecution, Statuses
  <2>4. RowsFit'
    <3>1. starts \in [Tasks -> Nat]
      BY <1>1 DEF RowsFit
    <3>2. starts' = [starts EXCEPT ![actor[a].task] = @ + 1]
      BY <1>3 DEF StartTaskExecution
    <3>3. starts' \in [Tasks -> Nat]
      BY <2>1, <3>1, <3>2, CountedOnce
    <3>4. ran' \subseteq Tasks /\ UNCHANGED <<lock, queue, assigns>>
      BY <1>1, <1>3, <2>1 DEF StartTaskExecution, RowsFit
    <3> QED
      BY <1>1, <2>3, <3>3, <3>4 DEF RowsFit
  <2>5. a \in Workers => "reload" \in WorkerPCs /\ a \notin Requests
    BY ActorsAssumption DEF WorkerPCs
  <2> QED
    BY <1>1, <1>3, <2>2, <2>4, <2>5, GotoMoves, DoneMoves DEF StartTaskExecution
<1>4. ASSUME StartRefused(a) PROVE IInv'
  <2>1. RowsFit' /\ ran' = ran
    BY <1>1, <1>4 DEF StartRefused, RowsFit, history
  <2> QED
    BY <1>1, <1>4, <2>1, GotoMoves DEF StartRefused, SharedPCs
<1>5. ASSUME CompleteTaskExecution(a) PROVE IInv'
  <2>1. actor[a].seen = "running" => actor[a].task \in ran'
    BY <1>1, <1>5 DEF CompleteTaskExecution, SeenRunning, history
  <2>2. /\ status' \in [Tasks -> Statuses]
        /\ \A t \in Tasks : status'[t] \in {"running", "completed"} => t \in ran'
    BY <1>1, <1>5, <2>1, StatusWritten DEF CompleteTaskExecution, Statuses, history, RowsFit
  <2>3. RowsFit' /\ ran' = ran
    BY <1>1, <1>5, <2>2 DEF CompleteTaskExecution, RowsFit, history
  <2> QED
    BY <1>1, <1>5, <2>3, GotoMoves, DoneMoves DEF CompleteTaskExecution, SharedPCs
<1>6. ASSUME FailTaskExecution(a) PROVE IInv'
  <2>1. /\ status' \in [Tasks -> Statuses]
        /\ \A t \in Tasks : status'[t] \in {"running", "completed"} => t \in ran'
    BY <1>6, StatusWritten DEF FailTaskExecution, Statuses, history
  <2>2. RowsFit' /\ ran' = ran
    BY <1>1, <1>6, <2>1 DEF FailTaskExecution, RowsFit, history
  <2> QED
    BY <1>1, <1>6, <2>2, GotoMoves DEF FailTaskExecution, SharedPCs
<1>7. ASSUME GetLock(a) PROVE IInv'
  <2>1. RowsFit' /\ ran' = ran
    BY <1>1, <1>7 DEF GetLock, RowsFit, history
  <2> QED
    BY <1>1, <1>7, <2>1, GotoMoves, DoneMoves DEF GetLock, SharedPCs
<1>8. ASSUME DeleteLock(a) PROVE IInv'
  <2>1. RowsFit' /\ ran' = ran
    BY <1>1, <1>8 DEF DeleteLock, RowsFit, history
  <2> QED
    BY <1>8, <2>1, DoneMoves DEF DeleteLock
<1> QED
  BY <1>2, <1>3, <1>4, <1>5, <1>6, <1>7, <1>8 DEF Execute

LEMMA RequestKeeps ==
  ASSUME IInv, NEW q \in Requests, RequestStep(q)
  PROVE  IInv'
<1>1. q \in Actors /\ RowsFit /\ Fits(q, actor[q]) /\ q \notin Workers
  BY ActorsAssumption DEF IInv, Actors
<1>2. ASSUME PushExecution(q) PROVE IInv'
  <2>1. [task |-> actor[q].task, cleared |-> actor[q].cleared] \in [task : Tasks, cleared : BOOLEAN]
    BY <1>1, <1>2 DEF PushExecution, Fits, ActorType
  <2>2. RowsFit' /\ ran' = ran
    BY <1>1, <1>2, <2>1 DEF PushExecution, RowsFit, history
  <2> QED
    BY <1>1, <1>2, <2>2, GotoMoves DEF PushExecution, RequestPCs
<1>3. ASSUME CommitRequest(q) PROVE IInv'
  <2>1. actor[q].task \in Tasks /\ actor[q].target \in {"other", "assigned", "running"}
    BY <1>1, <1>3 DEF CommitRequest, Fits
  <2>2. CASE actor[q].op = "claim"
    <3>1. RowsFit' /\ ran' = ran
      BY <1>1, <1>3, <2>2 DEF CommitRequest, RowsFit
    <3> QED
      BY <1>1, <1>3, <3>1, DoneMoves DEF CommitRequest
  <2>3. CASE actor[q].op # "claim"
    <3>1. /\ ran \subseteq ran' /\ ran' \subseteq Tasks
          /\ actor[q].target \in {"running", "completed"} => actor[q].task \in ran'
      BY <1>1, <1>3, <2>1, <2>3 DEF CommitRequest, RowsFit
    <3>2. /\ status' \in [Tasks -> Statuses]
          /\ \A t \in Tasks : status'[t] \in {"running", "completed"} => t \in ran'
      BY <1>1, <1>3, <2>1, <2>3, <3>1, StatusWritten DEF CommitRequest, Statuses
    <3>3. assigns' \in [Tasks -> Nat]
      <4>1. assigns \in [Tasks -> Nat]
        BY <1>1 DEF RowsFit
      <4>2. assigns' \in {assigns, [assigns EXCEPT ![actor[q].task] = @ + 1]}
        BY <1>3, <2>3 DEF CommitRequest
      <4> QED
        BY <2>1, <4>1, <4>2, CountedOnce
    <3>4. RowsFit'
      BY <1>1, <1>3, <3>1, <3>2, <3>3 DEF CommitRequest, RowsFit
    <3> QED
      BY <1>1, <1>3, <3>1, <3>4, DoneMoves DEF CommitRequest
  <2> QED
    BY <2>2, <2>3
<1> QED
  BY <1>1, <1>2, <1>3, ExecuteKeeps DEF RequestStep

LEMMA WorkerKeeps ==
  ASSUME IInv, NEW w \in Workers, WorkerStep(w)
  PROVE  IInv'
<1>1. w \in Actors /\ RowsFit /\ Fits(w, actor[w]) /\ w \notin Requests /\ actor[w] \in ActorType
  BY ActorsAssumption DEF IInv, Actors
<1>2. ASSUME PopExecutionTask(w) PROVE IInv'
  <2>1. /\ Head(queue) \in [task : Tasks, cleared : BOOLEAN]
        /\ RowsFit' /\ ran' = ran
    <3>1. PICK Item : Item = [task : Tasks, cleared : BOOLEAN]
      OBVIOUS
    <3>2. queue \in Seq(Item) /\ queue # <<>> /\ queue' = Tail(queue)
      BY <1>1, <1>2, <3>1 DEF PopExecutionTask, RowsFit
    <3>3. Head(queue) \in Item /\ queue' \in Seq(Item)
      BY <3>2
    <3> QED
      BY <1>1, <1>2, <3>1, <3>3 DEF PopExecutionTask, RowsFit, history
  <2>2. PICK new : new = [Rest("load") EXCEPT !.op = "start", !.task = Head(queue).task,
                                              !.cleared = Head(queue).cleared, !.owner = WorkerId]
    OBVIOUS
  <2>3. Fits(w, new) /\ SeenRunning(new)
    BY <1>1, <2>1, <2>2 DEF Fits, SeenRunning, Rest, ActorType, WorkerPCs, SharedPCs, Endpoints, Owners, Statuses
  <2>4. SeenRunning(new)'
    BY <2>1, <2>3 DEF SeenRunning
  <2>5. actor' = [actor EXCEPT ![w] = new]
    BY <1>2, <2>2 DEF PopExecutionTask
  <2> QED
    BY <1>1, <2>1, <2>3, <2>4, <2>5, ActorMoves
<1>3. ASSUME NEW pc \in {"lock", "complete"}, actor[w].pc = IF pc = "lock" THEN "load" ELSE "reload",
             UNCHANGED <<status, lock, queue, history>>,
             actor' = [actor EXCEPT ![w].pc = pc, ![w].seen = status[actor[w].task]]
      PROVE  IInv'
  <2>1. PICK new : new = [actor[w] EXCEPT !.pc = pc, !.seen = status[actor[w].task]]
    OBVIOUS
  <2>2. actor' = [actor EXCEPT ![w] = new]
    BY <1>1, <1>3, <2>1 DEF IInv
  <2>3. actor[w].task \in Tasks /\ status[actor[w].task] \in Statuses
    BY <1>1, <1>3 DEF Fits, RowsFit
  <2>4. /\ new \in ActorType /\ new.pc = pc /\ new.task = actor[w].task
        /\ new.owner = actor[w].owner /\ new.seen = status[actor[w].task]
    BY <1>1, <1>3, <2>1, <2>3 DEF ActorType, WorkerPCs, SharedPCs
  <2>5. Fits(w, new) /\ SeenRunning(new)
    BY <1>1, <1>3, <2>3, <2>4 DEF Fits, SeenRunning, RowsFit, WorkerPCs, SharedPCs
  <2>6. RowsFit' /\ ran' = ran
    BY <1>1, <1>3 DEF RowsFit, history
  <2>7. SeenRunning(new)'
    BY <2>5, <2>6 DEF SeenRunning
  <2> QED
    BY <1>1, <2>2, <2>5, <2>6, <2>7, ActorMoves
<1>4. ASSUME LoadTask(w) PROVE IInv'
  BY <1>3, <1>4 DEF LoadTask
<1>5. ASSUME ReloadTask(w) PROVE IInv'
  BY <1>3, <1>5 DEF ReloadTask
<1> QED
  BY <1>1, <1>2, <1>4, <1>5, ExecuteKeeps DEF WorkerStep

LEMMA FaultKeeps ==
  ASSUME IInv, Fault
  PROVE  IInv'
<1>1. ASSUME NEW a \in Actors, Abort(a) PROVE IInv'
  <2>1. RowsFit' /\ ran' = ran
    BY <1>1 DEF Abort, IInv, RowsFit, history
  <2> QED
    BY <1>1, <2>1, DoneMoves DEF Abort
<1>2. ASSUME NEW w \in Workers, DatabaseFails(w) PROVE IInv'
  <2>1. RowsFit' /\ ran' = ran
    BY <1>2 DEF DatabaseFails, IInv, RowsFit, history
  <2>2. w \in Actors /\ w \notin Requests
    BY ActorsAssumption DEF Actors
  <2>3. PICK pc \in {"fail", "release"} : Goto(w, pc)
    BY <1>2 DEF DatabaseFails
  <2> QED
    BY <1>2, <2>1, <2>2, <2>3, GotoMoves DEF DatabaseFails, WorkerPCs, SharedPCs
<1>3. ASSUME NEW t \in Tasks, LockExpires(t) PROVE IInv'
  <2>1. RowsFit'
    BY <1>3 DEF LockExpires, IInv, RowsFit, history
  <2> QED
    BY <1>3, <2>1 DEF LockExpires, IInv, SeenRunning, history
<1> QED
  BY <1>1, <1>2, <1>3 DEF Fault, Failure

LEMMA StepKeepsInvariant == IInv /\ [Next]_vars => IInv'
<1>1. ASSUME IInv, UNCHANGED vars PROVE IInv'
  BY <1>1 DEF IInv, RowsFit, SeenRunning, vars, history
<1> QED
  BY <1>1, ReceiveKeeps, RequestKeeps, WorkerKeeps, FaultKeeps DEF Next, NoFaultNext

LEMMA InvariantHolds == Spec => []IInv
BY InitEstablishesInvariant, StepKeepsInvariant, PTL DEF Spec

\* Every variable keeps its type, and requests and workers stay in their handlers
THEOREM TypeCorrect == Spec => []TypeOK
BY InvariantHolds, InvariantImpliesProperties, PTL

\* A task is completed only after it has been running, whatever stale rows the
\* endpoints and the workers write back
THEOREM CompletedOnlyAfterRunning == Spec => []CompletedWasRunning
BY InvariantHolds, InvariantImpliesProperties, PTL

------------------------------------------------------------------------------
(* As many executions as assignments allow                                   *)

\* Only a moves, to pc, and keeps its task, owner and loaded status
OthersStay(a) == \A b \in Actors \ {a} : actor'[b] = actor[b]

MovesTo(a, pc) ==
  /\ OthersStay(a)
  /\ actor'[a].pc = pc
  /\ actor'[a].task = actor[a].task
  /\ actor'[a].owner = actor[a].owner
  /\ actor'[a].seen = actor[a].seen

LEMMA GotoMovesTo ==
  ASSUME IInv, NEW a \in Actors, NEW pc, Goto(a, pc)
  PROVE  MovesTo(a, pc)
<1>1. actor \in [Actors -> ActorType] /\ actor[a] \in ActorType
  BY DEF IInv
<1> QED
  BY <1>1 DEF Goto, MovesTo, OthersStay, ActorType

LEMMA DoneLeaves ==
  ASSUME IInv, NEW a \in Actors, Done(a)
  PROVE  /\ OthersStay(a)
         /\ actor'[a].pc \in {"idle", "done"}
         /\ a \notin Workers => actor'[a].pc = "done"
BY DEF Done, Rest, OthersStay, IInv

(***************************************************************************)
(* A worker that has loaded a task as "assigned" starts it, whatever the   *)
(* lock makes it wait for; a request starts a task at most once.  Hence an *)
(* assignment is good for as many executions as there are workers, and     *)
(* /start adds one for each request.                                       *)
(***************************************************************************)
Finite == IsFiniteSet(Workers) /\ ("start" \in Ops => IsFiniteSet(Requests))

StartCalls(S) == IF "start" \in Ops THEN Cardinality(S) ELSE 0

\* How often a task may be executed that was assigned n times
Quota(n) == n * Cardinality(Workers) + StartCalls(Requests)

StartsWithinQuota == \A t \in Tasks : starts[t] <= Quota(assigns[t])

\* Workers that have loaded t as "assigned" and may still start it
Copies(t) == {w \in Workers : /\ actor[w].pc \in {"lock", "start"}
                              /\ actor[w].seen = "assigned"
                              /\ actor[w].task = t}

\* Requests that may still start a task
Waiting == {q \in Requests : actor[q].pc # "done"}

Used(t) == starts[t] + StartCalls(Waiting)

\* As long as t is "assigned", every worker may load it
QuotaInv ==
  /\ \A t \in Tasks : Used(t) + Cardinality(Copies(t)) <= Quota(assigns[t])
  /\ \A t \in Tasks : status[t] = "assigned" => Used(t) + Cardinality(Workers) <= Quota(assigns[t])
  /\ \A q \in Requests : actor[q].pc \in {"lock", "start"} => "start" \in Ops

LEMMA WorkersCounted ==
  ASSUME Finite, NEW S \in SUBSET Workers, NEW T \in SUBSET S
  PROVE  /\ Cardinality(T) \in Nat /\ Cardinality(S) \in Nat /\ Cardinality(Workers) \in Nat
         /\ Cardinality(T) <= Cardinality(S) /\ Cardinality(S) <= Cardinality(Workers)
<1>1. IsFiniteSet(S) /\ IsFiniteSet(T) /\ IsFiniteSet(Workers)
  BY FS_Subset DEF Finite
<1> QED
  BY <1>1, FS_Subset, FS_CardinalityType

LEMMA CallsCounted ==
  ASSUME Finite, NEW S \in SUBSET Requests, NEW T \in SUBSET S
  PROVE  StartCalls(T) \in Nat /\ StartCalls(S) \in Nat /\ StartCalls(T) <= StartCalls(S)
<1>1. CASE "start" \notin Ops
  BY <1>1 DEF StartCalls
<1>2. CASE "start" \in Ops
  <2>1. IsFiniteSet(S) /\ IsFiniteSet(T)
    BY <1>2, FS_Subset DEF Finite
  <2> QED
    BY <1>2, <2>1, FS_Subset, FS_CardinalityType DEF StartCalls
<1> QED
  BY <1>1, <1>2

LEMMA QuotaGrows ==
  ASSUME Finite, NEW m \in Nat, NEW n \in Nat
  PROVE  /\ Quota(m) \in Nat
         /\ m <= n => Quota(m) <= Quota(n)
         /\ m < n => Quota(m) + Cardinality(Workers) <= Quota(n)
<1>1. StartCalls(Requests) \in Nat /\ Cardinality(Workers) \in Nat
  BY CallsCounted, WorkersCounted
<1>2. ASSUME NEW W \in Nat
      PROVE  m * W \in Nat /\ (m <= n => m * W <= n * W) /\ (m < n => m * W + W <= n * W)
  <2>1. m * W \in Nat /\ n * W \in Nat
    OBVIOUS
  <2>2. ASSUME m <= n PROVE m * W <= n * W
    <3>1. PICK d \in Nat : n = m + d
      BY <2>2
    <3>2. n * W = m * W + d * W /\ d * W \in Nat
      BY <3>1
    <3> QED
      BY <2>1, <3>2
  <2>3. ASSUME m < n PROVE m * W + W <= n * W
    <3>1. PICK d \in Nat : n = m + 1 + d
      BY <2>3
    <3>2. n * W = m * W + W + d * W /\ d * W \in Nat
      BY <3>1
    <3> QED
      BY <2>1, <3>2
  <2> QED
    BY <2>1, <2>2, <2>3
<1> QED
  BY <1>1, <1>2 DEF Quota

\* Nothing is started, and what becomes "assigned" is counted
Counted ==
  /\ starts' = starts
  /\ assigns' \in [Tasks -> Nat]
  /\ \A t \in Tasks : assigns[t] <= assigns'[t]
  /\ \A t \in Tasks : status'[t] = "assigned" => status[t] = "assigned" \/ assigns[t] < assigns'[t]

\* Of all that may start a task only a changes, and a does not join in
NobodyJoins(a) ==
  /\ OthersStay(a)
  /\ a \in Workers /\ actor'[a].pc \in {"lock", "start"}
     => /\ actor[a].pc \in {"lock", "start"}
        /\ actor'[a].seen = actor[a].seen
        /\ actor'[a].task = actor[a].task
  /\ a \in Requests => /\ actor[a].pc # "done"
                       /\ actor'[a].pc \in {"lock", "start"} => "start" \in Ops

LEMMA NobodyJoinsSets ==
  ASSUME QuotaInv, NEW a \in Actors, NobodyJoins(a)
  PROVE  /\ \A t \in Tasks : Copies(t)' \subseteq Copies(t)
         /\ Waiting' \subseteq Waiting
         /\ \A q \in Requests : actor'[q].pc \in {"lock", "start"} => "start" \in Ops
<1>1. \A t \in Tasks : Copies(t)' \subseteq Copies(t)
  BY DEF NobodyJoins, OthersStay, Copies, Actors
<1>2. Waiting' \subseteq Waiting
  BY DEF NobodyJoins, OthersStay, Waiting, Actors
<1> QED
  BY <1>1, <1>2 DEF NobodyJoins, OthersStay, QuotaInv, Actors

LEMMA QuotaFrame ==
  ASSUME IInv, IInv', Finite, QuotaInv, Counted, NEW a \in Actors, NobodyJoins(a)
  PROVE  QuotaInv'
<1>1. SUFFICES ASSUME NEW t \in Tasks
               PROVE  /\ Used(t)' + Cardinality(Copies(t)') <= Quota(assigns'[t])
                      /\ status'[t] = "assigned"
                         => Used(t)' + Cardinality(Workers) <= Quota(assigns'[t])
  BY NobodyJoinsSets DEF QuotaInv
<1>2. /\ Cardinality(Copies(t)') \in Nat /\ Cardinality(Copies(t)) \in Nat
      /\ Cardinality(Copies(t)') <= Cardinality(Copies(t))
      /\ Cardinality(Copies(t)) <= Cardinality(Workers) /\ Cardinality(Workers) \in Nat
  <2>1. Copies(t) \in SUBSET Workers /\ Copies(t)' \in SUBSET Copies(t)
    BY NobodyJoinsSets DEF Copies
  <2> QED
    BY <2>1, WorkersCounted
<1>3. StartCalls(Waiting') \in Nat /\ StartCalls(Waiting) \in Nat /\ StartCalls(Waiting') <= StartCalls(Waiting)
  <2>1. Waiting \in SUBSET Requests /\ Waiting' \in SUBSET Waiting
    BY NobodyJoinsSets DEF Waiting
  <2> QED
    BY <2>1, CallsCounted
<1>4. /\ starts[t] \in Nat /\ assigns[t] \in Nat /\ assigns'[t] \in Nat
      /\ starts'[t] = starts[t] /\ assigns[t] <= assigns'[t]
  BY DEF IInv, RowsFit, Counted
<1>5. /\ Quota(assigns[t]) \in Nat /\ Quota(assigns'[t]) \in Nat
      /\ Quota(assigns[t]) <= Quota(assigns'[t])
      /\ assigns[t] < assigns'[t] => Quota(assigns[t]) + Cardinality(Workers) <= Quota(assigns'[t])
  BY <1>4, QuotaGrows
<1>6. /\ Used(t) \in Nat /\ Used(t)' \in Nat /\ Used(t)' <= Used(t)
  BY <1>3, <1>4 DEF Used
<1>7. /\ Used(t) + Cardinality(Copies(t)) <= Quota(assigns[t])
      /\ status[t] = "assigned" => Used(t) + Cardinality(Workers) <= Quota(assigns[t])
  BY DEF QuotaInv
<1>8. status'[t] = "assigned" => status[t] = "assigned" \/ assigns[t] < assigns'[t]
  BY DEF Counted
<1> QED
  BY <1>2, <1>5, <1>6, <1>7, <1>8

LEMMA WriteCounted ==
  ASSUME IInv, NEW a \in Actors, NEW new \in Statuses \ {"assigned"}, WriteStatus(a, new),
         UNCHANGED <<starts, assigns>>
  PROVE  Counted
<1>1. assigns \in [Tasks -> Nat] /\ status \in [Tasks -> Statuses]
  BY DEF IInv, RowsFit
<1>2. \A t \in Tasks : status'[t] = "assigned" => status[t] = "assigned"
  BY <1>1 DEF WriteStatus
<1> QED
  BY <1>1, <1>2 DEF Counted

LEMMA NothingCounted ==
  ASSUME IInv, UNCHANGED <<status, starts, assigns>>
  PROVE  Counted
BY DEF IInv, RowsFit, Counted

\* A worker uses up its copy of the task, a request itself
LEMMA QuotaStart ==
  ASSUME IInv, IInv', Finite, QuotaInv, NEW a \in Actors, StartTaskExecution(a)
  PROVE  QuotaInv'
<1>1. PICK t \in Tasks : t = actor[a].task
  BY DEF StartTaskExecution, IInv, Fits
<1>2. /\ starts \in [Tasks -> Nat] /\ assigns \in [Tasks -> Nat] /\ status \in [Tasks -> Statuses]
      /\ actor \in [Actors -> ActorType]
  BY DEF IInv, RowsFit
<1>3. /\ starts' = [starts EXCEPT ![t] = @ + 1] /\ assigns' = assigns
      /\ status' = [status EXCEPT ![t] = "running"] /\ actor[a].seen = "assigned"
  BY <1>1 DEF StartTaskExecution, WriteStatus, MayStart
<1>4. NobodyJoins(a) /\ actor'[a].pc \notin {"lock", "start"}
  BY GotoMovesTo, DoneLeaves DEF StartTaskExecution, NobodyJoins, MovesTo
<1>5. /\ \A q \in Requests : actor'[q].pc \in {"lock", "start"} => "start" \in Ops
      /\ \A u \in Tasks : Copies(u)' \in SUBSET Copies(u) /\ Copies(u) \in SUBSET Workers
      /\ Waiting' \in SUBSET Waiting /\ Waiting \in SUBSET Requests
  BY <1>4, NobodyJoinsSets DEF Copies, Waiting
<1>6. Used(t)' + Cardinality(Copies(t)') <= Used(t) + Cardinality(Copies(t))
  <2>1. /\ Cardinality(Copies(t)') \in Nat /\ Cardinality(Copies(t)) \in Nat
        /\ Cardinality(Copies(t)') <= Cardinality(Copies(t))
    BY <1>5, WorkersCounted
  <2>2. StartCalls(Waiting') \in Nat /\ StartCalls(Waiting) \in Nat /\ StartCalls(Waiting') <= StartCalls(Waiting)
    BY <1>5, CallsCounted
  <2>3. starts[t] \in Nat /\ starts'[t] = starts[t] + 1
    BY <1>2, <1>3
  <2>4. CASE a \in Workers
    <3>1. a \in Copies(t) /\ a \notin Copies(t)'
      BY <1>1, <1>3, <1>4, <2>4 DEF Copies, StartTaskExecution
    <3>2. IsFiniteSet(Copies(t))
      BY <1>5, FS_Subset DEF Finite
    <3>3. /\ Cardinality(Copies(t) \ {a}) = Cardinality(Copies(t)) - 1
          /\ Cardinality(Copies(t)') <= Cardinality(Copies(t) \ {a})
      <4>1. Copies(t)' \in SUBSET (Copies(t) \ {a}) /\ Copies(t) \ {a} \in SUBSET Workers
        BY <1>5, <3>1
      <4> QED
        BY <3>1, <3>2, <4>1, FS_RemoveElement, WorkersCounted
    <3> QED
      BY <2>1, <2>2, <2>3, <3>3 DEF Used
  <2>5. CASE a \notin Workers
    <3>1. a \in Waiting /\ a \notin Waiting'
      BY <2>5, DoneLeaves DEF Waiting, StartTaskExecution, Actors
    <3>2. "start" \in Ops /\ IsFiniteSet(Waiting)
      <4>1. "start" \in Ops
        BY <2>5 DEF QuotaInv, StartTaskExecution, Actors
      <4> QED
        BY <1>5, <4>1, FS_Subset DEF Finite
    <3>3. /\ StartCalls(Waiting \ {a}) = StartCalls(Waiting) - 1
          /\ StartCalls(Waiting') <= StartCalls(Waiting \ {a})
      <4>1. Waiting' \in SUBSET (Waiting \ {a}) /\ Waiting \ {a} \in SUBSET Requests
        BY <1>5, <3>1
      <4>2. StartCalls(Waiting \ {a}) = StartCalls(Waiting) - 1
        BY <3>1, <3>2, FS_RemoveElement DEF StartCalls
      <4> QED
        BY <4>1, <4>2, CallsCounted
    <3> QED
      BY <2>1, <2>2, <2>3, <3>3 DEF Used
  <2> QED
    BY <2>4, <2>5
<1>7. ASSUME NEW u \in Tasks
      PROVE  /\ Used(u)' + Cardinality(Copies(u)') <= Quota(assigns'[u])
             /\ status'[u] = "assigned" => Used(u)' + Cardinality(Workers) <= Quota(assigns'[u])
  <2>1. /\ Used(u) + Cardinality(Copies(u)) <= Quota(assigns[u])
        /\ status[u] = "assigned" => Used(u) + Cardinality(Workers) <= Quota(assigns[u])
    BY DEF QuotaInv
  <2>2. /\ Cardinality(Copies(u)') \in Nat /\ Cardinality(Copies(u)) \in Nat /\ Cardinality(Workers) \in Nat
        /\ Cardinality(Copies(u)') <= Cardinality(Copies(u))
    BY <1>5, WorkersCounted
  <2>3. StartCalls(Waiting') \in Nat /\ StartCalls(Waiting) \in Nat /\ StartCalls(Waiting') <= StartCalls(Waiting)
    BY <1>5, CallsCounted
  <2>4. Quota(assigns[u]) \in Nat /\ assigns'[u] = assigns[u]
    BY <1>2, <1>3, QuotaGrows
  <2>5. Used(u) \in Nat /\ Used(u)' \in Nat
    BY <1>2, <1>3, <2>3 DEF Used
  <2>6. CASE u = t
    <3>1. status'[u] # "assigned"
      BY <1>2, <1>3, <2>6
    <3> QED
      BY <1>6, <2>1, <2>2, <2>4, <2>5, <2>6, <3>1
  <2>7. CASE u # t
    <3>1. starts'[u] = starts[u] /\ status'[u] = status[u] /\ starts[u] \in Nat
      BY <1>2, <1>3, <2>7
    <3>2. Used(u)' <= Used(u)
      BY <2>3, <3>1 DEF Used
    <3> QED
      BY <2>1, <2>2, <2>4, <2>5, <3>1, <3>2
  <2> QED
    BY <2>6, <2>7
<1> QED
  BY <1>5, <1>7 DEF QuotaInv

LEMMA QuotaExecute ==
  ASSUME IInv, IInv', Finite, QuotaInv, NEW a \in Actors, Execute(a)
  PROVE  QuotaInv'
<1>1. a \in Requests /\ actor[a].pc \in {"lock", "start"} => "start" \in Ops
  BY DEF QuotaInv
<1>2. actor[a].pc # "done"
  BY DEF Execute, AcquireExecutionLock, StartTaskExecution, StartRefused, CompleteTaskExecution,
         FailTaskExecution, GetLock, DeleteLock
<1>3. ASSUME OthersStay(a), actor'[a].pc \notin {"lock", "start"}, Counted PROVE QuotaInv'
  BY <1>2, <1>3, QuotaFrame DEF NobodyJoins
<1>4. ASSUME AcquireExecutionLock(a) PROVE QuotaInv'
  <2>1. Counted
    BY <1>4, NothingCounted DEF AcquireExecutionLock, history
  <2>2. CASE Done(a)
    BY <1>3, <2>1, <2>2, DoneLeaves
  <2>3. CASE Goto(a, "start")
    <3>1. MovesTo(a, "start") /\ actor[a].pc = "lock"
      BY <1>4, <2>3, GotoMovesTo DEF AcquireExecutionLock
    <3> QED
      BY <1>1, <2>1, <3>1, QuotaFrame DEF MovesTo, NobodyJoins
  <2> QED
    BY <1>4, <2>2, <2>3 DEF AcquireExecutionLock
<1>5. ASSUME StartRefused(a) PROVE QuotaInv'
  BY <1>3, <1>5, NothingCounted, GotoMovesTo DEF StartRefused, history, MovesTo
<1>6. ASSUME CompleteTaskExecution(a) PROVE QuotaInv'
  <2>1. Counted
    BY <1>6, NothingCounted, WriteCounted DEF CompleteTaskExecution, history, Statuses
  <2> QED
    BY <1>3, <1>6, <2>1, GotoMovesTo, DoneLeaves DEF CompleteTaskExecution, MovesTo
<1>7. ASSUME FailTaskExecution(a) PROVE QuotaInv'
  <2>1. Counted
    BY <1>7, WriteCounted DEF FailTaskExecution, history, Statuses
  <2> QED
    BY <1>3, <1>7, <2>1, GotoMovesTo DEF FailTaskExecution, MovesTo
<1>8. ASSUME GetLock(a) \/ DeleteLock(a) PROVE QuotaInv'
  <2>1. Counted
    BY <1>8, NothingCounted DEF GetLock, DeleteLock, history
  <2> QED
    BY <1>3, <1>8, <2>1, GotoMovesTo, DoneLeaves DEF GetLock, DeleteLock, MovesTo
<1> QED
  BY <1>4, <1>5, <1>6, <1>7, <1>8, QuotaStart DEF Execute

LEMMA QuotaReceive ==
  ASSUME IInv, IInv', Finite, QuotaInv, NEW q \in Requests, Receives(q)
  PROVE  QuotaInv'
<1>1. PICK op \in Endpoints, pc \in {"push", "lock", "complete", "fail", "commit"}, t \in Tasks,
           id \in Owners \cup {NoId}, cleared \in BOOLEAN, target \in Statuses :
        Receive(q, op, pc, t, id, cleared, target) /\ (pc = "lock" => op = "start")
  BY Zenon DEF Receives, ClaimTask, ConfirmDispatch, StartTask, CompleteTask, FailTask, SetTaskStatus,
               Endpoints, Owners, Statuses
<1>2. OthersStay(q) /\ actor'[q].pc = pc /\ op \in Ops /\ actor[q].pc # "done"
  BY <1>1 DEF Receive, OthersStay, IInv, Actors
<1>3. Counted
  BY <1>1, NothingCounted DEF Receive, history
<1>4. q \in Actors /\ q \notin Workers
  BY ActorsAssumption DEF Actors
<1> QED
  BY <1>1, <1>2, <1>3, <1>4, QuotaFrame DEF NobodyJoins

LEMMA QuotaRequest ==
  ASSUME IInv, IInv', Finite, QuotaInv, NEW q \in Requests, PushExecution(q) \/ CommitRequest(q)
  PROVE  QuotaInv'
<1>1. q \in Actors /\ q \notin Workers /\ actor[q].pc # "done"
  BY ActorsAssumption DEF Actors, PushExecution, CommitRequest
<1>2. ASSUME Counted, OthersStay(q), actor'[q].pc \notin {"lock", "start"} PROVE QuotaInv'
  BY <1>1, <1>2, QuotaFrame DEF NobodyJoins
<1>3. CASE PushExecution(q)
  <2>1. Counted
    BY <1>3, NothingCounted DEF PushExecution, history
  <2> QED
    BY <1>1, <1>2, <1>3, <2>1, GotoMovesTo DEF PushExecution, MovesTo
<1>4. CASE CommitRequest(q)
  <2>1. OthersStay(q) /\ actor'[q].pc \notin {"lock", "start"}
    BY <1>1, <1>4, DoneLeaves DEF CommitRequest
  <2>2. CASE actor[q].op = "claim"
    BY <1>2, <1>4, <2>1, <2>2, NothingCounted DEF CommitRequest
  <2>3. CASE actor[q].op # "claim" /\ actor[q].target # "assigned"
    <3>1. Counted
      BY <1>1, <1>4, <2>3, WriteCounted DEF CommitRequest, IInv, ActorType
    <3> QED
      BY <1>2, <2>1, <3>1
  <2>4. CASE actor[q].op # "claim" /\ actor[q].target = "assigned"
    <3>1. PICK t \in Tasks : t = actor[q].task
      BY <1>1, <1>4 DEF CommitRequest, IInv, Fits
    <3>2. assigns \in [Tasks -> Nat] /\ status \in [Tasks -> Statuses]
      BY DEF IInv, RowsFit
    <3>3. assigns' = [assigns EXCEPT ![t] = @ + 1] /\ starts' = starts
      BY <1>4, <2>4, <3>1 DEF CommitRequest
    <3>4. \A u \in Tasks \ {t} : status'[u] = status[u]
      BY <1>4, <2>4, <3>1, <3>2 DEF CommitRequest, WriteStatus
    <3>5. assigns' \in [Tasks -> Nat] /\ assigns[t] < assigns'[t] /\ \A u \in Tasks : assigns[u] <= assigns'[u]
      BY <3>2, <3>3, CountedOnce
    <3>6. Counted
      BY <3>3, <3>4, <3>5 DEF Counted
    <3> QED
      BY <1>2, <2>1, <3>6
  <2> QED
    BY <2>2, <2>3, <2>4
<1> QED
  BY <1>3, <1>4

\* The worker joins those that may start t, which the quota has provided for
LEMMA QuotaLoad ==
  ASSUME IInv, IInv', Finite, QuotaInv, NEW w \in Workers, LoadTask(w)
  PROVE  QuotaInv'
<1>1. w \in Actors /\ w \notin Requests /\ actor \in [Actors -> ActorType] /\ actor[w] \in ActorType
  BY ActorsAssumption DEF Actors, IInv
<1>2. OthersStay(w) /\ UNCHANGED <<status, starts, assigns>>
  BY <1>1 DEF LoadTask, OthersStay, history
<1>3. PICK t \in Tasks : t = actor[w].task
  BY <1>1 DEF LoadTask, IInv, Fits
<1>4. actor'[w].task = t /\ actor'[w].seen = status[t]
  BY <1>1, <1>3 DEF LoadTask, ActorType
<1>5. /\ Waiting' = Waiting
      /\ \A q \in Requests : actor'[q].pc \in {"lock", "start"} => "start" \in Ops
  BY <1>1, <1>2 DEF Waiting, OthersStay, Actors, QuotaInv
<1>6. \A u \in Tasks : Used(u)' = Used(u) /\ Quota(assigns'[u]) = Quota(assigns[u])
  BY <1>2, <1>5 DEF Used
<1>7. ASSUME NEW u \in Tasks PROVE Used(u) + Cardinality(Copies(u)') <= Quota(assigns[u])
  <2>1. /\ Used(u) + Cardinality(Copies(u)) <= Quota(assigns[u])
        /\ status[u] = "assigned" => Used(u) + Cardinality(Workers) <= Quota(assigns[u])
    BY DEF QuotaInv
  <2>2. Used(u) \in Nat /\ Quota(assigns[u]) \in Nat
    <3>1. StartCalls(Waiting) \in Nat
      BY CallsCounted DEF Waiting
    <3>2. starts[u] \in Nat /\ assigns[u] \in Nat
      BY DEF IInv, RowsFit
    <3> QED
      BY <3>1, <3>2, QuotaGrows DEF Used
  <2>3. /\ Cardinality(Copies(u)) \in Nat /\ Cardinality(Copies(u)') \in Nat
        /\ Cardinality(Copies(u)') <= Cardinality(Workers) /\ Cardinality(Workers) \in Nat
    <3>1. Copies(u) \in SUBSET Workers /\ Copies(u)' \in SUBSET Workers
      BY DEF Copies
    <3> QED
      BY <3>1, WorkersCounted
  <2>4. CASE u = t /\ status[t] = "assigned"
    BY <2>1, <2>2, <2>3, <2>4
  <2>5. CASE u # t \/ status[t] # "assigned"
    <3>1. Copies(u)' \in SUBSET Copies(u) /\ Copies(u) \in SUBSET Workers
      BY <1>2, <1>4, <2>5 DEF Copies, OthersStay, Actors
    <3>2. Cardinality(Copies(u)') <= Cardinality(Copies(u))
      BY <3>1, WorkersCounted
    <3> QED
      BY <2>1, <2>2, <2>3, <3>2
  <2> QED
    BY <2>4, <2>5
<1> QED
  BY <1>2, <1>5, <1>6, <1>7 DEF QuotaInv

LEMMA QuotaWorker ==
  ASSUME IInv, IInv', Finite, QuotaInv, NEW w \in Workers, PopExecutionTask(w) \/ ReloadTask(w)
  PROVE  QuotaInv'
<1>1. w \in Actors /\ w \notin Requests /\ actor \in [Actors -> ActorType] /\ actor[w] \in ActorType
  BY ActorsAssumption DEF Actors, IInv
<1>2. Counted
  BY NothingCounted DEF PopExecutionTask, ReloadTask, history
<1>3. OthersStay(w) /\ actor'[w].pc \in {"load", "complete"}
  <2>1. CASE PopExecutionTask(w)
    BY <1>1, <2>1 DEF PopExecutionTask, OthersStay, Rest
  <2>2. CASE ReloadTask(w)
    BY <1>1, <2>2 DEF ReloadTask, OthersStay, ActorType
  <2> QED
    BY <2>1, <2>2
<1> QED
  BY <1>1, <1>2, <1>3, QuotaFrame DEF NobodyJoins

LEMMA QuotaFault ==
  ASSUME IInv, IInv', Finite, QuotaInv, Fault
  PROVE  QuotaInv'
<1>1. Counted
  BY NothingCounted DEF Fault, Failure, Abort, DatabaseFails, LockExpires, history
<1>2. ASSUME NEW a \in Actors, Abort(a) PROVE QuotaInv'
  BY <1>1, <1>2, DoneLeaves, QuotaFrame DEF Abort, NobodyJoins
<1>3. ASSUME NEW w \in Workers, DatabaseFails(w) PROVE QuotaInv'
  <2>1. w \in Actors /\ w \notin Requests
    BY ActorsAssumption DEF Actors
  <2> QED
    BY <1>1, <1>3, <2>1, GotoMovesTo, QuotaFrame DEF DatabaseFails, NobodyJoins, MovesTo
<1>4. ASSUME NEW t \in Tasks, LockExpires(t) PROVE QuotaInv'
  BY <1>4 DEF LockExpires, history, QuotaInv, Used, Copies, Waiting
<1> QED
  BY <1>2, <1>3, <1>4 DEF Fault, Failure

\* However many workers share the queue, whatever stale rows they start from and whatever
\* fails, a task is executed at most once by each worker for each assignment, and once for
\* each request that calls /start
THEOREM StartsAreBounded ==
  ASSUME Finite
  PROVE  Spec => []StartsWithinQuota
<1>1. Init => QuotaInv
  <2> SUFFICES ASSUME Init PROVE QuotaInv
    OBVIOUS
  <2>1. \A a \in Actors : actor[a].pc = "idle"
    BY DEF Init, Rest
  <2>2. Waiting = Requests /\ \A t \in Tasks : Copies(t) = {}
    BY <2>1 DEF Waiting, Copies, Actors
  <2>3. StartCalls(Requests) \in Nat /\ Cardinality(Workers) \in Nat /\ Cardinality({}) = 0
    BY CallsCounted, WorkersCounted, FS_EmptySet
  <2>4. ASSUME NEW t \in Tasks
        PROVE  /\ Used(t) + Cardinality(Copies(t)) <= Quota(assigns[t])
               /\ status[t] = "assigned" => Used(t) + Cardinality(Workers) <= Quota(assigns[t])
    <3>1. Used(t) = StartCalls(Requests) /\ Cardinality(Copies(t)) = 0
      <4>1. starts[t] = 0 /\ Waiting = Requests /\ Copies(t) = {}
        BY <2>2 DEF Init
      <4> QED
        BY <2>3, <4>1 DEF Used
    <3>2. assigns[t] = IF status[t] = "assigned" THEN 1 ELSE 0
      BY DEF Init
    <3>3. Quota(0) = StartCalls(Requests) /\ Quota(1) = Cardinality(Workers) + StartCalls(Requests)
      BY <2>3 DEF Quota
    <3> QED
      BY <2>3, <3>1, <3>2, <3>3
  <2> QED
    BY <2>1, <2>4 DEF QuotaInv, Actors
<1>2. IInv /\ IInv' /\ QuotaInv /\ [Next]_vars => QuotaInv'
  <2>1. ASSUME QuotaInv, UNCHANGED vars PROVE QuotaInv'
    BY <2>1 DEF QuotaInv, Used, Copies, Waiting, vars, history
  <2> QED
    BY <2>1, QuotaReceive, QuotaRequest, QuotaLoad, QuotaWorker, QuotaExecute, QuotaFault
    DEF Next, NoFaultNext, RequestStep, WorkerStep, Actors
<1>3. IInv /\ QuotaInv => StartsWithinQuota
  <2> SUFFICES ASSUME IInv, QuotaInv, NEW t \in Tasks PROVE starts[t] <= Quota(assigns[t])
    BY DEF StartsWithinQuota
  <2>1. Cardinality(Copies(t)) \in Nat /\ StartCalls(Waiting) \in Nat
    BY CallsCounted, WorkersCounted DEF Waiting, Copies
  <2>2. starts[t] \in Nat /\ Quota(assigns[t]) \in Nat
    BY QuotaGrows DEF IInv, RowsFit
  <2>3. Used(t) + Cardinality(Copies(t)) <= Quota(assigns[t])
    BY DEF QuotaInv
  <2> QED
    BY <2>1, <2>2, <2>3 DEF Used
<1> QED
  BY <1>1, <1>2, <1>3, InvariantHolds, PTL DEF Spec

\* With one worker process and nobody calling /start, a task is executed once for
\* each time it was assigned, whatever else races and whatever fails
THEOREM StartedOnce ==
  ASSUME \A v, w \in Workers : v = w, "start" \notin Ops
  PROVE  Spec => []StartedOncePerAssignment
<1>1. Finite /\ Cardinality(Workers) \in {0, 1}
  <2>1. CASE Workers = {}
    BY <2>1, FS_EmptySet DEF Finite
  <2>2. ASSUME NEW w \in Workers PROVE Finite /\ Cardinality(Workers) = 1
    <3>1. Workers = {w}
      OBVIOUS
    <3> QED
      BY <3>1, FS_Singleton DEF Finite
  <2> QED
    BY <2>1, <2>2
<1>2. IInv /\ StartsWithinQuota => StartedOncePerAssignment
  <2> SUFFICES ASSUME IInv, StartsWithinQuota, NEW t \in Tasks PROVE starts[t] <= assigns[t]
    BY DEF StartedOncePerAssignment
  <2>1. starts[t] \in Nat /\ assigns[t] \in Nat /\ starts[t] <= Quota(assigns[t])
    BY DEF IInv, RowsFit, StartsWithinQuota
  <2>2. Quota(assigns[t]) = assigns[t] * Cardinality(Workers)
    BY <1>1, <2>1 DEF Quota, StartCalls
  <2> QED
    BY <1>1, <2>1, <2>2
<1> QED
  BY <1>1, <1>2, InvariantHolds, StartsAreBounded, PTL

------------------------------------------------------------------------------
(* Mutual exclusion                                                          *)

In(a) == actor[a].pc \in InSection

\* Whoever is in an execution holds the lock of the task under its own name
LockInv ==
  /\ ExecutionExclusive
  /\ \A a \in Actors : In(a) => lock[actor[a].task] = actor[a].owner /\ actor[a].owner \in Owners

\* Nobody enters: a leaves the section, stays outside or goes on in it
LEMMA LockFrame ==
  ASSUME LockInv, NEW a \in Actors, OthersStay(a), lock' = lock,
         In(a)' => In(a) /\ actor'[a].task = actor[a].task /\ actor'[a].owner = actor[a].owner
  PROVE  LockInv'
<1>1. \A b \in Actors : In(b)' => In(b) /\ actor'[b].task = actor[b].task /\ actor'[b].owner = actor[b].owner
  BY DEF OthersStay, In
<1> QED
  BY <1>1 DEF LockInv, ExecutionExclusive, In

LEMMA LockExecute ==
  ASSUME IInv, LockInv, NEW a \in Actors, Execute(a)
  PROVE  LockInv'
<1>1. ASSUME AcquireExecutionLock(a) PROVE LockInv'
  <2>1. CASE lock[actor[a].task] # Free
    BY <1>1, <2>1, DoneLeaves, LockFrame DEF AcquireExecutionLock, In, InSection
  <2>2. CASE lock[actor[a].task] = Free
    <3>1. PICK t \in Tasks : t = actor[a].task
      BY <1>1 DEF AcquireExecutionLock, IInv, Fits
    <3>2. actor[a].owner \in Owners /\ Free \notin Owners
      BY <1>1, IdsAssumption DEF AcquireExecutionLock, IInv, Fits, Owners
    <3>3. MovesTo(a, "start") /\ ~In(a)
      BY <1>1, <2>2, GotoMovesTo DEF AcquireExecutionLock, In, InSection
    <3>4. lock' = [lock EXCEPT ![t] = actor[a].owner] /\ lock \in [Tasks -> Owners \cup {Free}]
      BY <1>1, <2>2, <3>1 DEF AcquireExecutionLock, IInv, RowsFit
    <3>5. \A b \in Actors \ {a} : In(b)' => In(b) /\ actor'[b] = actor[b] /\ actor[b].task # t
      BY <2>2, <3>1, <3>2, <3>3 DEF LockInv, MovesTo, OthersStay, In
    <3>6. actor'[a].task = t /\ actor'[a].owner = actor[a].owner
      BY <3>1, <3>3 DEF MovesTo
    <3>7. \A b \in Actors : In(b)' => lock'[actor'[b].task] = actor'[b].owner /\ actor'[b].owner \in Owners
      <4>1. lock'[t] = actor[a].owner
        BY <3>4
      <4>2. ASSUME NEW b \in Actors \ {a}, In(b)'
            PROVE  lock'[actor'[b].task] = actor'[b].owner /\ actor'[b].owner \in Owners
        BY <3>4, <3>5, <4>2 DEF LockInv
      <4> QED
        BY <3>2, <3>6, <4>1, <4>2
    <3>8. ExecutionExclusive'
      BY <3>5, <3>6 DEF LockInv, ExecutionExclusive, In
    <3> QED
      BY <3>7, <3>8 DEF LockInv
  <2> QED
    BY <2>1, <2>2
<1>2. ASSUME DeleteLock(a) PROVE LockInv'
  <2>1. OthersStay(a) /\ ~In(a)' /\ In(a)
    BY <1>2, DoneLeaves DEF DeleteLock, In, InSection
  <2>2. lock' = [lock EXCEPT ![actor[a].task] = Free]
    BY <1>2 DEF DeleteLock
  <2>3. \A b \in Actors : In(b)' => In(b) /\ actor'[b] = actor[b] /\ actor[b].task # actor[a].task
    BY <2>1 DEF LockInv, ExecutionExclusive, OthersStay, In
  <2>4. \A b \in Actors : In(b)' => lock'[actor'[b].task] = actor'[b].owner
    BY <2>2, <2>3 DEF LockInv, IInv, RowsFit
  <2> QED
    BY <2>3, <2>4 DEF LockInv, ExecutionExclusive, In
<1>3. ASSUME StartTaskExecution(a) \/ StartRefused(a) PROVE LockInv'
  BY <1>3, GotoMovesTo, DoneLeaves, LockFrame
  DEF StartTaskExecution, StartRefused, history, MovesTo, In, InSection
<1>4. ASSUME CompleteTaskExecution(a) \/ FailTaskExecution(a) \/ GetLock(a) PROVE LockInv'
  BY <1>4, GotoMovesTo, DoneLeaves, LockFrame
  DEF CompleteTaskExecution, FailTaskExecution, GetLock, MovesTo, In, InSection
<1> QED
  BY <1>1, <1>2, <1>3, <1>4 DEF Execute

LEMMA LockOthers ==
  ASSUME IInv, LockInv, Ops \cap {"complete", "fail"} = {}, NEW a \in Actors,
         \/ a \in Requests /\ (Receives(a) \/ PushExecution(a) \/ CommitRequest(a))
         \/ a \in Workers /\ (PopExecutionTask(a) \/ LoadTask(a) \/ ReloadTask(a))
  PROVE  LockInv'
<1>1. actor \in [Actors -> ActorType] /\ actor[a] \in ActorType
  BY DEF IInv
<1>2. ASSUME Receives(a) PROVE LockInv'
  <2>1. PICK op \in Endpoints, pc \in {"push", "lock", "commit"}, t \in Tasks,
             id \in Owners \cup {NoId}, cleared \in BOOLEAN, target \in Statuses :
          Receive(a, op, pc, t, id, cleared, target)
    <3>1. \A t \in Tasks, id \in ApiIds : ~CompleteTask(a, t, id) /\ ~FailTask(a, t, id)
      BY DEF CompleteTask, FailTask, Receive
    <3> QED
      BY <1>2, <3>1, Zenon DEF Receives, ClaimTask, ConfirmDispatch, StartTask, SetTaskStatus, Endpoints, Owners, Statuses
  <2>2. OthersStay(a) /\ actor'[a].pc \notin InSection /\ lock' = lock
    BY <1>1, <2>1 DEF Receive, OthersStay, InSection
  <2> QED
    BY <2>2, LockFrame DEF In
<1>3. ASSUME PushExecution(a) \/ CommitRequest(a) PROVE LockInv'
  BY <1>3, GotoMovesTo, DoneLeaves, LockFrame
  DEF PushExecution, CommitRequest, history, MovesTo, In, InSection
<1>4. ASSUME PopExecutionTask(a) PROVE LockInv'
  BY <1>1, <1>4, LockFrame DEF PopExecutionTask, Rest, OthersStay, In, InSection
<1>5. ASSUME LoadTask(a) \/ ReloadTask(a) PROVE LockInv'
  <2>1. OthersStay(a) /\ lock' = lock
    BY <1>1, <1>5 DEF LoadTask, ReloadTask, OthersStay
  <2>2. In(a)' => In(a) /\ actor'[a].task = actor[a].task /\ actor'[a].owner = actor[a].owner
    BY <1>1, <1>5 DEF LoadTask, ReloadTask, ActorType, In, InSection
  <2> QED
    BY <2>1, <2>2, LockFrame
<1> QED
  BY <1>2, <1>3, <1>4, <1>5

\* A handler dies, or the worker goes on with failing the task: nobody enters, and
\* the lock stays
LEMMA LockFailure ==
  ASSUME IInv, LockInv, Failure
  PROVE  LockInv'
<1>1. ASSUME NEW a \in Actors, Abort(a) PROVE LockInv'
  BY <1>1, DoneLeaves, LockFrame DEF Abort, In, InSection
<1>2. ASSUME NEW w \in Workers, DatabaseFails(w) PROVE LockInv'
  <2>1. w \in Actors
    BY DEF Actors
  <2> QED
    BY <1>2, <2>1, GotoMovesTo, LockFrame DEF DatabaseFails, MovesTo, In, InSection
<1> QED
  BY <1>1, <1>2 DEF Failure

\* Two processes are never inside an execution of the same task while locks do
\* not expire and nobody calls /complete or /fail, whoever dies and whatever fails
THEOREM Exclusive ==
  ASSUME Ops \cap {"complete", "fail"} = {}
  PROVE  NoExpirySpec => []ExecutionExclusive
<1>1. Init => LockInv
  BY DEF Init, LockInv, ExecutionExclusive, In, InSection, Rest
<1>2. IInv /\ LockInv /\ [NoFaultNext \/ Failure]_vars => LockInv'
  <2>1. ASSUME LockInv, UNCHANGED vars PROVE LockInv'
    BY <2>1 DEF LockInv, ExecutionExclusive, In, vars
  <2> QED
    BY <2>1, LockExecute, LockOthers, LockFailure DEF NoFaultNext, RequestStep, WorkerStep, Actors
<1>3. LockInv => ExecutionExclusive
  BY DEF LockInv
<1>4. [NoFaultNext \/ Failure]_vars => [Next]_vars
  BY DEF Next, Fault
<1>5. NoExpirySpec => Spec
  BY <1>4, PTL DEF NoExpirySpec, Spec
<1> QED
  BY <1>1, <1>2, <1>3, <1>5, InvariantHolds, PTL DEF NoExpirySpec

\* The runs without any fault are among them
COROLLARY ExclusiveWithoutFaults ==
  ASSUME Ops \cap {"complete", "fail"} = {}
  PROVE  NoFaultSpec => []ExecutionExclusive
<1>1. [NoFaultNext]_vars => [NoFaultNext \/ Failure]_vars
  OBVIOUS
<1>2. NoFaultSpec => NoExpirySpec
  BY <1>1, PTL DEF NoFaultSpec, NoExpirySpec
<1> QED
  BY <1>2, Exclusive, PTL
==============================================================================
