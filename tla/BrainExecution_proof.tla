------------------------ MODULE BrainExecution_proof ------------------------
(***************************************************************************)
(* Proofs about BrainExecution for every number of runs, items, workers,   *)
(* requests, plans and retries.                                            *)
(***************************************************************************)
EXTENDS BrainExecution, TLAPS

(***************************************************************************)
(* The inductive invariant, in three parts: what the database says of the  *)
(* approvals, where the items are, and what the requests in progress have  *)
(* read and are going to write.                                            *)
(***************************************************************************)

DatabaseInv ==
  /\ status \in [Runs -> States \cup {"NONE"}]
  /\ approved \in [Runs -> BOOLEAN]
  /\ done \subseteq Node
  /\ \A r \in Runs : status[r] \in PastApproval => approved[r]
  /\ \A n \in done : approved[n.run]

\* The columns no other part of the invariant is about
ColumnTypes ==
  /\ approval \in [Runs -> BOOLEAN]
  /\ plans \in [Runs -> SUBSET PlanIds]
  /\ usedPlans \subseteq PlanIds
  /\ approvedPlans \in [Runs -> SUBSET PlanIds]

\* A worker has an item exactly while it is in a call
BusyHasItem == \A w \in Workers : worker[w].pc = "idle" <=> worker[w].item = NoItem

\* Every item in the list or with a worker was pushed for a run
LiveItemHasRun ==
  /\ \A k \in DOMAIN queue : itemRun[queue[k]] # NoRun
  /\ \A w \in Workers : worker[w].item # NoItem => itemRun[worker[w].item] # NoRun

\* A worker that is about to put its item back is allowed to
RequeueHasRoom == \A w \in Workers : worker[w].pc = "requeue" => MayRetry(w)

\* The nodes a worker has before it belong to the run of its item
NodesOfOwnRun ==
  \A w \in Workers : \A n \in worker[w].todo \cup worker[w].pending :
     worker[w].item # NoItem /\ n.run = RunOf(w)

ItemInv ==
  /\ queue \in Seq(Items)
  /\ itemRun \in [Items -> Runs \cup {NoRun}]
  /\ attempt \in [Items -> 0..MaxRetry]
  /\ worker \in [Workers -> WorkerType]
  /\ BusyHasItem
  /\ ItemInOnePlace
  /\ LiveItemHasRun
  /\ RequeueHasRoom
  /\ NodesOfOwnRun
  /\ \A i \in Items : itemRun[i] # NoRun => approved[itemRun[i]]

\* A request in progress has read a row, and neither what it read nor what it
\* is going to write is ahead of the approval
RequestInv ==
  /\ request \in [Requests -> RequestType]
  /\ \A q \in Requests : request[q].op # "none" =>
       /\ request[q].run \in Runs
       /\ request[q].loaded \in States
       /\ request[q].loaded \in PastApproval => approved[request[q].run]
       /\ request[q].op = "start" /\ request[q].flag => request[q].loaded \in PastApproval
       /\ request[q].op = "started" => request[q].loaded \in PastApproval

IInv == DatabaseInv /\ ColumnTypes /\ ItemInv /\ RequestInv

\* An approval is never taken back
ApprovedGrows ==
  /\ approved' \in [Runs -> BOOLEAN]
  /\ \A r \in Runs : approved[r] => approved'[r]

LEMMA InvariantImpliesProperties ==
  IInv => TypeOK /\ ItemInOnePlace /\ NoExecutionWithoutApproval
BY DEF IInv, DatabaseInv, ColumnTypes, ItemInv, RequestInv, TypeOK, NoExecutionWithoutApproval

LEMMA InitEstablishesInvariant == Init => IInv
<1> SUFFICES ASSUME Init PROVE IInv
  OBVIOUS
<1>1. DatabaseInv /\ ColumnTypes
  BY DEF Init, DatabaseInv, ColumnTypes, PastApproval
<1>2. ItemInv
  BY MaxRetryAssumption, NoItemAssumption
  DEF Init, ItemInv, IdleWorker, WorkerType, PCs, BusyHasItem, ItemInOnePlace, InQueue,
      LiveItemHasRun, RequeueHasRoom, NodesOfOwnRun
<1>3. RequestInv
  BY DEF Init, RequestInv, IdleRequest, RequestType, Ops
<1> QED
  BY <1>1, <1>2, <1>3 DEF IInv

------------------------------------------------------------------------------
(* Steps that leave a part alone, or change it in one of a few ways          *)

LEMMA DatabaseFrame ==
  ASSUME DatabaseInv, ApprovedGrows, UNCHANGED <<status, done>>
  PROVE  DatabaseInv'
<1>1. \A n \in Node : n.run \in Runs
  BY DEF Node
<1> QED
  BY <1>1 DEF DatabaseInv, ApprovedGrows

LEMMA ItemFrame ==
  ASSUME ItemInv, ApprovedGrows, UNCHANGED <<redis, worker>>
  PROVE  ItemInv'
BY DEF ItemInv, ApprovedGrows, redis, BusyHasItem, ItemInOnePlace, InQueue, LiveItemHasRun,
       RequeueHasRoom, MayRetry, NodesOfOwnRun, RunOf

LEMMA RequestFrame ==
  ASSUME RequestInv, ApprovedGrows, UNCHANGED request
  PROVE  RequestInv'
BY DEF RequestInv, ApprovedGrows

\* A request ends
LEMMA RequestCloses ==
  ASSUME RequestInv, ApprovedGrows, NEW q \in Requests, Close(q)
  PROVE  RequestInv'
<1>1. IdleRequest \in RequestType /\ IdleRequest.op = "none"
  BY DEF IdleRequest, RequestType, Ops
<1> QED
  BY <1>1 DEF RequestInv, ApprovedGrows, Close

\* A request reads its run
LEMMA RequestOpens ==
  ASSUME DatabaseInv, ColumnTypes, RequestInv, NEW q \in Requests, NEW r \in Runs,
         NEW op \in Ops, NEW f \in BOOLEAN, Open(q, op, r, f), op # "started",
         op = "start" /\ f => status[r] \in PastApproval
  PROVE  RequestInv'
<1> DEFINE new == [op |-> op, run |-> r, loaded |-> status[r], flag |-> f, old |-> plans[r]]
<1>1. new \in RequestType /\ status[r] \in States
  BY DEF DatabaseInv, ColumnTypes, RequestType, Open
<1>2. request' = [request EXCEPT ![q] = new] /\ approved' = approved
  BY DEF Open, history
<1> HIDE DEF new
<1>3. /\ new.op = op /\ new.run = r /\ new.loaded = status[r] /\ new.flag = f
  BY DEF new
<1> QED
  BY <1>1, <1>2, <1>3 DEF RequestInv, DatabaseInv

\* A status is written that the approval covers
LEMMA StatusWritten ==
  ASSUME DatabaseInv, ApprovedGrows, NEW r \in Runs, NEW s, NEW v \in States \cup {"NONE"},
         WriteStatus(r, s, v), v \in PastApproval /\ v # s => approved'[r]
  PROVE  /\ status' \in [Runs -> States \cup {"NONE"}]
         /\ \A x \in Runs : status'[x] \in PastApproval => approved'[x]
BY DEF DatabaseInv, ApprovedGrows, WriteStatus

\* An item goes to the end of the list
Appended(i) ==
  /\ queue' \in Seq(Items)
  /\ DOMAIN queue' = DOMAIN queue \cup {Len(queue) + 1}
  /\ Len(queue) + 1 \notin DOMAIN queue
  /\ \A k \in DOMAIN queue : queue'[k] = queue[k]
  /\ queue'[Len(queue) + 1] = i

LEMMA AppendStep ==
  ASSUME queue \in Seq(Items), NEW i \in Items, queue' = Append(queue, i)
  PROVE  Appended(i)
<1>1. Len(queue) \in Nat /\ DOMAIN queue = 1..Len(queue)
  OBVIOUS
<1>2. queue' \in Seq(Items) /\ Len(queue') = Len(queue) + 1
  OBVIOUS
<1>3. DOMAIN queue' = 1..(Len(queue) + 1)
  BY <1>2
<1>4. \A k \in 1..Len(queue) : queue'[k] = queue[k]
  OBVIOUS
<1>5. queue'[Len(queue) + 1] = i
  OBVIOUS
<1>6. 1..(Len(queue) + 1) = 1..Len(queue) \cup {Len(queue) + 1}
  BY <1>1
<1> QED
  BY <1>1, <1>2, <1>3, <1>4, <1>5, <1>6 DEF Appended

\* A worker lets go of its item
LEMMA WorkerReleases ==
  ASSUME ItemInv, NEW w \in Workers, Release(w), UNCHANGED <<redis, approved>>
  PROVE  ItemInv'
<1>1. /\ IdleWorker \in WorkerType /\ IdleWorker.pc = "idle" /\ IdleWorker.item = NoItem
      /\ IdleWorker.todo = {} /\ IdleWorker.pending = {}
  BY DEF IdleWorker, WorkerType, PCs
<1>2. worker' = [worker EXCEPT ![w] = IdleWorker]
  BY DEF Release
<1> QED
  BY <1>1, <1>2
  DEF ItemInv, redis, BusyHasItem, ItemInOnePlace, InQueue, LiveItemHasRun,
      RequeueHasRoom, MayRetry, NodesOfOwnRun, RunOf

\* A worker goes on with its item
LEMMA WorkerGoesOn ==
  ASSUME ItemInv, NEW w \in Workers, NEW new \in WorkerType,
         worker[w].pc # "idle", new.pc # "idle", new.item = worker[w].item,
         new.pc = "requeue" => MayRetry(w),
         \A n \in new.todo \cup new.pending : n.run = RunOf(w),
         worker' = [worker EXCEPT ![w] = new], UNCHANGED <<redis, approved>>
  PROVE  ItemInv'
BY DEF ItemInv, redis, BusyHasItem, ItemInOnePlace, InQueue, LiveItemHasRun,
       RequeueHasRoom, MayRetry, NodesOfOwnRun, RunOf

\* A busy worker's item is that of an approved run
LEMMA BusyWorker ==
  ASSUME ItemInv, NEW w \in Workers, worker[w].pc # "idle"
  PROVE  /\ worker[w].item \in Items
         /\ RunOf(w) \in Runs
         /\ approved[RunOf(w)]
BY DEF ItemInv, WorkerType, BusyHasItem, LiveItemHasRun, RunOf

------------------------------------------------------------------------------
(* API handlers                                                              *)

LEMMA AnalyzeGoalStep ==
  ASSUME IInv, NEW r \in Runs, AnalyzeGoal(r)
  PROVE  IInv'
<1>1. ApprovedGrows /\ UNCHANGED <<redis, worker, request>>
  BY DEF IInv, DatabaseInv, AnalyzeGoal, history, ApprovedGrows
<1>2. DatabaseInv' /\ ColumnTypes'
  BY <1>1 DEF IInv, DatabaseInv, ColumnTypes, AnalyzeGoal, history, States, PastApproval
<1> QED
  BY <1>1, <1>2, ItemFrame, RequestFrame DEF IInv

LEMMA CreatePlanNewRunStep ==
  ASSUME IInv, NEW r \in Runs, NEW p \in PlanIds, NEW f \in BOOLEAN, CreatePlanNewRun(r, p, f)
  PROVE  IInv'
<1>1. ApprovedGrows /\ UNCHANGED <<redis, worker, request>>
  BY DEF IInv, DatabaseInv, CreatePlanNewRun, history, ApprovedGrows
<1>2. DatabaseInv' /\ ColumnTypes'
  BY DEF IInv, DatabaseInv, ColumnTypes, CreatePlanNewRun, history, States, PastApproval
<1> QED
  BY <1>1, <1>2, ItemFrame, RequestFrame DEF IInv

\* A handler that has only read its run
LEMMA OpenStep ==
  ASSUME IInv, NEW q \in Requests, NEW r \in Runs, NEW op \in Ops, NEW f \in BOOLEAN,
         Open(q, op, r, f), op # "started", op = "start" /\ f => status[r] \in PastApproval
  PROVE  IInv'
<1>1. ApprovedGrows /\ UNCHANGED <<db, redis, worker, approvedPlans>>
  BY DEF IInv, DatabaseInv, Open, history, ApprovedGrows
<1>2. DatabaseInv'
  BY <1>1, DatabaseFrame DEF IInv, db
<1>3. ColumnTypes'
  BY <1>1 DEF IInv, ColumnTypes, db
<1>4. RequestInv'
  BY RequestOpens DEF IInv
<1> QED
  BY <1>1, <1>2, <1>3, <1>4, ItemFrame DEF IInv

LEMMA CreatePlanLoadStep ==
  ASSUME IInv, NEW q \in Requests, NEW r \in Runs, NEW f \in BOOLEAN, CreatePlanLoad(q, r, f)
  PROVE  IInv'
BY OpenStep DEF CreatePlanLoad, Ops

LEMMA ApproveRunLoadStep ==
  ASSUME IInv, NEW q \in Requests, NEW r \in Runs, NEW f \in BOOLEAN, NEW d \in Decisions,
         ApproveRunLoad(q, r, f, d)
  PROVE  IInv'
<1>1. Open(q, "block", r, f) \/ Open(q, "approve", r, f) \/ Open(q, "note", r, f)
  BY DEF ApproveRunLoad
<1> QED
  BY <1>1, OpenStep DEF Ops

LEMMA StartLoadStep ==
  ASSUME IInv, NEW q \in Requests, NEW r \in Runs, StartLoad(q, r)
  PROVE  IInv'
<1>1. CASE ~approval[r] /\ Open(q, "start", r, FALSE)
  BY <1>1, OpenStep DEF Ops
<1>2. CASE status[r] # "NONE" /\ MayTransition(status[r], "QUEUED") /\ Open(q, "start", r, TRUE)
  <2>1. status[r] \in States
    BY <1>2 DEF IInv, DatabaseInv
  <2>2. status[r] \in PastApproval
    BY <1>2, <2>1 DEF MayTransition, AllowedTransitions, States, PastApproval
  <2> QED
    BY <1>2, <2>2, OpenStep DEF Ops
<1> QED
  BY <1>1, <1>2 DEF StartLoad

LEMMA CreatePlanCommitStep ==
  ASSUME IInv, NEW q \in Requests, NEW p \in PlanIds, CreatePlanCommit(q, p)
  PROVE  IInv'
<1>1. ApprovedGrows /\ UNCHANGED <<redis, worker, approved, approvedPlans>> /\ Close(q)
  BY DEF IInv, DatabaseInv, CreatePlanCommit, history, ApprovedGrows
<1>2. request[q].run \in Runs /\ request[q] \in RequestType
  BY DEF IInv, RequestInv, CreatePlanCommit
<1>3. WriteStatus(request[q].run, request[q].loaded, "WAIT_APPROVAL")
  BY DEF CreatePlanCommit
<1>4. /\ status' \in [Runs -> States \cup {"NONE"}]
      /\ \A x \in Runs : status'[x] \in PastApproval => approved'[x]
  BY <1>1, <1>2, <1>3, StatusWritten DEF IInv, States, PastApproval
<1>5. DatabaseInv'
  BY <1>1, <1>4 DEF IInv, DatabaseInv, CreatePlanCommit
<1>6. ColumnTypes'
  BY <1>1, <1>2 DEF IInv, ColumnTypes, CreatePlanCommit, RequestType
<1> QED
  BY <1>1, <1>5, <1>6, ItemFrame, RequestCloses DEF IInv

LEMMA ApproveRunCommitStep ==
  ASSUME IInv, NEW q \in Requests, ApproveRunCommit(q)
  PROVE  IInv'
<1> DEFINE r == request[q].run
           v == CASE request[q].op = "block"   -> "WAIT_APPROVAL"
                  [] request[q].op = "approve" -> "APPROVED"
                  [] request[q].op = "note"    -> request[q].loaded
<1>1. UNCHANGED <<plans, usedPlans, done, redis, worker>> /\ Close(q)
  BY DEF ApproveRunCommit
<1>2. /\ r \in Runs /\ request[q] \in RequestType /\ request[q].loaded \in States
      /\ request[q].op \in {"block", "approve", "note"}
  BY DEF IInv, RequestInv, ApproveRunCommit
<1>3. /\ ApprovedGrows
      /\ approvedPlans' \in [Runs -> SUBSET PlanIds]
      /\ request[q].op = "approve" => approved'[r]
  <2>1. approved \in [Runs -> BOOLEAN] /\ approvedPlans \in [Runs -> SUBSET PlanIds]
    BY DEF IInv, DatabaseInv, ColumnTypes
  <2>2. CASE request[q].op = "approve"
    <3>1. /\ approved' = [approved EXCEPT ![r] = TRUE]
          /\ approvedPlans' = [approvedPlans EXCEPT ![r] = @ \cup request[q].old]
      BY <2>2 DEF ApproveRunCommit
    <3>2. request[q].old \subseteq PlanIds
      BY <1>2 DEF RequestType
    <3>3. approvedPlans' \in [Runs -> SUBSET PlanIds]
      BY <1>2, <2>1, <3>1, <3>2
    <3> QED
      BY <1>2, <2>1, <3>1, <3>3 DEF ApprovedGrows
  <2>3. CASE request[q].op # "approve"
    BY <2>1, <2>3 DEF ApproveRunCommit, history, ApprovedGrows
  <2> QED
    BY <2>2, <2>3
<1>4. WriteStatus(r, request[q].loaded, v)
  BY DEF ApproveRunCommit
<1>5. /\ v \in States
      /\ v \in PastApproval /\ v # request[q].loaded => approved'[r]
  BY <1>2, <1>3 DEF States, PastApproval
<1> HIDE DEF v
<1>6. /\ status' \in [Runs -> States \cup {"NONE"}]
      /\ \A x \in Runs : status'[x] \in PastApproval => approved'[x]
  BY <1>2, <1>3, <1>4, <1>5, StatusWritten DEF IInv
<1>7. \A n \in done : n.run \in Runs
  BY DEF IInv, DatabaseInv, Node
<1>8. DatabaseInv'
  BY <1>1, <1>3, <1>6, <1>7 DEF IInv, DatabaseInv, ApprovedGrows
<1>9. ColumnTypes'
  BY <1>1, <1>2, <1>3 DEF IInv, ColumnTypes, ApproveRunCommit, RequestType
<1> QED
  BY <1>1, <1>3, <1>8, <1>9, ItemFrame, RequestCloses DEF IInv

\* The item is new, so it is in no other place
LEMMA EnqueueExecutionStep ==
  ASSUME IInv, NEW q \in Requests, NEW i \in Items, EnqueueExecution(q, i)
  PROVE  IInv'
<1>1. ApprovedGrows /\ UNCHANGED <<db, attempt, worker, approved, approvedPlans>>
  BY DEF IInv, DatabaseInv, EnqueueExecution, history, ApprovedGrows
<1>2. DatabaseInv'
  BY <1>1, DatabaseFrame DEF IInv, db
<1>3. ColumnTypes'
  BY <1>1 DEF IInv, ColumnTypes, db
<1>4. request[q].run \in Runs /\ approved[request[q].run] /\ request[q].run # NoRun
  BY NoRunAssumption DEF IInv, RequestInv, EnqueueExecution
<1>5. RequestInv'
  <2> DEFINE new == [request[q] EXCEPT !.op = "started"]
  <2>1. /\ RequestInv /\ approved' = approved /\ request[q].op = "start" /\ request[q].flag
        /\ request' = [request EXCEPT ![q] = new]
    BY <1>1 DEF IInv, EnqueueExecution
  <2>2. /\ new \in RequestType /\ new.op = "started" /\ new.run = request[q].run
        /\ new.loaded = request[q].loaded
    BY <2>1 DEF RequestInv, RequestType, Ops
  <2> HIDE DEF new
  <2>3. /\ request' \in [Requests -> RequestType] /\ request'[q] = new
        /\ \A p \in Requests \ {q} : request'[p] = request[p]
    BY <2>1, <2>2 DEF RequestInv
  <2> QED
    BY <2>1, <2>2, <2>3 DEF RequestInv
<1>6. Appended(i)
  BY AppendStep DEF IInv, ItemInv, EnqueueExecution
<1>7. /\ \A k \in DOMAIN queue : queue[k] # i
      /\ \A w \in Workers : worker[w].item # i
  BY NoItemAssumption DEF IInv, ItemInv, LiveItemHasRun, EnqueueExecution
<1>8. /\ itemRun' \in [Items -> Runs \cup {NoRun}]
      /\ itemRun'[i] = request[q].run
      /\ \A j \in Items \ {i} : itemRun'[j] = itemRun[j]
  BY <1>4 DEF IInv, ItemInv, EnqueueExecution
<1>9. ItemInOnePlace'
  BY <1>1, <1>6, <1>7 DEF IInv, ItemInv, ItemInOnePlace, InQueue, Appended
<1>10. LiveItemHasRun'
  <2>1. \A k \in DOMAIN queue : queue[k] \in Items
    BY DEF IInv, ItemInv
  <2>2. \A k \in DOMAIN queue' : itemRun'[queue'[k]] # NoRun
    BY <1>4, <1>6, <1>7, <1>8, <2>1 DEF IInv, ItemInv, LiveItemHasRun, Appended
  <2>3. \A w \in Workers : worker'[w].item # NoItem => itemRun'[worker'[w].item] # NoRun
    BY <1>1, <1>7, <1>8 DEF IInv, ItemInv, LiveItemHasRun, WorkerType
  <2> QED
    BY <2>2, <2>3 DEF LiveItemHasRun
<1>11. (BusyHasItem /\ RequeueHasRoom)'
  BY <1>1 DEF IInv, ItemInv, BusyHasItem, RequeueHasRoom, MayRetry
<1>12. NodesOfOwnRun'
  BY <1>1, <1>7, <1>8 DEF IInv, ItemInv, NodesOfOwnRun, RunOf, WorkerType
<1>13. ItemInv'
  BY <1>1, <1>4, <1>6, <1>8, <1>9, <1>10, <1>11, <1>12 DEF IInv, ItemInv, Appended
<1> QED
  BY <1>2, <1>3, <1>5, <1>13 DEF IInv

LEMMA StartCommitStep ==
  ASSUME IInv, NEW q \in Requests, StartCommit(q)
  PROVE  IInv'
<1>1. ApprovedGrows /\ UNCHANGED <<approval, plans, usedPlans, done, redis, worker, approved, approvedPlans>>
  BY DEF IInv, DatabaseInv, StartCommit, history, ApprovedGrows
<1>2. /\ request[q].run \in Runs
      /\ request[q].op = "started" => approved'[request[q].run]
  BY <1>1 DEF IInv, RequestInv, StartCommit
<1>3. /\ status' \in [Runs -> States \cup {"NONE"}]
      /\ \A x \in Runs : status'[x] \in PastApproval => approved'[x]
  <2>1. CASE request[q].op = "started" /\ WriteStatus(request[q].run, request[q].loaded, "QUEUED")
    BY <1>1, <1>2, <2>1, StatusWritten DEF IInv, States
  <2>2. CASE WriteStatus(request[q].run, request[q].loaded, "WAIT_APPROVAL")
    BY <1>1, <1>2, <2>2, StatusWritten DEF IInv, States, PastApproval
  <2> QED
    BY <2>1, <2>2 DEF StartCommit
<1>4. DatabaseInv'
  BY <1>1, <1>3 DEF IInv, DatabaseInv
<1>5. ColumnTypes'
  BY <1>1 DEF IInv, ColumnTypes
<1> QED
  BY <1>1, <1>4, <1>5, ItemFrame, RequestCloses DEF IInv, StartCommit

LEMMA RequestAbortStep ==
  ASSUME IInv, NEW q \in Requests, RequestAbort(q)
  PROVE  IInv'
<1>1. ApprovedGrows /\ UNCHANGED <<db, redis, worker, approvedPlans>> /\ Close(q)
  BY DEF IInv, DatabaseInv, RequestAbort, history, ApprovedGrows
<1>2. DatabaseInv'
  BY <1>1, DatabaseFrame DEF IInv, db
<1>3. ColumnTypes'
  BY <1>1 DEF IInv, ColumnTypes, db
<1> QED
  BY <1>1, <1>2, <1>3, ItemFrame, RequestCloses DEF IInv

------------------------------------------------------------------------------
(* The worker                                                                *)

\* The parts a worker's step leaves to the frame lemmas
LEMMA WorkerFrame ==
  ASSUME IInv, UNCHANGED <<approval, plans, usedPlans, request, history>>
  PROVE  ApprovedGrows /\ approved' = approved /\ ColumnTypes' /\ RequestInv'
<1>1. ApprovedGrows /\ approved' = approved
  BY DEF IInv, DatabaseInv, ApprovedGrows, history
<1> QED
  BY <1>1, RequestFrame DEF IInv, ColumnTypes, history

\* A step that touches neither the run nor its nodes
LEMMA WorkerReadsStep ==
  ASSUME IInv, UNCHANGED <<db, request, history>>, ItemInv'
  PROVE  IInv'
BY WorkerFrame, DatabaseFrame DEF IInv, db

\* What a worker writes is covered by the approval its item needed
LEMMA WorkerWrites ==
  ASSUME IInv, NEW w \in Workers, worker[w].pc # "idle", UNCHANGED history,
         NEW v \in States \cup {"NONE"}, Flush(w, v)
  PROVE  DatabaseInv'
<1>1. RunOf(w) \in Runs /\ approved[RunOf(w)] /\ worker[w].pending \subseteq Node
  BY BusyWorker DEF IInv, ItemInv, WorkerType
<1>2. ApprovedGrows /\ approved' = approved
  BY DEF IInv, DatabaseInv, ApprovedGrows, history
<1>3. WriteStatus(RunOf(w), worker[w].loaded, v) /\ done' = done \cup worker[w].pending
  BY DEF Flush
<1>4. /\ status' \in [Runs -> States \cup {"NONE"}]
      /\ \A x \in Runs : status'[x] \in PastApproval => approved'[x]
  BY <1>1, <1>2, <1>3, StatusWritten DEF IInv
<1>5. \A n \in worker[w].pending : approved[n.run]
  BY <1>1 DEF IInv, ItemInv, NodesOfOwnRun
<1> QED
  BY <1>1, <1>2, <1>3, <1>4, <1>5 DEF IInv, DatabaseInv

\* A worker goes to another step of its call
LEMMA GotoKeepsItem ==
  ASSUME ItemInv, NEW w \in Workers, NEW pc \in PCs, worker[w].pc # "idle", pc # "idle",
         pc = "requeue" => MayRetry(w), Goto(w, pc), UNCHANGED <<redis, approved>>
  PROVE  ItemInv'
<1> DEFINE new == [worker[w] EXCEPT !.pc = pc]
<1>1. worker[w] \in WorkerType /\ worker' = [worker EXCEPT ![w] = new]
  BY DEF ItemInv, Goto
<1>2. /\ new \in WorkerType /\ new.item = worker[w].item /\ new.pc = pc
      /\ new.todo = worker[w].todo /\ new.pending = worker[w].pending
  BY <1>1 DEF WorkerType
<1> HIDE DEF new
<1> QED
  BY <1>1, <1>2, WorkerGoesOn DEF ItemInv, NodesOfOwnRun

LEMMA GotoStep ==
  ASSUME IInv, NEW w \in Workers, NEW pc \in PCs \ {"idle", "requeue"}, worker[w].pc # "idle",
         Goto(w, pc), UNCHANGED <<db, redis, request, history, approved>>
  PROVE  IInv'
BY GotoKeepsItem, WorkerReadsStep DEF IInv

\* The head of the list moves to the worker
LEMMA DequeueExecutionStep ==
  ASSUME IInv, NEW w \in Workers, DequeueExecution(w)
  PROVE  IInv'
<1> DEFINE h   == Head(queue)
           new == [IdleWorker EXCEPT !.pc = "popped", !.item = h]
<1>1. UNCHANGED <<db, itemRun, attempt, request, history, approved>>
  BY DEF DequeueExecution, history
<1>2. queue \in Seq(Items) /\ queue # <<>>
  BY DEF IInv, ItemInv, DequeueExecution
<1>3. /\ Len(queue) \in Nat \ {0} /\ DOMAIN queue = 1..Len(queue)
      /\ h = queue[1] /\ h \in Items
  BY <1>2
<1>4. /\ queue' \in Seq(Items) /\ DOMAIN queue' = 1..(Len(queue) - 1)
      /\ \A k \in DOMAIN queue' : queue'[k] = queue[k + 1]
  BY <1>2 DEF DequeueExecution
<1>5. /\ \A k \in DOMAIN queue' : k + 1 \in DOMAIN queue /\ k + 1 # 1
      /\ 1 \in DOMAIN queue
  BY <1>3, <1>4
<1>6. /\ new \in WorkerType /\ new.pc = "popped" /\ new.item = h
      /\ new.todo = {} /\ new.pending = {}
  BY <1>3 DEF IdleWorker, WorkerType, PCs
<1>7. worker' = [worker EXCEPT ![w] = new] /\ worker \in [Workers -> WorkerType]
  BY DEF IInv, ItemInv, DequeueExecution
<1> HIDE DEF h, new
<1>8. h # NoItem /\ \A v \in Workers : worker[v].item # h
  BY <1>3, <1>5, NoItemAssumption DEF IInv, ItemInv, ItemInOnePlace, InQueue
<1>9. /\ worker'[w] = new
      /\ \A v \in Workers \ {w} : worker'[v] = worker[v]
      /\ worker' \in [Workers -> WorkerType]
  BY <1>6, <1>7
<1>10. \A k \in DOMAIN queue' : queue'[k] # h
  BY <1>3, <1>4, <1>5 DEF IInv, ItemInv, ItemInOnePlace
<1>11. ItemInOnePlace'
  <2>1. \A j, k \in DOMAIN queue' : queue'[j] = queue'[k] => j = k
    <3>1. SUFFICES ASSUME NEW j \in DOMAIN queue', NEW k \in DOMAIN queue', queue'[j] = queue'[k]
                   PROVE  j = k
      OBVIOUS
    <3>2. j + 1 = k + 1
      BY <1>4, <1>5, <3>1 DEF IInv, ItemInv, ItemInOnePlace
    <3> QED
      BY <1>4, <3>2
  <2>2. \A v \in Workers : \A k \in DOMAIN queue' : queue'[k] # worker'[v].item
    <3>1. SUFFICES ASSUME NEW v \in Workers, NEW k \in DOMAIN queue'
                   PROVE  queue'[k] # worker'[v].item
      OBVIOUS
    <3>2. CASE v = w
      BY <1>6, <1>9, <1>10, <3>2
    <3>3. CASE v # w
      <4>1. worker'[v].item = worker[v].item /\ queue'[k] = queue[k + 1] /\ k + 1 \in DOMAIN queue
        BY <1>4, <1>5, <1>9, <3>3
      <4>2. queue[k + 1] # NoItem
        BY <1>2, <4>1, NoItemAssumption
      <4> QED
        BY <4>1, <4>2 DEF IInv, ItemInv, ItemInOnePlace, InQueue
    <3> QED
      BY <3>2, <3>3
  <2>3. \A u, v \in Workers :
           worker'[u].item = worker'[v].item /\ worker'[u].item # NoItem => u = v
    <3>1. /\ ItemInOnePlace /\ new.item = h
          /\ \A v \in Workers \ {w} : worker[v].item # h
      BY <1>6, <1>8 DEF IInv, ItemInv
    <3>2. ASSUME NEW u \in Workers, NEW v \in Workers,
                 worker'[u].item = worker'[v].item, worker'[u].item # NoItem
          PROVE  u = v
      <4>1. CASE u # w /\ v # w
        BY <1>9, <3>1, <3>2, <4>1 DEF ItemInOnePlace
      <4>2. CASE u = w \/ v = w
        BY <1>9, <3>1, <3>2, <4>2
      <4> QED
        BY <4>1, <4>2
    <3> QED
      BY <3>2
  <2> QED
    BY <2>1, <2>2, <2>3 DEF ItemInOnePlace, InQueue
<1>12. LiveItemHasRun'
  <2>1. \A k \in DOMAIN queue' : itemRun'[queue'[k]] # NoRun
    BY <1>1, <1>4, <1>5 DEF IInv, ItemInv, LiveItemHasRun
  <2>2. itemRun[h] # NoRun
    BY <1>3, <1>5 DEF IInv, ItemInv, LiveItemHasRun
  <2>3. \A v \in Workers : worker'[v].item # NoItem => itemRun'[worker'[v].item] # NoRun
    BY <1>1, <1>6, <1>9, <2>2 DEF IInv, ItemInv, LiveItemHasRun
  <2> QED
    BY <2>1, <2>3 DEF LiveItemHasRun
<1>13. BusyHasItem' /\ RequeueHasRoom' /\ NodesOfOwnRun'
  <2>1. BusyHasItem'
    BY <1>6, <1>8, <1>9 DEF IInv, ItemInv, BusyHasItem
  <2>2. RequeueHasRoom'
    BY <1>1, <1>6, <1>9 DEF IInv, ItemInv, RequeueHasRoom, MayRetry
  <2>3. NodesOfOwnRun'
    BY <1>1, <1>6, <1>9 DEF IInv, ItemInv, NodesOfOwnRun, RunOf
  <2> QED
    BY <2>1, <2>2, <2>3
<1>14. ItemInv'
  BY <1>1, <1>4, <1>9, <1>11, <1>12, <1>13 DEF IInv, ItemInv
<1> QED
  BY <1>1, <1>14, WorkerReadsStep

LEMMA LoadRunStep ==
  ASSUME IInv, NEW w \in Workers, LoadRun(w)
  PROVE  IInv'
<1>1. UNCHANGED <<db, redis, request, history, approved>>
  BY DEF LoadRun, history
<1>2. CASE Release(w)
  BY <1>1, <1>2, WorkerReleases, WorkerReadsStep DEF IInv
<1>3. CASE Goto(w, "checked")
  BY <1>1, <1>3, GotoStep DEF LoadRun, PCs
<1> QED
  BY <1>2, <1>3 DEF LoadRun

LEMMA CheckApprovalStep ==
  ASSUME IInv, NEW w \in Workers, CheckApproval(w)
  PROVE  IInv'
<1>1. UNCHANGED <<db, redis, request, history, approved>>
  BY DEF CheckApproval, history
<1>2. Goto(w, "claimed") \/ Goto(w, "blocking")
  BY DEF CheckApproval
<1> QED
  BY <1>1, <1>2, GotoStep DEF CheckApproval, PCs

LEMMA CommitBlockedStep ==
  ASSUME IInv, NEW w \in Workers, CommitBlocked(w)
  PROVE  IInv'
<1>1. UNCHANGED <<approval, plans, usedPlans, done, redis, request, history, approved>>
  BY DEF CommitBlocked, history
<1>2. RunOf(w) \in Runs
  BY BusyWorker DEF IInv, CommitBlocked
<1>3. ApprovedGrows /\ ColumnTypes' /\ RequestInv'
  BY <1>1, WorkerFrame
<1>4. /\ status' \in [Runs -> States \cup {"NONE"}]
      /\ \A x \in Runs : status'[x] \in PastApproval => approved'[x]
  BY <1>2, <1>3, StatusWritten DEF IInv, CommitBlocked, States, PastApproval
<1>5. DatabaseInv'
  BY <1>1, <1>4 DEF IInv, DatabaseInv
<1> QED
  BY <1>1, <1>3, <1>5, WorkerReleases DEF IInv, CommitBlocked

LEMMA StartNodesStep ==
  ASSUME IInv, NEW w \in Workers, StartNodes(w)
  PROVE  IInv'
<1> DEFINE s   == status[RunOf(w)]
           pc  == IF MayTransition(s, "RUNNING") THEN "started" ELSE "failing"
           se  == IF MayTransition(s, "RUNNING") THEN "RUNNING" ELSE s
           new == [worker[w] EXCEPT !.pc = pc, !.loaded = s, !.sess = se, !.kind = "FAILED"]
<1>1. UNCHANGED <<db, redis, request, history, approved>> /\ worker[w].pc = "claimed"
  BY DEF StartNodes, history
<1>2. worker' = [worker EXCEPT ![w] = new]
  BY DEF StartNodes
<1>3. s \in States \cup {"NONE"} /\ worker[w] \in WorkerType
  BY <1>1, BusyWorker DEF IInv, ItemInv, DatabaseInv
<1>a. pc \in {"started", "failing"} /\ se \in States \cup {"NONE"}
  BY <1>3 DEF States
<1> HIDE DEF s, pc, se
<1>4. /\ new \in WorkerType /\ new.item = worker[w].item /\ new.pc \in {"started", "failing"}
      /\ new.todo = worker[w].todo /\ new.pending = worker[w].pending
  BY <1>3, <1>a DEF WorkerType, PCs
<1> HIDE DEF new
<1>5. ItemInv'
  BY <1>1, <1>2, <1>4, WorkerGoesOn DEF IInv, ItemInv, NodesOfOwnRun
<1> QED
  BY <1>1, <1>5, WorkerReadsStep

LEMMA LoadNodesStep ==
  ASSUME IInv, NEW w \in Workers, LoadNodes(w)
  PROVE  IInv'
<1> DEFINE new == [worker[w] EXCEPT !.pc = "loop", !.todo = NodesOf(RunOf(w))]
<1>1. UNCHANGED <<db, redis, request, history, approved>> /\ worker[w].pc = "started"
  BY DEF LoadNodes, history
<1>2. worker' = [worker EXCEPT ![w] = new]
  BY DEF LoadNodes
<1>3. worker[w] \in WorkerType /\ NodesOf(RunOf(w)) \subseteq Node
  BY DEF IInv, ItemInv, NodesOf
<1>4. /\ new \in WorkerType /\ new.item = worker[w].item /\ new.pc = "loop"
      /\ new.todo = NodesOf(RunOf(w)) /\ new.pending = worker[w].pending
  BY <1>3 DEF WorkerType, PCs
<1>5. \A n \in NodesOf(RunOf(w)) : n.run = RunOf(w)
  BY DEF NodesOf
<1> HIDE DEF new
<1>6. ItemInv'
  BY <1>1, <1>2, <1>4, <1>5, WorkerGoesOn DEF IInv, ItemInv, NodesOfOwnRun
<1> QED
  BY <1>1, <1>6, WorkerReadsStep

LEMMA BeginNodeStep ==
  ASSUME IInv, NEW w \in Workers, BeginNode(w)
  PROVE  IInv'
<1>1. /\ UNCHANGED <<approval, plans, usedPlans, redis, request, history, approved>>
      /\ worker[w].pc = "loop"
  BY DEF BeginNode, history
<1>2. CASE Release(w) /\ UNCHANGED <<status, done>>
  BY <1>1, <1>2, WorkerReleases, WorkerReadsStep DEF IInv, db
<1>3. CASE /\ Flush(w, worker[w].sess)
           /\ worker' = [worker EXCEPT ![w].pc = "fetch", ![w].pending = {}]
  <2> DEFINE new == [worker[w] EXCEPT !.pc = "fetch", !.pending = {}]
  <2>1. worker[w] \in WorkerType
    BY DEF IInv, ItemInv
  <2>2. worker[w].sess \in States \cup {"NONE"}
    BY <2>1 DEF WorkerType
  <2>3. DatabaseInv'
    BY <1>1, <1>3, <2>2, WorkerWrites
  <2>4. /\ new \in WorkerType /\ new.item = worker[w].item /\ new.pc = "fetch"
        /\ new.todo = worker[w].todo /\ new.pending = {}
    BY <2>1 DEF WorkerType, PCs
  <2>5. worker' = [worker EXCEPT ![w] = new]
    BY <1>3
  <2> HIDE DEF new
  <2>6. ItemInv'
    BY <1>1, <2>4, <2>5, WorkerGoesOn DEF IInv, ItemInv, NodesOfOwnRun
  <2> QED
    BY <1>1, <2>3, <2>6, WorkerFrame DEF IInv
<1> QED
  BY <1>2, <1>3 DEF BeginNode

LEMMA ExecuteNodeStep ==
  ASSUME IInv, NEW w \in Workers, NEW n \in worker[w].todo, ExecuteNode(w, n)
  PROVE  IInv'
<1> DEFINE s    == status[RunOf(w)]
           ran  == [worker[w] EXCEPT !.pc = "loop", !.loaded = s, !.sess = s,
                      !.todo = @ \ {n}, !.pending = IF n \in done THEN {} ELSE {n}]
           gone == [worker[w] EXCEPT !.pc = "failing", !.loaded = s, !.sess = s]
<1>1. UNCHANGED <<db, redis, request, history, approved>> /\ worker[w].pc = "fetch"
  BY DEF ExecuteNode, history
<1>2. \/ worker' = [worker EXCEPT ![w] = ran]
      \/ worker' = [worker EXCEPT ![w] = gone]
  BY DEF ExecuteNode
<1>3. /\ s \in States \cup {"NONE"} /\ worker[w] \in WorkerType /\ n \in Node
      /\ n.run = RunOf(w)
  BY <1>1, BusyWorker DEF IInv, ItemInv, DatabaseInv, WorkerType, NodesOfOwnRun
<1> HIDE DEF s
<1>4. /\ ran \in WorkerType /\ ran.item = worker[w].item /\ ran.pc = "loop"
      /\ ran.todo \subseteq worker[w].todo /\ ran.pending \subseteq {n}
  BY <1>3 DEF WorkerType, PCs
<1>5. /\ gone \in WorkerType /\ gone.item = worker[w].item /\ gone.pc = "failing"
      /\ gone.todo = worker[w].todo /\ gone.pending = worker[w].pending
  BY <1>3 DEF WorkerType, PCs
<1> HIDE DEF ran, gone
<1>6. CASE worker' = [worker EXCEPT ![w] = ran]
  <2>1. \A m \in ran.todo \cup ran.pending : m.run = RunOf(w)
    BY <1>3, <1>4 DEF IInv, ItemInv, NodesOfOwnRun
  <2> QED
    BY <1>1, <1>4, <1>6, <2>1, WorkerGoesOn, WorkerReadsStep DEF IInv
<1>7. CASE worker' = [worker EXCEPT ![w] = gone]
  <2>1. \A m \in gone.todo \cup gone.pending : m.run = RunOf(w)
    BY <1>5 DEF IInv, ItemInv, NodesOfOwnRun
  <2> QED
    BY <1>1, <1>5, <1>7, <2>1, WorkerGoesOn, WorkerReadsStep DEF IInv
<1> QED
  BY <1>2, <1>6, <1>7

LEMMA CompleteExecutionStep ==
  ASSUME IInv, NEW w \in Workers, CompleteExecution(w)
  PROVE  IInv'
<1>1. /\ UNCHANGED <<approval, plans, usedPlans, redis, request, history, approved>>
      /\ worker[w].pc = "loop"
  BY DEF CompleteExecution, history
<1>2. CASE Release(w) /\ UNCHANGED <<status, done>>
  BY <1>1, <1>2, WorkerReleases, WorkerReadsStep DEF IInv, db
<1>3. CASE Release(w) /\ Flush(w, "SUCCESS")
  <2>1. DatabaseInv'
    BY <1>1, <1>3, WorkerWrites DEF States
  <2> QED
    BY <1>1, <1>3, <2>1, WorkerReleases, WorkerFrame DEF IInv
<1>4. CASE Goto(w, "failing") /\ UNCHANGED <<status, done>>
  BY <1>1, <1>4, GotoStep DEF db, PCs
<1> QED
  BY <1>2, <1>3, <1>4 DEF CompleteExecution

LEMMA ExecutionFailsStep ==
  ASSUME IInv, NEW w \in Workers, NEW k \in {"FAILED", "TIMEOUT"}, ExecutionFails(w, k)
  PROVE  IInv'
<1> DEFINE new == [worker[w] EXCEPT !.pc = "failing", !.kind = k]
<1>1. UNCHANGED <<db, redis, request, history, approved>> /\ worker[w].pc # "idle"
  BY DEF ExecutionFails, history
<1>2. worker' = [worker EXCEPT ![w] = new]
  BY DEF ExecutionFails
<1>3. worker[w] \in WorkerType
  BY DEF IInv, ItemInv
<1>4. /\ new \in WorkerType /\ new.item = worker[w].item /\ new.pc = "failing"
      /\ new.todo = worker[w].todo /\ new.pending = worker[w].pending
  BY <1>3 DEF WorkerType, PCs
<1> HIDE DEF new
<1>5. ItemInv'
  BY <1>1, <1>2, <1>4, WorkerGoesOn DEF IInv, ItemInv, NodesOfOwnRun
<1> QED
  BY <1>1, <1>5, WorkerReadsStep

LEMMA HandleFailureStep ==
  ASSUME IInv, NEW w \in Workers, HandleFailure(w)
  PROVE  IInv'
<1> DEFINE target == IF MayRetry(w) THEN "QUEUED" ELSE worker[w].kind
<1>1. /\ UNCHANGED <<approval, plans, usedPlans, redis, request, history, approved>>
      /\ worker[w].pc = "failing"
  BY DEF HandleFailure, history
<1>2. target \in States
  BY DEF IInv, ItemInv, WorkerType, States
<1>3. \/ Release(w) /\ UNCHANGED <<status, done>>
      \/ Flush(w, target) /\ MayRetry(w) /\ Goto(w, "requeue")
      \/ Flush(w, target) /\ Release(w)
  BY DEF HandleFailure
<1> HIDE DEF target
<1>4. CASE Release(w) /\ UNCHANGED <<status, done>>
  BY <1>1, <1>4, WorkerReleases, WorkerReadsStep DEF IInv, db
<1>5. CASE Flush(w, target) /\ MayRetry(w) /\ Goto(w, "requeue")
  <2>1. DatabaseInv'
    BY <1>1, <1>2, <1>5, WorkerWrites
  <2>2. ItemInv'
    BY <1>1, <1>5, GotoKeepsItem DEF IInv, PCs
  <2> QED
    BY <1>1, <2>1, <2>2, WorkerFrame DEF IInv
<1>6. CASE Flush(w, target) /\ Release(w)
  <2>1. DatabaseInv'
    BY <1>1, <1>2, <1>6, WorkerWrites
  <2> QED
    BY <1>1, <1>6, <2>1, WorkerReleases, WorkerFrame DEF IInv
<1> QED
  BY <1>3, <1>4, <1>5, <1>6

\* The worker's item moves to the end of the list
LEMMA RequeueExecutionStep ==
  ASSUME IInv, NEW w \in Workers, RequeueExecution(w)
  PROVE  IInv'
<1> DEFINE i == worker[w].item
<1>1. UNCHANGED <<db, itemRun, request, history, approved>> /\ worker[w].pc = "requeue"
  BY DEF RequeueExecution, history
<1>2. /\ i \in Items /\ i # NoItem /\ attempt[i] < MaxRetry /\ itemRun[i] # NoRun
      /\ attempt \in [Items -> 0..MaxRetry]
  BY <1>1, BusyWorker, NoItemAssumption
  DEF IInv, ItemInv, RequeueHasRoom, MayRetry, LiveItemHasRun
<1>3. Appended(i)
  BY <1>2, AppendStep DEF IInv, ItemInv, RequeueExecution
<1>4. attempt' \in [Items -> 0..MaxRetry] /\ \A j \in Items \ {i} : attempt'[j] = attempt[j]
  BY <1>2, MaxRetryAssumption DEF RequeueExecution
<1>5. /\ IdleWorker \in WorkerType /\ IdleWorker.pc = "idle" /\ IdleWorker.item = NoItem
      /\ IdleWorker.todo = {} /\ IdleWorker.pending = {}
  BY DEF IdleWorker, WorkerType, PCs
<1>6. /\ worker' \in [Workers -> WorkerType]
      /\ worker'[w] = IdleWorker
      /\ \A v \in Workers \ {w} : worker'[v] = worker[v]
  BY <1>5 DEF IInv, ItemInv, RequeueExecution, Release
<1>7. /\ \A k \in DOMAIN queue : queue[k] # i
      /\ \A v \in Workers \ {w} : worker[v].item # i
  BY <1>2 DEF IInv, ItemInv, ItemInOnePlace, InQueue
<1> HIDE DEF i
<1>8. ItemInOnePlace'
  <2>1. \A j, k \in DOMAIN queue' : queue'[j] = queue'[k] => j = k
    BY <1>3, <1>7 DEF IInv, ItemInv, ItemInOnePlace, Appended
  <2>2. \A v \in Workers : worker'[v].item # NoItem => v # w /\ worker'[v] = worker[v]
    BY <1>5, <1>6
  <2>3. ASSUME NEW v \in Workers, worker'[v].item # NoItem, NEW k \in DOMAIN queue'
        PROVE  queue'[k] # worker'[v].item
    <3>1. worker'[v].item = worker[v].item /\ worker[v].item # i /\ ~InQueue(worker[v].item)
      BY <1>7, <2>2, <2>3 DEF IInv, ItemInv, ItemInOnePlace
    <3> QED
      BY <1>3, <3>1 DEF InQueue, Appended
  <2>4. ASSUME NEW u \in Workers, NEW v \in Workers,
               worker'[u].item = worker'[v].item, worker'[u].item # NoItem
        PROVE  u = v
    <3>1. worker'[u] = worker[u] /\ worker'[v] = worker[v]
      BY <2>2, <2>4
    <3> QED
      BY <2>4, <3>1 DEF IInv, ItemInv, ItemInOnePlace
  <2> QED
    BY <2>1, <2>3, <2>4 DEF ItemInOnePlace, InQueue
<1>9. LiveItemHasRun'
  <2>1. \A k \in DOMAIN queue' : itemRun'[queue'[k]] # NoRun
    BY <1>1, <1>2, <1>3 DEF IInv, ItemInv, LiveItemHasRun, Appended
  <2>2. \A v \in Workers : worker'[v].item # NoItem => itemRun'[worker'[v].item] # NoRun
    BY <1>1, <1>5, <1>6 DEF IInv, ItemInv, LiveItemHasRun
  <2> QED
    BY <2>1, <2>2 DEF LiveItemHasRun
<1>10. RequeueHasRoom'
  <2>1. \A v \in Workers \ {w} : worker[v].pc = "requeue" => worker[v].item \in Items \ {i}
    BY <1>7, BusyWorker DEF IInv
  <2>2. ASSUME NEW v \in Workers, worker'[v].pc = "requeue"
        PROVE  attempt'[worker'[v].item] < MaxRetry
    <3>1. v # w
      BY <1>5, <1>6, <2>2
    <3>2. worker'[v] = worker[v]
      BY <1>6, <3>1
    <3>3. worker[v].item \in Items \ {i} /\ attempt[worker[v].item] < MaxRetry
      BY <2>1, <2>2, <3>1, <3>2 DEF IInv, ItemInv, RequeueHasRoom, MayRetry
    <3> QED
      BY <1>4, <3>2, <3>3
  <2> QED
    BY <2>2 DEF RequeueHasRoom, MayRetry
<1>11. BusyHasItem' /\ NodesOfOwnRun'
  <2>1. BusyHasItem'
    BY <1>5, <1>6 DEF IInv, ItemInv, BusyHasItem
  <2>2. NodesOfOwnRun'
    BY <1>1, <1>5, <1>6 DEF IInv, ItemInv, NodesOfOwnRun, RunOf
  <2> QED
    BY <2>1, <2>2
<1>12. ItemInv'
  BY <1>1, <1>3, <1>4, <1>6, <1>8, <1>9, <1>10, <1>11 DEF IInv, ItemInv, Appended
<1> QED
  BY <1>1, <1>12, WorkerReadsStep

LEMMA WorkerAbortStep ==
  ASSUME IInv, NEW w \in Workers, WorkerAbort(w)
  PROVE  IInv'
<1>1. UNCHANGED <<db, redis, request, history, approved>> /\ Release(w)
  BY DEF WorkerAbort, history
<1> QED
  BY <1>1, WorkerReleases, WorkerReadsStep DEF IInv

------------------------------------------------------------------------------
(* The invariant and what follows from it                                    *)

LEMMA NextPreservesInvariant == IInv /\ [Next]_vars => IInv'
<1> SUFFICES ASSUME IInv, [Next]_vars PROVE IInv'
  OBVIOUS
<1>1. CASE UNCHANGED vars
  <2>1. UNCHANGED <<db, redis, worker, request, history>> /\ ApprovedGrows
    BY <1>1 DEF vars, history, ApprovedGrows, IInv, DatabaseInv
  <2>2. ItemInv'
    BY <2>1, ItemFrame DEF IInv
  <2> QED
    BY <2>1, <2>2, WorkerReadsStep
<1>2. CASE RequestNext
  BY <1>2, AnalyzeGoalStep, CreatePlanNewRunStep, CreatePlanLoadStep, CreatePlanCommitStep,
     ApproveRunLoadStep, ApproveRunCommitStep, StartLoadStep, EnqueueExecutionStep,
     StartCommitStep
  DEF RequestNext
<1>3. ASSUME NEW w \in Workers, WorkerStep(w) PROVE IInv'
  BY <1>3, DequeueExecutionStep, LoadRunStep, CheckApprovalStep, CommitBlockedStep,
     StartNodesStep, LoadNodesStep, BeginNodeStep, ExecuteNodeStep, CompleteExecutionStep,
     HandleFailureStep, RequeueExecutionStep
  DEF WorkerStep
<1>4. CASE Fault
  BY <1>4, ExecutionFailsStep, WorkerAbortStep, RequestAbortStep DEF Fault
<1> QED
  BY <1>1, <1>2, <1>3, <1>4 DEF Next, NoFaultNext

LEMMA InvariantHolds == Spec => []IInv
BY InitEstablishesInvariant, NextPreservesInvariant, PTL DEF Spec

\* Every variable keeps its type: in particular no item is ever put back more
\* than max_retry times, under every interleaving of handlers and workers
THEOREM TypeCorrect == Spec => []TypeOK
BY InvariantHolds, InvariantImpliesProperties, PTL

\* No push, retry or crash puts an item of the Redis list in two places
THEOREM OnePlace == Spec => []ItemInOnePlace
BY InvariantHolds, InvariantImpliesProperties, PTL

\* No run is queued, executed or finished, and no item pushed for it, before an
\* owner or admin has approved it with both flags
THEOREM ApprovalRequired == Spec => []NoExecutionWithoutApproval
BY InvariantHolds, InvariantImpliesProperties, PTL

------------------------------------------------------------------------------
(* The queue implements RetryQueue                                           *)

\* Nothing moves
LEMMA PlacesSame ==
  ASSUME IInv, UNCHANGED redis, \A w \in Workers : worker'[w].item = worker[w].item
  PROVE  UNCHANGED <<Place, attempt>>
<1>1. Held' = Held
  BY DEF Held
<1>2. \A i \in Items : InQueue(i)' = InQueue(i)
  BY DEF InQueue, redis
<1> QED
  BY <1>1, <1>2 DEF Place, redis

\* A worker lets go of its item
LEMMA ReleaseSettles ==
  ASSUME IInv, NEW w \in Workers, worker[w].pc # "idle", Release(w), UNCHANGED redis
  PROVE  Abstract!Settle(worker[w].item)
<1> DEFINE i == worker[w].item
<1>1. i \in Items /\ itemRun[i] # NoRun /\ i \in Held /\ ~InQueue(i)
  BY BusyWorker, NoItemAssumption
  DEF IInv, ItemInv, LiveItemHasRun, Held, ItemInOnePlace
<1>2. Held' = Held \ {i}
  <2>1. \A v \in Workers : worker'[v].item = IF v = w THEN NoItem ELSE worker[v].item
    BY DEF IInv, ItemInv, Release, IdleWorker
  <2>2. \A v \in Workers : worker[v].item = i => v = w
    BY <1>1, NoItemAssumption DEF IInv, ItemInv, ItemInOnePlace
  <2> HIDE DEF i
  <2> QED
    BY <1>1, <2>1, <2>2, NoItemAssumption DEF Held
<1>3. \A j \in Items : InQueue(j)' = InQueue(j)
  BY DEF InQueue, redis
<1> QED
  BY <1>1, <1>2, <1>3 DEF Abstract!Settle, Place, redis

LEMMA EnqueueSubmits ==
  ASSUME IInv, NEW q \in Requests, NEW i \in Items, EnqueueExecution(q, i)
  PROVE  Abstract!Submit(i)
<1>1. Appended(i) /\ itemRun[i] = NoRun
  BY AppendStep DEF IInv, ItemInv, EnqueueExecution
<1>2. request[q].run # NoRun /\ itemRun \in [Items -> Runs \cup {NoRun}]
  BY NoRunAssumption DEF IInv, ItemInv, RequestInv, EnqueueExecution
<1>3. Held' = Held /\ attempt' = attempt
  BY DEF Held, EnqueueExecution
<1>4. \A j \in Items : InQueue(j)' = (InQueue(j) \/ j = i)
  BY <1>1 DEF InQueue, Appended
<1>5. \A j \in Items : itemRun'[j] = IF j = i THEN request[q].run ELSE itemRun[j]
  BY <1>2 DEF EnqueueExecution
<1> QED
  BY <1>1, <1>2, <1>3, <1>4, <1>5 DEF Abstract!Submit, Place

LEMMA DequeueTakes ==
  ASSUME IInv, NEW w \in Workers, DequeueExecution(w)
  PROVE  Head(queue) \in Items /\ Abstract!Take(Head(queue))
<1> DEFINE h == Head(queue)
<1>1. /\ queue \in Seq(Items) /\ queue # <<>> /\ queue' = Tail(queue)
      /\ UNCHANGED <<itemRun, attempt>>
  BY DEF IInv, ItemInv, DequeueExecution
<1>2. /\ h \in Items /\ h = queue[1] /\ 1 \in DOMAIN queue
      /\ DOMAIN queue = 1..Len(queue) /\ Len(queue) \in Nat
  BY <1>1
<1>3. /\ DOMAIN queue' = 1..(Len(queue) - 1)
      /\ \A k \in DOMAIN queue' : queue'[k] = queue[k + 1]
  BY <1>1
<1> HIDE DEF h
<1>4. itemRun[h] # NoRun /\ InQueue(h) /\ h # NoItem
  BY <1>2, NoItemAssumption DEF IInv, ItemInv, LiveItemHasRun, InQueue
<1>5. \A j \in Items : InQueue(j)' = (InQueue(j) /\ j # h)
  <2>1. ASSUME NEW k \in DOMAIN queue' PROVE InQueue(queue'[k]) /\ queue'[k] # h
    <3>1. k + 1 \in DOMAIN queue /\ k + 1 # 1 /\ queue'[k] = queue[k + 1]
      BY <1>2, <1>3
    <3> QED
      BY <1>2, <3>1 DEF IInv, ItemInv, ItemInOnePlace, InQueue
  <2>2. ASSUME NEW k \in DOMAIN queue, queue[k] # h
        PROVE  k - 1 \in DOMAIN queue' /\ queue'[k - 1] = queue[k]
    BY <1>2, <1>3, <2>2
  <2> QED
    BY <2>1, <2>2 DEF InQueue
<1>6. Held' = Held \cup {h}
  <2>1. \A v \in Workers : worker'[v].item = IF v = w THEN h ELSE worker[v].item
    BY DEF IInv, ItemInv, DequeueExecution, IdleWorker, h
  <2>2. worker[w].item = NoItem
    BY DEF IInv, ItemInv, BusyHasItem, DequeueExecution
  <2> QED
    BY <1>4, <2>1, <2>2 DEF Held
<1>7. Abstract!Take(h)
  BY <1>1, <1>2, <1>4, <1>5, <1>6 DEF Abstract!Take, Place
<1> QED
  BY <1>2, <1>7 DEF h

LEMMA RequeuePutsBack ==
  ASSUME IInv, NEW w \in Workers, RequeueExecution(w)
  PROVE  Abstract!PutBack(worker[w].item)
<1> DEFINE i == worker[w].item
<1>1. /\ i \in Items /\ itemRun[i] # NoRun /\ i \in Held /\ ~InQueue(i)
      /\ attempt[i] < MaxRetry /\ UNCHANGED itemRun
  BY BusyWorker, NoItemAssumption
  DEF IInv, ItemInv, LiveItemHasRun, Held, ItemInOnePlace, RequeueExecution, RequeueHasRoom, MayRetry
<1>2. Appended(i)
  BY <1>1, AppendStep DEF IInv, ItemInv, RequeueExecution
<1>3. Held' = Held \ {i}
  <2>1. \A v \in Workers : worker'[v].item = IF v = w THEN NoItem ELSE worker[v].item
    BY DEF IInv, ItemInv, Release, IdleWorker, RequeueExecution
  <2> QED
    BY <1>1, <2>1 DEF IInv, ItemInv, ItemInOnePlace, Held
<1>4. \A j \in Items : InQueue(j)' = (InQueue(j) \/ j = i)
  BY <1>2 DEF InQueue, Appended
<1>5. attempt' = [attempt EXCEPT ![i] = @ + 1]
  BY DEF RequeueExecution
<1> QED
  BY <1>1, <1>3, <1>4, <1>5 DEF Abstract!PutBack, Place

\* A worker's step that neither takes nor puts back an item
LEMMA WorkerKeepsOrSettles ==
  ASSUME IInv, NEW w \in Workers,
         \/ LoadRun(w) \/ CheckApproval(w) \/ CommitBlocked(w) \/ StartNodes(w)
         \/ LoadNodes(w) \/ BeginNode(w) \/ (\E n \in worker[w].todo : ExecuteNode(w, n))
         \/ CompleteExecution(w) \/ HandleFailure(w) \/ WorkerAbort(w)
         \/ \E k \in {"FAILED", "TIMEOUT"} : ExecutionFails(w, k)
  PROVE  UNCHANGED <<Place, attempt>> \/ Abstract!Settle(worker[w].item)
<1>1. worker \in [Workers -> WorkerType]
  BY DEF IInv, ItemInv
<1>2. worker[w].pc # "idle" /\ UNCHANGED redis
  BY DEF LoadRun, CheckApproval, CommitBlocked, StartNodes, LoadNodes, BeginNode, ExecuteNode,
         CompleteExecution, HandleFailure, WorkerAbort, ExecutionFails
<1>3. Release(w) \/ \A v \in Workers : worker'[v].item = worker[v].item
  <2> USE DEF Goto, WorkerType
  <2>1. CASE LoadRun(w) \/ CheckApproval(w)
    BY <1>1, <2>1 DEF LoadRun, CheckApproval
  <2>2. CASE CommitBlocked(w) \/ WorkerAbort(w)
    BY <2>2 DEF CommitBlocked, WorkerAbort
  <2>3. CASE StartNodes(w)
    BY <1>1, <2>3 DEF StartNodes
  <2>4. CASE LoadNodes(w)
    BY <1>1, <2>4 DEF LoadNodes
  <2>5. CASE BeginNode(w)
    <3>1. Release(w) \/ worker' = [worker EXCEPT ![w].pc = "fetch", ![w].pending = {}]
      BY <2>5 DEF BeginNode
    <3> QED
      BY <1>1, <3>1
  <2>6. CASE \E n \in worker[w].todo : ExecuteNode(w, n)
    <3>1. PICK n \in worker[w].todo : ExecuteNode(w, n)
      BY <2>6
    <3> DEFINE s    == status[RunOf(w)]
               ran  == [worker[w] EXCEPT !.pc = "loop", !.loaded = s, !.sess = s,
                          !.todo = @ \ {n}, !.pending = IF n \in done THEN {} ELSE {n}]
               gone == [worker[w] EXCEPT !.pc = "failing", !.loaded = s, !.sess = s]
    <3>2. \/ worker' = [worker EXCEPT ![w] = ran]
          \/ worker' = [worker EXCEPT ![w] = gone]
      BY <3>1 DEF ExecuteNode
    <3>3. ran.item = worker[w].item /\ gone.item = worker[w].item
      BY <1>1
    <3> HIDE DEF ran, gone
    <3> QED
      BY <1>1, <3>2, <3>3
  <2>7. CASE CompleteExecution(w)
    <3>1. Release(w) \/ Goto(w, "failing")
      BY <2>7 DEF CompleteExecution
    <3> QED
      BY <1>1, <3>1
  <2>8. CASE HandleFailure(w)
    <3>1. Release(w) \/ Goto(w, "requeue")
      BY <2>8 DEF HandleFailure
    <3> QED
      BY <1>1, <3>1
  <2>9. CASE \E k \in {"FAILED", "TIMEOUT"} : ExecutionFails(w, k)
    BY <1>1, <2>9 DEF ExecutionFails
  <2> QED
    BY <2>1, <2>2, <2>3, <2>4, <2>5, <2>6, <2>7, <2>8, <2>9
<1> QED
  BY <1>2, <1>3, ReleaseSettles, PlacesSame

\* The Redis list, its consumers and handle_failure implement the abstract
\* retrying queue: every step of the engine is a step of RetryQueue or none
THEOREM QueueRefinement == Spec => ImplementsRetryQueue
<1>1. Init => Abstract!RQInit
  <2> SUFFICES ASSUME Init PROVE Abstract!RQInit
    OBVIOUS
  <2> QED
    BY DEF Init, Abstract!RQInit, Place
<1>2. IInv /\ [Next]_vars => [Abstract!RQNext]_(Abstract!qvars)
  <2> SUFFICES ASSUME IInv, [Next]_vars
               PROVE  Abstract!RQNext \/ UNCHANGED <<Place, attempt>>
    BY DEF Abstract!qvars
  <2>1. ASSUME UNCHANGED <<redis, worker>> PROVE UNCHANGED <<Place, attempt>>
    BY <2>1, PlacesSame
  <2>2. CASE UNCHANGED vars
    BY <2>1, <2>2 DEF vars
  <2>3. CASE RequestNext
    <3>1. CASE \E q \in Requests, i \in Items : EnqueueExecution(q, i)
      BY <3>1, EnqueueSubmits DEF Abstract!RQNext
    <3>2. CASE ~ \E q \in Requests, i \in Items : EnqueueExecution(q, i)
      <4>1. UNCHANGED <<redis, worker>>
        <5>1. ASSUME NEW r \in Runs, AnalyzeGoal(r)
              PROVE  UNCHANGED <<redis, worker>>
          BY <5>1 DEF AnalyzeGoal
        <5>2. ASSUME NEW r \in Runs, NEW p \in PlanIds, NEW f \in BOOLEAN,
                     CreatePlanNewRun(r, p, f)
              PROVE  UNCHANGED <<redis, worker>>
          BY <5>2 DEF CreatePlanNewRun
        <5>3. ASSUME NEW q \in Requests, NEW r \in Runs, NEW f \in BOOLEAN,
                     \/ CreatePlanLoad(q, r, f) \/ StartLoad(q, r)
                     \/ \E d \in Decisions : ApproveRunLoad(q, r, f, d)
              PROVE  UNCHANGED <<redis, worker>>
          BY <5>3 DEF CreatePlanLoad, ApproveRunLoad, StartLoad, Open
        <5>4. ASSUME NEW q \in Requests, NEW p \in PlanIds, CreatePlanCommit(q, p)
              PROVE  UNCHANGED <<redis, worker>>
          BY <5>4 DEF CreatePlanCommit
        <5>5. ASSUME NEW q \in Requests, ApproveRunCommit(q) \/ StartCommit(q)
              PROVE  UNCHANGED <<redis, worker>>
          BY <5>5 DEF ApproveRunCommit, StartCommit
        <5>6. CASE \E q \in Requests, r \in Runs : StartLoad(q, r)
          <6>1. TRUE \in BOOLEAN
            OBVIOUS
          <6> QED
            BY <5>3, <5>6, <6>1
        <5> QED
          BY <2>3, <3>2, <5>1, <5>2, <5>3, <5>4, <5>5, <5>6 DEF RequestNext
      <4> QED
        BY <2>1, <4>1
    <3> QED
      BY <3>1, <3>2
  <2>4. ASSUME NEW w \in Workers, WorkerStep(w) \/ WorkerAbort(w)
                 \/ \E k \in {"FAILED", "TIMEOUT"} : ExecutionFails(w, k)
        PROVE  Abstract!RQNext \/ UNCHANGED <<Place, attempt>>
    <3>1. CASE DequeueExecution(w)
      BY <3>1, DequeueTakes DEF Abstract!RQNext
    <3>2. CASE RequeueExecution(w)
      <4>1. worker[w].item \in Items
        BY <3>2, BusyWorker DEF IInv, RequeueExecution
      <4> QED
        BY <3>2, <4>1, RequeuePutsBack DEF Abstract!RQNext
    <3>3. CASE UNCHANGED <<Place, attempt>> \/ Abstract!Settle(worker[w].item)
      <4>1. CASE UNCHANGED <<Place, attempt>>
        BY <4>1
      <4>2. CASE Abstract!Settle(worker[w].item) /\ worker[w].item \in Items
        BY <4>2 DEF Abstract!RQNext
      <4>3. CASE worker[w].pc = "idle"
        BY <2>4, <4>3, <3>1
        DEF WorkerStep, LoadRun, CheckApproval, CommitBlocked, StartNodes, LoadNodes, BeginNode,
            ExecuteNode, CompleteExecution, HandleFailure, WorkerAbort, ExecutionFails,
            RequeueExecution
      <4> QED
        BY <3>3, <4>1, <4>2, <4>3, BusyWorker DEF IInv
    <3> QED
      BY <2>4, <3>1, <3>2, <3>3, WorkerKeepsOrSettles DEF WorkerStep
  <2>5. CASE \E q \in Requests : RequestAbort(q)
    BY <2>1, <2>5 DEF RequestAbort
  <2> QED
    BY <2>2, <2>3, <2>4, <2>5 DEF Next, NoFaultNext, Fault
<1> QED
  BY <1>1, <1>2, InvariantHolds, PTL DEF Spec, ImplementsRetryQueue, Abstract!RQSpec
------------------------------------------------------------------------------
(* Completion.  The nodes a worker has loaded are followed plan by plan: a     *)
(* node of a plan the worker is in is executed, finished in its session, or    *)
(* still to run, unless its row is gone.                                       *)

\* Plans that handlers and runs know of were given out
PlansKnown ==
  /\ \A r \in Runs : plans[r] \subseteq usedPlans
  /\ \A q \in Requests : request[q].old \subseteq usedPlans

WorkerNodes(w) ==
  /\ \A n \in worker[w].todo \cup worker[w].pending : n.plan \in usedPlans
  /\ worker[w].pc \notin {"loop", "failing", "requeue"} => worker[w].pending = {}
  /\ worker[w].pc \in {"loop", "fetch"} =>
       \A m \in worker[w].todo \cup worker[w].pending : \A n \in NodesOf(RunOf(w)) :
          n.plan = m.plan => n \in done \cup worker[w].todo \cup worker[w].pending

NodeInv == PlansKnown /\ \A w \in Workers : WorkerNodes(w)

\* Items keep the run they were pushed for
ItemRunsKept == \A i \in Items : itemRun[i] # NoRun => itemRun'[i] = itemRun[i]

\* A worker that stands still while nodes are only executed
LEMMA NodesStay ==
  ASSUME IInv, NEW w \in Workers, WorkerNodes(w), worker'[w] = worker[w], ItemRunsKept,
         UNCHANGED <<plans, usedPlans>>, done \subseteq done'
  PROVE  WorkerNodes(w)'
<1>1. CASE worker[w].pc \in {"loop", "fetch"}
  <2>1. RunOf(w)' = RunOf(w)
    BY <1>1, BusyWorker DEF IInv, ItemInv, LiveItemHasRun, RunOf, ItemRunsKept, BusyHasItem
  <2>2. \A r : NodesOf(r)' = NodesOf(r)
    BY DEF NodesOf
  <2> QED
    BY <2>1, <2>2 DEF WorkerNodes
<1>2. CASE worker[w].pc \notin {"loop", "fetch"}
  BY <1>2 DEF WorkerNodes
<1> QED
  BY <1>1, <1>2

\* One worker moves
LEMMA NodesMove ==
  ASSUME IInv, NodeInv, NEW w \in Workers, UNCHANGED <<plans, usedPlans, itemRun, request>>,
         done \subseteq done', worker' = [worker EXCEPT ![w] = worker'[w]], WorkerNodes(w)'
  PROVE  NodeInv'
<1>1. PlansKnown'
  BY DEF NodeInv, PlansKnown
<1>2. ASSUME NEW v \in Workers PROVE WorkerNodes(v)'
  <2>1. CASE v = w
    BY <2>1
  <2>2. CASE v # w
    <3>1. worker'[v] = worker[v]
      BY <2>2 DEF IInv, ItemInv
    <3> QED
      BY <3>1, NodesStay DEF NodeInv, ItemRunsKept
  <2> QED
    BY <2>1, <2>2
<1> QED
  BY <1>1, <1>2 DEF NodeInv

\* A worker ends its call
LEMMA NodesReleased ==
  ASSUME IInv, NodeInv, NEW w \in Workers, Release(w),
         UNCHANGED <<plans, usedPlans, itemRun, request>>, done \subseteq done'
  PROVE  NodeInv'
<1>1. worker' = [worker EXCEPT ![w] = worker'[w]] /\ worker'[w] = IdleWorker
  BY DEF IInv, ItemInv, Release
<1>2. WorkerNodes(w)'
  BY <1>1 DEF WorkerNodes, IdleWorker
<1> QED
  BY <1>1, <1>2, NodesMove

\* A worker goes on with the nodes it has, outside the loop
LEMMA NodesKept ==
  ASSUME IInv, NodeInv, NEW w \in Workers, worker' = [worker EXCEPT ![w] = worker'[w]],
         worker'[w].todo = worker[w].todo, worker'[w].pending = worker[w].pending,
         worker'[w].pc \notin {"loop", "fetch"},
         worker'[w].pc \in {"failing", "requeue"} \/ worker[w].pending = {},
         UNCHANGED <<plans, usedPlans, itemRun, request>>, done \subseteq done'
  PROVE  NodeInv'
<1>1. WorkerNodes(w)'
  BY DEF NodeInv, WorkerNodes
<1> QED
  BY <1>1, NodesMove

\* Handlers other than the commit of a plan
LEMMA NodesSurviveHandler ==
  ASSUME IInv, NodeInv, UNCHANGED <<plans, usedPlans, done, worker>>, ItemRunsKept,
         \A q \in Requests : request'[q].old \subseteq usedPlans
  PROVE  NodeInv'
<1>1. PlansKnown'
  BY DEF NodeInv, PlansKnown
<1>2. \A w \in Workers : WorkerNodes(w)'
  BY NodesStay DEF NodeInv
<1> QED
  BY <1>1, <1>2 DEF NodeInv

\* A plan that nobody has seen joins the runs; nodes of other plans may go, with
\* their plans
LEMMA NodesSurvivePlan ==
  ASSUME IInv, NodeInv, NEW p \in PlanIds, p \notin usedPlans, usedPlans' = usedPlans \cup {p},
         UNCHANGED <<worker, itemRun>>, plans' \in [Runs -> SUBSET PlanIds],
         \A r \in Runs : plans'[r] \subseteq plans[r] \cup {p},
         \A r \in Runs : \A n \in done : n.run = r /\ n.plan \in plans'[r] \ {p} => n \in done',
         \A q \in Requests : request'[q].old \subseteq usedPlans
  PROVE  NodeInv'
<1>1. PlansKnown'
  BY DEF NodeInv, PlansKnown
<1>2. ASSUME NEW w \in Workers PROVE WorkerNodes(w)'
  <2>1. CASE worker[w].pc \in {"loop", "fetch"}
    <3>1. RunOf(w)' = RunOf(w) /\ RunOf(w) \in Runs
      BY <2>1, BusyWorker DEF IInv, RunOf
    <3>2. \A n \in NodesOf(RunOf(w))' : n.plan # p => n \in NodesOf(RunOf(w))
      BY <3>1 DEF NodesOf
    <3>3. ASSUME NEW m \in worker[w].todo \cup worker[w].pending, NEW n \in NodesOf(RunOf(w))',
                 n.plan = m.plan
          PROVE  n \in done' \cup worker[w].todo \cup worker[w].pending
      <4>1. n.plan # p
        BY <3>3 DEF NodeInv, WorkerNodes
      <4>2. n \in done \cup worker[w].todo \cup worker[w].pending
        BY <2>1, <3>2, <3>3, <4>1 DEF NodeInv, WorkerNodes
      <4>3. n.run = RunOf(w) /\ n.plan \in plans'[RunOf(w)]
        BY <3>1 DEF NodesOf
      <4> QED
        BY <3>1, <4>1, <4>2, <4>3
    <3> QED
      BY <2>1, <3>1, <3>3 DEF NodeInv, WorkerNodes
  <2>2. CASE worker[w].pc \notin {"loop", "fetch"}
    BY <2>2 DEF NodeInv, WorkerNodes
  <2> QED
    BY <2>1, <2>2
<1> QED
  BY <1>1, <1>2 DEF NodeInv

\* The handlers, one by one
LEMMA RequestKeepsNodes ==
  ASSUME IInv, NodeInv, RequestNext
  PROVE  NodeInv'
<1>1. IdleRequest.old = {}
  BY DEF IdleRequest
<1>2. ASSUME NEW q \in Requests, Close(q)
      PROVE  \A x \in Requests : request'[x].old \subseteq usedPlans
  BY <1>1, <1>2 DEF NodeInv, PlansKnown, Close, IInv, RequestInv
<1>3. ASSUME NEW r \in Runs, AnalyzeGoal(r) PROVE NodeInv'
  BY <1>3, NodesSurviveHandler DEF AnalyzeGoal, redis, NodeInv, PlansKnown, ItemRunsKept
<1>4. ASSUME NEW r \in Runs, NEW p \in PlanIds, NEW f \in BOOLEAN, CreatePlanNewRun(r, p, f)
      PROVE  NodeInv'
  <2>1. plans' \in [Runs -> SUBSET PlanIds] /\ plans' = [plans EXCEPT ![r] = {p}]
        /\ plans \in [Runs -> SUBSET PlanIds]
    BY <1>4 DEF CreatePlanNewRun, IInv, ColumnTypes
  <2> QED
    BY <1>4, <2>1, NodesSurvivePlan DEF CreatePlanNewRun, redis, NodeInv, PlansKnown
<1>5. ASSUME NEW q \in Requests, NEW op, NEW r \in Runs, NEW f, Open(q, op, r, f)
      PROVE  NodeInv'
  <2>1. \A x \in Requests : request'[x].old \subseteq usedPlans
    BY <1>5 DEF Open, IInv, RequestInv, NodeInv, PlansKnown
  <2> QED
    BY <1>5, <2>1, NodesSurviveHandler DEF Open, db, redis, ItemRunsKept
<1>6. ASSUME NEW q \in Requests, NEW p \in PlanIds, CreatePlanCommit(q, p) PROVE NodeInv'
  <2>1. /\ plans' \in [Runs -> SUBSET PlanIds] /\ plans \in [Runs -> SUBSET PlanIds]
        /\ plans' = [plans EXCEPT ![request[q].run] = (@ \ request[q].old) \cup {p}]
        /\ request[q].run \in Runs
    BY <1>6 DEF CreatePlanCommit, IInv, ColumnTypes, RequestInv
  <2>2. \A r \in Runs : plans'[r] \subseteq plans[r] \cup {p}
    BY <2>1
  <2>3. ASSUME NEW r \in Runs, NEW n \in done, n.run = r, n.plan \in plans'[r] \ {p}
        PROVE  n \in done'
    <3>1. ~(n.run = request[q].run /\ n.plan \in request[q].old)
      BY <2>1, <2>3
    <3> QED
      BY <1>6, <3>1 DEF CreatePlanCommit
  <2> QED
    BY <1>2, <1>6, <2>1, <2>2, <2>3, NodesSurvivePlan DEF CreatePlanCommit, redis
<1>7. ASSUME NEW q \in Requests, ApproveRunCommit(q) \/ StartCommit(q) PROVE NodeInv'
  BY <1>2, <1>7, NodesSurviveHandler DEF ApproveRunCommit, StartCommit, redis, ItemRunsKept
<1>8. ASSUME NEW q \in Requests, NEW i \in Items, EnqueueExecution(q, i) PROVE NodeInv'
  <2>1. ItemRunsKept
    BY <1>8 DEF EnqueueExecution, ItemRunsKept, IInv, ItemInv
  <2>2. \A x \in Requests : request'[x].old = request[x].old
    BY <1>8 DEF EnqueueExecution, IInv, RequestInv, RequestType
  <2> QED
    BY <1>8, <2>1, <2>2, NodesSurviveHandler DEF EnqueueExecution, db, NodeInv, PlansKnown
<1> QED
  BY <1>3, <1>4, <1>5, <1>6, <1>7, <1>8
  DEF RequestNext, CreatePlanLoad, ApproveRunLoad, StartLoad

\* The steps of a worker, one by one
LEMMA WorkerKeepsNodes ==
  ASSUME IInv, NodeInv, NEW w \in Workers,
         WorkerStep(w) \/ WorkerAbort(w) \/ \E k \in {"FAILED", "TIMEOUT"} : ExecutionFails(w, k)
  PROVE  NodeInv'
<1>1. worker \in [Workers -> WorkerType] /\ worker[w] \in WorkerType /\ WorkerNodes(w)
  BY DEF IInv, ItemInv, NodeInv
<1>2. CASE DequeueExecution(w)
  <2>1. /\ worker' = [worker EXCEPT ![w] = worker'[w]]
        /\ worker'[w].todo = {} /\ worker'[w].pending = {} /\ worker'[w].pc = "popped"
    BY <1>1, <1>2 DEF DequeueExecution, IdleWorker
  <2>2. WorkerNodes(w)'
    BY <2>1 DEF WorkerNodes
  <2> QED
    BY <1>2, <2>1, <2>2, NodesMove DEF DequeueExecution, db
<1>3. ASSUME NEW pc \in {"checked", "blocking", "claimed"}, Goto(w, pc),
             worker[w].pc \in {"popped", "checked"}, UNCHANGED <<db, redis, request>>
      PROVE  NodeInv'
  <2>1. /\ worker' = [worker EXCEPT ![w] = worker'[w]]
        /\ worker'[w].todo = worker[w].todo /\ worker'[w].pending = worker[w].pending
        /\ worker'[w].pc = pc
    BY <1>1, <1>3 DEF Goto, WorkerType
  <2> QED
    BY <1>1, <1>3, <2>1, NodesKept DEF WorkerNodes, db, redis
<1>4. CASE LoadRun(w) \/ CheckApproval(w)
  BY <1>3, <1>4, NodesReleased DEF LoadRun, CheckApproval, db, redis
<1>5. CASE CommitBlocked(w) \/ RequeueExecution(w) \/ WorkerAbort(w)
  BY <1>5, NodesReleased DEF CommitBlocked, RequeueExecution, WorkerAbort, db, redis
<1>6. CASE StartNodes(w)
  <2>1. /\ worker' = [worker EXCEPT ![w] = worker'[w]]
        /\ worker'[w].todo = worker[w].todo /\ worker'[w].pending = worker[w].pending
        /\ worker'[w].pc \in {"started", "failing"}
    BY <1>1, <1>6 DEF StartNodes, WorkerType
  <2> QED
    BY <1>1, <1>6, <2>1, NodesKept DEF StartNodes, WorkerNodes, db, redis
<1>7. CASE LoadNodes(w)
  <2>1. /\ worker' = [worker EXCEPT ![w] = worker'[w]]
        /\ worker'[w].todo = NodesOf(RunOf(w)) /\ worker'[w].pending = worker[w].pending
        /\ worker'[w].pc = "loop" /\ worker'[w].item = worker[w].item
    BY <1>1, <1>7 DEF LoadNodes, WorkerType
  <2>2. worker[w].pending = {} /\ RunOf(w) \in Runs
    BY <1>1, <1>7, BusyWorker DEF LoadNodes, WorkerNodes, IInv
  <2>3. RunOf(w)' = RunOf(w) /\ NodesOf(RunOf(w))' = NodesOf(RunOf(w))
    BY <1>7, <2>1 DEF LoadNodes, RunOf, NodesOf, db, redis
  <2>4. \A n \in NodesOf(RunOf(w)) : n.plan \in usedPlans
    BY <2>2 DEF NodesOf, NodeInv, PlansKnown
  <2>5. WorkerNodes(w)'
    BY <1>7, <2>1, <2>2, <2>3, <2>4 DEF WorkerNodes, LoadNodes, db
  <2> QED
    BY <1>7, <2>1, <2>5, NodesMove DEF LoadNodes, db, redis
<1>8. CASE BeginNode(w)
  <2>1. CASE Release(w) /\ UNCHANGED <<status, done>>
    BY <1>8, <2>1, NodesReleased DEF BeginNode, redis
  <2>2. CASE /\ Flush(w, worker[w].sess)
             /\ worker' = [worker EXCEPT ![w].pc = "fetch", ![w].pending = {}]
    <3>1. /\ worker' = [worker EXCEPT ![w] = worker'[w]]
          /\ worker'[w].todo = worker[w].todo /\ worker'[w].pending = {}
          /\ worker'[w].pc = "fetch" /\ worker'[w].item = worker[w].item
      BY <1>1, <2>2 DEF WorkerType
    <3>2. RunOf(w)' = RunOf(w) /\ NodesOf(RunOf(w))' = NodesOf(RunOf(w))
      BY <1>8, <3>1 DEF BeginNode, RunOf, NodesOf, redis
    <3>3. done' = done \cup worker[w].pending
      BY <2>2 DEF Flush
    <3>4. WorkerNodes(w)'
      BY <1>1, <1>8, <3>1, <3>2, <3>3 DEF WorkerNodes, BeginNode
    <3> QED
      BY <1>8, <3>1, <3>3, <3>4, NodesMove DEF BeginNode, redis
  <2> QED
    BY <1>8, <2>1, <2>2 DEF BeginNode
<1>9. ASSUME NEW n \in worker[w].todo, ExecuteNode(w, n) PROVE NodeInv'
  <2>1. CASE n \in NodesOf(RunOf(w))
    <3>1. /\ worker' = [worker EXCEPT ![w] = worker'[w]]
          /\ worker'[w].todo = worker[w].todo \ {n}
          /\ worker'[w].pending = IF n \in done THEN {} ELSE {n}
          /\ worker'[w].pc = "loop" /\ worker'[w].item = worker[w].item
      BY <1>1, <1>9, <2>1 DEF ExecuteNode, WorkerType
    <3>2. RunOf(w)' = RunOf(w) /\ NodesOf(RunOf(w))' = NodesOf(RunOf(w)) /\ done' = done
      BY <1>9, <3>1 DEF ExecuteNode, RunOf, NodesOf, db, redis
    <3>3. worker[w].pending = {}
      BY <1>1, <1>9 DEF ExecuteNode, WorkerNodes
    <3>4. n \in worker[w].todo /\ usedPlans' = usedPlans /\ worker[w].pc = "fetch" /\ WorkerNodes(w)
      BY <1>1, <1>9 DEF ExecuteNode, db
    <3>5. worker'[w].todo \cup worker'[w].pending \subseteq worker[w].todo
      BY <3>1, <3>4
    <3>6. worker[w].todo \subseteq done \cup worker'[w].todo \cup worker'[w].pending
      BY <3>1
    <3>7. WorkerNodes(w)'
      BY <3>1, <3>2, <3>3, <3>4, <3>5, <3>6 DEF WorkerNodes
    <3> QED
      BY <1>9, <3>1, <3>7, NodesMove DEF ExecuteNode, db, redis
  <2>2. CASE n \notin NodesOf(RunOf(w))
    <3>1. /\ worker' = [worker EXCEPT ![w] = worker'[w]]
          /\ worker'[w].todo = worker[w].todo /\ worker'[w].pending = worker[w].pending
          /\ worker'[w].pc = "failing"
      BY <1>1, <1>9, <2>2 DEF ExecuteNode, WorkerType
    <3> QED
      BY <1>9, <3>1, NodesKept DEF ExecuteNode, db, redis
  <2> QED
    BY <2>1, <2>2
<1>10. ASSUME NEW pc \in {"failing", "requeue"}, Goto(w, pc), done \subseteq done',
              UNCHANGED <<plans, usedPlans, itemRun, request>>
       PROVE  NodeInv'
  <2>1. /\ worker' = [worker EXCEPT ![w] = worker'[w]]
        /\ worker'[w].todo = worker[w].todo /\ worker'[w].pending = worker[w].pending
        /\ worker'[w].pc = pc
    BY <1>1, <1>10 DEF Goto, WorkerType
  <2> QED
    BY <1>10, <2>1, NodesKept
<1>11. CASE CompleteExecution(w) \/ HandleFailure(w)
  <2>1. done \subseteq done' /\ UNCHANGED <<plans, usedPlans, itemRun, request>>
    BY <1>11 DEF CompleteExecution, HandleFailure, Flush, redis
  <2>2. Release(w) \/ Goto(w, "failing") \/ Goto(w, "requeue")
    BY <1>11 DEF CompleteExecution, HandleFailure
  <2> QED
    BY <1>10, <2>1, <2>2, NodesReleased
<1>12. ASSUME NEW k \in {"FAILED", "TIMEOUT"}, ExecutionFails(w, k) PROVE NodeInv'
  <2>1. /\ worker' = [worker EXCEPT ![w] = worker'[w]]
        /\ worker'[w].todo = worker[w].todo /\ worker'[w].pending = worker[w].pending
        /\ worker'[w].pc = "failing"
    BY <1>1, <1>12 DEF ExecutionFails, WorkerType
  <2> QED
    BY <1>12, <2>1, NodesKept DEF ExecutionFails, db, redis
<1> QED
  BY <1>2, <1>4, <1>5, <1>6, <1>7, <1>8, <1>9, <1>11, <1>12 DEF WorkerStep

LEMMA NodesFollowed == Spec => [](IInv /\ NodeInv)
<1>1. Init => NodeInv
  BY DEF Init, NodeInv, PlansKnown, WorkerNodes, IdleWorker, IdleRequest
<1>2. IInv /\ NodeInv /\ [Next]_vars => NodeInv'
  <2> SUFFICES ASSUME IInv, NodeInv, [Next]_vars PROVE NodeInv'
    OBVIOUS
  <2>1. CASE UNCHANGED vars
    BY <2>1, NodesSurviveHandler
    DEF vars, db, redis, ItemRunsKept, NodeInv, PlansKnown
  <2>2. CASE \E q \in Requests : RequestAbort(q)
    <3>1. PICK q \in Requests : RequestAbort(q)
      BY <2>2
    <3>2. \A x \in Requests : request'[x].old \subseteq usedPlans
      BY <3>1 DEF RequestAbort, Close, IdleRequest, NodeInv, PlansKnown, IInv, RequestInv
    <3> QED
      BY <3>1, <3>2, NodesSurviveHandler DEF RequestAbort, db, redis, ItemRunsKept
  <2> QED
    BY <2>1, <2>2, RequestKeepsNodes, WorkerKeepsNodes DEF Next, NoFaultNext, Fault
<1> QED
  BY <1>1, <1>2, InvariantHolds, PTL DEF Spec

\* The step that completes a run
LEMMA CompletionStep ==
  ASSUME IInv, NodeInv, [Next]_vars, NEW w \in Workers, worker[w].pc = "loop",
         worker'[w].pc = "idle", worker[w].pending # {},
         status[RunOf(w)] # "SUCCESS", status'[RunOf(w)] = "SUCCESS"
  PROVE  \E p \in plans[RunOf(w)] : \A n \in NodesOf(RunOf(w)) : n.plan = p => n \in done'
<1>1. /\ RunOf(w) \in Runs /\ status \in [Runs -> States \cup {"NONE"}]
      /\ worker \in [Workers -> WorkerType] /\ \A v \in Workers : worker[v] \in WorkerType
  BY BusyWorker DEF IInv, ItemInv, DatabaseInv
<1>2. /\ ~UNCHANGED worker /\ ~UNCHANGED status
  BY <1>1
<1>3. ~RequestNext /\ ~\E q \in Requests : RequestAbort(q)
  BY <1>2
  DEF RequestNext, RequestAbort, AnalyzeGoal, CreatePlanNewRun, CreatePlanLoad, CreatePlanCommit,
      ApproveRunLoad, ApproveRunCommit, StartLoad, EnqueueExecution, StartCommit, Open
<1>4. \E v \in Workers : WorkerStep(v) \/ WorkerAbort(v)
                         \/ \E k \in {"FAILED", "TIMEOUT"} : ExecutionFails(v, k)
  BY <1>2, <1>3 DEF Next, NoFaultNext, Fault, vars
<1>5. PICK v \in Workers : WorkerStep(v) \/ WorkerAbort(v)
                           \/ \E k \in {"FAILED", "TIMEOUT"} : ExecutionFails(v, k)
  BY <1>4
<1>6. v = w
  <2> SUFFICES ASSUME v # w PROVE FALSE
    OBVIOUS
  <2>1. CASE DequeueExecution(v) \/ LoadRun(v) \/ CheckApproval(v) \/ CommitBlocked(v)
    BY <1>1, <2>1 DEF DequeueExecution, LoadRun, CheckApproval, CommitBlocked, Goto, Release
  <2>2. CASE StartNodes(v) \/ LoadNodes(v) \/ BeginNode(v)
    BY <1>1, <2>2 DEF StartNodes, LoadNodes, BeginNode, Release
  <2>3. CASE \E n \in worker[v].todo : ExecuteNode(v, n)
    BY <1>1, <2>3 DEF ExecuteNode
  <2>4. CASE CompleteExecution(v) \/ HandleFailure(v) \/ RequeueExecution(v) \/ WorkerAbort(v)
    BY <1>1, <2>4
    DEF CompleteExecution, HandleFailure, RequeueExecution, WorkerAbort, Goto, Release
  <2>5. CASE \E k \in {"FAILED", "TIMEOUT"} : ExecutionFails(v, k)
    BY <1>1, <2>5 DEF ExecutionFails
  <2> QED
    BY <1>5, <2>1, <2>2, <2>3, <2>4, <2>5 DEF WorkerStep
<1>7. BeginNode(w) \/ CompleteExecution(w)
  BY <1>2, <1>5, <1>6
  DEF WorkerStep, WorkerAbort, ExecutionFails, DequeueExecution, LoadRun, CheckApproval,
      CommitBlocked, StartNodes, LoadNodes, ExecuteNode, HandleFailure, RequeueExecution, db
<1>8. /\ CompleteExecution(w) /\ FlushOK(w) /\ Flush(w, "SUCCESS")
  <2>1. ASSUME NEW pc \in {"fetch", "failing"}, worker' = [worker EXCEPT ![w].pc = pc]
               \/ worker' = [worker EXCEPT ![w].pc = pc, ![w].pending = {}]
        PROVE  FALSE
    BY <1>1, <2>1 DEF WorkerType
  <2>2. ~BeginNode(w)
    BY <1>2, <2>1 DEF BeginNode
  <2> QED
    BY <1>2, <1>7, <2>2 DEF CompleteExecution
<1>9. PICK m \in worker[w].pending : m \in NodesOf(RunOf(w))
  BY <1>8 DEF FlushOK
<1>10. m.plan \in plans[RunOf(w)]
  BY <1>9 DEF NodesOf
<1>11. \A n \in NodesOf(RunOf(w)) : n.plan = m.plan => n \in done \cup worker[w].pending
  BY <1>8 DEF NodeInv, WorkerNodes, CompleteExecution
<1> QED
  BY <1>8, <1>10, <1>11 DEF Flush

\* A worker that finishes a node and completes its run leaves a plan of the run
\* with every node executed, whatever revocations, new plans, retries and other
\* workers have come in between
THEOREM CompletionIsWhole == Spec => SuccessNeedsEveryNode
<1>1. IInv /\ NodeInv /\ [Next]_vars =>
        [\A w \in Workers :
           /\ worker[w].pc = "loop" /\ worker'[w].pc = "idle"
           /\ worker[w].pending # {}
           /\ status[RunOf(w)] # "SUCCESS" /\ status'[RunOf(w)] = "SUCCESS"
           => \E p \in plans[RunOf(w)] :
                 \A n \in NodesOf(RunOf(w)) : n.plan = p => n \in done']_vars
  BY CompletionStep
<1> QED
  BY <1>1, NodesFollowed, PTL DEF Spec, SuccessNeedsEveryNode
=============================================================================
