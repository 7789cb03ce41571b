--------------------------- MODULE BrainExecution ---------------------------
(***************************************************************************)
(* The Brain Execution engine (backend/brain_execution): runs are planned, *)
(* approved and started through the API, travel through a Redis list and   *)
(* are executed node by node by the worker.                                *)
(*                                                                         *)
(* An API handler and a worker each have a SQLAlchemy session of their own *)
(* (autoflush off, READ COMMITTED): a row is read when it is first used,   *)
(* every decision is taken on that copy, and the columns that differ from  *)
(* the copy are written when the session commits.  A handler is therefore  *)
(* a Load step and a Commit step with anything in between, and a failure   *)
(* of the handler at any point (Abort) rolls its session back, while what  *)
(* it already pushed to Redis stays.                                       *)
(***************************************************************************)
EXTENDS Naturals, Sequences, FiniteSets

CONSTANTS Runs,        \* rows of brain_execution_runs that may be created
          Items,       \* identities of queue items, one for each push of /start
          Workers,     \* processes running the worker loop
          Requests,    \* API requests that can be in progress at one time
          PlanIds,     \* one identity for each plan that may be generated
          NodeCount,   \* nodes in the task graph of a plan
          MaxRetry,    \* max_retry of a run
          NoItem, NoRun

ASSUME NodeCountAssumption == NodeCount \in Nat \ {0}
ASSUME MaxRetryAssumption == MaxRetry \in Nat
ASSUME NoItemAssumption == NoItem \notin Items
ASSUME NoRunAssumption == NoRun \notin Runs

VARIABLES
  status,        \* brain_execution_runs.status ("NONE": no such row yet)
  approval,      \* do the flags of the latest approval record clear the run?
  plans,         \* the plans whose nodes are in brain_task_nodes
  done,          \* the nodes whose status is SUCCESS
  queue,         \* the Redis list brain_execution_queue:normal
  itemRun,       \* execution_id of each item, NoRun before it is pushed
  attempt,       \* attempt of each item
  worker,        \* the state of each worker's call of process_next_execution
  request,       \* the state of each API request
  usedPlans,     \* the plan identities given out so far
  approved,      \* history: a privileged user has approved the run
  approvedPlans  \* history: the plans a privileged user has approved

db      == <<status, approval, plans, usedPlans, done>>
redis   == <<queue, itemRun, attempt>>
history == <<approved, approvedPlans>>
vars    == <<db, redis, worker, request, history>>

------------------------------------------------------------------------------
(* The state machine of a run                                               *)

States == {"CREATED", "ANALYZED", "PLANNED", "WAIT_APPROVAL", "APPROVED", "QUEUED",
           "RUNNING", "SUCCESS", "FAILED", "TIMEOUT", "REVIEWED"}

AllowedTransitions ==
  [s \in States |->
     CASE s = "CREATED"       -> {"ANALYZED", "FAILED"}
       [] s = "ANALYZED"      -> {"PLANNED", "WAIT_APPROVAL", "FAILED"}
       [] s = "PLANNED"       -> {"WAIT_APPROVAL", "FAILED"}
       [] s = "WAIT_APPROVAL" -> {"PLANNED", "APPROVED", "FAILED"}
       [] s = "APPROVED"      -> {"QUEUED", "FAILED"}
       [] s = "QUEUED"        -> {"RUNNING", "FAILED", "TIMEOUT"}
       [] s = "RUNNING"       -> {"SUCCESS", "FAILED", "TIMEOUT", "QUEUED"}
       [] s \in {"SUCCESS", "FAILED", "TIMEOUT"} -> {"REVIEWED"}
       [] s = "REVIEWED"      -> {}]

\* A faulty transition_run that checks nothing
UncheckedTransition(s, t) == TRUE

\* transition_run raises ValueError when this is false
MayTransition(s, t) == t = s \/ t \in AllowedTransitions[s]

\* UPDATE of the status column: SQLAlchemy writes it only when the session's
\* value differs from the one it loaded
WriteStatus(r, loaded, value) ==
  status' = IF value = loaded THEN status ELSE [status EXCEPT ![r] = value]

------------------------------------------------------------------------------
(* API handlers                                                             *)

Ops == {"none", "plan", "approve", "block", "note", "start", "started"}

IdleRequest == [op |-> "none", run |-> NoRun, loaded |-> "NONE", flag |-> FALSE, old |-> {}]

\* A request in progress: the status its session loaded, the flags of its
\* payload and the plans it has seen
Open(q, op, r, flag) ==
  /\ request[q].op = "none"
  /\ status[r] # "NONE"
  /\ request' = [request EXCEPT ![q] =
       [op |-> op, run |-> r, loaded |-> status[r], flag |-> flag, old |-> plans[r]]]
  /\ UNCHANGED <<db, redis, worker, history>>

Close(q) == request' = [request EXCEPT ![q] = IdleRequest]

\* POST /analyze
AnalyzeGoal(r) ==
  /\ status[r] = "NONE"
  /\ status' = [status EXCEPT ![r] = "ANALYZED"]
  /\ UNCHANGED <<approval, plans, usedPlans, done, redis, worker, request, history>>

\* POST /plan without an execution_id
CreatePlanNewRun(r, p, flag) ==
  /\ status[r] = "NONE"
  /\ p \notin usedPlans
  /\ usedPlans' = usedPlans \cup {p}
  /\ status' = [status EXCEPT ![r] = "WAIT_APPROVAL"]
  /\ plans' = [plans EXCEPT ![r] = {p}]
  /\ approval' = [approval EXCEPT ![r] = flag]
  /\ UNCHANGED <<done, redis, worker, request, history>>

\* POST /plan for an existing run: the transitions to ANALYZED, PLANNED and
\* WAIT_APPROVAL are checked on the loaded status, the old nodes are deleted
CreatePlanLoad(q, r, flag) ==
  /\ status[r] # "NONE"
  /\ usedPlans # PlanIds    \* bound
  /\ MayTransition(IF status[r] = "CREATED" THEN "ANALYZED" ELSE status[r], "PLANNED")
  /\ Open(q, "plan", r, flag)

CreatePlanCommit(q, p) ==
  LET req == request[q] IN
  /\ req.op = "plan"
  /\ p \notin usedPlans
  /\ usedPlans' = usedPlans \cup {p}
  /\ WriteStatus(req.run, req.loaded, "WAIT_APPROVAL")
  /\ plans' = [plans EXCEPT ![req.run] = (@ \ req.old) \cup {p}]
  /\ done' = {n \in done : ~(n.run = req.run /\ n.plan \in req.old)}
  /\ approval' = [approval EXCEPT ![req.run] = req.flag]
  /\ Close(q)
  /\ UNCHANGED <<redis, worker, history>>

\* POST /approve by an owner or admin.  Without both flags the run is put
\* back to WAIT_APPROVAL from whatever status it has; with both flags and
\* decision "approved" it takes the checked transition; any other decision
\* only leaves a record.
ApproveRunLoad(q, r, flag, decision) ==
  \/ /\ ~flag
     /\ Open(q, "block", r, flag)
  \/ /\ flag
     /\ decision = "approved"
     /\ status[r] # "NONE"
     /\ MayTransition(status[r], "APPROVED")
     /\ Open(q, "approve", r, flag)
  \/ /\ flag
     /\ decision # "approved"
     /\ Open(q, "note", r, flag)

ApproveRunCommit(q) ==
  LET req == request[q]
      r   == req.run
  IN
  /\ req.op \in {"block", "approve", "note"}
  /\ approval' = [approval EXCEPT ![r] = req.flag]
  /\ WriteStatus(r, req.loaded, CASE req.op = "block"   -> "WAIT_APPROVAL"
                                  [] req.op = "approve" -> "APPROVED"
                                  [] req.op = "note"    -> req.loaded)
  /\ IF req.op = "approve"
     THEN /\ approved' = [approved EXCEPT ![r] = TRUE]
          /\ approvedPlans' = [approvedPlans EXCEPT ![r] = @ \cup req.old]
     ELSE UNCHANGED history
  /\ Close(q)
  /\ UNCHANGED <<plans, usedPlans, done, redis, worker>>

\* POST /start: the latest approval record decides.  If it does not clear the
\* run the status is overwritten, otherwise the run is queued: the item goes to
\* Redis before the session commits.
StartLoad(q, r) ==
  \/ /\ approval[r]
     /\ \E i \in Items : itemRun[i] = NoRun    \* bound
     /\ status[r] # "NONE"
     /\ MayTransition(status[r], "QUEUED")
     /\ Open(q, "start", r, TRUE)
  \/ /\ ~approval[r]
     /\ Open(q, "start", r, FALSE)

EnqueueExecution(q, i) ==
  /\ request[q].op = "start"
  /\ request[q].flag
  /\ itemRun[i] = NoRun
  /\ queue' = Append(queue, i)
  /\ itemRun' = [itemRun EXCEPT ![i] = request[q].run]
  /\ request' = [request EXCEPT ![q].op = "started"]
  /\ UNCHANGED <<db, attempt, worker, history>>

StartCommit(q) ==
  LET req == request[q] IN
  /\ \/ req.op = "started" /\ WriteStatus(req.run, req.loaded, "QUEUED")
     \/ req.op = "start" /\ ~req.flag /\ WriteStatus(req.run, req.loaded, "WAIT_APPROVAL")
  /\ Close(q)
  /\ UNCHANGED <<approval, plans, usedPlans, done, redis, worker, history>>

\* The handler fails (lost connection, Redis error, process killed)
RequestAbort(q) ==
  /\ request[q].op # "none"
  /\ Close(q)
  /\ UNCHANGED <<db, redis, worker, history>>

------------------------------------------------------------------------------
(* The worker                                                               *)

PCs == {"idle", "popped", "checked", "blocking", "claimed", "started", "loop", "fetch",
        "failing", "requeue"}

Node == [run : Runs, plan : PlanIds, seq : 1..NodeCount]

\* loaded: the status the session read; sess: its value in the session;
\* todo: the nodes still to run; pending: the node finished in the session
\* whose status is not written yet; kind: what handle_failure is told
IdleWorker == [pc |-> "idle", item |-> NoItem, loaded |-> "NONE", sess |-> "NONE",
               todo |-> {}, pending |-> {}, kind |-> "FAILED"]

RunOf(w) == itemRun[worker[w].item]

Goto(w, pc) == worker' = [worker EXCEPT ![w].pc = pc]

\* The call returns (or raises into worker.py, which logs and goes on): the
\* session is closed and the item is forgotten
Release(w) == worker' = [worker EXCEPT ![w] = IdleWorker]

NodesOf(r) == {n \in Node : n.run = r /\ n.plan \in plans[r]}

\* A faulty flush that does not look whether its rows are still there
FlushUnchecked(w) == TRUE

\* The flush finds every row it must update (otherwise StaleDataError).  A
\* node that already was SUCCESS needs no update.
FlushOK(w) == \A n \in worker[w].pending : n \in NodesOf(RunOf(w))

\* BLPOP
DequeueExecution(w) ==
  /\ worker[w].pc = "idle"
  /\ queue # <<>>
  /\ worker' = [worker EXCEPT ![w] = [IdleWorker EXCEPT !.pc = "popped", !.item = Head(queue)]]
  /\ queue' = Tail(queue)
  /\ UNCHANGED <<db, itemRun, attempt, request, history>>

\* Only a QUEUED run is executed; for any other the item is dropped
LoadRun(w) ==
  /\ worker[w].pc = "popped"
  /\ IF status[RunOf(w)] = "QUEUED" THEN Goto(w, "checked") ELSE Release(w)
  /\ UNCHANGED <<db, redis, request, history>>

CheckApproval(w) ==
  /\ worker[w].pc = "checked"
  /\ Goto(w, IF approval[RunOf(w)] THEN "claimed" ELSE "blocking")
  /\ UNCHANGED <<db, redis, request, history>>

CommitBlocked(w) ==
  /\ worker[w].pc = "blocking"
  /\ WriteStatus(RunOf(w), "QUEUED", "WAIT_APPROVAL")
  /\ Release(w)
  /\ UNCHANGED <<approval, plans, usedPlans, done, redis, request, history>>

\* The commit of update_worker_status expired the run: it is read again and
\* the transition to RUNNING is checked on what is read
StartNodes(w) ==
  LET s == status[RunOf(w)] IN
  /\ worker[w].pc = "claimed"
  /\ worker' = [worker EXCEPT
       ![w].pc = IF MayTransition(s, "RUNNING") THEN "started" ELSE "failing",
       ![w].loaded = s,
       ![w].sess = IF MayTransition(s, "RUNNING") THEN "RUNNING" ELSE s,
       ![w].kind = "FAILED"]
  /\ UNCHANGED <<db, redis, request, history>>

LoadNodes(w) ==
  /\ worker[w].pc = "started"
  /\ worker' = [worker EXCEPT ![w].pc = "loop", ![w].todo = NodesOf(RunOf(w))]
  /\ UNCHANGED <<db, redis, request, history>>

\* What a commit of the worker's session writes
Flush(w, value) ==
  /\ WriteStatus(RunOf(w), worker[w].loaded, value)
  /\ done' = done \cup worker[w].pending

\* update_worker_status at the head of the loop commits the session
BeginNode(w) ==
  /\ worker[w].pc = "loop"
  /\ worker[w].todo # {}
  /\ IF FlushOK(w)
     THEN /\ Flush(w, worker[w].sess)
          /\ worker' = [worker EXCEPT ![w].pc = "fetch", ![w].pending = {}]
     ELSE /\ Release(w)
          /\ UNCHANGED <<status, done>>
  /\ UNCHANGED <<approval, plans, usedPlans, redis, request, history>>

\* The rest of the loop body: the run and the node are read again (a node that
\* is gone raises), the node is executed in the session.  Nodes go in the order
\* of sequence_order.
ExecuteNode(w, n) ==
  LET s == status[RunOf(w)] IN
  /\ worker[w].pc = "fetch"
  /\ n \in worker[w].todo
  /\ \A m \in worker[w].todo : n.seq <= m.seq
  /\ worker' = IF n \in NodesOf(RunOf(w))
               THEN [worker EXCEPT ![w].pc = "loop", ![w].loaded = s, ![w].sess = s,
                                   ![w].todo = @ \ {n},
                                   ![w].pending = IF n \in done THEN {} ELSE {n}]
               ELSE [worker EXCEPT ![w].pc = "failing", ![w].loaded = s, ![w].sess = s]
  /\ UNCHANGED <<db, redis, request, history>>

\* After the last node: transition to SUCCESS and commit
CompleteExecution(w) ==
  /\ worker[w].pc = "loop"
  /\ worker[w].todo = {}
  /\ IF MayTransition(worker[w].sess, "SUCCESS")
     THEN /\ Release(w)
          /\ IF FlushOK(w) THEN Flush(w, "SUCCESS") ELSE UNCHANGED <<status, done>>
     ELSE /\ Goto(w, "failing")
          /\ UNCHANGED <<status, done>>
  /\ UNCHANGED <<approval, plans, usedPlans, redis, request, history>>

\* An exception inside the try block.  Only the simulate flags raise a timeout.
ExecutionFails(w, kind) ==
  /\ \/ worker[w].pc = "started"
     \/ worker[w].pc = "loop" /\ kind = "FAILED"
  /\ worker' = [worker EXCEPT ![w].pc = "failing", ![w].kind = kind]
  /\ UNCHANGED <<db, redis, request, history>>

\* A faulty limit: one retry too many
RetryOnceMore(w) == attempt[worker[w].item] <= MaxRetry

MayRetry(w) == attempt[worker[w].item] < MaxRetry

\* handle_failure: while attempts are left the run goes back to QUEUED and,
\* after the commit, the item goes back to Redis; then FAILED or TIMEOUT.  A
\* transition the table forbids raises out of the call.
HandleFailure(w) ==
  LET target == IF MayRetry(w) THEN "QUEUED" ELSE worker[w].kind IN
  /\ worker[w].pc = "failing"
  /\ IF MayTransition(worker[w].sess, target) /\ FlushOK(w)
     THEN /\ Flush(w, target)
          /\ IF MayRetry(w) THEN Goto(w, "requeue") ELSE Release(w)
     ELSE /\ Release(w)
          /\ UNCHANGED <<status, done>>
  /\ UNCHANGED <<approval, plans, usedPlans, redis, request, history>>

\* A faulty requeue that forgets to count the attempt
RequeueUncounted(w) ==
  /\ worker[w].pc = "requeue"
  /\ queue' = Append(queue, worker[w].item)
  /\ Release(w)
  /\ UNCHANGED <<db, itemRun, attempt, request, history>>

RequeueExecution(w) ==
  LET i == worker[w].item IN
  /\ worker[w].pc = "requeue"
  /\ attempt' = [attempt EXCEPT ![i] = @ + 1]
  /\ queue' = Append(queue, i)
  /\ Release(w)
  /\ UNCHANGED <<db, itemRun, request, history>>

\* The worker process dies, or an exception leaves process_execution_item
WorkerAbort(w) ==
  /\ worker[w].pc # "idle"
  /\ Release(w)
  /\ UNCHANGED <<db, redis, request, history>>

------------------------------------------------------------------------------
Init ==
  /\ status = [r \in Runs |-> "NONE"]
  /\ approval = [r \in Runs |-> FALSE]
  /\ plans = [r \in Runs |-> {}]
  /\ usedPlans = {}
  /\ done = {}
  /\ queue = <<>>
  /\ itemRun = [i \in Items |-> NoRun]
  /\ attempt = [i \in Items |-> 0]
  /\ worker = [w \in Workers |-> IdleWorker]
  /\ request = [q \in Requests |-> IdleRequest]
  /\ approved = [r \in Runs |-> FALSE]
  /\ approvedPlans = [r \in Runs |-> {}]

Decisions == {"approved", "rejected"}

RequestNext ==
  \/ \E r \in Runs : AnalyzeGoal(r)
  \/ \E r \in Runs, p \in PlanIds, f \in BOOLEAN : CreatePlanNewRun(r, p, f)
  \/ \E q \in Requests, r \in Runs, f \in BOOLEAN : CreatePlanLoad(q, r, f)
  \/ \E q \in Requests, p \in PlanIds : CreatePlanCommit(q, p)
  \/ \E q \in Requests, r \in Runs, f \in BOOLEAN, d \in Decisions : ApproveRunLoad(q, r, f, d)
  \/ \E q \in Requests : ApproveRunCommit(q)
  \/ \E q \in Requests, r \in Runs : StartLoad(q, r)
  \/ \E q \in Requests, i \in Items : EnqueueExecution(q, i)
  \/ \E q \in Requests : StartCommit(q)

\* What a worker does on its own, without failures of its environment
WorkerStep(w) ==
  \/ DequeueExecution(w)
  \/ LoadRun(w)
  \/ CheckApproval(w)
  \/ CommitBlocked(w)
  \/ StartNodes(w)
  \/ LoadNodes(w)
  \/ BeginNode(w)
  \/ \E n \in worker[w].todo : ExecuteNode(w, n)
  \/ CompleteExecution(w)
  \/ HandleFailure(w)
  \/ RequeueExecution(w)

Fault ==
  \/ \E w \in Workers, k \in {"FAILED", "TIMEOUT"} : ExecutionFails(w, k)
  \/ \E w \in Workers : WorkerAbort(w)
  \/ \E q \in Requests : RequestAbort(q)

NoFaultNext == RequestNext \/ \E w \in Workers : WorkerStep(w)

Next == NoFaultNext \/ Fault

Spec == Init /\ [][Next]_vars

\* The same system when nothing fails
NoFaultSpec == Init /\ [][NoFaultNext]_vars

FairSpec == Spec /\ \A w \in Workers : WF_vars(WorkerStep(w))
------------------------------------------------------------------------------
(* Properties                                                               *)

Held == {worker[w].item : w \in Workers} \ {NoItem}

InQueue(i) == \E k \in DOMAIN queue : queue[k] = i

WorkerType == [pc : PCs, item : Items \cup {NoItem}, loaded : States \cup {"NONE"},
               sess : States \cup {"NONE"}, todo : SUBSET Node, pending : SUBSET Node,
               kind : {"FAILED", "TIMEOUT"}]

RequestType == [op : Ops, run : Runs \cup {NoRun}, loaded : States \cup {"NONE"},
                flag : BOOLEAN, old : SUBSET PlanIds]

\* Every variable has its type; an item is put back at most MaxRetry times
TypeOK ==
  /\ status \in [Runs -> States \cup {"NONE"}]
  /\ approval \in [Runs -> BOOLEAN]
  /\ plans \in [Runs -> SUBSET PlanIds]
  /\ usedPlans \subseteq PlanIds
  /\ done \subseteq Node
  /\ queue \in Seq(Items)
  /\ itemRun \in [Items -> Runs \cup {NoRun}]
  /\ attempt \in [Items -> 0..MaxRetry]
  /\ worker \in [Workers -> WorkerType]
  /\ request \in [Requests -> RequestType]
  /\ approved \in [Runs -> BOOLEAN]
  /\ approvedPlans \in [Runs -> SUBSET PlanIds]

\* Where an item is, for RetryQueue
Place == [i \in Items |-> IF itemRun[i] = NoRun THEN "unused"
                          ELSE IF InQueue(i) THEN "queued"
                          ELSE IF i \in Held THEN "held"
                          ELSE "settled"]

Abstract == INSTANCE RetryQueue WITH place <- Place, tries <- attempt

\* The Redis list with its requeue (queue.py) keeps the promises of RetryQueue
\* under every interleaving of handlers, workers, retries and crashes: no item
\* is duplicated by a retry, none is retried more than max_retry times, none
\* comes back after it was settled
ImplementsRetryQueue == Abstract!RQSpec

\* An item is never in the list twice, with two workers, or both in the list and
\* with a worker, however the pushes of /start and of handle_failure interleave
ItemInOnePlace ==
  /\ \A j, k \in DOMAIN queue : queue[j] = queue[k] => j = k
  /\ \A w \in Workers : worker[w].item # NoItem => ~InQueue(worker[w].item)
  /\ \A v, w \in Workers :
        worker[v].item = worker[w].item /\ worker[v].item # NoItem => v = w

\* Statuses a run can only have after an approval
PastApproval == {"APPROVED", "QUEUED", "RUNNING", "SUCCESS", "FAILED", "TIMEOUT", "REVIEWED"}

\* Nothing of a run is executed, queued or held by a worker before an owner or
\* admin has approved it with both flags: the flags that any user may put into
\* a plan's own pending record (planner.py) do not get a run past /start
NoExecutionWithoutApproval ==
  /\ \A r \in Runs : status[r] \in PastApproval => approved[r]
  /\ \A n \in done : approved[n.run]
  /\ \A i \in Items : itemRun[i] # NoRun => approved[itemRun[i]]

\* A worker that completes a run by executing its last node leaves a plan of the
\* run with every node executed: when a revocation and a new plan overtake it
\* (planner.py deletes the nodes), its commit fails and does not complete the new
\* plan unseen.  (A retry that finds every node SUCCESS already has no row to
\* update and is not stopped this way.)  Two overlapping /plan requests leave a
\* run with two plans, and nothing more can be said of the other one.
SuccessNeedsEveryNode ==
  [][\A w \in Workers :
       /\ worker[w].pc = "loop" /\ worker'[w].pc = "idle"
       /\ worker[w].pending # {}
       /\ status[RunOf(w)] # "SUCCESS" /\ status'[RunOf(w)] = "SUCCESS"
       => \E p \in plans[RunOf(w)] :
             \A n \in NodesOf(RunOf(w)) : n.plan = p => n \in done']_vars

\* Every item pushed to Redis is eventually settled: retries end, whatever is
\* dropped, blocked, requeued or lost with its worker on the way
ItemsSettle == \A i \in Items : itemRun[i] # NoRun ~> Place[i] = "settled"

\* Only the nodes of a plan that was approved are executed.  Violated: the
\* worker reads the nodes after it has checked the approval, and its write of
\* RUNNING hides a revocation and a new plan that came in between
ExecutedPlanWasApproved == \A n \in done : n.plan \in approvedPlans[n.run]
=============================================================================
