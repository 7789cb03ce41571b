----------------------------- MODULE AgentRuntime -----------------------------
(***************************************************************************)
(* Executions of agent capabilities (backend/agent_runtime/service.py).  A  *)
(* request creates an execution, which runs at once or waits for an         *)
(* approval; others approve, reject or cancel it, and the request that      *)
(* approves it runs it.  Every request decides on a copy of the row and     *)
(* writes only the columns it has changed; a row with uncommitted changes   *)
(* is locked for other writers, and for nobody else.                        *)
(***************************************************************************)
EXTENDS Naturals, FiniteSets

CONSTANTS Executions,
          Requests,     \* requests that can be open at a time
          MaxRetries,   \* AgentCapability.max_retries
          NoExecution, Free

ASSUME NoExecutionAssumption == NoExecution \notin Executions
ASSUME FreeAssumption == Free \notin Requests
ASSUME RetriesAssumption == MaxRetries \in Nat

VARIABLES
  highRisk,  \* executions whose capability requires an approval
  row,       \* agent_executions: status, approval_status and retry_count
  rowLock,   \* the request whose transaction has written the row
  req,       \* what each request is doing, and its copy of the row
  approvals, \* history: approvals committed
  attempts,  \* history: calls of the executor
  closed,    \* history: rejected or cancelled with no other request in progress
  dropped    \* history: a request that was to run the execution died

history == <<approvals, attempts, closed, dropped>>
vars    == <<highRisk, row, rowLock, req, history>>

Finished == {"success", "failed", "timeout", "cancelled", "rejected"}
Statuses == {"none", "waiting_approval", "waiting_execution", "running"} \cup Finished

NoRow == [status |-> "none", approval |-> "not_required", retries |-> 0]

Idle == [pc |-> "idle", execution |-> NoExecution, copy |-> NoRow]

\* Requests inside run_execution_flow
Flow == {"refresh", "start", "execute"}

Open(r, pc, e, copy) ==
  req' = [req EXCEPT ![r] = [pc |-> pc, execution |-> e, copy |-> copy]]

Close(r) == req' = [req EXCEPT ![r] = Idle]

Alone(r, e) == \A p \in Requests \ {r} : req[p].execution # e

\* A faulty database without row locks
MayWriteAny(r, e) == TRUE

\* Another transaction's write of the row has to end first
MayWrite(r, e) == rowLock[e] \in {Free, r}

------------------------------------------------------------------------------
(* The operations of the API                                                *)

\* create_execution.  One that needs an approval waits; any other is run in the
\* transaction that inserts it: nobody sees it before the first commit, and its
\* id, drawn at random, does not come back after a rollback.
Fresh(r, e) ==
  /\ req[r].pc = "idle"
  /\ row[e].status = "none" /\ Alone(r, e) /\ ~dropped[e]

\* A faulty creation that does not wait
CreateAtOnce(r, e) ==
  /\ Fresh(r, e) /\ e \in highRisk
  /\ Open(r, "start", e, [NoRow EXCEPT !.status = "waiting_execution", !.approval = "pending"])
  /\ rowLock' = [rowLock EXCEPT ![e] = r]
  /\ UNCHANGED <<row, history>>

CreateToWait(r, e) ==
  /\ Fresh(r, e) /\ e \in highRisk
  /\ row' = [row EXCEPT ![e].status = "waiting_approval", ![e].approval = "pending"]
  /\ UNCHANGED <<rowLock, req, history>>

CreateToRun(r, e) ==
  /\ Fresh(r, e) /\ e \notin highRisk
  /\ rowLock' = [rowLock EXCEPT ![e] = r]
  /\ Open(r, "start", e, [NoRow EXCEPT !.status = "waiting_execution"])
  /\ UNCHANGED <<row, history>>

\* Of the copy, only what the operation looks at again is kept
Load(r, e, op, copy) ==
  /\ req[r].pc = "idle"
  /\ row[e].status # "none"
  /\ Open(r, op, e, copy)
  /\ UNCHANGED <<row, rowLock, history>>

\* A faulty approval that does not look at the status
LoadToApproveAny(r, e) == Load(r, e, "approve", NoRow)

LoadToApprove(r, e) == row[e].status = "waiting_approval" /\ Load(r, e, "approve", NoRow)

\* reject_execution takes an execution in any status
LoadToReject(r, e) == Load(r, e, "reject", [row[e] EXCEPT !.retries = 0])

LoadToCancel(r, e) ==
  /\ row[e].status \notin {"success", "failed", "cancelled", "timeout"}
  /\ Load(r, e, "cancel", [NoRow EXCEPT !.approval = row[e].approval])

\* approve_execution: committed before the execution is run
Approve(r) ==
  LET e == req[r].execution IN
  /\ req[r].pc = "approve"
  /\ MayWrite(r, e)
  /\ row' = [row EXCEPT ![e].status = "waiting_execution", ![e].approval = "approved"]
  /\ approvals' = [approvals EXCEPT ![e] = @ + 1]
  /\ Open(r, "refresh", e, NoRow)
  /\ UNCHANGED <<rowLock, attempts, closed, dropped>>

\* What the copy says already is not written
Written(copy, current, new) == IF copy = new THEN current ELSE new

EndIt(r, op, newStatus, newApproval) ==
  LET e == req[r].execution
      copy == req[r].copy IN
  /\ req[r].pc = op
  /\ MayWrite(r, e)
  /\ row' = [row EXCEPT ![e].status = Written(copy.status, @, newStatus),
                        ![e].approval = Written(copy.approval, @, newApproval)]
  /\ closed' = [closed EXCEPT ![e] = @ \/ Alone(r, e)]
  /\ Close(r)
  /\ UNCHANGED <<rowLock, approvals, attempts, dropped>>

Reject(r) == EndIt(r, "reject", "rejected", "rejected")

Cancel(r) ==
  EndIt(r, "cancel", "cancelled",
        IF req[r].copy.approval = "pending" THEN "rejected" ELSE req[r].copy.approval)

------------------------------------------------------------------------------
(* run_execution_flow                                                       *)

\* After a commit the copy is read again
Refresh(r) ==
  /\ req[r].pc = "refresh"
  /\ Open(r, "start", req[r].execution, [row[req[r].execution] EXCEPT !.approval = "not_required"])
  /\ UNCHANGED <<row, rowLock, history>>

MayStart(copy) == copy.status \in {"waiting_execution", "running"}

Refuse(r) ==
  /\ req[r].pc = "start"
  /\ ~MayStart(req[r].copy)
  /\ Close(r)
  /\ UNCHANGED <<row, rowLock, history>>

\* The status is flushed, which locks the row until the next commit; a copy
\* that is running already leaves nothing to flush
Start(r) ==
  LET e == req[r].execution IN
  /\ req[r].pc = "start"
  /\ MayStart(req[r].copy)
  /\ IF req[r].copy.status = "running"
     THEN UNCHANGED rowLock
     ELSE MayWrite(r, e) /\ rowLock' = [rowLock EXCEPT ![e] = r]
  /\ req' = [req EXCEPT ![r].pc = "execute"]
  /\ attempts' = [attempts EXCEPT ![e] = @ + 1]
  /\ UNCHANGED <<row, approvals, closed, dropped>>

Unlocked(r, e) == IF rowLock[e] = r THEN [rowLock EXCEPT ![e] = Free] ELSE rowLock

\* A faulty retry that never runs out
MayRetryAlways(copy) == copy.retries <= MaxRetries

MayRetry(copy) == copy.retries < MaxRetries

\* A retryable failure: the count is committed and the flow starts again.  The
\* status is part of that commit only if this request had flushed it.
Retry(r) ==
  LET e == req[r].execution
      mine == rowLock[e] = r IN
  /\ req[r].pc = "execute"
  /\ MayRetry(req[r].copy)
  /\ MayWrite(r, e)
  /\ row' = [row EXCEPT ![e] = [status   |-> IF mine THEN "running" ELSE @.status,
                                approval |-> @.approval,
                                retries  |-> req[r].copy.retries + 1]]
  /\ rowLock' = Unlocked(r, e)
  /\ Open(r, "refresh", e, NoRow)
  /\ UNCHANGED history

\* A faulty end that leaves the status to the next request
FinishLater(r, outcome) ==
  /\ req[r].pc = "execute"
  /\ rowLock' = Unlocked(r, req[r].execution)
  /\ Close(r)
  /\ UNCHANGED <<row, history>>

\* The result of the executor is written over whatever the row says now
Finish(r, outcome) ==
  LET e == req[r].execution IN
  /\ req[r].pc = "execute"
  /\ MayWrite(r, e)
  /\ row' = [row EXCEPT ![e].status = outcome]
  /\ rowLock' = Unlocked(r, e)
  /\ Close(r)
  /\ UNCHANGED history

\* The process dies, the executor raises, or the result of a research cannot be
\* stored: the transaction is rolled back
Fail(r) ==
  LET e == req[r].execution IN
  /\ req[r].pc # "idle"
  /\ rowLock' = Unlocked(r, e)
  /\ dropped' = [dropped EXCEPT ![e] = @ \/ req[r].pc \in Flow]
  /\ Close(r)
  /\ UNCHANGED <<row, approvals, attempts, closed>>

------------------------------------------------------------------------------
Init ==
  /\ highRisk \in SUBSET Executions
  /\ row = [e \in Executions |-> NoRow]
  /\ rowLock = [e \in Executions |-> Free]
  /\ req = [r \in Requests |-> Idle]
  /\ approvals = [e \in Executions |-> 0]
  /\ attempts = [e \in Executions |-> 0]
  /\ closed = [e \in Executions |-> FALSE]
  /\ dropped = [e \in Executions |-> FALSE]

Arrive(r) ==
  \E e \in Executions :
    \/ CreateToWait(r, e)
    \/ CreateToRun(r, e)
    \/ LoadToApprove(r, e)
    \/ LoadToReject(r, e)
    \/ LoadToCancel(r, e)

\* What an open request does on its own.  The executor decides how it goes on
RequestStep(r) ==
  \/ Approve(r)
  \/ Reject(r)
  \/ Cancel(r)
  \/ Refresh(r)
  \/ Refuse(r)
  \/ Start(r)
  \/ Retry(r)
  \/ \E outcome \in {"success", "failed", "timeout"} : Finish(r, outcome)

Next == UNCHANGED highRisk /\ \E r \in Requests : Arrive(r) \/ RequestStep(r) \/ Fail(r)

Spec == Init /\ [][Next]_vars

\* The server goes on with every open request, and executors answer
FairSpec == Spec /\ \A r \in Requests : WF_vars(RequestStep(r) /\ UNCHANGED highRisk)

------------------------------------------------------------------------------
(* Properties                                                               *)

RowType == [status : Statuses, approval : {"not_required", "pending", "approved", "rejected"},
            retries : 0 .. MaxRetries]

RequestType == [pc : {"idle", "approve", "reject", "cancel"} \cup Flow,
                execution : Executions \cup {NoExecution}, copy : RowType]

\* Every variable has its type
TypeOK ==
  /\ highRisk \subseteq Executions
  /\ row \in [Executions -> RowType]
  /\ rowLock \in [Executions -> Requests \cup {Free}]
  /\ req \in [Requests -> RequestType]
  /\ approvals \in [Executions -> Nat]
  /\ attempts \in [Executions -> Nat]
  /\ closed \in [Executions -> BOOLEAN]
  /\ dropped \in [Executions -> BOOLEAN]

\* An execution that requires an approval is not executed without one: the
\* executor is never called for it before an approval is committed
NothingRunsUnapproved ==
  \A e \in highRisk : approvals[e] = 0 => attempts[e] = 0

\* An execution that was approved once, or needs no approval, is tried at most
\* once more than its capability may be retried, whoever rejects, cancels or
\* approves it meanwhile
AttemptsBounded ==
  \A e \in Executions : approvals[e] <= 1 => attempts[e] <= MaxRetries + 1

\* A rejection or cancellation that meets no other request is the end: the
\* executor is not called again and no result appears, whatever requests come
ClosedIsOver ==
  [][\A e \in Executions : closed[e] =>
       /\ attempts'[e] = attempts[e]
       /\ row'[e].status \in {row[e].status, "rejected", "cancelled"}]_vars

\* Two approvals that overlap run an execution twice, but one after the other:
\* its row is locked from the start of an attempt to its result, until a retry
\* commits "running", which leaves the next attempt nothing to flush
AttemptsTakeTurns ==
  \A p, r \in Requests :
    /\ p # r
    /\ req[p].pc = "execute" /\ req[r].pc = "execute"
    /\ req[p].execution = req[r].execution
    => row[req[p].execution].retries > 0

\* An approved execution ends, unless the request that runs it is lost
ApprovedEnds ==
  \A e \in Executions :
    row[e].status \in {"waiting_execution", "running"} ~>
      row[e].status \in Finished \/ dropped[e]
=============================================================================
