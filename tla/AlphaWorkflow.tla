---------------------------- MODULE AlphaWorkflow ----------------------------
(***************************************************************************)
(* The Alpha workflow (backend/alpha_workflow/service.py): one POST creates *)
(* a run and drives it, commit by commit, through the task center, the     *)
(* agent runtime, research, the knowledge center and the skills engine.  A  *)
(* failure is compensated, a run can be cancelled while its saga is going   *)
(* on, and a failed one can be recovered.                                   *)
(*                                                                          *)
(* A run is named by the request that inserted it.  What the saga leaves in *)
(* other components is kept per run: the status of its task and of its      *)
(* agent execution, and the set of other records it has committed.          *)
(***************************************************************************)
EXTENDS Naturals, FiniteSets

CONSTANTS Requests,    \* POSTs that start a workflow; each may name one run
          Calls,       \* POSTs to cancel or recover that can be open at a time
          Users,       \* requesters, each an ownership scope of its own
          Traces,      \* effective trace ids
          Identities,  \* what a request asks for: input text and scenario
          Reasons,     \* identities of a recovery request
          NoRun, NoReason

ASSUME NoRunAssumption == NoRun \notin Requests
ASSUME NoReasonAssumption == NoReason \notin Reasons
ASSUME InputsAssumption == Users # {} /\ Traces # {} /\ Identities # {}

VARIABLES
  saga,          \* the state of each request
  answer,        \* the run a request was answered with
  status,        \* alpha_workflow_runs.status ("none": no such row)
  recovery,      \* alpha_workflow_runs.recovery_status
  recoveredBy,   \* the recovery identity in workflow_context_json
  task,          \* status of the run's task
  agent,         \* status of the run's agent execution
  data,          \* other records committed for the run
  call,          \* cancel and recover requests in progress
  recoverEvents, \* history: workflow_recovered events of the run
  failedAt       \* history: the commit after which the saga was compensated

runRow  == <<status, recovery, recoveredBy>>
effects == <<task, agent, data>>
history == <<recoverEvents, failedAt>>
vars    == <<saga, answer, runRow, effects, call, history>>

\* 运行中, 已完成, 已失败, 已取消
Statuses == {"none", "running", "completed", "failed", "cancelled"}

\* 待恢复, 已恢复, 已取消
Recoveries == {"none", "pending", "recovered", "cancelled"}

Data == {"research", "knowledge", "invocation", "result"}

------------------------------------------------------------------------------
(* Starting a run                                                           *)

\* The saga's position: each name is the last commit it has made
Driving == {"opened", "task", "linked", "agent", "knowledge", "skill", "cited", "finished"}

\* The advisory transaction lock on (scope, trace) is held until the insert
\* commits or the request rolls back
Locking == {"locked", "absent"}

IdleSaga == [pc |-> "none", user |-> CHOOSE u \in Users : TRUE,
             trace |-> CHOOSE t \in Traces : TRUE, identity |-> CHOOSE i \in Identities : TRUE]

Goto(q, pc) == saga' = [saga EXCEPT ![q].pc = pc]

Answer(q, r) == Goto(q, "answered") /\ answer' = [answer EXCEPT ![q] = r]

\* _canonical_run_for_scope_trace: a scope's run for a trace
RunsFor(u, t) == {r \in Requests : status[r] # "none" /\ saga[r].user = u /\ saga[r].trace = t}

\* _run_matches_request: the run keeps the identity it was made for and its hash
Matches(r, q) == saga[r].identity = saga[q].identity

Arrive(q, u, t, i) ==
  /\ saga[q].pc = "none"
  /\ saga' = [saga EXCEPT ![q] = [pc |-> "queued", user |-> u, trace |-> t, identity |-> i]]
  /\ UNCHANGED <<answer, runRow, effects, call, history>>

\* A faulty request that takes no lock
AcquireNothing(q) ==
  /\ saga[q].pc = "queued"
  /\ Goto(q, "locked")
  /\ UNCHANGED <<answer, runRow, effects, call, history>>

\* pg_advisory_xact_lock
AcquireLock(q) ==
  /\ saga[q].pc = "queued"
  /\ \A p \in Requests : ~ (/\ saga[p].pc \in Locking
                            /\ saga[p].user = saga[q].user
                            /\ saga[p].trace = saga[q].trace)
  /\ Goto(q, "locked")
  /\ UNCHANGED <<answer, runRow, effects, call, history>>

\* A run of this scope and trace answers the request if it was made for the
\* same input; otherwise the request is a conflict
LookupRun(q) ==
  LET mine == RunsFor(saga[q].user, saga[q].trace) IN
  /\ saga[q].pc = "locked"
  /\ \/ mine = {} /\ Goto(q, "absent") /\ UNCHANGED answer
     \/ \E r \in mine : Answer(q, IF Matches(r, q) THEN r ELSE NoRun)
  /\ UNCHANGED <<runRow, effects, call, history>>

\* The graph is planned and the run inserted in one transaction.  trace_id is
\* unique over all scopes: after a collision the request is answered with the
\* run of its own scope, whatever that run was made for, or fails.
InsertRun(q) ==
  /\ saga[q].pc = "absent"
  /\ \/ /\ \A r \in Requests : status[r] # "none" => saga[r].trace # saga[q].trace
        /\ status' = [status EXCEPT ![q] = "running"]
        /\ Goto(q, "opened")
        /\ UNCHANGED answer
     \/ /\ \E r \in Requests : status[r] # "none" /\ saga[r].trace = saga[q].trace
        /\ LET mine == RunsFor(saga[q].user, saga[q].trace) IN
             IF mine = {} THEN Answer(q, NoRun) ELSE \E r \in mine : Answer(q, r)
        /\ UNCHANGED status
  /\ UNCHANGED <<recovery, recoveredBy, effects, call, history>>

\* Anything that raises before the run is inserted
RequestFails(q) ==
  /\ saga[q].pc \in {"queued"} \cup Locking
  /\ Answer(q, NoRun)
  /\ UNCHANGED <<runRow, effects, call, history>>

------------------------------------------------------------------------------
(* The saga: one action for each commit                                     *)

\* _create_task.  Until run.task_id is committed the task is owned by nobody
\* (task_center_ownership.py).
CreateTask(q) ==
  /\ saga[q].pc = "opened"
  /\ task' = [task EXCEPT ![q] = "created"]
  /\ Goto(q, "task")
  /\ UNCHANGED <<answer, runRow, agent, data, call, history>>

LinkTask(q) ==
  /\ saga[q].pc = "task"
  /\ task' = [task EXCEPT ![q] = "running"]
  /\ Goto(q, "linked")
  /\ UNCHANGED <<answer, runRow, agent, data, call, history>>

\* _create_agent_execution: recorded as completed from the start
CreateAgentExecution(q) ==
  /\ saga[q].pc = "linked"
  /\ agent' = [agent EXCEPT ![q] = "completed"]
  /\ Goto(q, "agent")
  /\ UNCHANGED <<answer, runRow, task, data, call, history>>

\* persist_research_result only flushes: its rows are committed together with
\* the draft by submit_research_report
SubmitResearchReport(q) ==
  /\ saga[q].pc = "agent"
  /\ data' = [data EXCEPT ![q] = @ \cup {"research", "knowledge"}]
  /\ Goto(q, "knowledge")
  /\ UNCHANGED <<answer, runRow, task, agent, call, history>>

\* invoke_skill commits the invocation with a result of the task
InvokeSkill(q) ==
  /\ saga[q].pc = "knowledge"
  /\ data' = [data EXCEPT ![q] = @ \cup {"invocation", "result"}]
  /\ Goto(q, "skill")
  /\ UNCHANGED <<answer, runRow, task, agent, call, history>>

\* record_use: a citation, which goes with the knowledge asset
RecordUse(q) ==
  /\ saga[q].pc = "skill"
  /\ Goto(q, "cited")
  /\ UNCHANGED <<answer, runRow, effects, call, history>>

\* The last commit gives the run its final status whatever status it has now
FinishRun(q) ==
  /\ saga[q].pc = "cited"
  /\ status' = [status EXCEPT ![q] = "completed"]
  /\ task' = [task EXCEPT ![q] = "summarized"]
  /\ data' = [data EXCEPT ![q] = @ \cup {"result"}]
  /\ Goto(q, "finished")
  /\ UNCHANGED <<answer, recovery, recoveredBy, agent, call, history>>

ReturnRun(q) ==
  /\ saga[q].pc = "finished"
  /\ Answer(q, q)
  /\ UNCHANGED <<runRow, effects, call, history>>

\* A faulty cleanup that leaves the skill invocation
CachedDataNoSkill(pc, known) ==
  (IF pc \in {"knowledge", "skill", "cited", "finished"} THEN {"research"} ELSE {})
  \cup (IF pc \in {"skill", "cited", "finished"} \/ (pc = "knowledge" /\ known)
        THEN {"knowledge"} ELSE {})

\* The records whose ids the saga has when it fails at pc; known tells whether
\* the id of the last commit's record had reached its cached_ variable
CachedData(pc, known) ==
  (IF pc \in {"knowledge", "skill", "cited", "finished"} THEN {"research"} ELSE {})
  \cup (IF pc \in {"skill", "cited", "finished"} \/ (pc = "knowledge" /\ known)
        THEN {"knowledge"} ELSE {})
  \cup (IF pc \in {"cited", "finished"} \/ (pc = "skill" /\ known) THEN {"invocation"} ELSE {})

TaskOwned(pc) == pc \in Driving \ {"opened", "task"}

\* A faulty compensation that removes the records and forgets the run
CompensateRecordsOnly(q, known) ==
  /\ saga[q].pc \in Driving
  /\ data' = [data EXCEPT ![q] = {}]
  /\ Answer(q, q)
  /\ UNCHANGED <<runRow, task, agent, call, history>>

\* _compensate_alpha_workflow_failure: rollback, then in one transaction the
\* known records are deleted, the agent execution and the run are marked failed
\* and the task is rejected, if the saga can still see it
Compensate(q, known) ==
  LET pc == saga[q].pc IN
  /\ pc \in Driving
  /\ data' = [data EXCEPT ![q] =
       @ \ (CachedData(pc, known) \cup (IF TaskOwned(pc) THEN {"result"} ELSE {}))]
  /\ task' = [task EXCEPT ![q] = IF TaskOwned(pc) THEN "rejected" ELSE @]
  /\ agent' = [agent EXCEPT ![q] = IF \/ pc \in {"knowledge", "skill", "cited", "finished"}
                                      \/ pc = "agent" /\ known
                                   THEN "failed" ELSE @]
  /\ status' = [status EXCEPT ![q] = "failed"]
  /\ recovery' = [recovery EXCEPT ![q] = "pending"]
  /\ failedAt' = [failedAt EXCEPT ![q] = pc]
  /\ Answer(q, q)
  /\ UNCHANGED <<recoveredBy, call, recoverEvents>>

\* The process dies, or the compensation itself fails: nobody takes the run up
SagaDies(q) ==
  /\ saga[q].pc \in Driving
  /\ Goto(q, "dead")
  /\ UNCHANGED <<answer, runRow, effects, call, history>>

------------------------------------------------------------------------------
(* Cancelling and recovering: the row is loaded once, later queries of the  *)
(* session return the same copy                                             *)

IdleCall == [op |-> "idle", run |-> NoRun, reason |-> NoReason, status |-> "none",
             recovery |-> "none", by |-> NoReason]

Open(c, op, r, reason) ==
  /\ call[c].op = "idle"
  /\ status[r] # "none"
  /\ call' = [call EXCEPT ![c] = [op |-> op, run |-> r, reason |-> reason, status |-> status[r],
                                  recovery |-> recovery[r], by |-> recoveredBy[r]]]
  /\ UNCHANGED <<saga, answer, runRow, effects, history>>

Close(c) == call' = [call EXCEPT ![c] = IdleCall]

\* A run with a final status is only reported
CancelLoad(c, r) ==
  /\ status[r] \notin {"completed", "failed", "cancelled"}
  /\ Open(c, "cancel", r, NoReason)

CancelCommit(c) ==
  LET r == call[c].run IN
  /\ call[c].op = "cancel"
  /\ status' = [status EXCEPT ![r] = "cancelled"]
  /\ recovery' = [recovery EXCEPT ![r] = "cancelled"]
  /\ Close(c)
  /\ UNCHANGED <<saga, answer, recoveredBy, effects, history>>

RecoverLoad(c, r, reason) == Open(c, "recover", r, reason)

\* The advisory lock of the run's recovery
RecoverLock(c) ==
  /\ call[c].op = "recover"
  /\ \A d \in Calls : ~ (call[d].op = "recovering" /\ call[d].run = call[c].run)
  /\ call' = [call EXCEPT ![c].op = "recovering"]
  /\ UNCHANGED <<saga, answer, runRow, effects, history>>

\* A faulty check that lets any unfinished run be recovered
MayRecoverOpen(copy) == copy.recovery # "recovered" /\ copy.status # "completed"

\* Only a failed run is recovered, and only if the copy does not say that it
\* has been
MayRecover(copy) == copy.recovery # "recovered" /\ copy.status = "failed"

\* The run is declared completed; nothing is executed again
RecoverCommit(c) ==
  LET r == call[c].run IN
  /\ call[c].op = "recovering"
  /\ IF MayRecover(call[c])
     THEN /\ status' = [status EXCEPT ![r] = "completed"]
          /\ recovery' = [recovery EXCEPT ![r] = "recovered"]
          /\ recoveredBy' = [recoveredBy EXCEPT ![r] = call[c].reason]
          /\ recoverEvents' = [recoverEvents EXCEPT ![r] = @ + 1]
     ELSE UNCHANGED <<runRow, recoverEvents>>
  /\ Close(c)
  /\ UNCHANGED <<saga, answer, effects, failedAt>>

CallFails(c) ==
  /\ call[c].op # "idle"
  /\ Close(c)
  /\ UNCHANGED <<saga, answer, runRow, effects, history>>

------------------------------------------------------------------------------
Init ==
  /\ saga = [q \in Requests |-> IdleSaga]
  /\ answer = [q \in Requests |-> NoRun]
  /\ status = [q \in Requests |-> "none"]
  /\ recovery = [q \in Requests |-> "none"]
  /\ recoveredBy = [q \in Requests |-> NoReason]
  /\ task = [q \in Requests |-> "none"]
  /\ agent = [q \in Requests |-> "none"]
  /\ data = [q \in Requests |-> {}]
  /\ call = [c \in Calls |-> IdleCall]
  /\ recoverEvents = [q \in Requests |-> 0]
  /\ failedAt = [q \in Requests |-> "none"]

\* What a request does on its own
SagaStep(q) ==
  \/ AcquireLock(q)
  \/ LookupRun(q)
  \/ InsertRun(q)
  \/ CreateTask(q)
  \/ LinkTask(q)
  \/ CreateAgentExecution(q)
  \/ SubmitResearchReport(q)
  \/ InvokeSkill(q)
  \/ RecordUse(q)
  \/ FinishRun(q)
  \/ ReturnRun(q)

CallStep(c) ==
  \/ \E r \in Requests : CancelLoad(c, r)
  \/ CancelCommit(c)
  \/ \E r \in Requests, reason \in Reasons : RecoverLoad(c, r, reason)
  \/ RecoverLock(c)
  \/ RecoverCommit(c)

Fault ==
  \/ \E q \in Requests : RequestFails(q)
  \/ \E q \in Requests, known \in BOOLEAN : Compensate(q, known)
  \/ \E q \in Requests : SagaDies(q)
  \/ \E c \in Calls : CallFails(c)

Next ==
  \/ \E q \in Requests, u \in Users, t \in Traces, i \in Identities : Arrive(q, u, t, i)
  \/ \E q \in Requests : SagaStep(q)
  \/ \E c \in Calls : CallStep(c)
  \/ Fault

Spec == Init /\ [][Next]_vars

\* A request that has arrived is served; clients promise nothing
FairSpec == Spec /\ \A q \in Requests : WF_vars(SagaStep(q))

------------------------------------------------------------------------------
(* Properties                                                               *)

SagaType == [pc : {"none", "queued", "answered", "dead"} \cup Locking \cup Driving,
             user : Users, trace : Traces, identity : Identities]

CallType == [op : {"idle", "cancel", "recover", "recovering"}, run : Requests \cup {NoRun},
             reason : Reasons \cup {NoReason}, status : Statuses, recovery : Recoveries,
             by : Reasons \cup {NoReason}]

\* Every variable has its type
TypeOK ==
  /\ saga \in [Requests -> SagaType]
  /\ answer \in [Requests -> Requests \cup {NoRun}]
  /\ status \in [Requests -> Statuses]
  /\ recovery \in [Requests -> Recoveries]
  /\ recoveredBy \in [Requests -> Reasons \cup {NoReason}]
  /\ task \in [Requests -> {"none", "created", "running", "summarized", "rejected"}]
  /\ agent \in [Requests -> {"none", "completed", "failed"}]
  /\ data \in [Requests -> SUBSET Data]
  /\ call \in [Calls -> CallType]
  /\ recoverEvents \in [Requests -> Nat]
  /\ failedAt \in [Requests -> Driving \cup {"none"}]

\* Concurrent requests with one trace: whoever is answered with a run gets the
\* run of its own scope, made for the same input, and all of them the same one.
\* The second lookup, after a collision, does not compare the inputs: the lock
\* must be held until the insert has committed.
ReplayMatches ==
  /\ \A q \in Requests : answer[q] # NoRun =>
       LET r == answer[q] IN
       /\ status[r] # "none"
       /\ saga[r].user = saga[q].user
       /\ saga[r].trace = saga[q].trace
       /\ saga[r].identity = saga[q].identity
  /\ \A p, q \in Requests :
       answer[p] # NoRun /\ answer[q] # NoRun /\ saga[p].trace = saga[q].trace
         => answer[p] = answer[q]

\* A run that its saga has completed has everything it is made of, although the
\* saga is compensated when something raises even after its last commit
CompletedIsWhole ==
  \A q \in Requests : status[q] = "completed" /\ recoverEvents[q] = 0 =>
    /\ task[q] = "summarized"
    /\ agent[q] = "completed"
    /\ data[q] = Data

\* What is left of a run after its compensation
Residue(q) == data[q] \cup (IF task[q] \in {"none", "rejected"} THEN {} ELSE {"task"})
                      \cup (IF agent[q] = "completed" THEN {"agent"} ELSE {})

\* The record of the commit itself after which the saga failed
LastRecord(pc) ==
  CASE pc = "task"      -> {"task"}
    [] pc = "agent"     -> {"agent"}
    [] pc = "knowledge" -> {"knowledge"}
    [] pc = "skill"     -> {"invocation"}
    [] OTHER            -> {}

\* Wherever the saga fails, the compensation undoes in every component all that
\* was committed before the last commit: only the record of the last one, whose
\* id may not have been noted yet, can survive
OnlyLastRecordSurvives ==
  \A q \in Requests : failedAt[q] # "none" => Residue(q) \subseteq LastRecord(failedAt[q])

\* A run that has been recovered is quiet: its saga is over and can write
\* nothing over the recovered row
RecoveredRunIsQuiet ==
  \A q \in Requests : recoverEvents[q] > 0 => saga[q].pc = "answered" /\ failedAt[q] # "none"

\* A run does not stay in progress unless the process driving it died: it is
\* completed, cancelled, or failed and compensated
RunsEnd ==
  \A q \in Requests : status[q] = "running" ~> status[q] # "running" \/ saga[q].pc = "dead"
=============================================================================
