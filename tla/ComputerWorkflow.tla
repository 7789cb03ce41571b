--------------------------- MODULE ComputerWorkflow ---------------------------
(***************************************************************************)
(* One computer workflow (backend/agent_runtime/workflows/computer): a      *)
(* fixed list of steps that is approved as a whole, asks for a confirmation *)
(* before the steps that require a checkpoint, and executes one step per    *)
(* start or resume.                                                         *)
(*                                                                         *)
(* A step is planned, approved, performed on the computer and stored in a   *)
(* single transaction (create_action_plan, approve_action, execute_action   *)
(* with commit=False): its first flush locks the row of the workflow, and   *)
(* the plan of a step is unique.  Every other handler reads its rows, and   *)
(* commits the columns it has changed.                                      *)
(***************************************************************************)
EXTENDS Naturals, FiniteSets

CONSTANTS N,            \* number of steps
          Guarded,      \* steps that require a checkpoint
          Checkpoints,  \* ids of checkpoint rows
          Requests,     \* requests that can be open at a time
          MaxFaults,    \* failures and crashes
          None          \* no request and no checkpoint

Steps == 1 .. N

ASSUME StepsAssumption   == N \in Nat \ {0}
ASSUME GuardedAssumption == Guarded \subseteq Steps
ASSUME FaultsAssumption  == MaxFaults \in Nat
ASSUME NoneAssumption    == None \notin Requests \cup Checkpoints

VARIABLES
  workflow,    \* computer_workflows: status, current_step; approval_status, which its approval
               \* row repeats
  step,        \* status of each step
  checkpoint,  \* computer_workflow_checkpoints: step and answer
  evidence,    \* the performance of each step whose evidence is committed, with its plan,
               \* action and verification; 0: none
  files,       \* screenshots: pairs of a step and one of its performances
  lock,        \* the request whose transaction holds the rows of the workflow
  results,     \* rows in task_center_results
  req,         \* what each request is doing, and what it has read
  faults,      \* faults so far
  performed,   \* history: how often a step was performed on the computer
  wasted,      \* history: ... and how often that was not stored
  allowed,     \* history: steps that a checkpoint has allowed
  doubled      \* history: steps that overlapping requests have asked about

rows    == <<workflow, step, checkpoint, evidence, lock, results>>
history == <<performed, wasted, allowed, doubled>>
vars    == <<rows, files, req, faults, history>>

stored == {n \in Steps : evidence[n] # 0}

Stopped == {"rejected", "cancelled", "terminated"}
Statuses == Stopped \cup {"none", "pending", "approved", "asking", "paused", "completed"}

NoWorkflow   == [status |-> "none", approval |-> "waiting", current |-> 0]
NoCheckpoint == [of |-> 0, answer |-> "none"]

Idle == [pc |-> "idle", seen |-> NoWorkflow, step |-> 0, was |-> "todo", checkpoint |-> None,
         answer |-> "none", missed |-> FALSE, shot |-> 0]

Open(r, pc) == req' = [req EXCEPT ![r] = [Idle EXCEPT !.pc = pc, !.seen = [workflow EXCEPT !.current = 0]]]
Faulted     == faults < MaxFaults /\ faults' = faults + 1

\* A column is written if the handler has changed what it has read
Put(seen, new, now) == IF new = seen THEN now ELSE new

\* r has written the status and ends; the requests that have read it before have missed that
WroteStatus(r) ==
  req' = [q \in Requests |->
            IF q = r THEN Idle
            ELSE IF req[q].pc = "idle" THEN Idle ELSE [req[q] EXCEPT !.missed = TRUE]]

Close(r) == req' = [req EXCEPT ![r] = Idle]

------------------------------------------------------------------------------
(* Decisions on the workflow and on checkpoints                             *)

CreateWorkflow ==
  /\ workflow.status = "none"
  /\ workflow' = [workflow EXCEPT !.status = "pending"]
  /\ UNCHANGED <<step, checkpoint, evidence, files, lock, results, req, faults, history>>

Exists == workflow.status # "none"

\* Only an approval looks at what it finds: it must not be approved already
LoadDecision(r, op) ==
  /\ req[r].pc = "idle"
  /\ Exists
  /\ op = "approve" => workflow.approval # "approved"
  /\ Open(r, op)
  /\ UNCHANGED <<rows, files, faults, history>>

Answer(op) == CASE op = "approve" -> "approved" [] op = "reject" -> "rejected" [] OTHER -> "none"
Outcome(op) == CASE op = "pause" -> "paused" [] op = "cancel" -> "cancelled" [] OTHER -> Answer(op)

DecideWorkflow(r) ==
  /\ req[r].pc \in {"approve", "reject", "pause", "cancel"}
  /\ lock = None
  /\ LET seen   == req[r].seen
         answer == Answer(req[r].pc)
         new    == Outcome(req[r].pc) IN
     /\ workflow' = [workflow EXCEPT
          !.status   = Put(seen.status, new, @),
          !.approval = IF answer = "none" THEN @ ELSE Put(seen.approval, answer, @)]
     /\ IF new = seen.status THEN Close(r) ELSE WroteStatus(r)
  /\ UNCHANGED <<step, checkpoint, evidence, files, lock, results, faults,
                 performed, wasted, allowed, doubled>>

\* Only an allowance looks at the answer it finds
LoadCheckpoint(r, c, op) ==
  /\ req[r].pc = "idle"
  /\ checkpoint[c].of # 0
  /\ op = "allow" => checkpoint[c].answer # "approved"
  /\ req' = [req EXCEPT ![r] = [Idle EXCEPT !.pc = op, !.seen.status = workflow.status,
                                            !.checkpoint = c, !.step = checkpoint[c].of,
                                            !.was = step[checkpoint[c].of],
                                            !.answer = checkpoint[c].answer]]
  /\ UNCHANGED <<rows, files, faults, history>>

DecideCheckpoint(r, answer, mark) ==
  /\ lock = None
  /\ checkpoint' = [checkpoint EXCEPT
                      ![req[r].checkpoint].answer = Put(req[r].answer, answer, @)]
  /\ step' = [step EXCEPT ![req[r].step] = Put(req[r].was, mark, @)]
  /\ UNCHANGED <<evidence, files, lock, results, faults, performed, wasted, doubled>>

AllowCheckpoint(r) ==
  /\ req[r].pc = "allow"
  /\ DecideCheckpoint(r, "approved", "allowed")
  /\ allowed' = allowed \cup {req[r].step}
  /\ IF req[r].seen.status = "asking"
     THEN workflow' = [workflow EXCEPT !.status = "approved"] /\ WroteStatus(r)
     ELSE Close(r) /\ UNCHANGED workflow

DenyCheckpoint(r) ==
  /\ req[r].pc = "deny"
  /\ DecideCheckpoint(r, "rejected", "cancelled")
  /\ IF req[r].seen.status # "terminated"
     THEN workflow' = [workflow EXCEPT !.status = "terminated"] /\ WroteStatus(r)
     ELSE Close(r) /\ UNCHANGED workflow
  /\ UNCHANGED allowed

------------------------------------------------------------------------------
(* Execution of the next step                                               *)

NextStep == workflow.current + 1

Runnable(n) == step[n] \in {"todo", "allowed"}

Confirmed(n) == \E c \in Checkpoints : checkpoint[c] = [of |-> n, answer |-> "approved"]

\* Faulty: a step is executed whether it requires a checkpoint or not
BeginUnasked(r, n) ==
  req' = [req EXCEPT ![r] = [Idle EXCEPT !.pc = IF n > N THEN "finish" ELSE "open", !.step = n]]

Begin(r, n) ==
  req' = [req EXCEPT ![r] =
            [Idle EXCEPT !.pc = IF n > N THEN "finish"
                                ELSE IF n \in Guarded /\ ~Confirmed(n) THEN "ask" ELSE "open",
                         !.step = n]]

LoadStart(r) ==
  LET n == NextStep IN
  /\ req[r].pc = "idle"
  /\ workflow.approval = "approved"
  /\ workflow.status = "approved"
  /\ n <= N => Runnable(n)
  /\ Begin(r, n)
  /\ UNCHANGED <<rows, files, faults, history>>

LoadResume(r) ==
  LET n == NextStep IN
  /\ req[r].pc = "idle"
  /\ workflow.status = "paused"
  /\ n <= N /\ Runnable(n)
  /\ Begin(r, n)
  /\ UNCHANGED <<rows, files, faults, history>>

\* There is no next step
Finish(r) ==
  /\ req[r].pc = "finish"
  /\ lock = None
  /\ workflow' = [workflow EXCEPT !.status = "completed"]
  /\ WroteStatus(r)
  /\ UNCHANGED <<step, checkpoint, evidence, files, lock, results, faults,
                 performed, wasted, allowed, doubled>>

\* The step needs a confirmation: ask for it, and execute nothing
Ask(r, c) ==
  LET n == req[r].step IN
  /\ req[r].pc = "ask"
  /\ lock = None
  /\ checkpoint[c].of = 0
  /\ checkpoint' = [checkpoint EXCEPT ![c] = [of |-> n, answer |-> "waiting"]]
  /\ step' = [step EXCEPT ![n] = "asked"]
  /\ workflow' = [workflow EXCEPT !.status = "asking"]
  /\ WroteStatus(r)
  /\ doubled' = IF req[r].missed THEN doubled \cup {n} ELSE doubled
  /\ UNCHANGED <<evidence, files, lock, results, faults, performed, wasted, allowed>>

\* Faulty: a plan that exists already is no conflict
LockPlanned(r) ==
  /\ req[r].pc = "open"
  /\ lock = None
  /\ lock' = r
  /\ req' = [req EXCEPT ![r].pc = "locked"]
  /\ UNCHANGED <<workflow, step, checkpoint, evidence, files, results, faults, history>>

\* The first flush of the transaction waits for the row of the workflow.  The plan of a
\* stored step is approved already, which refuses the request.
Lock(r) ==
  /\ req[r].pc = "open"
  /\ lock = None
  /\ IF req[r].step \in stored
     THEN Close(r) /\ UNCHANGED lock
     ELSE lock' = r /\ req' = [req EXCEPT ![r].pc = "locked"]
  /\ UNCHANGED <<workflow, step, checkpoint, evidence, files, results, faults, history>>

\* The executor acts on the computer and takes a screenshot; nothing is committed yet
Perform(r) ==
  LET n == req[r].step IN
  /\ req[r].pc = "locked"
  /\ req' = [req EXCEPT ![r].pc = "performed"]
  /\ performed' = [performed EXCEPT ![n] = @ + 1]
  /\ files' = files \cup {<<n, performed[n] + 1>>}
  /\ UNCHANGED <<rows, faults, wasted, allowed, doubled>>

\* Faulty: the number of a step is taken for its index
LastIndex(n) == n = N - 1

LastStep(n) == n = N

\* The transaction commits: plan, action, evidence, verification, step and workflow.  Every
\* executor's result is verified as "matches the expectation".  The request ends, or its
\* commit succeeds and it does not hear of it.
Store(r, heard) ==
  LET n == req[r].step
      last == LastStep(n)
      new == IF last THEN "completed" ELSE "paused" IN
  /\ req[r].pc = "performed"
  /\ IF heard THEN UNCHANGED faults ELSE Faulted
  /\ workflow' = [workflow EXCEPT !.status = new, !.current = n]
  /\ step' = [step EXCEPT ![n] = "done"]
  /\ evidence' = [evidence EXCEPT ![n] = performed[n]]
  /\ results' = IF last THEN results + 1 ELSE results
  /\ lock' = None
  /\ req' = [q \in Requests |->
               IF q = r THEN (IF heard THEN Idle ELSE [req[r] EXCEPT !.pc = "unsure",
                                                                    !.shot = performed[n]])
               ELSE IF req[q].pc = "idle" THEN Idle ELSE [req[q] EXCEPT !.missed = TRUE]]
  /\ UNCHANGED <<checkpoint, files, performed, wasted, allowed, doubled>>

\* The commit fails, which looks the same to the request
StoreFails(r) ==
  LET n == req[r].step IN
  /\ req[r].pc = "performed"
  /\ Faulted
  /\ lock' = None
  /\ wasted' = [wasted EXCEPT ![n] = @ + 1]
  /\ req' = [req EXCEPT ![r].pc = "unsure", ![r].shot = performed[n]]
  /\ UNCHANGED <<workflow, step, checkpoint, evidence, files, results,
                 performed, allowed, doubled>>

\* Faulty: no answer counts as "there is none"
RequeryGuessing(r, answered) ==
  LET n == req[r].step IN
  /\ req[r].pc = "unsure"
  /\ files' = IF answered /\ evidence[n] = req[r].shot THEN files ELSE files \ {<<n, req[r].shot>>}
  /\ Close(r)
  /\ UNCHANGED <<rows, faults, history>>

\* It looks for its evidence, and removes the screenshot if the answer is that there is none.
\* The outage that hid the outcome may last, so that nothing answers.
Requery(r, answered) ==
  LET n == req[r].step IN
  /\ req[r].pc = "unsure"
  /\ files' = IF answered /\ evidence[n] # req[r].shot THEN files \ {<<n, req[r].shot>>} ELSE files
  /\ Close(r)
  /\ UNCHANGED <<rows, faults, history>>

\* An exception or a crash: the transaction is rolled back, what was performed stays so.
\* An exception removes the screenshot, a crash leaves it.
Fail(r, crash) ==
  LET n == req[r].step IN
  /\ req[r].pc # "idle"
  /\ Faulted
  /\ lock' = IF lock = r THEN None ELSE lock
  /\ IF req[r].pc = "performed"
     THEN /\ wasted' = [wasted EXCEPT ![n] = @ + 1]
          /\ files' = IF crash THEN files ELSE files \ {<<n, performed[n]>>}
     ELSE UNCHANGED <<wasted, files>>
  /\ Close(r)
  /\ UNCHANGED <<workflow, step, checkpoint, evidence, results,
                 performed, allowed, doubled>>

------------------------------------------------------------------------------
Init ==
  /\ workflow = NoWorkflow
  /\ step = [n \in Steps |-> "todo"]
  /\ checkpoint = [c \in Checkpoints |-> NoCheckpoint]
  /\ evidence = [n \in Steps |-> 0]
  /\ files = {}
  /\ lock = None
  /\ results = 0
  /\ req = [r \in Requests |-> Idle]
  /\ faults = 0
  /\ performed = [n \in Steps |-> 0]
  /\ wasted = [n \in Steps |-> 0]
  /\ allowed = {}
  /\ doubled = {}

Request(r) ==
  \/ \E op \in {"approve", "reject", "pause", "cancel"} : LoadDecision(r, op)
  \/ DecideWorkflow(r)
  \/ \E c \in Checkpoints, op \in {"allow", "deny"} : LoadCheckpoint(r, c, op)
  \/ AllowCheckpoint(r)
  \/ DenyCheckpoint(r)
  \/ LoadStart(r)
  \/ LoadResume(r)
  \/ Finish(r)
  \/ \E c \in Checkpoints : Ask(r, c)
  \/ Lock(r)
  \/ Perform(r)
  \/ \E heard \in BOOLEAN : Store(r, heard)
  \/ StoreFails(r)
  \/ \E answered \in BOOLEAN : Requery(r, answered)
  \/ \E crash \in BOOLEAN : Fail(r, crash)

Next ==
  \/ CreateWorkflow
  \/ \E r \in Requests : Request(r)

Spec == Init /\ [][Next]_vars

------------------------------------------------------------------------------
(* Properties                                                               *)

Answers == {"none", "waiting", "approved", "rejected"}
Marks   == {"todo", "asked", "allowed", "done", "cancelled"}

Rows == [status : Statuses, approval : {"waiting", "approved", "rejected"}, current : 0 .. N]

Pcs == {"idle", "approve", "reject", "pause", "cancel", "allow", "deny", "finish", "ask", "open",
        "locked", "performed", "unsure"}

CheckpointType == [of : 0 .. N, answer : Answers]

RequestType ==
  [pc : Pcs, seen : Rows, step : 0 .. N + 1, was : Marks, checkpoint : Checkpoints \cup {None},
   answer : Answers, missed : BOOLEAN, shot : Nat]

\* Every variable keeps its type; the row lock belongs to the request that executes a step
TypeOK ==
  /\ workflow \in Rows
  /\ step \in [Steps -> Marks]
  /\ checkpoint \in [Checkpoints -> CheckpointType]
  /\ evidence \in [Steps -> Nat]
  /\ files \subseteq Steps \X Nat
  /\ lock \in Requests \cup {None}
  /\ results \in Nat
  /\ req \in [Requests -> RequestType]
  /\ faults \in 0 .. MaxFaults
  /\ performed \in [Steps -> Nat] /\ wasted \in [Steps -> Nat]
  /\ allowed \subseteq Steps /\ doubled \subseteq Steps
  /\ \A r \in Requests : req[r].pc \in {"locked", "performed"} <=> lock = r

\* A step is performed on the computer once, and once more for every performance that a
\* failure has kept from being stored, whatever starts and resumes overlap
PerformedOnce == \A n \in Steps : performed[n] <= wasted[n] + 1

\* A step is performed only when the step before it is stored
InOrder == \A n \in Steps \ {1} : performed[n] > 0 => n - 1 \in stored

\* A step that requires a checkpoint is performed only after somebody has allowed it
GuardedOnlyWhenAllowed == \A n \in Guarded : performed[n] > 0 => n \in allowed

\* A step is due when the one before it is stored and the checkpoint it requires is approved:
\* no other is performed, although a request chooses its step before it holds the row
PerformedWhenDue == InOrder /\ GuardedOnlyWhenAllowed

\* Requests that overlap, fail or are unsure of their commit carry the steps out as one
\* careful operator would: see StepLedger
Ledger == INSTANCE StepLedger
          WITH recorded <- workflow.current, delivered <- results, confirmed <- allowed,
               acting <- \E r \in Requests : req[r].pc = "performed"

ImplementsStepLedger == Ledger!SLSpec

\* A step is asked about once, unless two requests have overlapped
OneQuestion ==
  \A c, d \in Checkpoints : checkpoint[c].of = checkpoint[d].of /\ checkpoint[c].of \notin doubled
                           => c = d \/ checkpoint[c].of = 0

\* A completed workflow has all its steps stored, although a request that found no next step
\* completes it in a later transaction; its task gets its result once, with the last step
DeliveredWhole ==
  /\ workflow.status = "completed" => stored = Steps
  /\ results = IF stored = Steps THEN 1 ELSE 0

\* The screenshot that the evidence of a step refers to exists
CaptureKept == \A n \in stored : <<n, evidence[n]>> \in files

==============================================================================
