-------------------------- MODULE AgentRuntime_proof --------------------------
(***************************************************************************)
(* Proofs about AgentRuntime for every number of executions, requests and   *)
(* retries.                                                                 *)
(***************************************************************************)
EXTENDS AgentRuntime, TLAPS

(***************************************************************************)
(* The invariant speaks of one execution at a time, since a step concerns   *)
(* one only.  Its core: as long as an execution has been approved once at   *)
(* most, a single request runs it, and has called the executor once more    *)
(* than the row counts retries; and a request that is executing without a   *)
(* retry before it holds the row.                                           *)
(***************************************************************************)

Runs(r, e) == req[r].execution = e /\ req[r].pc \in Flow

FlowInv(r, e) ==
  /\ e \in highRisk => approvals[e] > 0
  /\ ~closed[e]
  /\ row[e].status = "none" => req[r].pc # "refresh" /\ rowLock[e] = r
  /\ approvals[e] <= 1 =>
       /\ attempts[e] <= row[e].retries + (IF req[r].pc = "execute" THEN 1 ELSE 0)
       /\ req[r].pc # "refresh" => req[r].copy.retries = row[e].retries
  /\ req[r].copy.status = "running" => row[e].retries > 0
  /\ req[r].pc = "execute" /\ row[e].retries = 0 => rowLock[e] = r

RequestInv(r, e) ==
  /\ req[r].pc # "idle"
  /\ req[r].pc = "approve" => e \in highRisk /\ row[e].status # "none" /\ ~closed[e]
  /\ req[r].pc = "reject" /\ req[r].copy.status = "rejected" =>
       row[e].status \notin {"none", "waiting_approval"}
  /\ req[r].pc = "cancel" => req[r].copy.status = "none"
  /\ req[r].pc \in Flow => FlowInv(r, e)

RowInv(e) ==
  /\ row[e].status = "none" => row[e].retries = 0 /\ approvals[e] = 0
  /\ row[e].status = "running" => row[e].retries > 0
  /\ row[e].status = "none" /\ ~dropped[e] /\ (\A r \in Requests : ~Runs(r, e)) =>
       attempts[e] = 0
  /\ e \notin highRisk => row[e].status # "waiting_approval" /\ approvals[e] = 0
  /\ e \in highRisk /\ approvals[e] = 0 => attempts[e] = 0
  /\ approvals[e] <= 1 => attempts[e] <= MaxRetries + 1
  /\ closed[e] => row[e].status \notin {"none", "waiting_approval"}

ExecutionInv(e) ==
  /\ RowInv(e)
  /\ \A r \in Requests : req[r].execution = e => RequestInv(r, e)
  /\ \A p, r \in Requests : p # r /\ Runs(p, e) /\ Runs(r, e) => approvals[e] > 1

IdleInv == \A r \in Requests : req[r].pc = "idle" <=> req[r].execution = NoExecution

IInv == TypeOK /\ IdleInv /\ \A e \in Executions : ExecutionInv(e)

LEMMA InitEstablishesInvariant == Init => IInv
<1> SUFFICES ASSUME Init PROVE IInv
  OBVIOUS
<1>1. TypeOK
  BY RetriesAssumption DEF Init, TypeOK, RowType, RequestType, NoRow, Idle, Statuses
<1>2. \A r \in Requests : req[r].pc = "idle" /\ req[r].execution = NoExecution
  BY DEF Init, Idle
<1>3. \A e \in Executions : /\ row[e].status = "none" /\ row[e].retries = 0 /\ ~closed[e]
                            /\ approvals[e] = 0 /\ attempts[e] = 0
  BY DEF Init, NoRow
<1>4. ASSUME NEW e \in Executions PROVE ExecutionInv(e)
  BY <1>2, <1>3, NoExecutionAssumption, RetriesAssumption DEF ExecutionInv, RowInv, Runs
<1> QED
  BY <1>1, <1>2, <1>4 DEF IInv, IdleInv

------------------------------------------------------------------------------
(* Lemmas                                                                   *)

\* What the step of a request keeps of the other executions
LEMMA Elsewhere ==
  ASSUME NEW e, ExecutionInv(e), highRisk' = highRisk,
         row'[e] = row[e], rowLock'[e] = rowLock[e], approvals'[e] = approvals[e],
         attempts'[e] = attempts[e], closed'[e] = closed[e], dropped'[e] = dropped[e],
         \A r \in Requests : \/ req'[r] = req[r]
                             \/ req[r].execution # e /\ req'[r].execution # e
  PROVE  ExecutionInv(e)'
<1>1. \A r \in Requests : Runs(r, e)' <=> Runs(r, e)
  BY DEF Runs
<1>2. RowInv(e)'
  BY <1>1 DEF RowInv, ExecutionInv
<1>3. ASSUME NEW r \in Requests, req'[r].execution = e PROVE RequestInv(r, e)'
  <2>1. req'[r] = req[r] /\ RequestInv(r, e)
    BY <1>3 DEF ExecutionInv
  <2> QED
    BY <2>1 DEF RequestInv, FlowInv
<1>4. \A p, r \in Requests : p # r /\ Runs(p, e)' /\ Runs(r, e)' => approvals'[e] > 1
  BY <1>1 DEF ExecutionInv
<1> QED
  BY <1>2, <1>3, <1>4 DEF ExecutionInv

\* The tables but one row
Others(e) ==
  /\ highRisk' = highRisk
  /\ \A j \in Executions \ {e} :
       /\ row'[j] = row[j] /\ rowLock'[j] = rowLock[j] /\ approvals'[j] = approvals[j]
       /\ attempts'[j] = attempts[j] /\ closed'[j] = closed[j] /\ dropped'[j] = dropped[j]

RowTypes ==
  /\ highRisk \subseteq Executions
  /\ row \in [Executions -> RowType]
  /\ rowLock \in [Executions -> Requests \cup {Free}]
  /\ approvals \in [Executions -> Nat]
  /\ attempts \in [Executions -> Nat]
  /\ closed \in [Executions -> BOOLEAN]
  /\ dropped \in [Executions -> BOOLEAN]

\* A step of r on e is right when it is right for e
LEMMA StepOn ==
  ASSUME IInv, NEW r \in Requests, NEW e \in Executions, NEW x \in RequestType,
         req' = [req EXCEPT ![r] = x],
         req[r].execution \in {e, NoExecution}, x.execution \in {e, NoExecution},
         x.pc = "idle" <=> x.execution = NoExecution,
         RowTypes', Others(e), RowInv(e)',
         x.execution = e => RequestInv(r, e)',
         \A q \in Requests \ {r} :
           req[q].execution = e /\ RequestInv(q, e) => RequestInv(q, e)',
         x.pc \in Flow => \A q \in Requests \ {r} : Runs(q, e) => approvals'[e] > 1,
         approvals'[e] >= approvals[e]
  PROVE  IInv'
<1>1. TypeOK /\ IdleInv /\ \A j \in Executions : ExecutionInv(j)
  BY DEF IInv
<1>2. req'[r] = x /\ \A q \in Requests \ {r} : req'[q] = req[q]
  BY <1>1 DEF TypeOK
<1>3. TypeOK'
  BY <1>1 DEF TypeOK, RowTypes
<1>4. IdleInv'
  BY <1>1, <1>2 DEF IdleInv
<1>5. ASSUME NEW j \in Executions \ {e} PROVE ExecutionInv(j)'
  <2>1. j # NoExecution
    BY NoExecutionAssumption
  <2>2. \A q \in Requests : \/ req'[q] = req[q]
                            \/ req[q].execution # j /\ req'[q].execution # j
    BY <1>2, <2>1
  <2> QED
    BY <1>1, <2>2, Elsewhere DEF Others
<1>6. ExecutionInv(e)'
  <2>1. ASSUME NEW q \in Requests, req'[q].execution = e PROVE RequestInv(q, e)'
    BY <1>1, <1>2, <2>1 DEF ExecutionInv
  <2>2. \A q \in Requests \ {r} : Runs(q, e)' <=> Runs(q, e)
    BY <1>2 DEF Runs
  <2>3. Runs(r, e)' => x.pc \in Flow
    BY <1>2 DEF Runs
  <2>4. ASSUME NEW p \in Requests, NEW q \in Requests, p # q, Runs(p, e)', Runs(q, e)'
        PROVE  approvals'[e] > 1
    <3>1. CASE p # r /\ q # r
      <4>1. approvals[e] > 1
        BY <1>1, <2>2, <2>4, <3>1 DEF ExecutionInv
      <4>2. approvals[e] \in Nat /\ approvals'[e] \in Nat
        BY <1>1, <1>3 DEF TypeOK
      <4> QED
        BY <4>1, <4>2
    <3>2. CASE p = r \/ q = r
      BY <2>2, <2>3, <2>4, <3>2
    <3> QED
      BY <3>1, <3>2
  <2> QED
    BY <2>1, <2>4 DEF ExecutionInv
<1> QED
  BY <1>3, <1>4, <1>5, <1>6 DEF IInv

\* What the invariant says of a request and an execution
LEMMA Facts ==
  ASSUME IInv, NEW r \in Requests
  PROVE  /\ TypeOK /\ RowTypes /\ req[r] \in RequestType
         /\ req[r].pc = "idle" => req[r].execution = NoExecution
         /\ req[r].pc # "idle" => req[r].execution \in Executions
         /\ \A e \in Executions : /\ row[e] \in RowType /\ attempts[e] \in Nat
                                  /\ approvals[e] \in Nat /\ RowInv(e)
                                  /\ req[r].execution = e => RequestInv(r, e)
                                  /\ \A q \in Requests \ {r} :
                                       Runs(r, e) /\ Runs(q, e) => approvals[e] > 1
<1>1. TypeOK /\ RowTypes
  BY DEF IInv, TypeOK, RowTypes
<1>2. req[r] \in RequestType
  BY <1>1 DEF TypeOK
<1>3. req[r].pc = "idle" <=> req[r].execution = NoExecution
  BY DEF IInv, IdleInv
<1>4. req[r].execution \in Executions \cup {NoExecution}
  BY <1>2 DEF RequestType
<1>5. ASSUME NEW e \in Executions
      PROVE  /\ row[e] \in RowType /\ attempts[e] \in Nat /\ approvals[e] \in Nat /\ RowInv(e)
             /\ req[r].execution = e => RequestInv(r, e)
             /\ \A q \in Requests \ {r} : Runs(r, e) /\ Runs(q, e) => approvals[e] > 1
  <2>1. row[e] \in RowType /\ attempts[e] \in Nat /\ approvals[e] \in Nat
    BY <1>1 DEF TypeOK
  <2>2. ExecutionInv(e)
    BY DEF IInv
  <2> QED
    BY <2>1, <2>2 DEF ExecutionInv
<1> QED
  BY <1>1, <1>2, <1>3, <1>4, <1>5

\* A step that only changes what r is doing
LEMMA ReadOn ==
  ASSUME IInv, NEW r \in Requests, NEW e \in Executions, NEW x \in RequestType,
         req' = [req EXCEPT ![r] = x],
         req[r].execution \in {e, NoExecution}, x.execution \in {e, NoExecution},
         x.pc = "idle" <=> x.execution = NoExecution,
         UNCHANGED <<highRisk, row, rowLock, history>>,
         x.execution = e => RequestInv(r, e)',
         x.pc \in Flow => Runs(r, e) /\ x.execution = e,
         Runs(r, e) /\ x.pc \notin Flow /\ row[e].status = "none" => attempts[e] = 0
  PROVE  IInv'
<1>1. /\ RowTypes /\ TypeOK /\ RowInv(e) /\ approvals[e] \in Nat
      /\ \A q \in Requests \ {r} : Runs(r, e) /\ Runs(q, e) => approvals[e] > 1
  BY Facts
<1>2. req'[r] = x /\ \A q \in Requests \ {r} : req'[q] = req[q]
  BY <1>1 DEF TypeOK
<1>3. RowTypes'
  BY <1>1 DEF RowTypes, history
<1>4. Others(e)
  BY DEF Others, history
<1>5. RowInv(e)'
  <2>1. (\A q \in Requests : ~Runs(q, e)') /\ row[e].status = "none" /\ ~dropped[e] =>
          attempts[e] = 0
    <3>1. CASE Runs(r, e)
      <4>1. x.pc \in Flow /\ x.execution = e => Runs(r, e)'
        BY <1>2 DEF Runs
      <4> QED
        BY <3>1, <4>1
    <3>2. CASE ~Runs(r, e)
      <4>1. \A q \in Requests \ {r} : Runs(q, e)' <=> Runs(q, e)
        BY <1>2 DEF Runs
      <4> QED
        BY <1>1, <3>2, <4>1 DEF RowInv
    <3> QED
      BY <3>1, <3>2
  <2> QED
    BY <1>1, <2>1 DEF RowInv, history
<1>6. ASSUME NEW q \in Requests \ {r}, RequestInv(q, e) PROVE RequestInv(q, e)'
  BY <1>2, <1>6 DEF RequestInv, FlowInv, history
<1>7. approvals'[e] >= approvals[e] /\ approvals'[e] = approvals[e]
  BY <1>1 DEF history
<1> QED
  BY <1>1, <1>3, <1>4, <1>5, <1>6, <1>7, StepOn

LEMMA IdleType == Idle \in RequestType /\ Idle.pc = "idle" /\ Idle.execution = NoExecution
BY RetriesAssumption DEF Idle, RequestType, RowType, NoRow, Statuses

LEMMA NoRowType == NoRow \in RowType /\ NoRow.status = "none" /\ NoRow.retries = 0
BY RetriesAssumption DEF RowType, NoRow, Statuses

\* The record that Open makes
LEMMA OpenType ==
  ASSUME NEW e \in Executions, NEW copy \in RowType,
         NEW pc \in {"approve", "reject", "cancel"} \cup Flow
  PROVE  /\ [pc |-> pc, execution |-> e, copy |-> copy] \in RequestType
         /\ pc # "idle" /\ e # NoExecution
BY NoExecutionAssumption DEF RequestType, Flow

------------------------------------------------------------------------------
(* Steps                                                                    *)

LEMMA LoadStep ==
  ASSUME IInv, NEW r \in Requests, NEW e \in Executions, highRisk' = highRisk,
         LoadToApprove(r, e) \/ LoadToReject(r, e) \/ LoadToCancel(r, e)
  PROVE  IInv'
<1>1. PICK op \in {"approve", "reject", "cancel"}, copy \in RowType :
        /\ Load(r, e, op, copy)
        /\ op = "approve" => row[e].status = "waiting_approval"
        /\ op = "reject" => copy.status = row[e].status
        /\ op = "cancel" => copy.status = "none"
  <2>1. row[e] \in RowType /\ 0 \in 0 .. MaxRetries
    BY Facts, RetriesAssumption
  <2>2. /\ [row[e] EXCEPT !.retries = 0] \in RowType
        /\ [row[e] EXCEPT !.retries = 0].status = row[e].status
    BY <2>1 DEF RowType
  <2>3. /\ [NoRow EXCEPT !.approval = row[e].approval] \in RowType
        /\ [NoRow EXCEPT !.approval = row[e].approval].status = "none"
    BY <2>1 DEF RowType, NoRow, Statuses
  <2> QED
    BY <2>2, <2>3, NoRowType DEF LoadToApprove, LoadToReject, LoadToCancel
<1> DEFINE x == [pc |-> op, execution |-> e, copy |-> copy]
<1>2. x \in RequestType /\ op # "idle" /\ e # NoExecution /\ op \notin Flow
  BY OpenType DEF Flow
<1>3. x.pc = op /\ x.execution = e /\ x.copy = copy
  OBVIOUS
<1>4. /\ req' = [req EXCEPT ![r] = x] /\ req[r].pc = "idle"
      /\ row[e].status # "none" /\ UNCHANGED <<highRisk, row, rowLock, history>>
  BY <1>1 DEF Load, Open
<1> HIDE DEF x
<1>5. TypeOK /\ RowInv(e) /\ req[r].execution = NoExecution /\ approvals[e] \in Nat
  BY <1>4, Facts
<1>6. ~Runs(r, e)
  BY <1>2, <1>5 DEF Runs
<1>7. RequestInv(r, e)'
  <2>1. req'[r] = x
    BY <1>4, <1>5 DEF TypeOK
  <2>2. op = "approve" => e \in highRisk /\ ~closed[e]
    BY <1>1, <1>5 DEF RowInv
  <2>3. op = "reject" /\ copy.status = "rejected" => row[e].status \notin {"none", "waiting_approval"}
    BY <1>1
  <2> QED
    BY <1>1, <1>2, <1>3, <1>4, <2>1, <2>2, <2>3 DEF RequestInv, history
<1> QED
  BY <1>2, <1>3, <1>4, <1>5, <1>6, <1>7, ReadOn

LEMMA RefreshStep ==
  ASSUME IInv, NEW r \in Requests, highRisk' = highRisk, Refresh(r) \/ Refuse(r)
  PROVE  IInv'
<1>1. PICK e \in Executions : req[r].execution = e /\ req[r].pc \in {"refresh", "start"}
  BY Facts DEF Refresh, Refuse
<1>2. /\ TypeOK /\ row[e] \in RowType /\ RowInv(e) /\ RequestInv(r, e) /\ FlowInv(r, e)
      /\ approvals[e] \in Nat /\ attempts[e] \in Nat /\ Runs(r, e)
  BY <1>1, Facts DEF RequestInv, Runs, Flow
<1>3. CASE Refresh(r)
  <2> DEFINE copy == [row[e] EXCEPT !.approval = "not_required"]
             x == [pc |-> "start", execution |-> e, copy |-> copy]
  <2>1. copy \in RowType /\ copy.status = row[e].status /\ copy.retries = row[e].retries
    BY <1>2 DEF RowType
  <2>2. req' = [req EXCEPT ![r] = x] /\ req[r].pc = "refresh" /\ UNCHANGED <<row, rowLock, history>>
    BY <1>1, <1>3 DEF Refresh, Open
  <2> HIDE DEF copy
  <2>3. x \in RequestType /\ x.pc = "start" /\ x.execution = e /\ x.copy = copy /\ e # NoExecution
    BY <2>1, OpenType DEF Flow
  <2> HIDE DEF x
  <2>4. req'[r] = x
    BY <1>2, <2>2 DEF TypeOK
  <2>5. FlowInv(r, e)'
    BY <1>2, <2>1, <2>2, <2>3, <2>4 DEF FlowInv, RowInv, history
  <2>6. RequestInv(r, e)'
    BY <2>3, <2>4, <2>5 DEF RequestInv
  <2> QED
    BY <1>1, <1>2, <2>2, <2>3, <2>6, ReadOn DEF Flow
<1>4. CASE Refuse(r)
  <2>1. req' = [req EXCEPT ![r] = Idle] /\ req[r].pc = "start" /\ UNCHANGED <<row, rowLock, history>>
    BY <1>4 DEF Refuse, Close
  <2>2. row[e].status = "none" => attempts[e] = 0
    BY <1>2, <2>1 DEF FlowInv, RowInv
  <2>3. Idle.execution # e /\ Idle.pc \notin Flow
    BY IdleType, NoExecutionAssumption DEF Flow
  <2> QED
    BY <1>1, <2>1, <2>2, <2>3, IdleType, ReadOn
<1> QED
  BY <1>3, <1>4

LEMMA CreateStep ==
  ASSUME IInv, NEW r \in Requests, NEW e \in Executions, highRisk' = highRisk,
         CreateToWait(r, e) \/ CreateToRun(r, e)
  PROVE  IInv'
<1>1. /\ req[r].pc = "idle" /\ row[e].status = "none" /\ ~dropped[e]
      /\ \A q \in Requests \ {r} : req[q].execution # e
  BY DEF CreateToWait, CreateToRun, Fresh, Alone
<1>2. /\ TypeOK /\ RowTypes /\ row[e] \in RowType /\ RowInv(e) /\ req[r].execution = NoExecution
      /\ approvals[e] \in Nat /\ attempts[e] \in Nat /\ req[r] \in RequestType
  BY <1>1, Facts
<1>3. e # NoExecution /\ ~Runs(r, e) /\ \A q \in Requests : ~Runs(q, e)
  BY <1>1, <1>2, NoExecutionAssumption DEF Runs
<1>4. attempts[e] = 0 /\ ~closed[e] /\ approvals[e] = 0 /\ row[e].retries = 0
  BY <1>1, <1>2, <1>3 DEF RowInv
<1>5. CASE CreateToWait(r, e)
  <2> DEFINE new == [[row[e] EXCEPT !.status = "waiting_approval"] EXCEPT !.approval = "pending"]
  <2>1. /\ row' = [row EXCEPT ![e] = new] /\ e \in highRisk
        /\ UNCHANGED <<rowLock, req, history>>
    BY <1>2, <1>5 DEF CreateToWait, TypeOK
  <2>2. new \in RowType /\ new.status = "waiting_approval" /\ new.retries = 0
    BY <1>2, <1>4 DEF RowType, Statuses
  <2> HIDE DEF new
  <2>3. row' \in [Executions -> RowType] /\ row'[e] = new /\ \A j \in Executions \ {e} : row'[j] = row[j]
    BY <1>2, <2>1, <2>2 DEF TypeOK
  <2>4. RowTypes'
    BY <1>2, <2>1, <2>3 DEF RowTypes, history
  <2>5. Others(e)
    BY <2>1, <2>3 DEF Others, history
  <2>6. RowInv(e)'
    BY <1>4, <2>1, <2>2, <2>3, RetriesAssumption DEF RowInv, history
  <2>7. req' = [req EXCEPT ![r] = req[r]]
    BY <1>2, <2>1 DEF TypeOK
  <2>8. req[r].execution # e /\ req[r].pc \notin Flow /\ (req[r].pc = "idle" <=> req[r].execution = NoExecution)
    BY <1>1, <1>2, <1>3 DEF Flow
  <2>9. approvals'[e] >= approvals[e]
    BY <1>2, <2>1 DEF history
  <2> QED
    BY <1>1, <1>2, <2>4, <2>5, <2>6, <2>7, <2>8, <2>9, StepOn
<1>6. CASE CreateToRun(r, e)
  <2> DEFINE copy == [NoRow EXCEPT !.status = "waiting_execution"]
             x == [pc |-> "start", execution |-> e, copy |-> copy]
  <2>1. /\ req' = [req EXCEPT ![r] = x] /\ rowLock' = [rowLock EXCEPT ![e] = r]
        /\ e \notin highRisk /\ UNCHANGED <<row, history>>
    BY <1>6 DEF CreateToRun, Open
  <2>2. copy \in RowType /\ copy.status = "waiting_execution" /\ copy.retries = 0
    BY RetriesAssumption DEF RowType, NoRow, Statuses
  <2> HIDE DEF copy
  <2>3. x \in RequestType /\ x.pc = "start" /\ x.execution = e /\ x.copy = copy
    BY <2>2, OpenType DEF Flow
  <2> HIDE DEF x
  <2>4. req'[r] = x /\ rowLock'[e] = r /\ \A j \in Executions \ {e} : rowLock'[j] = rowLock[j]
    BY <1>2, <2>1 DEF TypeOK
  <2>5. RowTypes'
    BY <1>2, <2>1 DEF RowTypes, history
  <2>6. Others(e)
    BY <2>1, <2>4 DEF Others, history
  <2>7. RowInv(e)'
    BY <1>1, <1>2, <1>4, <2>1, RetriesAssumption DEF RowInv, history
  <2>8. FlowInv(r, e)'
    BY <1>1, <1>4, <2>1, <2>2, <2>3, <2>4 DEF FlowInv, history
  <2>9. RequestInv(r, e)'
    BY <2>3, <2>4, <2>8 DEF RequestInv
  <2>10. approvals'[e] >= approvals[e]
    BY <1>2, <2>1 DEF history
  <2> QED
    BY <1>1, <1>2, <1>3, <2>1, <2>3, <2>5, <2>6, <2>7, <2>9, <2>10, StepOn
<1> QED
  BY <1>5, <1>6

LEMMA ApproveStep ==
  ASSUME IInv, NEW r \in Requests, highRisk' = highRisk, Approve(r)
  PROVE  IInv'
<1>1. PICK e \in Executions : req[r].execution = e /\ req[r].pc = "approve"
  BY Facts DEF Approve
<1>2. /\ TypeOK /\ RowTypes /\ row[e] \in RowType /\ RowInv(e) /\ RequestInv(r, e)
      /\ approvals[e] \in Nat /\ attempts[e] \in Nat
  BY <1>1, Facts
<1>3. e \in highRisk /\ ~closed[e]
  BY <1>1, <1>2 DEF RequestInv
<1> DEFINE new == [[row[e] EXCEPT !.status = "waiting_execution"] EXCEPT !.approval = "approved"]
           x == [pc |-> "refresh", execution |-> e, copy |-> NoRow]
<1>4. /\ row' = [row EXCEPT ![e] = new]
      /\ approvals' = [approvals EXCEPT ![e] = @ + 1]
      /\ req' = [req EXCEPT ![r] = x]
      /\ UNCHANGED <<rowLock, attempts, closed, dropped>>
  BY <1>1, <1>2 DEF Approve, Open, TypeOK
<1>5. new \in RowType /\ new.status = "waiting_execution" /\ new.retries = row[e].retries
  BY <1>2 DEF RowType, Statuses
<1>6. x \in RequestType /\ x.pc = "refresh" /\ x.execution = e /\ x.copy = NoRow /\ e # NoExecution
  BY NoRowType, OpenType DEF Flow
<1> HIDE DEF new, x
<1>7. /\ row'[e] = new /\ approvals'[e] = approvals[e] + 1 /\ req'[r] = x
      /\ \A j \in Executions \ {e} : row'[j] = row[j] /\ approvals'[j] = approvals[j]
      /\ \A q \in Requests \ {r} : req'[q] = req[q]
  BY <1>2, <1>4 DEF TypeOK
<1>8. RowTypes'
  BY <1>2, <1>4, <1>5 DEF RowTypes
<1>9. Others(e)
  BY <1>4, <1>7 DEF Others
<1>10. approvals'[e] <= 1 => attempts[e] = 0
  BY <1>2, <1>3, <1>7 DEF RowInv
<1>11. RowInv(e)'
  BY <1>2, <1>3, <1>4, <1>5, <1>7, <1>10, RetriesAssumption DEF RowInv
<1>12. FlowInv(r, e)'
  <2>1. row[e].retries \in Nat
    BY <1>2, RetriesAssumption DEF RowType
  <2> QED
    BY <1>2, <1>3, <1>4, <1>5, <1>6, <1>7, <1>10, <2>1, NoRowType DEF FlowInv
<1>13. RequestInv(r, e)'
  BY <1>6, <1>7, <1>12 DEF RequestInv
<1>14. ASSUME NEW q \in Requests \ {r}, RequestInv(q, e) PROVE RequestInv(q, e)'
  <2>1. req[q].pc \in Flow => approvals[e] > 0 /\ FlowInv(q, e)
    BY <1>3, <1>14 DEF RequestInv, FlowInv
  <2>2. req[q].pc \in Flow => FlowInv(q, e)'
    BY <1>2, <1>4, <1>5, <1>7, <2>1 DEF FlowInv
  <2> QED
    BY <1>4, <1>5, <1>7, <1>14, <2>2 DEF RequestInv
<1>15. \A q \in Requests \ {r} : Runs(q, e) => approvals'[e] > 1
  <2>1. ASSUME NEW q \in Requests \ {r}, Runs(q, e) PROVE approvals[e] > 0
    <3>1. RequestInv(q, e)
      BY <2>1, Facts DEF Runs
    <3> QED
      BY <1>3, <2>1, <3>1 DEF Runs, RequestInv, FlowInv
  <2> QED
    BY <1>2, <1>7, <2>1
<1>16. approvals'[e] >= approvals[e]
  BY <1>2, <1>7
<1> QED
  BY <1>1, <1>4, <1>6, <1>8, <1>9, <1>11, <1>13, <1>14, <1>15, <1>16, StepOn

\* Rejection and cancellation write what the copy does not say yet
LEMMA EndStep ==
  ASSUME IInv, NEW r \in Requests, highRisk' = highRisk, Reject(r) \/ Cancel(r)
  PROVE  IInv'
<1>1. PICK e \in Executions : req[r].execution = e /\ req[r].pc \in {"reject", "cancel"}
  BY Facts DEF Reject, Cancel, EndIt
<1>2. /\ TypeOK /\ RowTypes /\ row[e] \in RowType /\ RowInv(e) /\ RequestInv(r, e)
      /\ approvals[e] \in Nat /\ attempts[e] \in Nat /\ req[r] \in RequestType
  BY <1>1, Facts
<1>3. PICK s \in {"rejected", "cancelled"}, a \in {"not_required", "pending", "approved", "rejected"} :
        /\ EndIt(r, req[r].pc, s, a)
        /\ req[r].copy.status = s => req[r].pc = "reject" /\ s = "rejected"
  <2>1. req[r].copy.approval \in {"not_required", "pending", "approved", "rejected"}
    BY <1>2 DEF RequestType, RowType
  <2>2. req[r].pc = "cancel" => req[r].copy.status = "none"
    BY <1>2 DEF RequestInv
  <2> QED
    BY <1>1, <2>1, <2>2 DEF Reject, Cancel, EndIt
<1> DEFINE status == Written(req[r].copy.status, row[e].status, s)
           approval == Written(req[r].copy.approval, row[e].approval, a)
           new == [[row[e] EXCEPT !.status = status] EXCEPT !.approval = approval]
           over == closed[e] \/ Alone(r, e)
<1>4. /\ row' = [row EXCEPT ![e] = new]
      /\ closed' = [closed EXCEPT ![e] = over]
      /\ req' = [req EXCEPT ![r] = Idle]
      /\ UNCHANGED <<rowLock, approvals, attempts, dropped>>
  BY <1>1, <1>2, <1>3 DEF EndIt, Close, TypeOK
<1>5. /\ status \in Statuses /\ approval \in {"not_required", "pending", "approved", "rejected"}
      /\ status \in {row[e].status, "rejected", "cancelled"}
      /\ status = row[e].status \/ status \in {"rejected", "cancelled"}
      /\ status \notin {"rejected", "cancelled"} =>
           req[r].pc = "reject" /\ req[r].copy.status = "rejected"
  BY <1>2, <1>3 DEF Written, RowType, Statuses, Finished
<1> HIDE DEF status, approval
<1>6. new \in RowType /\ new.status = status /\ new.retries = row[e].retries
  BY <1>2, <1>5 DEF RowType
<1> HIDE DEF new
<1>7. over \in BOOLEAN /\ (over => closed[e] \/ \A q \in Requests \ {r} : req[q].execution # e)
  BY <1>2 DEF TypeOK, Alone
<1> HIDE DEF over
<1>8. /\ row'[e] = new /\ closed'[e] = over
      /\ \A j \in Executions \ {e} : row'[j] = row[j] /\ closed'[j] = closed[j]
      /\ \A q \in Requests \ {r} : req'[q] = req[q]
      /\ req'[r] = Idle
  BY <1>2, <1>4 DEF TypeOK
<1>9. RowTypes'
  BY <1>2, <1>4, <1>6, <1>7 DEF RowTypes
<1>10. Others(e)
  BY <1>4, <1>8 DEF Others
<1>11. \A q \in Requests : Runs(q, e)' <=> Runs(q, e)
  BY <1>1, <1>8, IdleType DEF Runs, Flow
<1>12. status \notin {"rejected", "cancelled"} => row[e].status \notin {"none", "waiting_approval"}
  BY <1>2, <1>5 DEF RequestInv
<1>13. RowInv(e)'
  BY <1>2, <1>4, <1>5, <1>6, <1>8, <1>11, <1>12 DEF RowInv
<1>14. ASSUME NEW q \in Requests \ {r}, req[q].execution = e, RequestInv(q, e)
       PROVE  RequestInv(q, e)'
  <2>1. ~closed[e] => ~closed'[e]
    BY <1>7, <1>8, <1>14
  <2>2. status = "none" => row[e].status = "none"
    BY <1>5
  <2>3. req[q].pc \in Flow => FlowInv(q, e)'
    BY <1>4, <1>6, <1>8, <1>14, <2>1, <2>2 DEF RequestInv, FlowInv
  <2> QED
    BY <1>4, <1>5, <1>6, <1>8, <1>14, <2>1, <2>2, <2>3 DEF RequestInv
<1>15. approvals'[e] >= approvals[e]
  BY <1>2, <1>4
<1>16. Idle.execution # e /\ Idle.pc \notin Flow
  BY IdleType, NoExecutionAssumption DEF Flow
<1> QED
  BY <1>1, <1>4, <1>9, <1>10, <1>13, <1>14, <1>15, <1>16, IdleType, StepOn

\* What every step of the flow has before it
LEMMA Running ==
  ASSUME IInv, NEW r \in Requests, req[r].pc \in Flow
  PROVE  \E e \in Executions :
           /\ req[r].execution = e /\ Runs(r, e) /\ e # NoExecution
           /\ TypeOK /\ RowTypes /\ req[r] \in RequestType /\ row[e] \in RowType
           /\ approvals[e] \in Nat /\ attempts[e] \in Nat /\ row[e].retries \in Nat
           /\ RowInv(e) /\ FlowInv(r, e)
           /\ \A q \in Requests \ {r} : Runs(q, e) => approvals[e] > 1
<1>1. PICK e \in Executions : req[r].execution = e
  BY Facts DEF Flow
<1>2. RequestInv(r, e) /\ Runs(r, e) /\ row[e] \in RowType
  BY <1>1, Facts DEF Runs
<1>3. FlowInv(r, e)
  BY <1>2 DEF RequestInv
<1>4. row[e].retries \in Nat
  BY <1>2, RetriesAssumption DEF RowType
<1> QED
  BY <1>1, <1>2, <1>3, <1>4, Facts, NoExecutionAssumption

LEMMA StartStep ==
  ASSUME IInv, NEW r \in Requests, highRisk' = highRisk, Start(r)
  PROVE  IInv'
<1>1. PICK e \in Executions :
        /\ req[r].execution = e /\ Runs(r, e) /\ e # NoExecution
        /\ TypeOK /\ RowTypes /\ req[r] \in RequestType /\ row[e] \in RowType
        /\ approvals[e] \in Nat /\ attempts[e] \in Nat /\ row[e].retries \in Nat
        /\ RowInv(e) /\ FlowInv(r, e)
        /\ \A q \in Requests \ {r} : Runs(q, e) => approvals[e] > 1
  BY Running DEF Start, Flow
<1> DEFINE x == [req[r] EXCEPT !.pc = "execute"]
<1>2. /\ req[r].pc = "start"
      /\ req' = [req EXCEPT ![r] = x]
      /\ attempts' = [attempts EXCEPT ![e] = @ + 1]
      /\ IF req[r].copy.status = "running" THEN rowLock' = rowLock
         ELSE rowLock[e] \in {Free, r} /\ rowLock' = [rowLock EXCEPT ![e] = r]
      /\ UNCHANGED <<row, approvals, closed, dropped>>
  BY <1>1 DEF Start, MayWrite
<1>3. /\ x \in RequestType /\ x.pc = "execute" /\ x.execution = e /\ x.copy = req[r].copy
  BY <1>1 DEF RequestType, Flow
<1> HIDE DEF x
<1>4. /\ req'[r] = x /\ attempts'[e] = attempts[e] + 1
      /\ \A j \in Executions \ {e} : attempts'[j] = attempts[j] /\ rowLock'[j] = rowLock[j]
      /\ \A q \in Requests \ {r} : req'[q] = req[q]
      /\ \A q \in Requests \ {r} : rowLock[e] = q => rowLock'[e] = q
      /\ rowLock[e] = r => rowLock'[e] = r
      /\ req[r].copy.status # "running" => rowLock'[e] = r
  BY <1>1, <1>2, FreeAssumption DEF TypeOK
<1>5. RowTypes'
  BY <1>1, <1>2 DEF RowTypes
<1>6. Others(e)
  BY <1>2, <1>4 DEF Others
<1>7. Runs(r, e)'
  BY <1>3, <1>4 DEF Runs, Flow
<1>8. approvals[e] <= 1 => attempts'[e] <= row[e].retries + 1 /\ req[r].copy.retries = row[e].retries
  BY <1>1, <1>2, <1>4 DEF FlowInv
<1>9. RowInv(e)'
  <2>1. row[e].retries <= MaxRetries
    BY <1>1, RetriesAssumption DEF RowType
  <2>2. approvals[e] <= 1 => attempts'[e] <= MaxRetries + 1
    BY <1>1, <1>4, <1>8, <2>1, RetriesAssumption
  <2>3. e \in highRisk => approvals[e] > 0
    BY <1>1 DEF FlowInv
  <2> QED
    BY <1>1, <1>2, <1>7, <2>2, <2>3 DEF RowInv
<1>10. FlowInv(r, e)'
  BY <1>1, <1>2, <1>3, <1>4, <1>8 DEF FlowInv
<1>11. RequestInv(r, e)'
  BY <1>3, <1>4, <1>10 DEF RequestInv
<1>12. ASSUME NEW q \in Requests \ {r}, req[q].execution = e, RequestInv(q, e)
       PROVE  RequestInv(q, e)'
  <2>1. req[q].pc \in Flow => approvals[e] > 1
    BY <1>1, <1>12 DEF Runs
  <2>2. req[q].pc \in Flow => FlowInv(q, e)'
    BY <1>1, <1>2, <1>4, <1>12, <2>1 DEF RequestInv, FlowInv
  <2> QED
    BY <1>2, <1>4, <1>12, <2>2 DEF RequestInv
<1>13. approvals'[e] >= approvals[e] /\ approvals'[e] = approvals[e]
  BY <1>1, <1>2
<1> QED
  BY <1>1, <1>2, <1>3, <1>5, <1>6, <1>9, <1>11, <1>12, <1>13, StepOn

\* The lock that r gives back, if it holds it
LEMMA UnlockedLock ==
  ASSUME TypeOK, NEW r \in Requests, NEW e \in Executions, rowLock' = Unlocked(r, e)
  PROVE  /\ rowLock' \in [Executions -> Requests \cup {Free}]
         /\ \A j \in Executions \ {e} : rowLock'[j] = rowLock[j]
         /\ \A q \in Requests \ {r} : rowLock[e] = q => rowLock'[e] = q
BY DEF TypeOK, Unlocked

LEMMA RetryStep ==
  ASSUME IInv, NEW r \in Requests, highRisk' = highRisk, Retry(r)
  PROVE  IInv'
<1>1. PICK e \in Executions :
        /\ req[r].execution = e /\ Runs(r, e) /\ e # NoExecution
        /\ TypeOK /\ RowTypes /\ req[r] \in RequestType /\ row[e] \in RowType
        /\ approvals[e] \in Nat /\ attempts[e] \in Nat /\ row[e].retries \in Nat
        /\ RowInv(e) /\ FlowInv(r, e)
        /\ \A q \in Requests \ {r} : Runs(q, e) => approvals[e] > 1
  BY Running DEF Retry, Flow
<1> DEFINE status == IF rowLock[e] = r THEN "running" ELSE row[e].status
           n == req[r].copy.retries + 1
           new == [status |-> status, approval |-> row[e].approval, retries |-> n]
           x == [pc |-> "refresh", execution |-> e, copy |-> NoRow]
<1>2. /\ req[r].pc = "execute" /\ req[r].copy.retries < MaxRetries
      /\ row' = [row EXCEPT ![e] = new]
      /\ rowLock' = Unlocked(r, e)
      /\ req' = [req EXCEPT ![r] = x]
      /\ UNCHANGED <<approvals, attempts, closed, dropped>>
  BY <1>1 DEF Retry, MayRetry, Open, history, TypeOK
<1>3. req[r].copy.retries \in 0 .. MaxRetries
  BY <1>1 DEF RequestType, RowType
<1>4. n \in 0 .. MaxRetries /\ n > 0
  BY <1>2, <1>3, RetriesAssumption
<1>5. /\ status \in Statuses /\ status \in {"running", row[e].status}
      /\ status # "none"
  BY <1>1 DEF RowType, Statuses, FlowInv
<1> HIDE DEF status
<1>6. new \in RowType /\ new.status = status /\ new.retries = n
  BY <1>1, <1>4, <1>5 DEF RowType
<1>7. approvals[e] <= 1 => attempts[e] <= n
  BY <1>1, <1>2 DEF FlowInv
<1> HIDE DEF n, new
<1>8. x \in RequestType /\ x.pc = "refresh" /\ x.execution = e /\ x.copy = NoRow
  BY NoRowType, OpenType DEF Flow
<1> HIDE DEF x
<1>9. /\ row'[e] = new /\ req'[r] = x
      /\ \A j \in Executions \ {e} : row'[j] = row[j] /\ rowLock'[j] = rowLock[j]
      /\ \A q \in Requests \ {r} : req'[q] = req[q]
      /\ rowLock' \in [Executions -> Requests \cup {Free}]
  BY <1>1, <1>2, UnlockedLock DEF TypeOK
<1>10. RowTypes'
  BY <1>1, <1>2, <1>6, <1>9 DEF RowTypes
<1>11. Others(e)
  BY <1>2, <1>9 DEF Others
<1>12. RowInv(e)'
  BY <1>1, <1>2, <1>4, <1>5, <1>6, <1>9 DEF RowInv, FlowInv
<1>13. FlowInv(r, e)'
  BY <1>1, <1>2, <1>4, <1>5, <1>6, <1>7, <1>8, <1>9, NoRowType DEF FlowInv
<1>14. RequestInv(r, e)'
  BY <1>8, <1>9, <1>13 DEF RequestInv
<1>15. ASSUME NEW q \in Requests \ {r}, req[q].execution = e, RequestInv(q, e)
       PROVE  RequestInv(q, e)'
  <2>1. req[q].pc \in Flow => approvals[e] > 1 /\ ~closed[e] /\ FlowInv(q, e)
    BY <1>1, <1>15 DEF Runs, RequestInv, FlowInv
  <2>2. n # 0 /\ n > 0 /\ ~(approvals[e] > 1 /\ approvals[e] <= 1)
    BY <1>1, <1>4
  <2>3. req[q].pc \in Flow => FlowInv(q, e)'
    BY <1>2, <1>5, <1>6, <1>9, <2>1, <2>2 DEF FlowInv
  <2> QED
    BY <1>2, <1>5, <1>6, <1>9, <1>15, <2>3 DEF RequestInv
<1>16. approvals'[e] >= approvals[e] /\ approvals'[e] = approvals[e]
  BY <1>1, <1>2
<1> QED
  BY <1>1, <1>2, <1>8, <1>10, <1>11, <1>12, <1>14, <1>15, <1>16, StepOn

LEMMA FinishStep ==
  ASSUME IInv, NEW r \in Requests, NEW outcome \in {"success", "failed", "timeout"},
         highRisk' = highRisk, Finish(r, outcome)
  PROVE  IInv'
<1>1. PICK e \in Executions :
        /\ req[r].execution = e /\ Runs(r, e) /\ e # NoExecution
        /\ TypeOK /\ RowTypes /\ req[r] \in RequestType /\ row[e] \in RowType
        /\ approvals[e] \in Nat /\ attempts[e] \in Nat /\ row[e].retries \in Nat
        /\ RowInv(e) /\ FlowInv(r, e)
        /\ \A q \in Requests \ {r} : Runs(q, e) => approvals[e] > 1
  BY Running DEF Finish, Flow
<1> DEFINE new == [row[e] EXCEPT !.status = outcome]
<1>2. /\ req[r].pc = "execute"
      /\ row' = [row EXCEPT ![e] = new]
      /\ rowLock' = Unlocked(r, e)
      /\ req' = [req EXCEPT ![r] = Idle]
      /\ UNCHANGED <<approvals, attempts, closed, dropped>>
  BY <1>1 DEF Finish, Close, history, TypeOK
<1>3. new \in RowType /\ new.status = outcome /\ new.retries = row[e].retries
  BY <1>1 DEF RowType, Statuses, Finished
<1> HIDE DEF new
<1>4. /\ row'[e] = new
      /\ \A j \in Executions \ {e} : row'[j] = row[j] /\ rowLock'[j] = rowLock[j]
      /\ \A q \in Requests \ {r} : req'[q] = req[q]
      /\ \A q \in Requests \ {r} : rowLock[e] = q => rowLock'[e] = q
      /\ rowLock' \in [Executions -> Requests \cup {Free}]
  BY <1>1, <1>2, UnlockedLock DEF TypeOK
<1>5. RowTypes'
  BY <1>1, <1>2, <1>3, <1>4 DEF RowTypes
<1>6. Others(e)
  BY <1>2, <1>4 DEF Others
<1>7. RowInv(e)'
  BY <1>1, <1>2, <1>3, <1>4 DEF RowInv
<1>8. ASSUME NEW q \in Requests \ {r}, req[q].execution = e, RequestInv(q, e)
      PROVE  RequestInv(q, e)'
  <2>1. req[q].pc \in Flow => FlowInv(q, e)'
    BY <1>2, <1>3, <1>4, <1>8 DEF RequestInv, FlowInv
  <2> QED
    BY <1>2, <1>3, <1>4, <1>8, <2>1 DEF RequestInv
<1>9. approvals'[e] >= approvals[e]
  BY <1>1, <1>2
<1>10. Idle.execution # e /\ Idle.pc \notin Flow
  BY <1>1, IdleType DEF Flow
<1> QED
  BY <1>1, <1>2, <1>5, <1>6, <1>7, <1>8, <1>9, <1>10, IdleType, StepOn

LEMMA FailStep ==
  ASSUME IInv, NEW r \in Requests, highRisk' = highRisk, Fail(r)
  PROVE  IInv'
<1>1. PICK e \in Executions : req[r].execution = e
  BY Facts DEF Fail
<1>2. /\ TypeOK /\ RowTypes /\ RowInv(e) /\ approvals[e] \in Nat
  BY Facts
<1> DEFINE d == dropped[e] \/ req[r].pc \in Flow
<1>3. /\ rowLock' = Unlocked(r, e)
      /\ dropped' = [dropped EXCEPT ![e] = d]
      /\ req' = [req EXCEPT ![r] = Idle]
      /\ UNCHANGED <<row, approvals, attempts, closed>>
  BY <1>1, <1>2 DEF Fail, Close, TypeOK
<1>4. d \in BOOLEAN /\ (~d => ~dropped[e] /\ ~Runs(r, e))
  BY <1>2 DEF TypeOK, Runs
<1> HIDE DEF d
<1>5. /\ dropped'[e] = d
      /\ \A j \in Executions \ {e} : dropped'[j] = dropped[j] /\ rowLock'[j] = rowLock[j]
      /\ \A q \in Requests \ {r} : req'[q] = req[q]
      /\ \A q \in Requests \ {r} : rowLock[e] = q => rowLock'[e] = q
      /\ rowLock' \in [Executions -> Requests \cup {Free}]
  BY <1>2, <1>3, UnlockedLock DEF TypeOK
<1>6. RowTypes'
  BY <1>2, <1>3, <1>4, <1>5 DEF RowTypes
<1>7. Others(e)
  BY <1>3, <1>5 DEF Others
<1>8. RowInv(e)'
  <2>1. ~d /\ (\A q \in Requests : ~Runs(q, e)') => \A q \in Requests : ~Runs(q, e)
    BY <1>4, <1>5 DEF Runs
  <2> QED
    BY <1>2, <1>3, <1>4, <1>5, <2>1 DEF RowInv
<1>9. ASSUME NEW q \in Requests \ {r}, req[q].execution = e, RequestInv(q, e)
      PROVE  RequestInv(q, e)'
  <2>1. req[q].pc \in Flow => FlowInv(q, e)'
    BY <1>3, <1>5, <1>9 DEF RequestInv, FlowInv
  <2> QED
    BY <1>3, <1>5, <1>9, <2>1 DEF RequestInv
<1>10. approvals'[e] >= approvals[e]
  BY <1>2, <1>3
<1>11. Idle.execution # e /\ Idle.pc \notin Flow
  BY IdleType, NoExecutionAssumption DEF Flow
<1> QED
  BY <1>1, <1>3, <1>6, <1>7, <1>8, <1>9, <1>10, <1>11, IdleType, StepOn

------------------------------------------------------------------------------
LEMMA NextPreservesInvariant == IInv /\ [Next]_vars => IInv'
<1> SUFFICES ASSUME IInv, [Next]_vars PROVE IInv'
  OBVIOUS
<1>1. ASSUME NEW r \in Requests, highRisk' = highRisk, Arrive(r) PROVE IInv'
  BY <1>1, CreateStep, LoadStep DEF Arrive
<1>2. ASSUME NEW r \in Requests, highRisk' = highRisk, RequestStep(r) PROVE IInv'
  BY <1>2, ApproveStep, EndStep, RefreshStep, StartStep, RetryStep, FinishStep DEF RequestStep
<1>3. ASSUME NEW r \in Requests, highRisk' = highRisk, Fail(r) PROVE IInv'
  BY <1>3, FailStep
<1>4. CASE UNCHANGED vars
  <2>1. TypeOK' /\ IdleInv'
    BY <1>4 DEF IInv, TypeOK, IdleInv, vars, history
  <2>2. \A e \in Executions : ExecutionInv(e)'
    BY <1>4, Elsewhere DEF IInv, vars, history
  <2> QED
    BY <2>1, <2>2 DEF IInv
<1> QED
  BY <1>1, <1>2, <1>3, <1>4 DEF Next

\* The strengthened invariant holds in every state
LEMMA InvariantHolds == Spec => []IInv
  BY InitEstablishesInvariant, NextPreservesInvariant, PTL DEF Spec

\* Every variable keeps its type, for every number of executions, requests and retries; the
\* retry count never passes max_retries.
THEOREM TypeCorrect == Spec => []TypeOK
<1>1. IInv => TypeOK
  BY DEF IInv
<1> QED
  BY <1>1, InvariantHolds, PTL

\* However many requests race, run_execution_flow calls no executor for an execution that
\* requires an approval before approve_execution has committed one.
THEOREM ApprovalComesFirst == Spec => []NothingRunsUnapproved
<1>1. IInv => NothingRunsUnapproved
  BY DEF IInv, TypeOK, ExecutionInv, RowInv, NothingRunsUnapproved
<1> QED
  BY <1>1, InvariantHolds, PTL

\* An execution approved once is tried at most max_retries + 1 times, however its row is
\* rejected, cancelled or read by other requests between the attempts.
THEOREM AttemptsAreBounded == Spec => []AttemptsBounded
<1>1. IInv => AttemptsBounded
  BY DEF IInv, ExecutionInv, RowInv, AttemptsBounded
<1> QED
  BY <1>1, InvariantHolds, PTL

\* The lock of the flushed row keeps two first attempts apart.
THEOREM AttemptsAreSerial == Spec => []AttemptsTakeTurns
<1>1. ASSUME IInv PROVE AttemptsTakeTurns
  <2> SUFFICES ASSUME NEW p \in Requests, NEW r \in Requests, p # r,
                      req[p].pc = "execute", req[r].pc = "execute",
                      req[p].execution = req[r].execution
               PROVE  row[req[p].execution].retries > 0
    BY DEF AttemptsTakeTurns
  <2>1. PICK e \in Executions : req[p].execution = e
    BY <1>1, Facts
  <2>2. FlowInv(p, e) /\ FlowInv(r, e) /\ row[e].retries \in Nat
    BY <1>1, <2>1, Running DEF Flow
  <2> QED
    BY <2>1, <2>2 DEF FlowInv
<1> QED
  BY <1>1, InvariantHolds, PTL

\* After a rejection or a cancellation that met no other request, no executor is called and
\* no result is written.
THEOREM ClosedStays == Spec => ClosedIsOver
<1> DEFINE Step == \A e \in Executions : closed[e] =>
                      /\ attempts'[e] = attempts[e]
                      /\ row'[e].status \in {row[e].status, "rejected", "cancelled"}
<1>1. ASSUME IInv, [Next]_vars PROVE Step
  <2> SUFFICES ASSUME NEW e \in Executions, closed[e]
               PROVE  /\ attempts'[e] = attempts[e]
                      /\ row'[e].status \in {row[e].status, "rejected", "cancelled"}
    OBVIOUS
  <2>1. TypeOK /\ row[e] \in RowType /\ RowInv(e)
    BY <1>1, Facts DEF IInv, ExecutionInv, TypeOK
  <2>2. \A r \in Requests : req[r].execution = e => req[r].pc \notin Flow \cup {"approve"}
    <3>1. ASSUME NEW r \in Requests, req[r].execution = e PROVE RequestInv(r, e)
      BY <1>1, <3>1, Facts
    <3> QED
      BY <3>1 DEF RequestInv, FlowInv
  <2>3. CASE UNCHANGED vars
    BY <2>3 DEF vars, history
  <2>4. ASSUME NEW r \in Requests, Arrive(r)
        PROVE  attempts'[e] = attempts[e] /\ row'[e] = row[e]
    <3>1. row[e].status \notin {"none", "waiting_approval"}
      BY <2>1 DEF RowInv
    <3> QED
      BY <2>1, <2>4, <3>1 DEF Arrive, CreateToWait, CreateToRun, LoadToApprove, LoadToReject,
           LoadToCancel, Load, Fresh, history, TypeOK
  <2>5. ASSUME NEW r \in Requests, Fail(r) \/ Refresh(r) \/ Refuse(r)
        PROVE  attempts'[e] = attempts[e] /\ row'[e] = row[e]
    BY <2>5 DEF Fail, Refresh, Refuse, history
  <2>6. ASSUME NEW r \in Requests, Approve(r) \/ Start(r) \/ Retry(r)
               \/ \E outcome \in {"success", "failed", "timeout"} : Finish(r, outcome)
        PROVE  attempts'[e] = attempts[e] /\ row'[e] = row[e]
    <3>1. req[r].execution # e
      BY <2>2, <2>6 DEF Approve, Start, Retry, Finish, Flow
    <3> QED
      BY <2>1, <2>6, <3>1 DEF Approve, Start, Retry, Finish, history, TypeOK
  <2>7. ASSUME NEW r \in Requests, Reject(r) \/ Cancel(r)
        PROVE  /\ attempts'[e] = attempts[e]
               /\ row'[e].status \in {row[e].status, "rejected", "cancelled"}
    BY <2>1, <2>7 DEF Reject, Cancel, EndIt, Written, TypeOK, RowType
  <2> QED
    BY <1>1, <2>3, <2>4, <2>5, <2>6, <2>7 DEF Next, RequestStep
<1>2. Spec => [][Step]_vars
  BY <1>1, InvariantHolds, PTL DEF Spec
<1> QED
  BY <1>2 DEF ClosedIsOver
==============================================================================
