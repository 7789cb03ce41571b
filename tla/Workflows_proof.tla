---------------------------- MODULE Workflows_proof ----------------------------
(***************************************************************************)
(* Proofs about the two workflows: AlphaWorkflow for every number of       *)
(* requests, calls, users and traces, then BusinessFlow for every number   *)
(* of tasks, workers, steps, retries, requests and faults.                 *)
(***************************************************************************)
EXTENDS AlphaWorkflow, BusinessFlow, TLAPS

(***************************************************************************)
(* The properties speak of what is left of a run at its end.  What is      *)
(* inductive is what the run has at every commit of its saga (RunInv),     *)
(* that a request which found no run of its scope is right about it until  *)
(* it inserts one (ScopeInv), and what the copies of the other calls tell  *)
(* about the run (CallInv).                                                *)
(***************************************************************************)

\* Before the run is inserted
Unopened == {"none", "queued"} \cup Locking

\* What the run has after each commit
TaskAt(pc) == IF pc \in Unopened \cup {"opened"} THEN "none"
              ELSE IF pc = "task" THEN "created"
              ELSE IF pc = "finished" THEN "summarized" ELSE "running"

AgentAt(pc) == IF pc \in Unopened \cup {"opened", "task", "linked"} THEN "none" ELSE "completed"

DataAt(pc) == IF pc \in Unopened \cup {"opened", "task", "linked", "agent"} THEN {}
              ELSE IF pc = "knowledge" THEN {"research", "knowledge"} ELSE Data

Whole(q) == task[q] = "summarized" /\ agent[q] = "completed" /\ data[q] = Data

RunInv(q) ==
  LET pc == saga[q].pc IN
  /\ pc \in Unopened => status[q] = "none"
  /\ status[q] = "none" => pc \in Unopened \cup {"answered"}
                           /\ failedAt[q] = "none" /\ recoverEvents[q] = 0
  /\ pc \in Unopened \cup Driving => /\ failedAt[q] = "none"
                                     /\ task[q] = TaskAt(pc)
                                     /\ agent[q] = AgentAt(pc)
                                     /\ data[q] = DataAt(pc)
  /\ pc \in Driving \ {"finished"} => status[q] # "completed"
  /\ status[q] = "failed" => failedAt[q] # "none"
  /\ failedAt[q] # "none" => pc = "answered" /\ Residue(q) \subseteq LastRecord(failedAt[q])
  /\ recoverEvents[q] > 0 => failedAt[q] # "none"
  /\ status[q] = "completed" => recoverEvents[q] > 0 \/ Whole(q)

CallInv(c) ==
  call[c].op # "idle" =>
    /\ call[c].run \in Requests
    /\ status[call[c].run] # "none"
    /\ call[c].status = "failed" => failedAt[call[c].run] # "none"

Scope(q) == <<saga[q].user, saga[q].trace>>

Opened(q) == status[q] # "none"

ScopeInv ==
  /\ \A p, q \in Requests :
       saga[p].pc \in Locking /\ saga[q].pc \in Locking /\ Scope(p) = Scope(q) => p = q
  /\ \A p, q \in Requests : saga[p].pc = "absent" /\ Opened(q) => Scope(p) # Scope(q)
  /\ \A p, q \in Requests : Opened(p) /\ Opened(q) /\ saga[p].trace = saga[q].trace => p = q

AnswerInv ==
  \A q \in Requests :
    /\ saga[q].pc # "answered" => answer[q] = NoRun
    /\ answer[q] # NoRun => /\ Opened(answer[q])
                            /\ Scope(answer[q]) = Scope(q)
                            /\ saga[answer[q]].identity = saga[q].identity

IInv ==
  /\ TypeOK
  /\ \A q \in Requests : RunInv(q)
  /\ \A c \in Calls : CallInv(c)
  /\ ScopeInv
  /\ AnswerInv

LEMMA InvariantImpliesProperties ==
  IInv => ReplayMatches /\ CompletedIsWhole /\ OnlyLastRecordSurvives /\ RecoveredRunIsQuiet
<1> SUFFICES ASSUME IInv PROVE ReplayMatches /\ CompletedIsWhole /\ OnlyLastRecordSurvives /\ RecoveredRunIsQuiet
  OBVIOUS
<1>1. ReplayMatches
  <2>1. ASSUME NEW q \in Requests, answer[q] # NoRun
        PROVE  /\ answer[q] \in Requests /\ Opened(answer[q])
               /\ saga[answer[q]].user = saga[q].user
               /\ saga[answer[q]].trace = saga[q].trace
               /\ saga[answer[q]].identity = saga[q].identity
    BY <2>1 DEF IInv, AnswerInv, Scope, TypeOK
  <2>2. ASSUME NEW p \in Requests, NEW q \in Requests, answer[p] # NoRun, answer[q] # NoRun,
               saga[p].trace = saga[q].trace
        PROVE  answer[p] = answer[q]
    BY <2>1, <2>2 DEF IInv, ScopeInv
  <2> QED
    BY <2>1, <2>2 DEF ReplayMatches, Opened
<1>2. CompletedIsWhole
  BY DEF IInv, RunInv, CompletedIsWhole, Whole
<1>3. OnlyLastRecordSurvives
  BY DEF IInv, RunInv, OnlyLastRecordSurvives
<1>4. RecoveredRunIsQuiet
  BY DEF IInv, RunInv, RecoveredRunIsQuiet
<1> QED
  BY <1>1, <1>2, <1>3, <1>4

LEMMA InitEstablishesInvariant == Init => IInv
<1> SUFFICES ASSUME Init PROVE IInv
  OBVIOUS
<1>1. IdleSaga \in SagaType /\ IdleSaga.pc = "none"
  BY InputsAssumption DEF IdleSaga, SagaType
<1>2. IdleCall \in CallType /\ IdleCall.op = "idle"
  BY DEF IdleCall, CallType, Statuses, Recoveries
<1>3. TypeOK
  BY <1>1, <1>2 DEF Init, TypeOK, Statuses, Recoveries
<1>4. \A q \in Requests : saga[q].pc = "none" /\ status[q] = "none"
  BY <1>1 DEF Init
<1>5. \A q \in Requests : RunInv(q)
  BY <1>4 DEF Init, RunInv, Unopened, Driving, TaskAt, AgentAt, DataAt
<1>6. \A c \in Calls : CallInv(c)
  BY <1>2 DEF Init, CallInv
<1>7. ScopeInv /\ AnswerInv
  BY <1>4 DEF Init, ScopeInv, AnswerInv, Opened, Locking
<1> QED
  BY <1>3, <1>5, <1>6, <1>7 DEF IInv

------------------------------------------------------------------------------
(* How one step disturbs the invariant                                       *)

\* A request goes on and its inputs stay what they are
Moves(q, pc) ==
  /\ saga'[q].pc = pc
  /\ \A p \in Requests : /\ p # q => saga'[p].pc = saga[p].pc
                         /\ Scope(p)' = Scope(p)
                         /\ saga'[p].identity = saga[p].identity
                         /\ saga'[p].trace = saga[p].trace

LEMMA GotoMoves ==
  ASSUME TypeOK, NEW q \in Requests, NEW pc, Goto(q, pc)
  PROVE  /\ Moves(q, pc)
         /\ pc \in {"none", "queued", "answered", "dead"} \cup Locking \cup Driving
              => saga' \in [Requests -> SagaType]
BY SMTT(60) DEF TypeOK, SagaType, Goto, Moves, Scope

\* The rows of a run, as far as RunInv looks at them
SameRun(q) ==
  /\ saga'[q].pc = saga[q].pc
  /\ status'[q] = status[q]
  /\ task'[q] = task[q]
  /\ agent'[q] = agent[q]
  /\ data'[q] = data[q]
  /\ failedAt'[q] = failedAt[q]
  /\ recoverEvents'[q] = recoverEvents[q]

LEMMA RunKept ==
  ASSUME NEW q \in Requests, RunInv(q), SameRun(q)
  PROVE  RunInv(q)'
BY DEF RunInv, SameRun, Residue, Whole

\* Calls keep what they have read as long as no run disappears and no failure
\* is forgotten
LEMMA CallsKept ==
  ASSUME \A c \in Calls : CallInv(c), UNCHANGED call,
         \A r \in Requests : Opened(r) => Opened(r)',
         \A r \in Requests : failedAt[r] # "none" => failedAt'[r] # "none"
  PROVE  \A c \in Calls : CallInv(c)'
BY DEF CallInv, Opened

\* No request enters the lookup and no run is inserted
LEMMA ScopeKept ==
  ASSUME ScopeInv, NEW q \in Requests, NEW pc, Moves(q, pc),
         pc \in Locking => saga[q].pc \in Locking,
         pc = "absent" => saga[q].pc = "absent",
         \A r \in Requests : Opened(r)' => Opened(r)
  PROVE  ScopeInv'
<1>1. \A p \in Requests : /\ saga'[p].pc \in Locking => saga[p].pc \in Locking
                         /\ saga'[p].pc = "absent" => saga[p].pc = "absent"
  BY DEF Moves
<1> QED
  BY <1>1 DEF ScopeInv, Moves

LEMMA AnswersKept ==
  ASSUME AnswerInv, NEW q \in Requests, NEW pc, Moves(q, pc),
         saga[q].pc # "answered", UNCHANGED answer, answer \in [Requests -> Requests \cup {NoRun}],
         \A r \in Requests : Opened(r) => Opened(r)'
  PROVE  AnswerInv'
<1>1. \A p \in Requests : saga'[p].pc # "answered" => answer'[p] = NoRun
  BY DEF Moves, AnswerInv
<1>2. \A p \in Requests : answer[p] # NoRun => answer[p] \in Requests
  OBVIOUS
<1> QED
  BY <1>1, <1>2 DEF Moves, AnswerInv

\* A request is answered with a run that matches it, or with none
LEMMA AnsweredWell ==
  ASSUME IInv, NEW q \in Requests, NEW r \in Requests \cup {NoRun}, Answer(q, r),
         r # NoRun => Opened(r) /\ Scope(r) = Scope(q) /\ saga[r].identity = saga[q].identity,
         \A p \in Requests : Opened(p) => Opened(p)'
  PROVE  /\ AnswerInv' /\ Moves(q, "answered")
         /\ saga' \in [Requests -> SagaType]
         /\ answer' \in [Requests -> Requests \cup {NoRun}]
<1>1. Moves(q, "answered") /\ saga' \in [Requests -> SagaType]
  BY GotoMoves DEF IInv, Answer
<1>2. /\ answer' = [answer EXCEPT ![q] = r] /\ answer \in [Requests -> Requests \cup {NoRun}]
      /\ answer' \in [Requests -> Requests \cup {NoRun}]
  BY DEF IInv, TypeOK, Answer
<1>3. \A p \in Requests : saga'[p].pc # "answered" => answer'[p] = NoRun
  BY <1>1, <1>2 DEF IInv, AnswerInv, Moves
<1>4. ASSUME NEW p \in Requests, answer'[p] # NoRun
      PROVE  /\ answer'[p] \in Requests /\ Opened(answer'[p])
             /\ Scope(answer'[p]) = Scope(p)
             /\ saga[answer'[p]].identity = saga[p].identity
  BY <1>2, <1>4 DEF IInv, AnswerInv
<1>5. ASSUME NEW p \in Requests, NEW s \in Requests, answer'[p] = s
      PROVE  /\ Opened(s)'
             /\ Scope(s)' = Scope(p)'
             /\ saga'[s].identity = saga'[p].identity
  <2>1. Opened(s) /\ Scope(s) = Scope(p) /\ saga[s].identity = saga[p].identity
    BY <1>4, <1>5, NoRunAssumption
  <2> QED
    BY <1>1, <2>1 DEF Moves
<1>6. AnswerInv'
  <2>1. ASSUME NEW p \in Requests, answer'[p] # NoRun
        PROVE  /\ status'[answer'[p]] # "none"
               /\ <<saga'[answer'[p]].user, saga'[answer'[p]].trace>> = <<saga'[p].user, saga'[p].trace>>
               /\ saga'[answer'[p]].identity = saga'[p].identity
    <3>1. PICK s \in Requests : answer'[p] = s
      BY <1>4, <2>1
    <3> QED
      BY <1>5, <3>1 DEF Opened, Scope
  <2> QED
    BY <1>3, <2>1 DEF AnswerInv, Opened, Scope
<1> QED
  BY <1>1, <1>2, <1>6

\* Only one run is touched
LEMMA OneRun ==
  ASSUME IInv, NEW q \in Requests, RunInv(q)',
         \A p \in Requests \ {q} : SameRun(p)
  PROVE  \A p \in Requests : RunInv(p)'
BY RunKept DEF IInv

\* The saga of an inserted run makes a commit
LEMMA SagaGoesOn ==
  ASSUME IInv, NEW q \in Requests, NEW pc \in Driving \cup {"dead"}, saga[q].pc \in Driving,
         Goto(q, pc), UNCHANGED <<answer, call>>, TypeOK', RunInv(q)',
         Opened(q)', UNCHANGED failedAt,
         \A p \in Requests \ {q} : SameRun(p)
  PROVE  IInv'
<1>1. Moves(q, pc)
  BY GotoMoves DEF IInv
<1>2. \A r \in Requests : Opened(r)' <=> Opened(r)
  BY DEF IInv, RunInv, Opened, SameRun, Driving, Unopened, Locking
<1>3. saga[q].pc # "answered" /\ pc \notin Locking
  BY DEF Driving, Locking
<1>4. ScopeInv'
  BY <1>1, <1>2, <1>3, ScopeKept DEF IInv, Locking
<1>5. AnswerInv'
  BY <1>1, <1>2, <1>3, AnswersKept DEF IInv, TypeOK
<1>6. \A c \in Calls : CallInv(c)'
  BY <1>2, CallsKept DEF IInv
<1> QED
  BY <1>4, <1>5, <1>6, OneRun DEF IInv

\* The saga of an inserted run is over
LEMMA SagaEnds ==
  ASSUME IInv, NEW q \in Requests, saga[q].pc \in Driving, Answer(q, q), UNCHANGED call,
         TypeOK', RunInv(q)', Opened(q)',
         \A p \in Requests \ {q} : SameRun(p)
  PROVE  IInv'
<1>1. Opened(q) /\ failedAt[q] = "none"
  BY DEF IInv, RunInv, Opened, Driving, Unopened, Locking
<1>2. \A r \in Requests : Opened(r)' <=> Opened(r)
  BY <1>1 DEF Opened, SameRun
<1>3. Moves(q, "answered") /\ AnswerInv'
  BY <1>1, <1>2, AnsweredWell
<1>4. ScopeInv'
  BY <1>2, <1>3, ScopeKept DEF IInv, Locking
<1>5. \A r \in Requests : failedAt[r] # "none" => failedAt'[r] # "none"
  BY <1>1 DEF SameRun
<1>6. \A c \in Calls : CallInv(c)'
  BY <1>2, <1>5, CallsKept DEF IInv
<1> QED
  BY <1>3, <1>4, <1>6, OneRun DEF IInv

\* A request that has no run yet moves without touching any run
LEMMA RequestMoves ==
  ASSUME IInv, NEW q \in Requests, NEW pc, Moves(q, pc), saga[q].pc \in Unopened,
         pc \in Unopened \cup {"answered"},
         UNCHANGED <<runRow, effects, call, history>>, TypeOK', ScopeInv', AnswerInv'
  PROVE  IInv'
<1>1. UNCHANGED <<status, task, agent, data, failedAt, recoverEvents>>
  BY DEF runRow, effects, history
<1>2. \A p \in Requests \ {q} : SameRun(p)
  BY <1>1 DEF Moves, SameRun
<1>3. RunInv(q)'
  <2>1. RunInv(q)
    BY DEF IInv
  <2>2. saga'[q].pc = pc
    BY DEF Moves
  <2>3. /\ status[q] = "none" /\ failedAt[q] = "none" /\ recoverEvents[q] = 0
        /\ task[q] = "none" /\ agent[q] = "none" /\ data[q] = {}
    BY <2>1 DEF RunInv, Unopened, Locking, TaskAt, AgentAt, DataAt
  <2>4. pc \notin Driving
    BY DEF Unopened, Locking, Driving
  <2> QED
    BY <1>1, <2>2, <2>3, <2>4 DEF RunInv, TaskAt, AgentAt, DataAt
<1>4. \A c \in Calls : CallInv(c)'
  BY <1>1, CallsKept DEF IInv, Opened
<1> QED
  BY <1>2, <1>3, <1>4, OneRun DEF IInv

------------------------------------------------------------------------------
(* Every step keeps the invariant                                            *)

LEMMA ArriveKeeps ==
  ASSUME IInv, NEW q \in Requests, NEW u \in Users, NEW t \in Traces, NEW i \in Identities,
         Arrive(q, u, t, i)
  PROVE  IInv'
<1>1. TypeOK /\ saga[q].pc = "none" /\ saga \in [Requests -> SagaType]
  BY DEF IInv, TypeOK, Arrive
<1>2. PICK new \in SagaType : new = [pc |-> "queued", user |-> u, trace |-> t, identity |-> i]
  BY DEF SagaType
<1>3. saga' = [saga EXCEPT ![q] = new] /\ new.pc = "queued"
  BY <1>2 DEF Arrive
<1>4. UNCHANGED <<answer, status, recovery, recoveredBy, task, agent, data, call, recoverEvents, failedAt>>
  BY DEF Arrive, runRow, effects, history
<1>5. TypeOK'
  BY <1>1, <1>3, <1>4 DEF TypeOK
<1>6. \A p \in Requests \ {q} : saga'[p] = saga[p]
  BY <1>1, <1>3
<1>7. saga'[q].pc = "queued"
  BY <1>1, <1>3
<1>8. status[q] = "none" /\ answer[q] = NoRun
  BY <1>1 DEF IInv, RunInv, AnswerInv, Unopened
<1>9. RunInv(q)'
  BY <1>1, <1>4, <1>7 DEF IInv, RunInv, Unopened, Locking, Driving, TaskAt, AgentAt, DataAt
<1>10. \A p \in Requests \ {q} : SameRun(p)
  BY <1>4, <1>6 DEF SameRun
<1>11. ScopeInv'
  BY <1>4, <1>6, <1>7, <1>8 DEF IInv, ScopeInv, Opened, Scope, Locking
<1>12. AnswerInv'
  <2>1. ASSUME NEW p \in Requests, answer[p] # NoRun
        PROVE  answer[p] \in Requests \ {q} /\ p # q
    BY <1>1, <1>8, <2>1 DEF IInv, AnswerInv, Opened, TypeOK
  <2> QED
    BY <1>4, <1>6, <1>7, <1>8, <2>1 DEF IInv, AnswerInv, Opened, Scope
<1>13. \A c \in Calls : CallInv(c)'
  BY <1>4, CallsKept DEF IInv, Opened
<1> QED
  BY <1>5, <1>9, <1>10, <1>11, <1>12, <1>13, OneRun DEF IInv

LEMMA RequestKeeps ==
  ASSUME IInv, NEW q \in Requests, AcquireLock(q) \/ LookupRun(q) \/ RequestFails(q)
  PROVE  IInv'
<1>0. TypeOK /\ ScopeInv /\ AnswerInv
  BY DEF IInv
<1>1. UNCHANGED <<runRow, effects, call, history>>
  BY DEF AcquireLock, LookupRun, RequestFails
<1>2. UNCHANGED <<status, recovery, recoveredBy, task, agent, data, call, recoverEvents, failedAt>>
  BY <1>1 DEF runRow, effects, history
<1>3. \A r \in Requests : Opened(r)' <=> Opened(r)
  BY <1>2 DEF Opened
<1>4. saga[q].pc \in Unopened /\ saga[q].pc # "answered"
  BY DEF AcquireLock, LookupRun, RequestFails, Unopened, Locking
<1>5. CASE AcquireLock(q)
  <2>1. Moves(q, "locked") /\ saga' \in [Requests -> SagaType] /\ UNCHANGED answer
    BY <1>0, <1>5, GotoMoves DEF AcquireLock, Locking
  <2>2. TypeOK'
    BY <1>0, <1>2, <2>1 DEF TypeOK
  <2>3. AnswerInv'
    BY <1>0, <1>3, <1>4, <2>1, AnswersKept DEF TypeOK
  <2>4. ScopeInv'
    <3>1. ASSUME NEW p \in Requests \ {q}, saga'[p].pc \in Locking, Scope(p)' = Scope(q)'
          PROVE  FALSE
      <4>1. saga[p].pc \in Locking /\ Scope(p) = Scope(q)
        BY <2>1, <3>1 DEF Moves
      <4> QED
        BY <1>5, <4>1 DEF AcquireLock, Scope
    <3>2. ASSUME NEW p \in Requests, NEW r \in Requests,
                 saga'[p].pc \in Locking, saga'[r].pc \in Locking, Scope(p)' = Scope(r)'
          PROVE  p = r
      BY <1>0, <2>1, <3>1, <3>2 DEF Moves, ScopeInv
    <3>3. ASSUME NEW p \in Requests, NEW r \in Requests, saga'[p].pc = "absent", Opened(r)'
          PROVE  Scope(p)' # Scope(r)'
      BY <1>0, <1>3, <2>1, <3>3 DEF Moves, ScopeInv
    <3>4. ASSUME NEW p \in Requests, NEW r \in Requests, Opened(p)', Opened(r)', saga'[p].trace = saga'[r].trace
          PROVE  p = r
      BY <1>0, <1>3, <2>1, <3>4 DEF Moves, ScopeInv
    <3> QED
      BY <3>2, <3>3, <3>4 DEF ScopeInv
  <2> QED
    BY <1>1, <1>4, <2>1, <2>2, <2>3, <2>4, RequestMoves DEF Unopened, Locking
<1>6. ASSUME NEW r \in Requests \cup {NoRun}, Answer(q, r),
             r # NoRun => Opened(r) /\ Scope(r) = Scope(q) /\ saga[r].identity = saga[q].identity
      PROVE  IInv'
  <2>1. /\ Moves(q, "answered") /\ AnswerInv'
        /\ saga' \in [Requests -> SagaType]
        /\ answer' \in [Requests -> Requests \cup {NoRun}]
    BY <1>3, <1>6, AnsweredWell
  <2>2. TypeOK'
    BY <1>0, <1>2, <2>1 DEF TypeOK
  <2>3. ScopeInv'
    BY <1>0, <1>3, <2>1, ScopeKept DEF Locking
  <2> QED
    BY <1>1, <1>4, <2>1, <2>2, <2>3, RequestMoves
<1>7. CASE LookupRun(q)
  <2>1. CASE RunsFor(saga[q].user, saga[q].trace) = {} /\ Goto(q, "absent") /\ UNCHANGED answer
    <3>1. Moves(q, "absent") /\ saga' \in [Requests -> SagaType]
      BY <1>0, <2>1, GotoMoves DEF Locking
    <3>2. TypeOK'
      BY <1>0, <1>2, <2>1, <3>1 DEF TypeOK
    <3>3. AnswerInv'
      BY <1>0, <1>3, <1>4, <2>1, <3>1, AnswersKept DEF TypeOK
    <3>4. saga[q].pc = "locked"
      BY <1>7 DEF LookupRun
    <3>5. \A r \in Requests : Opened(r) => Scope(r) # Scope(q)
      BY <2>1 DEF RunsFor, Opened, Scope
    <3>6. ScopeInv'
      <4>1. \A p \in Requests : saga'[p].pc \in Locking => saga[p].pc \in Locking
        BY <3>1, <3>4 DEF Moves, Locking
      <4>2. ASSUME NEW p \in Requests, NEW r \in Requests, saga'[p].pc = "absent", Opened(r)'
            PROVE  Scope(p)' # Scope(r)'
        BY <1>0, <1>3, <3>1, <3>5, <4>2 DEF Moves, ScopeInv
      <4>3. \A p, r \in Requests : Opened(p)' /\ Opened(r)' /\ saga'[p].trace = saga'[r].trace => p = r
        BY <1>0, <1>3, <3>1 DEF Moves, ScopeInv
      <4>4. \A p, r \in Requests : saga'[p].pc \in Locking /\ saga'[r].pc \in Locking /\ Scope(p)' = Scope(r)' => p = r
        BY <1>0, <3>1, <4>1 DEF Moves, ScopeInv
      <4> QED
        BY <4>2, <4>3, <4>4 DEF ScopeInv
    <3> QED
      BY <1>1, <1>4, <3>1, <3>2, <3>3, <3>6, RequestMoves DEF Unopened, Locking
  <2>2. CASE \E r \in RunsFor(saga[q].user, saga[q].trace) :
               Answer(q, IF Matches(r, q) THEN r ELSE NoRun)
    <3>1. PICK r \in RunsFor(saga[q].user, saga[q].trace) :
               Answer(q, IF Matches(r, q) THEN r ELSE NoRun)
      BY <2>2
    <3>2. r \in Requests /\ Opened(r) /\ Scope(r) = Scope(q)
      BY DEF RunsFor, Opened, Scope
    <3> QED
      BY <1>6, <3>1, <3>2, NoRunAssumption DEF Matches
  <2> QED
    BY <1>7, <2>1, <2>2 DEF LookupRun
<1>8. CASE RequestFails(q)
  BY <1>6, <1>8 DEF RequestFails
<1> QED
  BY <1>5, <1>7, <1>8

LEMMA InsertKeeps ==
  ASSUME IInv, NEW q \in Requests, InsertRun(q)
  PROVE  IInv'
<1>0. TypeOK /\ ScopeInv /\ AnswerInv /\ RunInv(q) /\ saga[q].pc = "absent"
  BY DEF IInv, InsertRun
<1>1. /\ status[q] = "none" /\ failedAt[q] = "none" /\ recoverEvents[q] = 0
      /\ task[q] = "none" /\ agent[q] = "none" /\ data[q] = {}
  BY <1>0 DEF RunInv, Unopened, Locking, TaskAt, AgentAt, DataAt
<1>2. UNCHANGED <<recovery, recoveredBy, task, agent, data, call, recoverEvents, failedAt>>
  BY DEF InsertRun, effects, history
<1>3. CASE /\ \A r \in Requests : status[r] # "none" => saga[r].trace # saga[q].trace
           /\ status' = [status EXCEPT ![q] = "running"]
           /\ Goto(q, "opened")
           /\ UNCHANGED answer
  <2>1. Moves(q, "opened") /\ saga' \in [Requests -> SagaType]
    BY <1>0, <1>3, GotoMoves DEF Driving
  <2>2. /\ status'[q] = "running" /\ status' \in [Requests -> Statuses]
        /\ \A p \in Requests \ {q} : status'[p] = status[p]
    BY <1>0, <1>3 DEF TypeOK, Statuses
  <2>3. TypeOK'
    BY <1>0, <1>2, <1>3, <2>1, <2>2 DEF TypeOK
  <2>4. \A p \in Requests \ {q} : SameRun(p)
    BY <1>2, <2>1, <2>2 DEF SameRun, Moves
  <2>5. RunInv(q)'
    BY <1>1, <1>2, <2>1, <2>2 DEF RunInv, Moves, Unopened, Locking, Driving, TaskAt, AgentAt, DataAt
  <2>6. \A r \in Requests : Opened(r) => Opened(r)' /\ r # q
    BY <1>1, <2>2 DEF Opened
  <2>7. AnswerInv'
    BY <1>0, <1>3, <2>1, <2>6, AnswersKept DEF TypeOK
  <2>8. \A c \in Calls : CallInv(c)'
    BY <1>2, <2>6, CallsKept DEF IInv
  <2>9. ScopeInv'
    <3>1. \A r \in Requests : Opened(r)' => r = q \/ Opened(r)
      BY <2>2 DEF Opened
    <3>2. ASSUME NEW p \in Requests, saga'[p].pc \in Locking
          PROVE  saga[p].pc \in Locking /\ p # q /\ saga'[p].pc = saga[p].pc
      BY <2>1, <3>2 DEF Moves, Locking
    <3>3. ASSUME NEW p \in Requests, NEW r \in Requests, saga'[p].pc \in Locking, saga'[r].pc \in Locking,
                 Scope(p)' = Scope(r)'
          PROVE  p = r
      <4>1. Scope(p) = Scope(r)
        BY <2>1, <3>3 DEF Moves
      <4> QED
        BY <1>0, <3>2, <3>3, <4>1 DEF ScopeInv
    <3>4. ASSUME NEW p \in Requests, saga'[p].pc = "absent", NEW r \in Requests, Opened(r)'
          PROVE  Scope(p)' # Scope(r)'
      <4>1. saga[p].pc = "absent" /\ p # q
        <5>1. saga'[p].pc \in Locking
          BY <3>4 DEF Locking
        <5> QED
          BY <3>2, <3>4, <5>1
      <4>2. Scope(p) # Scope(r)
        <5>1. CASE r = q
          BY <1>0, <4>1, <5>1 DEF ScopeInv, Locking
        <5>2. CASE Opened(r)
          BY <1>0, <4>1, <5>2 DEF ScopeInv
        <5> QED
          BY <3>1, <3>4, <5>1, <5>2
      <4> QED
        BY <2>1, <4>2 DEF Moves
    <3>5. ASSUME NEW p \in Requests, NEW r \in Requests, Opened(p)', Opened(r)', saga'[p].trace = saga'[r].trace
          PROVE  p = r
      <4>1. saga[p].trace = saga[r].trace
        BY <2>1, <3>5 DEF Moves
      <4> QED
        BY <1>0, <1>3, <3>1, <3>5, <4>1 DEF ScopeInv, Opened
    <3> QED
      BY <3>3, <3>4, <3>5 DEF ScopeInv
  <2> QED
    BY <2>3, <2>4, <2>5, <2>7, <2>8, <2>9, OneRun DEF IInv
<1>4. CASE /\ LET mine == RunsFor(saga[q].user, saga[q].trace) IN
                IF mine = {} THEN Answer(q, NoRun) ELSE \E r \in mine : Answer(q, r)
           /\ UNCHANGED status
  <2>1. RunsFor(saga[q].user, saga[q].trace) = {}
    BY <1>0 DEF RunsFor, ScopeInv, Opened, Scope
  <2>2. Answer(q, NoRun)
    BY <1>4, <2>1
  <2>3. \A r \in Requests : Opened(r)' <=> Opened(r)
    BY <1>4 DEF Opened
  <2>4. /\ Moves(q, "answered") /\ AnswerInv'
        /\ saga' \in [Requests -> SagaType]
        /\ answer' \in [Requests -> Requests \cup {NoRun}]
    BY <2>2, <2>3, AnsweredWell
  <2>5. TypeOK'
    BY <1>0, <1>2, <1>4, <2>4 DEF TypeOK
  <2>6. ScopeInv'
    BY <1>0, <2>3, <2>4, ScopeKept DEF Locking
  <2>7. UNCHANGED <<runRow, effects, call, history>>
    BY <1>2, <1>4 DEF runRow, effects, history
  <2> QED
    BY <1>0, <2>4, <2>5, <2>6, <2>7, RequestMoves DEF Unopened, Locking
<1> QED
  BY <1>3, <1>4 DEF InsertRun

LEMMA CommitKeeps ==
  ASSUME IInv, NEW q \in Requests,
         \/ CreateTask(q) \/ LinkTask(q) \/ CreateAgentExecution(q) \/ SubmitResearchReport(q)
         \/ InvokeSkill(q) \/ RecordUse(q) \/ FinishRun(q) \/ SagaDies(q)
  PROVE  IInv'
<1> DEFINE pcs == Driving \cup {"dead"}
<1>0. TypeOK /\ RunInv(q) /\ UNCHANGED <<answer, recovery, recoveredBy, call, recoverEvents, failedAt>>
  BY DEF IInv, CreateTask, LinkTask, CreateAgentExecution, SubmitResearchReport, InvokeSkill, RecordUse,
         FinishRun, SagaDies, runRow, effects, history
<1>1. saga[q].pc \in Driving
  BY DEF CreateTask, LinkTask, CreateAgentExecution, SubmitResearchReport, InvokeSkill, RecordUse,
         FinishRun, SagaDies, Driving
<1>2. /\ Opened(q) /\ failedAt[q] = "none" /\ recoverEvents[q] = 0 /\ status[q] # "failed"
      /\ task[q] = TaskAt(saga[q].pc) /\ agent[q] = AgentAt(saga[q].pc) /\ data[q] = DataAt(saga[q].pc)
  <2>1. recoverEvents[q] \in Nat
    BY <1>0 DEF TypeOK
  <2> QED
    BY <1>0, <1>1, <2>1 DEF RunInv, Opened, Driving, Unopened, Locking
\* Enough is what the step does to the rows of its own run
<1>3. ASSUME NEW pc \in pcs, Goto(q, pc),
             status' = status \/ (pc = "finished" /\ status' = [status EXCEPT ![q] = "completed"]),
             pc = "dead" => saga[q].pc = "finished" \/ status[q] # "completed",
             pc \in Driving \ {"finished"} => saga[q].pc # "finished",
             \E k \in {"none", "created", "running", "summarized", "rejected"} :
               task' = [task EXCEPT ![q] = k] /\ (pc # "dead" => k = TaskAt(pc)) /\ (pc = "dead" => k = task[q]),
             \E k \in {"none", "completed", "failed"} :
               agent' = [agent EXCEPT ![q] = k] /\ (pc # "dead" => k = AgentAt(pc)) /\ (pc = "dead" => k = agent[q]),
             \E k \in SUBSET Data :
               data' = [data EXCEPT ![q] = k] /\ (pc # "dead" => k = DataAt(pc)) /\ (pc = "dead" => k = data[q])
      PROVE  IInv'
  <2>1. Moves(q, pc) /\ saga' \in [Requests -> SagaType]
    BY <1>0, <1>3, GotoMoves
  <2>2. PICK kt \in {"none", "created", "running", "summarized", "rejected"} :
               task' = [task EXCEPT ![q] = kt] /\ (pc # "dead" => kt = TaskAt(pc)) /\ (pc = "dead" => kt = task[q])
    BY <1>3
  <2>3. PICK ka \in {"none", "completed", "failed"} :
               agent' = [agent EXCEPT ![q] = ka] /\ (pc # "dead" => ka = AgentAt(pc)) /\ (pc = "dead" => ka = agent[q])
    BY <1>3
  <2>4. PICK kd \in SUBSET Data :
               data' = [data EXCEPT ![q] = kd] /\ (pc # "dead" => kd = DataAt(pc)) /\ (pc = "dead" => kd = data[q])
    BY <1>3
  <2>5. PICK ks \in Statuses : status' = [status EXCEPT ![q] = ks] /\ (ks = status[q] \/ (pc = "finished" /\ ks = "completed"))
    BY <1>0, <1>3 DEF TypeOK, Statuses
  <2>6. /\ task'[q] = kt /\ agent'[q] = ka /\ data'[q] = kd /\ status'[q] = ks
        /\ \A p \in Requests \ {q} : /\ task'[p] = task[p] /\ agent'[p] = agent[p]
                                     /\ data'[p] = data[p] /\ status'[p] = status[p]
    BY <1>0, <2>2, <2>3, <2>4, <2>5 DEF TypeOK
  <2>7. TypeOK'
    <3>1. /\ task' \in [Requests -> {"none", "created", "running", "summarized", "rejected"}]
          /\ agent' \in [Requests -> {"none", "completed", "failed"}]
          /\ data' \in [Requests -> SUBSET Data]
          /\ status' \in [Requests -> Statuses]
      BY <1>0, <2>2, <2>3, <2>4, <2>5 DEF TypeOK
    <3> QED
      BY <1>0, <2>1, <3>1 DEF TypeOK
  <2>8. \A p \in Requests \ {q} : SameRun(p)
    BY <1>0, <2>1, <2>6 DEF SameRun, Moves
  <2>9. ks # "none" /\ ks # "failed" /\ (ks = "completed" => Whole(q)')
    <3>1. ks # "none" /\ ks # "failed"
      BY <1>2, <2>5 DEF Opened
    <3>2. CASE pc = "finished"
      <4>1. kt = "summarized" /\ ka = "completed" /\ kd = Data
        BY <2>2, <2>3, <2>4, <3>2 DEF TaskAt, AgentAt, DataAt, Unopened, Locking
      <4> QED
        BY <2>6, <3>1, <4>1 DEF Whole
    <3>3. CASE pc # "finished" /\ ks = "completed"
      <4>1. saga[q].pc = "finished"
        BY <1>0, <1>1, <2>5, <3>3 DEF RunInv
      <4>2. pc = "dead"
        BY <1>3, <3>3, <4>1
      <4>3. kt = task[q] /\ ka = agent[q] /\ kd = data[q]
        BY <2>2, <2>3, <2>4, <4>2
      <4>4. kt = "summarized" /\ ka = "completed" /\ kd = Data
        BY <1>2, <4>1, <4>3 DEF TaskAt, AgentAt, DataAt, Unopened, Locking
      <4> QED
        BY <2>6, <3>1, <4>4 DEF Whole
    <3> QED
      BY <3>1, <3>2, <3>3
  <2>10. pc \in Driving \ {"finished"} => ks # "completed"
    BY <1>0, <1>1, <1>3, <2>5 DEF RunInv
  <2>11. saga'[q].pc = pc /\ pc \notin Unopened /\ pc # "answered"
    BY <2>1 DEF Moves, Unopened, Locking, Driving
  <2>12. RunInv(q)'
    <3>1. pc \in Driving => kt = TaskAt(pc) /\ ka = AgentAt(pc) /\ kd = DataAt(pc)
      BY <2>2, <2>3, <2>4 DEF Driving
    <3>2. failedAt'[q] = "none" /\ recoverEvents'[q] = 0
      BY <1>0, <1>2
    <3>3. /\ saga'[q].pc = pc /\ status'[q] = ks
          /\ task'[q] = kt /\ agent'[q] = ka /\ data'[q] = kd
      BY <2>6, <2>11
    <3> QED
      BY <2>9, <2>10, <2>11, <3>1, <3>2, <3>3 DEF RunInv
  <2>13. Opened(q)'
    BY <2>6, <2>9 DEF Opened
  <2> QED
    BY <1>0, <1>1, <1>3, <2>7, <2>8, <2>12, <2>13, SagaGoesOn
<1>4. /\ task = [task EXCEPT ![q] = task[q]] /\ task[q] \in {"none", "created", "running", "summarized", "rejected"}
      /\ agent = [agent EXCEPT ![q] = agent[q]] /\ agent[q] \in {"none", "completed", "failed"}
      /\ data = [data EXCEPT ![q] = data[q]] /\ data[q] \in SUBSET Data
  BY <1>0 DEF TypeOK
<1>5. CASE CreateTask(q)
  BY <1>2, <1>3, <1>4, <1>5 DEF CreateTask, runRow, TaskAt, AgentAt, DataAt, Unopened, Locking, Driving
<1>6. CASE LinkTask(q)
  BY <1>2, <1>3, <1>4, <1>6 DEF LinkTask, runRow, TaskAt, AgentAt, DataAt, Unopened, Locking, Driving
<1>7. CASE CreateAgentExecution(q)
  BY <1>2, <1>3, <1>4, <1>7 DEF CreateAgentExecution, runRow, TaskAt, AgentAt, DataAt, Unopened, Locking, Driving
<1>8. CASE SubmitResearchReport(q)
  <2>1. data' = [data EXCEPT ![q] = {"research", "knowledge"}]
    BY <1>2, <1>8 DEF SubmitResearchReport, DataAt, Unopened, Locking
  <2> QED
    BY <1>2, <1>3, <1>4, <1>8, <2>1 DEF SubmitResearchReport, runRow, TaskAt, AgentAt, DataAt, Unopened, Locking, Driving, Data
<1>9. CASE InvokeSkill(q)
  <2>1. data' = [data EXCEPT ![q] = Data]
    BY <1>2, <1>9 DEF InvokeSkill, DataAt, Unopened, Locking, Data
  <2> QED
    BY <1>2, <1>3, <1>4, <1>9, <2>1 DEF InvokeSkill, runRow, TaskAt, AgentAt, DataAt, Unopened, Locking, Driving
<1>10. CASE RecordUse(q)
  BY <1>2, <1>3, <1>4, <1>10 DEF RecordUse, runRow, effects, TaskAt, AgentAt, DataAt, Unopened, Locking, Driving
<1>11. CASE FinishRun(q)
  <2>1. data' = [data EXCEPT ![q] = Data]
    BY <1>2, <1>11 DEF FinishRun, DataAt, Unopened, Locking, Data
  <2> QED
    BY <1>2, <1>3, <1>4, <1>11, <2>1 DEF FinishRun, TaskAt, AgentAt, DataAt, Unopened, Locking, Driving
<1>12. CASE SagaDies(q)
  <2>1. saga[q].pc = "finished" \/ status[q] # "completed"
    BY <1>0, <1>1 DEF RunInv
  <2> QED
    BY <1>3, <1>4, <1>12, <2>1 DEF SagaDies, runRow, effects, Driving
<1> QED
  BY <1>5, <1>6, <1>7, <1>8, <1>9, <1>10, <1>11, <1>12

LEMMA CompensateKeeps ==
  ASSUME IInv, NEW q \in Requests, NEW known \in BOOLEAN, Compensate(q, known)
  PROVE  IInv'
<1> DEFINE pc == saga[q].pc
           kd == data[q] \ (CachedData(pc, known) \cup (IF TaskOwned(pc) THEN {"result"} ELSE {}))
           kt == IF TaskOwned(pc) THEN "rejected" ELSE task[q]
           ka == IF pc \in {"knowledge", "skill", "cited", "finished"} \/ (pc = "agent" /\ known)
                 THEN "failed" ELSE agent[q]
<1>0. TypeOK /\ RunInv(q) /\ pc \in Driving /\ UNCHANGED <<recoveredBy, call, recoverEvents>>
  BY DEF IInv, Compensate
<1>1. /\ failedAt[q] = "none" /\ recoverEvents[q] = 0
      /\ task[q] = TaskAt(pc) /\ agent[q] = AgentAt(pc) /\ data[q] = DataAt(pc)
  <2>1. recoverEvents[q] \in Nat
    BY <1>0 DEF TypeOK
  <2> QED
    BY <1>0, <2>1 DEF RunInv
<1>2. /\ data' = [data EXCEPT ![q] = kd] /\ task' = [task EXCEPT ![q] = kt] /\ agent' = [agent EXCEPT ![q] = ka]
      /\ status' = [status EXCEPT ![q] = "failed"] /\ recovery' = [recovery EXCEPT ![q] = "pending"]
      /\ failedAt' = [failedAt EXCEPT ![q] = pc] /\ Answer(q, q)
  BY DEF Compensate
<1>3. /\ kd \in SUBSET Data
      /\ kt \in {"none", "created", "running", "summarized", "rejected"}
      /\ ka \in {"none", "completed", "failed"}
  BY <1>0 DEF TypeOK
<1>4. /\ data'[q] = kd /\ task'[q] = kt /\ agent'[q] = ka /\ status'[q] = "failed" /\ failedAt'[q] = pc
      /\ \A p \in Requests \ {q} :
           /\ task'[p] = task[p] /\ agent'[p] = agent[p] /\ data'[p] = data[p]
           /\ status'[p] = status[p] /\ failedAt'[p] = failedAt[p]
  BY <1>0, <1>2 DEF TypeOK
<1>5. Moves(q, "answered") /\ saga' \in [Requests -> SagaType]
  BY <1>0, <1>2, GotoMoves DEF Answer
<1>6. TypeOK'
  <2>1. answer' \in [Requests -> Requests \cup {NoRun}]
    BY <1>0, <1>2 DEF TypeOK, Answer
  <2>2. /\ status' \in [Requests -> Statuses] /\ recovery' \in [Requests -> Recoveries]
        /\ failedAt' \in [Requests -> Driving \cup {"none"}]
    BY <1>0, <1>2 DEF TypeOK, Statuses, Recoveries
  <2>3. /\ task' \in [Requests -> {"none", "created", "running", "summarized", "rejected"}]
        /\ agent' \in [Requests -> {"none", "completed", "failed"}]
        /\ data' \in [Requests -> SUBSET Data]
    BY <1>0, <1>2, <1>3 DEF TypeOK
  <2> QED
    BY <1>0, <1>5, <2>1, <2>2, <2>3 DEF TypeOK
<1>7. \A p \in Requests \ {q} : SameRun(p)
  BY <1>0, <1>4, <1>5 DEF SameRun, Moves
\* What is left, commit by commit
<1>8. kd \subseteq LastRecord(pc)
  BY <1>0, <1>1 DEF DataAt, CachedData, TaskOwned, LastRecord, Driving, Unopened, Locking, Data
<1>9. kt \in {"none", "rejected"} \/ "task" \in LastRecord(pc)
  BY <1>0, <1>1 DEF TaskAt, TaskOwned, LastRecord, Driving, Unopened, Locking
<1>10. ka # "completed" \/ "agent" \in LastRecord(pc)
  BY <1>0, <1>1 DEF AgentAt, LastRecord, Driving, Unopened, Locking
<1>11. Residue(q)' \subseteq LastRecord(failedAt'[q])
  BY <1>4, <1>8, <1>9, <1>10 DEF Residue
<1>12. RunInv(q)'
  <2>1. saga'[q].pc = "answered"
    BY <1>5 DEF Moves
  <2>2. failedAt'[q] # "none" /\ recoverEvents'[q] = 0
    BY <1>0, <1>1, <1>4 DEF Driving
  <2> QED
    BY <1>4, <1>11, <2>1, <2>2 DEF RunInv, Unopened, Locking, Driving
<1>13. Opened(q)'
  BY <1>4 DEF Opened
<1> QED
  BY <1>0, <1>2, <1>6, <1>7, <1>12, <1>13, SagaEnds

LEMMA ReturnKeeps ==
  ASSUME IInv, NEW q \in Requests, ReturnRun(q)
  PROVE  IInv'
<1>0. TypeOK /\ RunInv(q) /\ saga[q].pc = "finished" /\ Answer(q, q)
      /\ UNCHANGED <<status, recovery, recoveredBy, task, agent, data, call, recoverEvents, failedAt>>
  BY DEF IInv, ReturnRun, runRow, effects, history
<1>1. Moves(q, "answered") /\ saga' \in [Requests -> SagaType]
  BY <1>0, GotoMoves DEF Answer
<1>2. TypeOK'
  <2>1. answer' \in [Requests -> Requests \cup {NoRun}]
    BY <1>0 DEF TypeOK, Answer
  <2> QED
    BY <1>0, <1>1, <2>1 DEF TypeOK
<1>3. \A p \in Requests \ {q} : SameRun(p)
  BY <1>0, <1>1 DEF SameRun, Moves
<1>4. status[q] # "none" /\ failedAt[q] = "none"
  BY <1>0 DEF RunInv, Driving, Unopened, Locking
<1>5. RunInv(q)'
  <2>1. saga'[q].pc = "answered"
    BY <1>1 DEF Moves
  <2> QED
    BY <1>0, <1>4, <2>1 DEF RunInv, Whole, Unopened, Locking, Driving
<1> QED
  BY <1>0, <1>2, <1>3, <1>4, <1>5, SagaEnds DEF Driving, Opened

\* The copy that a call holds changes, the runs do not
LEMMA CallMoves ==
  ASSUME IInv, NEW c \in Calls, NEW new \in CallType, call' = [call EXCEPT ![c] = new],
         UNCHANGED <<saga, answer, runRow, effects, history>>, CallInv(c)'
  PROVE  IInv'
<1>1. UNCHANGED <<saga, answer, status, recovery, recoveredBy, task, agent, data, recoverEvents, failedAt>>
  BY DEF runRow, effects, history
<1>2. TypeOK /\ call' \in [Calls -> CallType] /\ \A d \in Calls \ {c} : call'[d] = call[d]
  BY DEF IInv, TypeOK
<1>3. TypeOK'
  BY <1>1, <1>2 DEF TypeOK
<1>4. \A q \in Requests : RunInv(q)'
  BY <1>1, RunKept DEF IInv, SameRun
<1>5. \A d \in Calls : CallInv(d)'
  BY <1>1, <1>2 DEF IInv, CallInv
<1>6. ScopeInv' /\ AnswerInv'
  BY <1>1 DEF IInv, ScopeInv, AnswerInv, Opened, Scope
<1> QED
  BY <1>3, <1>4, <1>5, <1>6 DEF IInv

LEMMA CallRests ==
  /\ IdleCall \in CallType
  /\ IdleCall.op = "idle"
BY DEF IdleCall, CallType, Statuses, Recoveries

\* A call writes the run it has loaded and is over
LEMMA CallWrites ==
  ASSUME IInv, NEW c \in Calls, NEW r \in Requests, NEW s \in {"completed", "cancelled"},
         Close(c), Opened(r),
         status' = [status EXCEPT ![r] = s],
         recovery' \in [Requests -> Recoveries],
         recoveredBy' \in [Requests -> Reasons \cup {NoReason}],
         s = "cancelled" => UNCHANGED recoverEvents,
         s = "completed" => failedAt[r] # "none" /\ recoverEvents' = [recoverEvents EXCEPT ![r] = @ + 1],
         UNCHANGED <<saga, answer, effects, failedAt>>
  PROVE  IInv'
<1>1. TypeOK /\ RunInv(r) /\ UNCHANGED <<task, agent, data>>
  BY DEF IInv, effects
<1>2. /\ status' \in [Requests -> Statuses] /\ status'[r] = s
      /\ \A p \in Requests \ {r} : status'[p] = status[p]
  BY <1>1 DEF TypeOK, Statuses
<1>3. /\ call' \in [Calls -> CallType] /\ call'[c].op = "idle"
      /\ \A d \in Calls \ {c} : call'[d] = call[d]
  BY <1>1, CallRests DEF Close, TypeOK
<1>4. /\ recoverEvents' \in [Requests -> Nat]
      /\ s = "completed" => recoverEvents'[r] > 0
      /\ s = "cancelled" => recoverEvents'[r] = recoverEvents[r]
      /\ \A p \in Requests \ {r} : recoverEvents'[p] = recoverEvents[p]
  BY <1>1 DEF TypeOK
<1>5. TypeOK'
  BY <1>1, <1>2, <1>3, <1>4 DEF TypeOK
<1>6. \A p \in Requests : Opened(p)' <=> Opened(p)
  BY <1>2 DEF Opened
<1>7. RunInv(r)'
  <2>1. Opened(r) /\ saga[r].pc \notin Unopened
    BY <1>1 DEF RunInv, Opened
  <2>2. s = "completed" => saga[r].pc = "answered"
    BY <1>1 DEF RunInv
  <2>3. failedAt[r] # "none" => saga[r].pc = "answered" /\ Residue(r)' \subseteq LastRecord(failedAt[r])
    BY <1>1 DEF RunInv, Residue
  <2> QED
    BY <1>1, <1>2, <1>4, <2>1, <2>2, <2>3 DEF RunInv, Driving
<1>8. \A p \in Requests \ {r} : SameRun(p)
  BY <1>1, <1>2, <1>4 DEF SameRun
<1>9. \A d \in Calls : CallInv(d)'
  BY <1>3, <1>6 DEF IInv, CallInv, Opened
<1>10. ScopeInv'
  BY <1>6 DEF IInv, ScopeInv, Scope
<1>11. AnswerInv'
  <2>1. ASSUME NEW p \in Requests, NEW b \in Requests, answer'[p] = b
        PROVE  Opened(b)' /\ Scope(b)' = Scope(p)' /\ saga'[b].identity = saga'[p].identity
    BY <1>6, <2>1, NoRunAssumption DEF IInv, AnswerInv, Scope
  <2>2. \A p \in Requests : answer'[p] # NoRun => answer'[p] \in Requests
    BY <1>1 DEF TypeOK
  <2> QED
    BY <2>1, <2>2 DEF IInv, AnswerInv, Opened, Scope
<1> QED
  BY <1>5, <1>7, <1>8, <1>9, <1>10, <1>11, OneRun DEF IInv

LEMMA CallKeeps ==
  ASSUME IInv, NEW c \in Calls, CallStep(c) \/ CallFails(c)
  PROVE  IInv'
<1>0. TypeOK /\ CallInv(c) /\ call[c] \in CallType
  BY DEF IInv, TypeOK
<1>1. ASSUME NEW op \in {"cancel", "recover"}, NEW r \in Requests, NEW reason \in Reasons \cup {NoReason},
             Open(c, op, r, reason)
      PROVE  IInv'
  <2>1. PICK new : new = [op |-> op, run |-> r, reason |-> reason, status |-> status[r],
                          recovery |-> recovery[r], by |-> recoveredBy[r]]
    OBVIOUS
  <2>2. new \in CallType
    BY <1>0, <2>1 DEF TypeOK, CallType
  <2>3. call' = [call EXCEPT ![c] = new] /\ call'[c] = new /\ Opened(r)
    BY <1>0, <1>1, <2>1 DEF Open, TypeOK, Opened
  <2>4. UNCHANGED <<saga, answer, runRow, effects, history>>
    BY <1>1 DEF Open
  <2>5. new.run = r /\ new.status = status[r] /\ (status[r] = "failed" => failedAt[r] # "none")
    BY <2>1 DEF IInv, RunInv
  <2>6. CallInv(c)'
    BY <2>3, <2>4, <2>5 DEF CallInv, Opened, runRow, history
  <2> QED
    BY <2>2, <2>3, <2>4, <2>6, CallMoves
<1>2. ASSUME NEW r \in Requests, CancelLoad(c, r) PROVE IInv'
  BY <1>1, <1>2 DEF CancelLoad
<1>3. ASSUME NEW r \in Requests, NEW reason \in Reasons, RecoverLoad(c, r, reason) PROVE IInv'
  BY <1>1, <1>3 DEF RecoverLoad
<1>4. CASE CancelCommit(c)
  <2>1. PICK r \in Requests : r = call[c].run /\ Opened(r)
    BY <1>0, <1>4 DEF CancelCommit, CallInv, Opened
  <2>2. /\ status' = [status EXCEPT ![r] = "cancelled"] /\ Close(c)
        /\ recovery' \in [Requests -> Recoveries] /\ recoveredBy' = recoveredBy
        /\ UNCHANGED <<saga, answer, effects, failedAt, recoverEvents>>
    BY <1>0, <1>4, <2>1 DEF CancelCommit, TypeOK, Recoveries, history
  <2>3. recoveredBy' \in [Requests -> Reasons \cup {NoReason}]
    BY <1>0, <2>2 DEF TypeOK
  <2> QED
    BY <2>1, <2>2, <2>3, CallWrites
<1>5. CASE RecoverLock(c)
  <2>1. PICK new \in CallType : /\ new = [call[c] EXCEPT !.op = "recovering"]
                                /\ new.run = call[c].run /\ new.status = call[c].status
    <3>1. [call[c] EXCEPT !.op = "recovering"] \in CallType
      BY <1>0 DEF CallType
    <3>2. /\ [call[c] EXCEPT !.op = "recovering"].run = call[c].run
          /\ [call[c] EXCEPT !.op = "recovering"].status = call[c].status
      BY <1>0 DEF CallType
    <3> QED
      BY <3>1, <3>2
  <2>2. /\ call' = [call EXCEPT ![c] = new] /\ call'[c] = new /\ call[c].op # "idle"
        /\ UNCHANGED <<saga, answer, runRow, effects, history>>
    BY <1>0, <1>5, <2>1 DEF RecoverLock, TypeOK
  <2>3. CallInv(c)'
    BY <1>0, <2>1, <2>2 DEF CallInv, runRow, history
  <2> QED
    BY <2>2, <2>3, CallMoves
<1>6. CASE RecoverCommit(c)
  <2>1. PICK r \in Requests : r = call[c].run /\ Opened(r)
    BY <1>0, <1>6 DEF RecoverCommit, CallInv, Opened
  <2>2. CASE MayRecover(call[c])
    <3>1. failedAt[r] # "none"
      BY <1>0, <1>6, <2>1, <2>2 DEF RecoverCommit, CallInv, MayRecover
    <3>2. /\ status' = [status EXCEPT ![r] = "completed"] /\ Close(c)
          /\ recovery' = [recovery EXCEPT ![r] = "recovered"]
          /\ recoveredBy' = [recoveredBy EXCEPT ![r] = call[c].reason]
          /\ recoverEvents' = [recoverEvents EXCEPT ![r] = @ + 1]
          /\ UNCHANGED <<saga, answer, effects, failedAt>>
      BY <1>6, <2>1, <2>2 DEF RecoverCommit
    <3>3. /\ recovery' \in [Requests -> Recoveries]
          /\ recoveredBy' \in [Requests -> Reasons \cup {NoReason}]
      BY <1>0, <3>2 DEF TypeOK, Recoveries, CallType
    <3> QED
      BY <2>1, <3>1, <3>2, <3>3, CallWrites
  <2>3. CASE ~MayRecover(call[c])
    <3>1. /\ call' = [call EXCEPT ![c] = IdleCall]
          /\ UNCHANGED <<saga, answer, runRow, effects, history>>
      BY <1>6, <2>3 DEF RecoverCommit, Close, history
    <3>2. CallInv(c)'
      BY <1>0, <3>1, CallRests DEF CallInv, TypeOK
    <3> QED
      BY <3>1, <3>2, CallRests, CallMoves
  <2> QED
    BY <2>2, <2>3
<1>7. CASE CallFails(c)
  <2>1. /\ call' = [call EXCEPT ![c] = IdleCall]
        /\ UNCHANGED <<saga, answer, runRow, effects, history>>
    BY <1>7 DEF CallFails, Close
  <2>2. CallInv(c)'
    BY <1>0, <2>1, CallRests DEF CallInv, TypeOK
  <2> QED
    BY <2>1, <2>2, CallRests, CallMoves
<1> QED
  BY <1>2, <1>3, <1>4, <1>5, <1>6, <1>7 DEF CallStep

LEMMA StutterKeeps == IInv /\ UNCHANGED vars => IInv'
<1> SUFFICES ASSUME IInv, UNCHANGED vars PROVE IInv'
  OBVIOUS
<1>1. UNCHANGED <<saga, answer, status, recovery, recoveredBy, task, agent, data, call, recoverEvents, failedAt>>
  BY DEF vars, runRow, effects, history
<1>2. TypeOK'
  BY <1>1 DEF IInv, TypeOK
<1>3. \A q \in Requests : RunInv(q)'
  BY <1>1, RunKept DEF IInv, SameRun
<1>4. \A c \in Calls : CallInv(c)'
  BY <1>1 DEF IInv, CallInv
<1>5. ScopeInv' /\ AnswerInv'
  BY <1>1 DEF IInv, ScopeInv, AnswerInv, Opened, Scope
<1> QED
  BY <1>2, <1>3, <1>4, <1>5 DEF IInv

LEMMA NextKeepsInvariant == IInv /\ [Next]_vars => IInv'
<1> SUFFICES ASSUME IInv, [Next]_vars PROVE IInv'
  OBVIOUS
<1>1. ASSUME NEW q \in Requests, SagaStep(q) PROVE IInv'
  BY <1>1, RequestKeeps, InsertKeeps, CommitKeeps, ReturnKeeps DEF SagaStep
<1>2. ASSUME Fault PROVE IInv'
  BY <1>2, RequestKeeps, CompensateKeeps, CommitKeeps, CallKeeps DEF Fault
<1> QED
  BY <1>1, <1>2, ArriveKeeps, CallKeeps, StutterKeeps DEF Next

------------------------------------------------------------------------------
(* The theorems                                                              *)

THEOREM InvariantHolds == Spec => []IInv
BY InitEstablishesInvariant, NextKeepsInvariant, PTL DEF Spec

\* Every variable keeps its type (and the caller of a request is a user even
\* before it arrives)
THEOREM TypeCorrect == Spec => []TypeOK
<1>1. IInv => TypeOK
  BY DEF IInv
<1> QED
  BY <1>1, InvariantHolds, PTL

\* Requests with one trace are answered with one run, of their own scope and
\* made for their own input
THEOREM ReplaysMatch == Spec => []ReplayMatches
BY InvariantHolds, InvariantImpliesProperties, PTL

\* A run that its saga completed is whole, whatever was raised, cancelled or
\* recovered meanwhile
THEOREM CompletedRunsAreWhole == Spec => []CompletedIsWhole
BY InvariantHolds, InvariantImpliesProperties, PTL

\* After a compensation at most the record of the last commit survives
THEOREM CompensationLeavesLastRecord == Spec => []OnlyLastRecordSurvives
BY InvariantHolds, InvariantImpliesProperties, PTL

\* No saga is at work on a run that has been recovered
THEOREM RecoveredRunsAreQuiet == Spec => []RecoveredRunIsQuiet
BY InvariantHolds, InvariantImpliesProperties, PTL

------------------------------------------------------------------------------
(***************************************************************************)
(* BusinessFlow                                                            *)
(***************************************************************************)

\* What the code assumes of its settings, and the sequence of ids
FlowConstants ==
  /\ Steps \in Nat \ {0}
  /\ MaxRetries \in Nat /\ EventRetries \in Nat
  /\ MaxCalls \in Nat /\ MaxFaults \in Nat
  /\ Tasks \subseteq Nat
  /\ None \notin Tasks

LEMMA FlowConstantsHold == FlowConstants
BY StepsAssumption, RetriesAssumption, BoundsAssumption, TasksAssumption, NoneAssumption
DEF FlowConstants

(***************************************************************************)
(* What is inductive about rows, key and workers: an id is nowhere before   *)
(* it is drawn, the key lets one worker schedule at a time, and as long as  *)
(* that worker has an open row there is no daily flow yet.                  *)
(***************************************************************************)
Running   == {"taken", "running", "skill", "done"}
Executing == {"running", "skill", "done", "created", "pushed"}
Opening   == {"checked", "queued", "marked"}

\* A worker's job agrees with the rows and with the key
Job(w) ==
  /\ worker[w].task = None <=> worker[w].pc \in {"idle", "acquired"}
  /\ worker[w].child # None <=> worker[w].pc = "created"
  /\ worker[w].pc \in Executing => worker[w].task \in Committed
  /\ worker[w].pc \in {"done", "created"} => results[worker[w].task] > 0
  /\ worker[w].pc = "created" => /\ worker[w].child \in Children(worker[w].task)
                                /\ worker[w].child # worker[w].task
  /\ worker[w].pc \in {"acquired", "checked", "queued"} => key = "pending"
  /\ worker[w].pc = "marked" => key = "created"
  /\ worker[w].pc \in Opening => row[worker[w].task].status = "open" /\ ~CreatedToday

\* The key lets one worker schedule at a time
OneScheduler ==
  \A v, w \in Workers : worker[v].pc \in Scheduling /\ worker[w].pc \in Scheduling => v = w

\* An id that was not drawn is nowhere
Reserved(t) ==
  row[t].status = "none" =>
    /\ \A a \in Attempts : queue[t][a] = 0
    /\ \A a \in Attempts, e \in Tries : events[t][a][e] = 0
    /\ \A w \in Workers : worker[w].task # t /\ worker[w].child # t
    /\ \A u \in Tasks : row[u].parent # t

\* Rows of a chain hang together
Chained(t) ==
  /\ t \in unsent => t \in Committed
  /\ row[t].parent # None => t \in Committed
  /\ t \in Committed => row[t].step > 0
  /\ t \in Committed /\ row[t].step > 1 =>
       /\ row[t].parent \in Committed
       /\ row[t].step = row[row[t].parent].step + 1
       /\ results[row[t].parent] > 0

PCs == Scheduling \cup {"idle", "taken", "running", "skill", "done", "created", "pushed"}

BaseInv ==
  /\ FlowTypeOK
  /\ OneScheduler
  /\ \A w \in Workers : Job(w)
  /\ \A t \in Tasks : Reserved(t)
  /\ \A t \in Tasks : Chained(t)
  /\ OneDailyFlow

\* One more, or one less, in a bag
OneMore(f, t, a)      == [f EXCEPT ![t][a] = @ + 1]
OneLess(f, t, a)      == [f EXCEPT ![t][a] = @ - 1]
EventMore(f, t, a, e) == [f EXCEPT ![t][a][e] = @ + 1]
EventLess(f, t, a, e) == [f EXCEPT ![t][a][e] = @ - 1]
EventBag == [Tasks -> [Attempts -> [Tries -> Nat]]]

LEMMA CopyAdded ==
  ASSUME NEW f \in [Tasks -> [Attempts -> Nat]], NEW t \in Tasks, NEW a \in Attempts
  PROVE  /\ OneMore(f, t, a) \in [Tasks -> [Attempts -> Nat]]
         /\ \A u \in Tasks, b \in Attempts :
              OneMore(f, t, a)[u][b] = IF u = t /\ b = a THEN f[u][b] + 1 ELSE f[u][b]
<1> DEFINE g == OneMore(f, t, a)
<1>1. [f[t] EXCEPT ![a] = @ + 1] \in [Attempts -> Nat]
  OBVIOUS
<1>2. \A u \in Tasks : g[u] = IF u = t THEN [f[t] EXCEPT ![a] = @ + 1] ELSE f[u]
  BY DEF OneMore
<1>3. g \in [Tasks -> [Attempts -> Nat]]
  BY <1>1 DEF OneMore
<1>4. \A b \in Attempts : [f[t] EXCEPT ![a] = @ + 1][b] = IF b = a THEN f[t][b] + 1 ELSE f[t][b]
  OBVIOUS
<1> QED
  BY <1>2, <1>3, <1>4

LEMMA CopyTaken ==
  ASSUME NEW f \in [Tasks -> [Attempts -> Nat]], NEW t \in Tasks, NEW a \in Attempts,
         f[t][a] > 0
  PROVE  /\ OneLess(f, t, a) \in [Tasks -> [Attempts -> Nat]]
         /\ \A u \in Tasks, b \in Attempts :
              OneLess(f, t, a)[u][b] = IF u = t /\ b = a THEN f[u][b] - 1 ELSE f[u][b]
<1> DEFINE g == OneLess(f, t, a)
<1>1. [f[t] EXCEPT ![a] = @ - 1] \in [Attempts -> Nat]
  OBVIOUS
<1>2. \A u \in Tasks : g[u] = IF u = t THEN [f[t] EXCEPT ![a] = @ - 1] ELSE f[u]
  BY DEF OneLess
<1>3. g \in [Tasks -> [Attempts -> Nat]]
  BY <1>1 DEF OneLess
<1>4. \A b \in Attempts : [f[t] EXCEPT ![a] = @ - 1][b] = IF b = a THEN f[t][b] - 1 ELSE f[t][b]
  OBVIOUS
<1> QED
  BY <1>2, <1>3, <1>4

LEMMA EventAdded ==
  ASSUME NEW f \in EventBag, NEW t \in Tasks, NEW a \in Attempts, NEW e \in Tries
  PROVE  /\ EventMore(f, t, a, e) \in EventBag
         /\ \A u \in Tasks, b \in Attempts, d \in Tries :
              EventMore(f, t, a, e)[u][b][d] = IF u = t /\ b = a /\ d = e THEN f[u][b][d] + 1 ELSE f[u][b][d]
<1> DEFINE g == EventMore(f, t, a, e)
           h == [f[t][a] EXCEPT ![e] = @ + 1]
           k == [f[t] EXCEPT ![a] = h]
<1>1. f[t][a] \in [Tries -> Nat] /\ f[t] \in [Attempts -> [Tries -> Nat]]
  BY DEF EventBag
<1>2. h \in [Tries -> Nat] /\ \A d \in Tries : h[d] = IF d = e THEN f[t][a][d] + 1 ELSE f[t][a][d]
  BY <1>1
<1> HIDE DEF h
<1>3. k \in [Attempts -> [Tries -> Nat]] /\ \A b \in Attempts : k[b] = IF b = a THEN h ELSE f[t][b]
  BY <1>1, <1>2
<1>4. g = [f EXCEPT ![t] = k]
  BY <1>1 DEF h, EventBag, EventMore
<1> HIDE DEF k
<1>5. g \in EventBag /\ \A u \in Tasks : g[u] = IF u = t THEN k ELSE f[u]
  BY <1>3, <1>4 DEF EventBag
<1> QED
  BY <1>2, <1>3, <1>5

LEMMA EventTaken ==
  ASSUME NEW f \in EventBag, NEW t \in Tasks, NEW a \in Attempts, NEW e \in Tries,
         f[t][a][e] > 0
  PROVE  /\ EventLess(f, t, a, e) \in EventBag
         /\ \A u \in Tasks, b \in Attempts, d \in Tries :
              EventLess(f, t, a, e)[u][b][d] = IF u = t /\ b = a /\ d = e THEN f[u][b][d] - 1 ELSE f[u][b][d]
<1> DEFINE g == EventLess(f, t, a, e)
           h == [f[t][a] EXCEPT ![e] = @ - 1]
           k == [f[t] EXCEPT ![a] = h]
<1>1. f[t][a] \in [Tries -> Nat] /\ f[t] \in [Attempts -> [Tries -> Nat]]
  BY DEF EventBag
<1>2. h \in [Tries -> Nat] /\ \A d \in Tries : h[d] = IF d = e THEN f[t][a][d] - 1 ELSE f[t][a][d]
  BY <1>1
<1> HIDE DEF h
<1>3. k \in [Attempts -> [Tries -> Nat]] /\ \A b \in Attempts : k[b] = IF b = a THEN h ELSE f[t][b]
  BY <1>1, <1>2
<1>4. g = [f EXCEPT ![t] = k]
  BY <1>1 DEF h, EventBag, EventLess
<1> HIDE DEF k
<1>5. g \in EventBag /\ \A u \in Tasks : g[u] = IF u = t THEN k ELSE f[u]
  BY <1>3, <1>4 DEF EventBag
<1> QED
  BY <1>2, <1>3, <1>5

LEMMA TypeStep ==
  ASSUME FlowConstants, BaseInv, FlowNext
  PROVE  FlowTypeOK'
<1>1. /\ \A w \in Workers : worker[w] \in WorkerType
      /\ 0 \in Attempts /\ 0 \in Tries
      /\ Idle \in WorkerType
      /\ \A t \in Tasks : row[t] \in RowType
      /\ Task(1, None, TRUE) \in RowType /\ Task(1, None, FALSE) \in RowType
  BY DEF FlowConstants, BaseInv, FlowTypeOK, Attempts, Tries, Idle, WorkerType, Task, RowType,
         FlowStatuses, Unseen
<1>w. ASSUME NEW w \in Workers, NEW pc \in PCs, FlowGoto(w, pc)
      PROVE  worker' \in [Workers -> WorkerType]
  <2>1. [worker[w] EXCEPT !.pc = pc] \in WorkerType
    BY <1>1 DEF WorkerType, PCs
  <2> QED
    BY <1>w, <2>1 DEF FlowGoto, BaseInv, FlowTypeOK
<1>r. ASSUME NEW t \in Tasks, NEW s \in FlowStatuses
      PROVE  [row EXCEPT ![t].status = s] \in [Tasks -> RowType]
  <2>1. [row[t] EXCEPT !.status = s] \in RowType
    BY <1>1 DEF RowType
  <2> QED
    BY <2>1 DEF BaseInv, FlowTypeOK
<1>s. {"open", "void", "assigned", "running", "completed"} \subseteq FlowStatuses
  BY DEF FlowStatuses, Unseen
<1>t. ASSUME NEW w \in Workers, worker[w].pc \notin {"idle", "acquired"}
      PROVE  worker[w].task \in Tasks
  BY <1>t, <1>1 DEF BaseInv, Job, WorkerType
<1>2. ASSUME NEW w \in Workers, SchedulerStep(w) PROVE FlowTypeOK'
  <2>1. CASE AcquireDay(w)
    BY <2>1, <1>1
    DEF AcquireDay, FlowGoto, BaseInv, FlowTypeOK, WorkerType, Scheduling, bounds, flowHistory
  <2>2. CASE SkipDay(w)
    BY <2>2, <1>1 DEF SkipDay, Rest, BaseInv, FlowTypeOK, bounds, flowHistory
  <2>3. CASE EnqueueDay(w)
    <3>1. worker[w].task \in Tasks
      BY <2>3 DEF BaseInv, FlowTypeOK, WorkerType, Job, EnqueueDay
    <3> QED
      BY <2>3, <1>1, <1>w, CopyAdded, <3>1
      DEF OneMore, EnqueueDay, Push, PCs, BaseInv, FlowTypeOK, Scheduling, bounds, flowHistory
  <2>4. CASE MarkDay(w)
    BY <2>4, <1>1
    DEF MarkDay, FlowGoto, BaseInv, FlowTypeOK, WorkerType, Scheduling, bounds, flowHistory
  <2>5. CASE CommitDay(w)
    BY <2>5, <1>1 DEF CommitDay, Rest, BaseInv, FlowTypeOK, bounds, flowHistory
  <2>6. ASSUME NEW t \in Tasks, CheckDay(w, t) PROVE FlowTypeOK'
    <3>1. row' \in [Tasks -> RowType]
      BY <2>6, <1>r, <1>s DEF CheckDay
    <3>2. [worker[w] EXCEPT !.pc = "checked", !.task = t] \in WorkerType
      BY <1>1 DEF WorkerType, Scheduling
    <3>3. worker' \in [Workers -> WorkerType]
      BY <2>6, <3>2 DEF CheckDay, BaseInv, FlowTypeOK
    <3> QED
      BY <2>6, <3>1, <3>3 DEF CheckDay, BaseInv, FlowTypeOK, bounds, flowHistory
  <2> QED
    BY <1>2, <2>1, <2>2, <2>3, <2>4, <2>5, <2>6 DEF SchedulerStep
<1>3. ASSUME NEW w \in Workers, ExecutionStep(w) PROVE FlowTypeOK'
  <2>1. ASSUME NEW t \in Tasks, NEW u \in Tasks, NEW a \in Attempts, NEW b \in Attempts,
               NEW e \in Tries, TakeTask(w, t, a, u, b, e)
        PROVE  FlowTypeOK'
    <3>1. queue' \in [Tasks -> [Attempts -> Nat]]
      BY <2>1 DEF TakeTask, BaseInv, FlowTypeOK
    <3>2. Wrapped(t, a) \in [Tasks -> [Attempts -> [Tries -> Nat]]]
      BY <1>1 DEF Wrapped, BaseInv, FlowTypeOK
    <3>3. events' \in [Tasks -> [Attempts -> [Tries -> Nat]]]
      BY <2>1, <3>2 DEF TakeTask
    <3>4. worker' \in [Workers -> WorkerType]
      BY <2>1, <1>1 DEF TakeTask, Taken, Idle, WorkerType, BaseInv, FlowTypeOK
    <3> QED
      BY <2>1, <3>1, <3>3, <3>4 DEF TakeTask, BaseInv, FlowTypeOK, bounds, flowHistory
  <2>r. ASSUME NEW b \in Attempts, Repush(w, b), worker[w].task \in Tasks
        PROVE  events' \in [Tasks -> [Attempts -> [Tries -> Nat]]]
    <3>1. worker[w].tries \in Tries
      BY <1>1 DEF WorkerType
    <3>2. worker[w].tries < EventRetries => worker[w].tries + 1 \in Tries
      BY <3>1 DEF Tries, FlowConstants
    <3> QED
      BY <2>r, <3>2, EventAdded DEF EventMore, Repush, BaseInv, FlowTypeOK, EventBag
  <2>2. CASE TaskNotFound(w)
    <3>1. events' \in [Tasks -> [Attempts -> [Tries -> Nat]]]
      BY <2>2, <2>r, <1>1 DEF TaskNotFound, Job, BaseInv, WorkerType
    <3> QED
      BY <2>2, <1>1, <3>1 DEF TaskNotFound, Note, Rest, BaseInv, FlowTypeOK, bounds, flowHistory
  <2>3. CASE BeginTask(w)
    <3>1. row' \in [Tasks -> RowType]
      BY <2>3, <1>r, <1>s, <1>t DEF BeginTask
    <3>2. worker' \in [Workers -> WorkerType]
      BY <2>3, <1>w DEF BeginTask, PCs
    <3> QED
      BY <2>3, <3>1, <3>2 DEF BeginTask, BaseInv, FlowTypeOK, bounds, flowHistory
  <2>4. CASE ReadTask(w)
    <3>1. [worker[w] EXCEPT !.pc = "skill",
                             !.done = (row[worker[w].task].status = "completed")] \in WorkerType
      BY <1>1 DEF WorkerType
    <3>2. worker' \in [Workers -> WorkerType]
      BY <2>4, <3>1 DEF ReadTask, BaseInv, FlowTypeOK
    <3> QED
      BY <2>4, <3>2 DEF ReadTask, BaseInv, FlowTypeOK, bounds, flowHistory
  <2>5. CASE FinishTask(w)
    <3>1. worker[w].task \in Tasks
      BY <2>5, <1>t DEF FinishTask
    <3>2. row' \in [Tasks -> RowType]
      BY <2>5, <3>1, <1>r, <1>s DEF FinishTask, BaseInv, FlowTypeOK
    <3>3. worker' \in [Workers -> WorkerType]
      BY <2>5, <1>w DEF FinishTask, PCs
    <3>4. results' \in [Tasks -> Nat]
      BY <2>5, <3>1 DEF FinishTask, BaseInv, FlowTypeOK
    <3> QED
      BY <2>5, <3>2, <3>3, <3>4 DEF FinishTask, BaseInv, FlowTypeOK, bounds, flowHistory
  <2>6. CASE LastStep(w)
    BY <2>6, <1>1 DEF LastStep, Rest, BaseInv, FlowTypeOK, bounds, flowHistory
  <2>7. CASE EnqueueNext(w)
    <3>1. worker[w].child \in Tasks
      BY <2>7 DEF BaseInv, FlowTypeOK, WorkerType, Job, EnqueueNext
    <3>2. worker' \in [Workers -> WorkerType]
      <4> DEFINE x == [worker[w] EXCEPT !.pc = "pushed", !.child = None]
      <4>1. x \in WorkerType
        BY <1>1 DEF WorkerType
      <4>2. worker' = [worker EXCEPT ![w] = x]
        BY <2>7 DEF EnqueueNext, BaseInv, FlowTypeOK
      <4> QED
        BY <4>1, <4>2 DEF BaseInv, FlowTypeOK
    <3>3. queue' \in [Tasks -> [Attempts -> Nat]]
      BY <2>7, <1>1, <3>1, CopyAdded DEF OneMore, EnqueueNext, Push, BaseInv, FlowTypeOK
    <3> QED
      BY <2>7, <3>2, <3>3 DEF EnqueueNext, BaseInv, FlowTypeOK, bounds, flowHistory
  <2>9. CASE EndTask(w)
    BY <2>9, <1>1 DEF EndTask, Rest, BaseInv, FlowTypeOK, bounds, flowHistory
  <2>8. ASSUME NEW t \in Tasks, CreateNext(w, t) PROVE FlowTypeOK'
    <3>1. worker[w].task \in Tasks
      BY <2>8 DEF BaseInv, FlowTypeOK, WorkerType, Job, CreateNext
    <3>2. NextTask(worker[w].task) \in RowType
      BY <2>8, <1>1, <3>1
      DEF NextTask, Task, CreateNext, RowType, FlowStatuses, Unseen, FlowConstants
    <3> QED
      BY <2>8, <1>1, <3>2 DEF CreateNext, BaseInv, FlowTypeOK, WorkerType, bounds, flowHistory
  <2> QED
    BY <1>3, <2>1, <2>2, <2>3, <2>4, <2>5, <2>6, <2>7, <2>8, <2>9 DEF ExecutionStep
<1>4. CASE RequestStep
  <2>0. Called => calls' \in 0 .. MaxCalls /\ faults' = faults
    BY DEF Called, BaseInv, FlowTypeOK, FlowConstants
  <2>1. ASSUME NEW t \in Tasks, CreateFlow(t) PROVE FlowTypeOK'
    BY <2>0, <2>1, <1>1 DEF CreateFlow, BaseInv, FlowTypeOK, flowHistory
  <2>2. ASSUME NEW t \in Tasks, AssignTask(t) PROVE FlowTypeOK'
    BY <2>0, <2>2, <1>1 DEF AssignTask, Note, BaseInv, FlowTypeOK, RowType, FlowStatuses, Unseen
  <2>3. ASSUME NEW t \in Tasks, CompleteTask(t) PROVE FlowTypeOK'
    <3>1. row' \in [Tasks -> RowType] /\ results' \in [Tasks -> Nat]
      BY <2>3, <1>r, <1>s DEF CompleteTask, BaseInv, FlowTypeOK
    <3> QED
      BY <2>0, <2>3, <3>1 DEF CompleteTask, BaseInv, FlowTypeOK, flowHistory
  <2>4. ASSUME NEW t \in Tasks, Send(t) PROVE FlowTypeOK'
    BY <2>0, <2>4, <1>1 DEF Send, Push, BaseInv, FlowTypeOK, bounds, flowHistory
  <2> QED
    BY <1>4, <2>1, <2>2, <2>3, <2>4 DEF RequestStep
<1>5. CASE FlowFault
  <2>0. Faulted => faults' \in 0 .. MaxFaults /\ calls' = calls
    BY DEF Faulted, BaseInv, FlowTypeOK, FlowConstants
  <2>v. ASSUME NEW w \in Workers, Void(w) PROVE row' \in [Tasks -> RowType]
    BY <2>v, <1>1 DEF Void, BaseInv, FlowTypeOK, RowType, FlowStatuses, Unseen
  <2>1. ASSUME NEW w \in Workers, NEW removed \in BOOLEAN, FailDay(w, removed) PROVE FlowTypeOK'
    BY <2>0, <2>1, <2>v, <1>1 DEF FailDay, Rest, BaseInv, FlowTypeOK
  <2>2. ASSUME NEW w \in Workers, CommitUnheard(w) PROVE FlowTypeOK'
    BY <2>0, <2>2, <1>1 DEF CommitUnheard, Rest, BaseInv, FlowTypeOK, flowHistory
  <2>n. ASSUME NEW w \in Workers, NEW what \in {"failed", "lost"}, NoteFault(w, what)
        PROVE  mishap' \in [Tasks -> SUBSET {"again", "early", "failed", "lost"}]
    <3> DEFINE new(t) == CASE t \in Orphaned(w)   -> mishap[t] \cup {"lost"}
                           [] t = worker[w].task -> mishap[t] \cup {what}
                           [] OTHER              -> mishap[t]
    <3>1. \A t \in Tasks : new(t) \in SUBSET {"again", "early", "failed", "lost"}
      BY <2>n DEF BaseInv, FlowTypeOK
    <3>2. mishap' = [t \in Tasks |-> new(t)]
      BY <2>n DEF NoteFault
    <3> HIDE DEF new
    <3> QED
      BY <3>1, <3>2
  <2>3. ASSUME NEW w \in Workers, FailTask(w) PROVE FlowTypeOK'
    <3>0. worker[w].task \in Tasks /\ worker[w].attempt \in Attempts /\ worker[w].tries \in Tries
      BY <2>3, <1>1 DEF FailTask, Job, BaseInv, WorkerType
    <3>1. worker[w].attempt < MaxRetries => worker[w].attempt + 1 \in Attempts
      BY <3>0 DEF Attempts, FlowConstants
    <3>2. worker[w].tries < EventRetries => worker[w].tries + 1 \in Tries
      BY <3>0 DEF Tries, FlowConstants
    <3>3. queue' \in [Tasks -> [Attempts -> Nat]]
      <4>1. \/ queue' = queue
            \/ /\ worker[w].attempt < MaxRetries
               /\ queue' = OneMore(queue, worker[w].task, worker[w].attempt + 1)
        BY <2>3 DEF FailTask, OneMore
      <4>2. queue \in [Tasks -> [Attempts -> Nat]]
        BY DEF BaseInv, FlowTypeOK
      <4> QED
        BY <3>0, <3>1, <4>1, <4>2, CopyAdded
    <3>4. \E b \in Attempts : Repush(w, b)
      BY <2>3, <3>0, <3>1 DEF FailTask
    <3>5. events' \in [Tasks -> [Attempts -> [Tries -> Nat]]]
      BY <3>0, <3>2, <3>4, EventAdded DEF EventMore, Repush, BaseInv, FlowTypeOK, EventBag
    <3> QED
      BY <2>0, <2>3, <2>n, <1>1, <3>3, <3>5 DEF FailTask, Rest, BaseInv, FlowTypeOK
  <2>4. ASSUME NEW w \in Workers, Crash(w) PROVE FlowTypeOK'
    BY <2>0, <2>4, <2>v, <2>n, <1>1 DEF Crash, Rest, BaseInv, FlowTypeOK
  <2>5. ASSUME NEW t \in Tasks, LoseRequest(t) PROVE FlowTypeOK'
    BY <2>0, <2>5, <1>1 DEF LoseRequest, Note, BaseInv, FlowTypeOK
  <2> QED
    BY <1>5, <2>1, <2>2, <2>3, <2>4, <2>5 DEF FlowFault
<1> QED
  BY <1>2, <1>3, <1>4, <1>5 DEF FlowNext, WorkerStep

------------------------------------------------------------------------------
(* What steps do to the rows                                                 *)

\* Committed rows stay, and keep their place in their chain
RowsKeep ==
  \A t \in Committed :
    /\ t \in Committed'
    /\ row'[t].step = row[t].step /\ row'[t].parent = row[t].parent /\ row'[t].daily = row[t].daily

ResultsGrow == \A t \in Tasks : results'[t] >= results[t]

\* No row appears, and nothing but the status of a row changes
RowsSame ==
  /\ Committed' = Committed
  /\ \A t \in Tasks :
       /\ row'[t].step = row[t].step /\ row'[t].parent = row[t].parent
       /\ row'[t].daily = row[t].daily
       /\ row'[t].status = "none" => row[t].status = "none"

\* The row of a free or open id is committed
RowAdded(t, x) ==
  /\ t \in Tasks /\ t \notin Committed
  /\ x.status = "assigned"
  /\ row' = [row EXCEPT ![t] = x]

LEMMA StatusWritten ==
  ASSUME BaseInv, NEW t \in Committed, NEW s \in {"assigned", "running", "completed"},
         row' = [row EXCEPT ![t].status = s]
  PROVE  /\ RowsSame
         /\ \A u \in Tasks : row[u].status = "open" => row'[u].status = "open"
<1>1. \A u \in Tasks : row[u] \in RowType
  BY DEF BaseInv, FlowTypeOK
<1>2. t \in Tasks /\ row[t].status \notin Unseen
  BY DEF Committed
<1>3. /\ row'[t].status = s /\ row'[t].step = row[t].step /\ row'[t].parent = row[t].parent
      /\ row'[t].daily = row[t].daily
      /\ \A u \in Tasks \ {t} : row'[u] = row[u]
  BY <1>1, <1>2 DEF RowType, BaseInv, FlowTypeOK
<1> QED
  BY <1>2, <1>3 DEF RowsSame, Committed, Unseen

\* The status of an uncommitted row changes to another such status
LEMMA DraftWritten ==
  ASSUME BaseInv, NEW t \in Tasks, t \notin Committed, NEW s \in {"open", "void"},
         row' = [row EXCEPT ![t].status = s]
  PROVE  RowsSame /\ row'[t].status = s /\ \A u \in Tasks \ {t} : row'[u] = row[u]
<1>1. \A u \in Tasks : row[u] \in RowType
  BY DEF BaseInv, FlowTypeOK
<1>3. /\ row'[t].status = s /\ row'[t].step = row[t].step /\ row'[t].parent = row[t].parent
      /\ row'[t].daily = row[t].daily
      /\ \A u \in Tasks \ {t} : row'[u] = row[u]
  BY <1>1 DEF RowType, BaseInv, FlowTypeOK
<1> QED
  BY <1>3 DEF RowsSame, Committed, Unseen

LEMMA SameRows ==
  ASSUME BaseInv, RowsSame
  PROVE  /\ RowsKeep
         /\ CreatedToday' = CreatedToday
         /\ \A t \in Tasks : Children(t)' = Children(t)
         /\ OneDailyFlow'
<1>1. Committed \subseteq Tasks
  BY DEF Committed
<1> QED
  BY <1>1 DEF RowsSame, RowsKeep, CreatedToday, Children, BaseInv, OneDailyFlow

LEMMA AddedRow ==
  ASSUME BaseInv, NEW t, NEW x, RowAdded(t, x)
  PROVE  /\ RowsKeep
         /\ Committed' = Committed \cup {t}
         /\ row'[t] = x
         /\ \A u \in Tasks \ {t} : row'[u] = row[u]
<1>1. t \in Tasks /\ row'[t] = x /\ \A u \in Tasks \ {t} : row'[u] = row[u]
  BY DEF RowAdded, BaseInv, FlowTypeOK
<1>2. row'[t].status \notin Unseen
  BY <1>1 DEF RowAdded, Unseen
<1>3. Committed' = Committed \cup {t}
  BY <1>1, <1>2 DEF Committed
<1>4. RowsKeep
  BY <1>1, <1>3 DEF RowsKeep, RowAdded, Committed
<1> QED
  BY <1>1, <1>3, <1>4

\* Chains stay together
LEMMA ChainsKept ==
  ASSUME BaseInv, RowsSame, ResultsGrow, FlowTypeOK', unsent' \subseteq Committed
  PROVE  \A t \in Tasks : Chained(t)'
<1> SUFFICES ASSUME NEW t \in Tasks PROVE Chained(t)'
  OBVIOUS
<1>1. \A u \in Committed : u \in Tasks
  BY DEF Committed
<1>2. Chained(t) /\ results \in [Tasks -> Nat] /\ results' \in [Tasks -> Nat]
  BY DEF BaseInv, FlowTypeOK
<1>3. t \in Committed /\ row[t].step > 1 => results'[row[t].parent] > 0
  BY <1>1, <1>2 DEF Chained, ResultsGrow
<1> QED
  BY <1>1, <1>2, <1>3 DEF Chained, RowsSame

LEMMA ChainGrows ==
  ASSUME BaseInv, FlowConstants, NEW t, NEW x, RowAdded(t, x), UNCHANGED results, x.step > 0,
         \/ x.step = 1 /\ x.parent = None
         \/ x.parent \in Committed /\ x.step = row[x.parent].step + 1 /\ results[x.parent] > 0,
         unsent' \subseteq Committed \cup {t}
  PROVE  \A u \in Tasks : Chained(u)'
<1>1. /\ RowsKeep /\ Committed' = Committed \cup {t} /\ row'[t] = x
      /\ \A u \in Tasks \ {t} : row'[u] = row[u]
  BY AddedRow
<1>2. t \in Tasks /\ t \notin Committed
  BY DEF RowAdded
<1>4. ASSUME NEW u \in Tasks, u # t PROVE Chained(u)'
  <2>1. Chained(u) /\ row'[u] = row[u]
    BY <1>1, <1>4 DEF BaseInv
  <2>2. u \in Committed' <=> u \in Committed
    BY <1>1, <1>4
  <2>3. u \in unsent' => u \in Committed
    BY <1>4
  <2>4. row[u].parent \in Committed => row'[row[u].parent].step = row[row[u].parent].step
    BY <1>1 DEF RowsKeep
  <2> QED
    BY <1>1, <2>1, <2>2, <2>3, <2>4 DEF Chained
<1>5. Chained(t)'
  <2>1. x.parent \in Committed => row'[x.parent].step = row[x.parent].step
    BY <1>1 DEF RowsKeep
  <2> QED
    BY <1>1, <1>2, <2>1 DEF Chained
<1> QED
  BY <1>4, <1>5

\* The job of a worker that stands still
LEMMA JobStays ==
  ASSUME BaseInv, FlowTypeOK', RowsKeep, ResultsGrow, NEW w \in Workers, worker'[w] = worker[w],
         worker[w].pc \in Scheduling =>
           /\ key' = key
           /\ \A t \in Tasks : row[t].status = "open" => row'[t].status = "open"
           /\ CreatedToday' => CreatedToday
  PROVE  Job(w)'
<1>1. Job(w) /\ worker[w] \in WorkerType
  BY DEF BaseInv, FlowTypeOK
<1>2. worker[w].pc \in Executing => worker'[w].task \in Committed'
  BY <1>1 DEF Job, RowsKeep
<1>3. worker[w].pc \in {"done", "created"} => results'[worker[w].task] > 0
  <2>1. worker[w].pc \in {"done", "created"} => worker[w].task \in Tasks
    BY <1>1 DEF Job, WorkerType
  <2>2. results \in [Tasks -> Nat] /\ results' \in [Tasks -> Nat]
    BY DEF BaseInv, FlowTypeOK
  <2> QED
    BY <1>1, <2>1, <2>2 DEF Job, ResultsGrow
<1>4. worker[w].pc = "created" => /\ worker[w].child \in Children(worker[w].task)'
                                  /\ worker[w].child # worker[w].task
  BY <1>1 DEF Job, Children, RowsKeep
<1>5. /\ worker[w].pc \in {"acquired", "checked", "queued"} => key' = "pending"
      /\ worker[w].pc = "marked" => key' = "created"
      /\ worker[w].pc \in Opening => row'[worker[w].task].status = "open" /\ ~CreatedToday'
  <2>1. worker[w].pc \in Opening => worker[w].task \in Tasks
    BY <1>1 DEF Job, Opening, WorkerType
  <2> QED
    BY <1>1, <2>1 DEF Job, Scheduling, Opening
<1> QED
  BY <1>1, <1>2, <1>3, <1>4, <1>5 DEF Job

\* An id that was free before and is free now is untouched
LEMMA ReservedStays ==
  ASSUME BaseInv, NEW t \in Tasks,
         row'[t].status = "none" =>
           /\ row[t].status = "none"
           /\ queue'[t] = queue[t] /\ events'[t] = events[t]
           /\ \A w \in Workers : /\ worker'[w].task = t => \E v \in Workers : worker[v].task = t
                                 /\ worker'[w].child = t => \E v \in Workers : worker[v].child = t
           /\ \A u \in Tasks : row'[u].parent = t => \E v \in Tasks : row[v].parent = t
  PROVE  Reserved(t)'
BY DEF BaseInv, Reserved

\* One worker moves.  If it is not scheduling, a scheduler finds key and rows as they were
LEMMA OneWorkerMoves ==
  ASSUME BaseInv, FlowTypeOK', RowsKeep, ResultsGrow, NEW w \in Workers,
         \A v \in Workers \ {w} : worker'[v] = worker[v],
         Job(w)',
         \/ worker[w].pc \in Scheduling
         \/ key = "free"
         \/ /\ worker'[w].pc \notin Scheduling
            /\ key' = key
            /\ CreatedToday' => CreatedToday
            /\ \A t \in Tasks : row[t].status = "open" => row'[t].status = "open"
  PROVE  OneScheduler' /\ \A v \in Workers : Job(v)'
<1>1. \A v \in Workers : worker[v].pc \in Scheduling => key # "free"
  BY DEF BaseInv, Job, Scheduling
<1>2. OneScheduler'
  BY <1>1 DEF BaseInv, OneScheduler
<1>3. ASSUME NEW v \in Workers, v # w PROVE Job(v)'
  <2>1. worker'[v] = worker[v]
    BY <1>3
  <2>2. worker[v].pc \in Scheduling =>
          /\ worker'[w].pc \notin Scheduling /\ key' = key /\ (CreatedToday' => CreatedToday)
          /\ \A t \in Tasks : row[t].status = "open" => row'[t].status = "open"
    BY <1>1, <1>3 DEF BaseInv, OneScheduler
  <2> QED
    BY <2>1, <2>2, JobStays
<1> QED
  BY <1>2, <1>3

\* Nobody moves
LEMMA NobodyMoves ==
  ASSUME BaseInv, FlowTypeOK', RowsKeep, ResultsGrow, UNCHANGED <<worker, key>>,
         CreatedToday' => CreatedToday,
         \A t \in Tasks : row[t].status = "open" => row'[t].status = "open"
  PROVE  OneScheduler' /\ \A v \in Workers : Job(v)'
<1>1. OneScheduler'
  BY DEF BaseInv, OneScheduler
<1>2. ASSUME NEW v \in Workers PROVE Job(v)'
  <2>1. worker'[v] = worker[v]
    OBVIOUS
  <2> QED
    BY <2>1, JobStays
<1> QED
  BY <1>1, <1>2

------------------------------------------------------------------------------
(* The scheduler                                                             *)

LEMMA NoRowsChange ==
  ASSUME BaseInv, UNCHANGED row
  PROVE  RowsSame /\ \A t \in Tasks : row[t].status = "open" => row'[t].status = "open"
BY DEF RowsSame, Committed

LEMMA NoResultsChange ==
  ASSUME BaseInv, UNCHANGED results
  PROVE  ResultsGrow
BY DEF BaseInv, FlowTypeOK, ResultsGrow

LEMMA SchedulerKeepsBase ==
  ASSUME FlowConstants, BaseInv, FlowTypeOK', NEW w \in Workers, SchedulerStep(w)
  PROVE  BaseInv'
<1>1. /\ Job(w) /\ worker[w] \in WorkerType /\ worker \in [Workers -> WorkerType]
      /\ OneScheduler
  BY DEF BaseInv, FlowTypeOK
<1>2. ResultsGrow /\ UNCHANGED <<results, events, unsent>>
  BY NoResultsChange
  DEF SchedulerStep, AcquireDay, SkipDay, EnqueueDay, MarkDay, CommitDay, CheckDay
<1>3. Idle.pc = "idle" /\ Idle.task = None /\ Idle.child = None
  BY DEF Idle
<1>4. \A t \in Tasks : t \in unsent => t \in Committed
  BY DEF BaseInv, Chained
<1>5. unsent' \subseteq Committed
  BY <1>2, <1>4 DEF BaseInv, FlowTypeOK
<1>6. CASE AcquireDay(w)
  <2>1. RowsSame /\ RowsKeep /\ OneDailyFlow' /\ (CreatedToday' <=> CreatedToday)
    BY <1>6, NoRowsChange, SameRows DEF AcquireDay
  <2>2. /\ worker'[w].pc = "acquired" /\ worker'[w].task = worker[w].task
        /\ worker'[w].child = worker[w].child
        /\ \A v \in Workers \ {w} : worker'[v] = worker[v]
    BY <1>1, <1>6 DEF AcquireDay, FlowGoto, WorkerType
  <2>3. Job(w)'
    BY <1>1, <1>6, <2>2 DEF AcquireDay, Job, Executing, Opening
  <2>4. OneScheduler' /\ \A v \in Workers : Job(v)'
    BY <1>2, <1>6, <2>1, <2>2, <2>3, OneWorkerMoves DEF AcquireDay
  <2>5. \A t \in Tasks : Reserved(t)'
    BY <1>2, <1>6, <2>2, ReservedStays DEF AcquireDay
  <2> QED
    BY <1>2, <1>5, <2>1, <2>4, <2>5, ChainsKept DEF BaseInv
<1>7. CASE SkipDay(w) \/ EnqueueDay(w) \/ MarkDay(w)
  <2>1. RowsSame /\ RowsKeep /\ OneDailyFlow' /\ (CreatedToday' <=> CreatedToday)
    BY <1>7, NoRowsChange, SameRows DEF SkipDay, EnqueueDay, MarkDay
  <2>2. \A v \in Workers \ {w} : worker'[v] = worker[v]
    BY <1>1, <1>7 DEF SkipDay, EnqueueDay, MarkDay, Rest, FlowGoto
  <2>3. Job(w)' /\ worker'[w].task \in {worker[w].task, None}
        /\ worker'[w].child \in {worker[w].child, None}
    <3>1. CASE SkipDay(w)
      <4>1. worker'[w] = Idle
        BY <1>1, <3>1 DEF SkipDay, Rest
      <4> QED
        BY <4>1, <1>3 DEF Job, Executing, Opening
    <3>2. CASE EnqueueDay(w)
      <4>1. /\ worker'[w].pc = "queued" /\ worker'[w].task = worker[w].task
            /\ worker'[w].child = worker[w].child /\ worker[w].pc = "checked"
        BY <1>1, <3>2 DEF EnqueueDay, FlowGoto, WorkerType
      <4> QED
        BY <4>1, <1>1, <3>2, <2>1 DEF EnqueueDay, Job, Executing, Opening
    <3>3. CASE MarkDay(w)
      <4>1. /\ worker'[w].pc = "marked" /\ worker'[w].task = worker[w].task
            /\ worker'[w].child = worker[w].child /\ worker[w].pc = "queued"
        BY <1>1, <3>3 DEF MarkDay, FlowGoto, WorkerType
      <4> QED
        BY <4>1, <1>1, <3>3, <2>1 DEF MarkDay, Job, Executing, Opening
    <3> QED
      BY <1>7, <3>1, <3>2, <3>3
  <2>4. OneScheduler' /\ \A v \in Workers : Job(v)'
    <3>1. worker[w].pc \in Scheduling
      BY <1>7 DEF SkipDay, EnqueueDay, MarkDay, Scheduling
    <3> QED
      BY <1>2, <2>1, <2>2, <2>3, <3>1, OneWorkerMoves
  <2>5. ASSUME NEW t \in Tasks PROVE Reserved(t)'
    <3>1. row[t].status = "none" => queue'[t] = queue[t]
      <4>1. CASE EnqueueDay(w)
        <5>1. worker[w].pc \in Opening
          BY <4>1 DEF EnqueueDay, Opening
        <5>2. row[worker[w].task].status = "open"
          BY <5>1, <1>1 DEF Job
        <5> QED
          BY <4>1, <5>2 DEF EnqueueDay, Push, BaseInv, FlowTypeOK
      <4> QED
        BY <1>7, <4>1 DEF SkipDay, MarkDay
    <3>2. row' = row /\ events' = events
      BY <1>7 DEF SkipDay, EnqueueDay, MarkDay
    <3>3. \A v \in Workers : /\ worker'[v].task = t => \E x \in Workers : worker[x].task = t
                             /\ worker'[v].child = t => \E x \in Workers : worker[x].child = t
      BY <2>2, <2>3 DEF FlowConstants
    <3> QED
      BY <3>1, <3>2, <3>3, ReservedStays
  <2> QED
    BY <1>2, <1>5, <2>1, <2>4, <2>5, ChainsKept DEF BaseInv
<1>8. CASE CommitDay(w)
  <2> DEFINE t == worker[w].task
             x == Task(1, None, TRUE)
  <2>1. /\ worker[w].pc \in Opening /\ worker[w].pc \in Scheduling /\ t \in Tasks
        /\ row[t].status = "open" /\ ~CreatedToday
    BY <1>1, <1>8 DEF CommitDay, Opening, Scheduling, Job, WorkerType
  <2>2. RowAdded(t, x) /\ x.step = 1 /\ x.parent = None
    BY <1>8, <2>1 DEF CommitDay, RowAdded, Committed, Unseen, Task
  <2> HIDE DEF t, x
  <2>3. /\ RowsKeep /\ Committed' = Committed \cup {t}
        /\ row'[t] = x /\ \A u \in Tasks \ {t} : row'[u] = row[u]
    BY <2>2, AddedRow
  <2>4. OneDailyFlow'
    BY <2>1, <2>3 DEF OneDailyFlow, CreatedToday, Committed
  <2>5. worker'[w] = Idle /\ \A v \in Workers \ {w} : worker'[v] = worker[v]
    BY <1>1, <1>8 DEF CommitDay, Rest
  <2>6. Job(w)'
    BY <2>5, <1>3 DEF Job, Executing, Opening
  <2>7. OneScheduler' /\ \A v \in Workers : Job(v)'
    BY <1>2, <2>1, <2>3, <2>5, <2>6, OneWorkerMoves
  <2>9. \A u \in Tasks : Chained(u)'
    BY <1>2, <1>5, <2>2, ChainGrows
  <2>10. ASSUME NEW u \in Tasks PROVE Reserved(u)'
    <3>1. row'[t].status = "assigned" /\ row'[t].parent = None
      BY <2>2, <2>3 DEF RowAdded
    <3>2. row'[u].status = "none" => row[u].status = "none"
      BY <2>3, <3>1
    <3>3. \A v \in Tasks : row'[v].parent = u => \E y \in Tasks : row[y].parent = u
      BY <2>3, <3>1 DEF FlowConstants
    <3>4. queue' = queue /\ events' = events
      BY <1>8 DEF CommitDay
    <3>5. \A v \in Workers : /\ worker'[v].task = u => \E y \in Workers : worker[y].task = u
                             /\ worker'[v].child = u => \E y \in Workers : worker[y].child = u
      BY <1>3, <2>5 DEF FlowConstants
    <3> QED
      BY <3>2, <3>3, <3>4, <3>5, ReservedStays
  <2> QED
    BY <2>4, <2>7, <2>9, <2>10 DEF BaseInv
<1>9. ASSUME NEW t \in Tasks, CheckDay(w, t) PROVE BaseInv'
  <2>1. worker[w].pc = "acquired" /\ ~CreatedToday /\ row[t].status = "none"
    BY <1>9 DEF CheckDay, Free
  <2>2. t \notin Committed
    BY <2>1 DEF Committed, Unseen
  <2>3. RowsSame /\ row'[t].status = "open" /\ \A u \in Tasks \ {t} : row'[u] = row[u]
    BY <1>9, <2>2, DraftWritten DEF CheckDay
  <2>4. RowsKeep /\ OneDailyFlow' /\ (CreatedToday' <=> CreatedToday)
    BY <2>3, SameRows
  <2>5. /\ worker'[w].pc = "checked" /\ worker'[w].task = t /\ worker'[w].child = worker[w].child
        /\ \A v \in Workers \ {w} : worker'[v] = worker[v]
    BY <1>1, <1>9 DEF CheckDay, WorkerType
  <2>6. Job(w)'
    BY <1>1, <1>9, <2>1, <2>3, <2>4, <2>5 DEF CheckDay, Job, Executing, Opening, FlowConstants
  <2>7. OneScheduler' /\ \A v \in Workers : Job(v)'
    BY <1>2, <2>1, <2>4, <2>5, <2>6, OneWorkerMoves DEF Scheduling
  <2>8. ASSUME NEW u \in Tasks PROVE Reserved(u)'
    <3>1. row'[u].status = "none" => u # t /\ row[u].status = "none"
      BY <2>3
    <3>2. queue' = queue /\ events' = events
      BY <1>9 DEF CheckDay
    <3>3. \A v \in Tasks : row'[v].parent = row[v].parent
      BY <2>3 DEF RowsSame
    <3> QED
      BY <2>5, <3>1, <3>2, <3>3, ReservedStays
  <2> QED
    BY <1>2, <1>5, <2>3, <2>4, <2>7, <2>8, ChainsKept DEF BaseInv
<1> QED
  BY <1>6, <1>7, <1>8, <1>9 DEF SchedulerStep

------------------------------------------------------------------------------
(* Executions                                                                *)

\* What a repush leaves alone
LEMMA RepushAdds ==
  ASSUME FlowConstants, BaseInv, NEW w \in Workers, NEW b \in Attempts, worker[w].task \in Tasks,
         Repush(w, b)
  PROVE  /\ \A u \in Tasks \ {worker[w].task} : events'[u] = events[u]
         /\ \A a \in Attempts, e \in Tries :
              events'[worker[w].task][a][e] =
                IF a = b /\ worker[w].tries < EventRetries /\ e = worker[w].tries + 1
                THEN events[worker[w].task][a][e] + 1 ELSE events[worker[w].task][a][e]
<1>1. worker[w].tries \in Tries /\ events \in EventBag
  BY DEF BaseInv, FlowTypeOK, WorkerType, EventBag
<1>2. CASE worker[w].tries < EventRetries
  <2>1. PICK i \in Tries : i = worker[w].tries + 1
    BY <1>1, <1>2 DEF Tries, FlowConstants
  <2>2. events' = EventMore(events, worker[w].task, b, i)
    BY <1>2, <2>1 DEF Repush, EventMore
  <2>3. \A u \in Tasks, a \in Attempts, e \in Tries :
          events'[u][a][e] = IF u = worker[w].task /\ a = b /\ e = i
                             THEN events[u][a][e] + 1 ELSE events[u][a][e]
    BY <1>1, <2>1, <2>2, EventAdded
  <2>4. \A u \in Tasks \ {worker[w].task} : events'[u] = events[u]
    BY <1>1, <2>2 DEF EventBag, EventMore
  <2> QED
    BY <1>2, <2>1, <2>3, <2>4
<1>3. CASE ~(worker[w].tries < EventRetries)
  BY <1>3 DEF Repush
<1> QED
  BY <1>2, <1>3

LEMMA ExecutionKeepsBase ==
  ASSUME FlowConstants, BaseInv, FlowTypeOK', NEW w \in Workers, ExecutionStep(w)
  PROVE  BaseInv'
<1>1. /\ Job(w) /\ worker[w] \in WorkerType /\ worker \in [Workers -> WorkerType]
      /\ OneScheduler
  BY DEF BaseInv, FlowTypeOK
<1>2. /\ key' = key /\ unsent' = unsent /\ worker[w].pc \notin Scheduling
      /\ \A v \in Workers \ {w} : worker'[v] = worker[v]
  <2>1. key' = key /\ unsent' = unsent /\ worker[w].pc \notin Scheduling
    BY DEF ExecutionStep, TakeTask, TaskNotFound, BeginTask, ReadTask, FinishTask, LastStep,
           EnqueueNext, EndTask, CreateNext, Scheduling
  <2>2. ASSUME NEW t \in Tasks, NEW u \in Tasks, NEW a \in Attempts, NEW b \in Attempts,
               NEW e \in Tries, TakeTask(w, t, a, u, b, e)
        PROVE  \A v \in Workers \ {w} : worker'[v] = worker[v]
    BY <1>1, <2>2 DEF TakeTask, Taken
  <2>3. ASSUME TaskNotFound(w) \/ LastStep(w) \/ EnqueueNext(w) \/ EndTask(w)
        PROVE  \A v \in Workers \ {w} : worker'[v] = worker[v]
    BY <1>1, <2>3 DEF TaskNotFound, LastStep, EnqueueNext, EndTask, Rest
  <2>5. ASSUME BeginTask(w) \/ ReadTask(w) \/ FinishTask(w)
        PROVE  \A v \in Workers \ {w} : worker'[v] = worker[v]
    BY <1>1, <2>5 DEF BeginTask, ReadTask, FinishTask, FlowGoto
  <2>4. ASSUME NEW t \in Tasks, CreateNext(w, t)
        PROVE  \A v \in Workers \ {w} : worker'[v] = worker[v]
    BY <1>1, <2>4 DEF CreateNext
  <2> QED
    BY <2>1, <2>2, <2>3, <2>4, <2>5 DEF ExecutionStep
<1>3. Idle.pc = "idle" /\ Idle.task = None /\ Idle.child = None
  BY DEF Idle
<1>4. unsent' \subseteq Committed
  BY <1>2 DEF BaseInv, Chained, FlowTypeOK
<1>5. ASSUME worker'[w] = Idle PROVE Job(w)'
  BY <1>3, <1>5 DEF Job, Executing, Opening
<1>6. ASSUME RowsSame, ResultsGrow, Job(w)', worker'[w].pc \notin Scheduling,
             \A t \in Tasks : row[t].status = "open" => row'[t].status = "open",
             \A t \in Tasks : Reserved(t)'
      PROVE  BaseInv'
  <2>1. RowsKeep /\ OneDailyFlow' /\ (CreatedToday' <=> CreatedToday)
    BY <1>6, SameRows
  <2>2. OneScheduler' /\ \A v \in Workers : Job(v)'
    BY <1>2, <1>6, <2>1, OneWorkerMoves
  <2> QED
    BY <1>4, <1>6, <2>1, <2>2, ChainsKept DEF BaseInv
\* the worker goes on with its task, or rests
<1>7. ASSUME NEW t \in Tasks, worker'[w].task \in {worker[w].task, None}, worker'[w].child = None,
             row'[t].status = "none" => row[t].status = "none",
             row'[t].status = "none" => queue'[t] = queue[t] /\ events'[t] = events[t],
             \A u \in Tasks : row'[u].parent = row[u].parent
      PROVE  Reserved(t)'
  <2>1. \A v \in Workers : worker'[v].task = t => \E x \in Workers : worker[x].task = t
    BY <1>2, <1>7 DEF FlowConstants
  <2>2. \A v \in Workers : worker'[v].child = t => \E x \in Workers : worker[x].child = t
    BY <1>2, <1>7 DEF FlowConstants
  <2> QED
    BY <1>7, <2>1, <2>2, ReservedStays
<1>8. \A t \in Tasks : row[t].status = "none" => worker[w].task # t /\ worker[w].child # t
  BY DEF BaseInv, Reserved
<1>9. ASSUME NEW t \in Tasks, NEW u \in Tasks, NEW a \in Attempts, NEW b \in Attempts,
             NEW e \in Tries, TakeTask(w, t, a, u, b, e)
      PROVE  BaseInv'
  <2>1. RowsSame /\ ResultsGrow /\ row' = row
        /\ \A x \in Tasks : row[x].status = "open" => row'[x].status = "open"
    BY <1>9, NoRowsChange, NoResultsChange DEF TakeTask
  <2>2. worker'[w].pc = "taken" /\ worker'[w].task = u /\ worker'[w].child = None
    BY <1>1, <1>9 DEF TakeTask, Taken, Idle
  <2>3. Job(w)'
    <3>1. u # None
      BY DEF FlowConstants
    <3> QED
      BY <2>2, <3>1 DEF Job, Executing, Opening
  <2>4. events \in EventBag /\ 0 \in Tries /\ queue \in [Tasks -> [Attempts -> Nat]]
    <3>1. 0 \in Tries
      BY DEF Tries, FlowConstants
    <3> QED
      BY <3>1 DEF BaseInv, FlowTypeOK, EventBag
  <2>5. /\ Wrapped(t, a) \in EventBag
        /\ \A x \in Tasks : x # t => Wrapped(t, a)[x] = events[x]
    BY <2>4, EventAdded DEF Wrapped, EventBag, EventMore
  <2>6. row[t].status # "none"
    BY <1>9 DEF TakeTask, BaseInv, Reserved
  <2>7. row[u].status # "none"
    <3>1. CASE u = t
      BY <2>6, <3>1
    <3>2. CASE u # t
      <4>1. events[u][b][e] > 0
        BY <1>9, <2>5, <3>2 DEF TakeTask
      <4> QED
        BY <4>1 DEF BaseInv, Reserved
    <3> QED
      BY <3>1, <3>2
  <2>8. ASSUME NEW x \in Tasks PROVE Reserved(x)'
    <3>1. row[x].status = "none" => x # t /\ x # u
      BY <2>6, <2>7
    <3>2. x # t => queue'[x] = queue[x]
      BY <1>9, <2>4 DEF TakeTask
    <3>3. x # t /\ x # u => events'[x] = events[x]
      <4>1. events' = [Wrapped(t, a) EXCEPT ![u][b][e] = @ - 1]
        BY <1>9 DEF TakeTask
      <4>2. x # u => events'[x] = Wrapped(t, a)[x]
        BY <2>5, <4>1 DEF EventBag
      <4> QED
        BY <2>5, <4>2
    <3>4. row[x].status = "none" => \A v \in Workers : worker'[v].task # x /\ worker'[v].child # x
      BY <1>2, <2>2, <3>1 DEF FlowConstants, BaseInv, Reserved
    <3> QED
      BY <2>1, <3>1, <3>2, <3>3, <3>4, ReservedStays
  <2> QED
    BY <1>6, <2>1, <2>2, <2>3, <2>8 DEF Scheduling
<1>10. CASE TaskNotFound(w)
  <2>1. RowsSame /\ ResultsGrow /\ row' = row
        /\ \A x \in Tasks : row[x].status = "open" => row'[x].status = "open"
    BY <1>10, NoRowsChange, NoResultsChange DEF TaskNotFound
  <2>2. worker'[w] = Idle /\ queue' = queue
    BY <1>1, <1>10 DEF TaskNotFound, Rest
  <2>3. worker[w].task \in Tasks /\ worker[w].attempt \in Attempts
    BY <1>1, <1>10 DEF TaskNotFound, Job, WorkerType
  <2>4. \A u \in Tasks \ {worker[w].task} : events'[u] = events[u]
    BY <1>10, <2>3, RepushAdds DEF TaskNotFound
  <2>5. \A t \in Tasks : Reserved(t)'
    BY <1>3, <1>7, <1>8, <2>1, <2>2, <2>4
  <2> QED
    BY <1>3, <1>5, <1>6, <2>1, <2>2, <2>5 DEF Scheduling
<1>11. CASE BeginTask(w)
  <2>1. worker[w].task \in Committed /\ worker[w].pc = "taken"
    BY <1>11 DEF BeginTask
  <2>2. RowsSame /\ \A x \in Tasks : row[x].status = "open" => row'[x].status = "open"
    BY <1>11, <2>1, StatusWritten DEF BeginTask
  <2>3. ResultsGrow /\ RowsKeep
    BY <1>11, <2>2, SameRows, NoResultsChange DEF BeginTask
  <2>4. /\ worker'[w].pc = "running" /\ worker'[w].task = worker[w].task
        /\ worker'[w].child = worker[w].child
    BY <1>1, <1>11 DEF BeginTask, FlowGoto, WorkerType
  <2>5. Job(w)' /\ worker'[w].child = None
    BY <1>1, <2>1, <2>3, <2>4 DEF Job, Executing, Opening, RowsKeep
  <2>6. \A t \in Tasks : Reserved(t)'
    BY <1>7, <1>11, <2>2, <2>4, <2>5 DEF BeginTask, RowsSame
  <2> QED
    BY <1>6, <2>2, <2>3, <2>4, <2>5, <2>6 DEF Scheduling
<1>12. CASE ReadTask(w)
  <2>1. RowsSame /\ ResultsGrow /\ row' = row
        /\ \A x \in Tasks : row[x].status = "open" => row'[x].status = "open"
    BY <1>12, NoRowsChange, NoResultsChange DEF ReadTask
  <2>2. /\ worker'[w].pc = "skill" /\ worker'[w].task = worker[w].task
        /\ worker'[w].child = worker[w].child /\ worker[w].pc = "running"
    BY <1>1, <1>12 DEF ReadTask, WorkerType
  <2>3. Job(w)' /\ worker'[w].child = None
    BY <1>1, <2>1, <2>2 DEF Job, Executing, Opening, RowsSame
  <2>4. \A t \in Tasks : Reserved(t)'
    BY <1>7, <1>12, <2>1, <2>2, <2>3 DEF ReadTask
  <2> QED
    BY <1>6, <2>1, <2>2, <2>3, <2>4 DEF Scheduling
<1>13. CASE FinishTask(w)
  <2>1. worker[w].task \in Committed /\ worker[w].pc = "skill"
    BY <1>1, <1>13 DEF FinishTask, Job, Executing
  <2>2. RowsSame /\ \A x \in Tasks : row[x].status = "open" => row'[x].status = "open"
    BY <1>13, <2>1, StatusWritten, NoRowsChange DEF FinishTask
  <2>3. ResultsGrow /\ results'[worker[w].task] > 0
    BY <1>13, <2>1 DEF FinishTask, BaseInv, FlowTypeOK, Committed, ResultsGrow
  <2>4. /\ worker'[w].pc = "done" /\ worker'[w].task = worker[w].task
        /\ worker'[w].child = worker[w].child
    BY <1>1, <1>13 DEF FinishTask, FlowGoto, WorkerType
  <2>5. Job(w)' /\ worker'[w].child = None
    BY <1>1, <2>1, <2>2, <2>3, <2>4 DEF Job, Executing, Opening, RowsSame
  <2>6. \A t \in Tasks : Reserved(t)'
    BY <1>7, <1>13, <2>2, <2>4, <2>5 DEF FinishTask, RowsSame
  <2> QED
    BY <1>6, <2>2, <2>3, <2>4, <2>5, <2>6 DEF Scheduling
<1>14. CASE LastStep(w) \/ EndTask(w)
  <2>1. RowsSame /\ ResultsGrow /\ row' = row /\ events' = events /\ queue' = queue
        /\ \A x \in Tasks : row[x].status = "open" => row'[x].status = "open"
    BY <1>14, NoRowsChange, NoResultsChange DEF LastStep, EndTask
  <2>2. worker'[w] = Idle
    BY <1>1, <1>14 DEF LastStep, EndTask, Rest
  <2>3. \A t \in Tasks : Reserved(t)'
    BY <1>3, <1>7, <2>1, <2>2
  <2> QED
    BY <1>3, <1>5, <1>6, <2>1, <2>2, <2>3 DEF Scheduling
<1>16. CASE EnqueueNext(w)
  <2>1. RowsSame /\ ResultsGrow /\ row' = row /\ events' = events
        /\ \A x \in Tasks : row[x].status = "open" => row'[x].status = "open"
    BY <1>16, NoRowsChange, NoResultsChange DEF EnqueueNext
  <2>2. /\ worker'[w].pc = "pushed" /\ worker'[w].child = None /\ worker[w].pc = "created"
        /\ worker'[w].task = worker[w].task
    BY <1>1, <1>16 DEF EnqueueNext, WorkerType
  <2>3. \A t \in Tasks : t # worker[w].child => queue'[t] = queue[t]
    BY <1>16 DEF EnqueueNext, Push, BaseInv, FlowTypeOK
  <2>4. \A t \in Tasks : Reserved(t)'
    BY <1>7, <1>8, <2>1, <2>2, <2>3
  <2>5. worker'[w].task \in Committed' /\ worker'[w].task # None
    BY <1>1, <2>1, <2>2 DEF Job, Executing, RowsSame
  <2>6. Job(w)'
    BY <2>2, <2>5 DEF Job, Executing, Opening
  <2> QED
    BY <1>6, <2>1, <2>2, <2>4, <2>6 DEF Scheduling
<1>15. ASSUME NEW t \in Tasks, CreateNext(w, t) PROVE BaseInv'
  <2> DEFINE p == worker[w].task
             x == NextTask(p)
  <2>1. /\ worker[w].pc = "done" /\ p \in Committed /\ results[p] > 0 /\ p \in Tasks
        /\ row[t].status = "none" /\ t \notin Committed
    BY <1>1, <1>15 DEF CreateNext, Job, Executing, Free, Committed, Unseen
  <2>2. RowAdded(t, x) /\ x.step = row[p].step + 1 /\ x.parent = p /\ x.daily = row[p].daily
    BY <1>15, <2>1 DEF CreateNext, RowAdded, NextTask, Task
  <2>3. /\ worker'[w].pc = "created" /\ worker'[w].task = p /\ worker'[w].child = t
    BY <1>1, <1>15 DEF CreateNext, WorkerType
  <2>4. /\ queue' = queue /\ events' = events /\ results' = results
    BY <1>15 DEF CreateNext
  <2>5. row[p].step \in Nat /\ row[p].step > 0 /\ x.step > 1
    <3>1. row[p].step \in 0 .. Steps
      BY <2>1 DEF BaseInv, FlowTypeOK, RowType
    <3>2. row[p].step > 0
      BY <2>1 DEF BaseInv, Chained
    <3> QED
      BY <2>2, <3>1, <3>2 DEF FlowConstants
  <2> HIDE DEF p, x
  <2>6. /\ RowsKeep /\ Committed' = Committed \cup {t} /\ row'[t] = x
        /\ \A u \in Tasks \ {t} : row'[u] = row[u]
    BY <2>2, AddedRow
  <2>7. ResultsGrow
    BY <2>4, NoResultsChange
  <2>8. OneDailyFlow' /\ (CreatedToday' => CreatedToday)
    BY <2>1, <2>5, <2>6 DEF OneDailyFlow, CreatedToday, BaseInv, Committed
  <2>9. Job(w)'
    <3>1. t \in Committed' /\ row'[t].parent = p
      BY <2>2, <2>6
    <3>2. p # None /\ t # None /\ t # p
      BY <2>1 DEF FlowConstants
    <3>3. p \in Committed' /\ results'[p] > 0
      BY <2>1, <2>4, <2>6
    <3> QED
      BY <2>3, <3>1, <3>2, <3>3 DEF Job, Executing, Opening, Children
  <2>10. OneScheduler' /\ \A v \in Workers : Job(v)'
    <3>1. \A u \in Tasks : row[u].status = "open" => row'[u].status = "open"
      BY <2>1, <2>6
    <3>2. worker'[w].pc \notin Scheduling
      BY <2>3 DEF Scheduling
    <3> QED
      BY <1>2, <2>6, <2>7, <2>8, <2>9, <3>1, <3>2, OneWorkerMoves
  <2>11. \A u \in Tasks : Chained(u)'
    BY <1>4, <2>1, <2>2, <2>4, <2>5, ChainGrows
  <2>12. ASSUME NEW u \in Tasks PROVE Reserved(u)'
    <3>1. row'[u].status = "none" => u # t /\ row[u].status = "none" /\ u # p
      BY <1>8, <2>2, <2>6 DEF RowAdded, p
    <3>2. u # t => \A v \in Workers : worker'[v].child = u => worker[v].child = u
      BY <1>2, <2>3
    <3>3. \A v \in Workers : worker'[v].task = u => worker[v].task = u
      BY <1>2, <2>3 DEF p
    <3>4. u # p => \A v \in Tasks : row'[v].parent = u => row[v].parent = u
      BY <2>2, <2>6
    <3> QED
      BY <2>4, <3>1, <3>2, <3>3, <3>4, ReservedStays
  <2> QED
    BY <2>8, <2>10, <2>11, <2>12 DEF BaseInv
<1> QED
  BY <1>9, <1>10, <1>11, <1>12, <1>13, <1>14, <1>15, <1>16 DEF ExecutionStep

------------------------------------------------------------------------------
(* Requests and faults                                                       *)

LEMMA RequestKeepsBase ==
  ASSUME FlowConstants, BaseInv, FlowTypeOK', RequestStep
  PROVE  BaseInv'
<1>1. \A t \in Tasks : t \in unsent => t \in Committed
  BY DEF BaseInv, Chained
<1>2. Committed \subseteq Tasks /\ unsent \subseteq Tasks
  BY DEF Committed, BaseInv, FlowTypeOK
<1>3. ASSUME RowsSame, ResultsGrow, UNCHANGED <<worker, key>>, unsent' \subseteq Committed,
             \A t \in Tasks : row[t].status = "open" => row'[t].status = "open",
             \A t \in Tasks : row'[t].status = "none" =>
                                queue'[t] = queue[t] /\ events'[t] = events[t]
      PROVE  BaseInv'
  <2>1. RowsKeep /\ OneDailyFlow' /\ (CreatedToday' <=> CreatedToday)
    BY <1>3, SameRows
  <2>2. OneScheduler' /\ \A v \in Workers : Job(v)'
    BY <1>3, <2>1, NobodyMoves
  <2>3. \A t \in Tasks : Reserved(t)'
    BY <1>3, ReservedStays DEF RowsSame
  <2> QED
    BY <1>3, <2>1, <2>2, <2>3, ChainsKept DEF BaseInv
<1>4. ASSUME NEW t \in Tasks, CreateFlow(t) PROVE BaseInv'
  <2> DEFINE x == Task(1, None, FALSE)
  <2>1. row[t].status = "none" /\ t \notin Committed
    BY <1>4 DEF CreateFlow, Free, Committed, Unseen
  <2>2. RowAdded(t, x) /\ x.step = 1 /\ x.parent = None /\ x.daily = FALSE
    BY <1>4, <2>1 DEF CreateFlow, RowAdded, Task
  <2> HIDE DEF x
  <2>3. /\ RowsKeep /\ Committed' = Committed \cup {t} /\ row'[t] = x
        /\ \A u \in Tasks \ {t} : row'[u] = row[u]
    BY <2>2, AddedRow
  <2>4. OneDailyFlow' /\ (CreatedToday' => CreatedToday)
    BY <2>2, <2>3 DEF OneDailyFlow, CreatedToday, BaseInv, Committed
  <2>5. ResultsGrow /\ UNCHANGED <<worker, key, results, queue, events>>
    BY <1>4, NoResultsChange DEF CreateFlow
  <2>6. OneScheduler' /\ \A v \in Workers : Job(v)'
    BY <2>1, <2>3, <2>4, <2>5, NobodyMoves
  <2>7. \A u \in Tasks : Chained(u)'
    BY <1>1, <1>2, <1>4, <2>2, <2>5, ChainGrows DEF CreateFlow
  <2>8. ASSUME NEW u \in Tasks PROVE Reserved(u)'
    <3>1. row'[u].status = "none" => row[u].status = "none"
      BY <2>2, <2>3 DEF RowAdded
    <3>2. \A v \in Tasks : row'[v].parent = u => row[v].parent = u
      BY <2>2, <2>3 DEF FlowConstants
    <3> QED
      BY <2>5, <3>1, <3>2, ReservedStays
  <2> QED
    BY <2>4, <2>6, <2>7, <2>8 DEF BaseInv
<1>5. ASSUME NEW t \in Tasks, AssignTask(t) PROVE BaseInv'
  <2>1. t \in Committed /\ UNCHANGED <<results, queue, events, key, worker>>
    BY <1>5 DEF AssignTask
  <2>2. RowsSame /\ \A x \in Tasks : row[x].status = "open" => row'[x].status = "open"
    BY <1>5, <2>1, StatusWritten DEF AssignTask
  <2>3. unsent' \subseteq Committed
    BY <1>1, <1>2, <1>5, <2>1 DEF AssignTask
  <2> QED
    BY <1>3, <2>1, <2>2, <2>3, NoResultsChange
<1>6. ASSUME NEW t \in Tasks, CompleteTask(t) PROVE BaseInv'
  <2>1. t \in Committed /\ UNCHANGED <<queue, events, key, worker, unsent>>
    BY <1>6 DEF CompleteTask, flowHistory
  <2>2. RowsSame /\ \A x \in Tasks : row[x].status = "open" => row'[x].status = "open"
    BY <1>6, <2>1, StatusWritten DEF CompleteTask
  <2>3. ResultsGrow
    BY <1>6 DEF CompleteTask, ResultsGrow, BaseInv, FlowTypeOK
  <2> QED
    BY <1>1, <1>2, <1>3, <2>1, <2>2, <2>3
<1>7. ASSUME NEW t \in Tasks, Send(t) PROVE BaseInv'
  <2>1. UNCHANGED <<row, results, events, key, worker>> /\ t \in Committed
    BY <1>1, <1>7 DEF Send
  <2>2. \A u \in Tasks : row[u].status = "none" => queue'[u] = queue[u]
    BY <1>7, <2>1 DEF Send, Push, BaseInv, FlowTypeOK, Committed, Unseen
  <2>3. unsent' \subseteq Committed
    BY <1>1, <1>2, <1>7 DEF Send
  <2> QED
    BY <1>3, <2>1, <2>2, <2>3, NoResultsChange, NoRowsChange
<1> QED
  BY <1>4, <1>5, <1>6, <1>7 DEF RequestStep

LEMMA FaultKeepsBase ==
  ASSUME FlowConstants, BaseInv, FlowTypeOK', FlowFault
  PROVE  BaseInv'
<1>1. /\ worker \in [Workers -> WorkerType] /\ OneScheduler
      /\ \A w \in Workers : Job(w) /\ worker[w] \in WorkerType
  BY DEF BaseInv, FlowTypeOK
<1>2. \A t \in Tasks : t \in unsent => t \in Committed
  BY DEF BaseInv, Chained
<1>3. Idle.pc = "idle" /\ Idle.task = None /\ Idle.child = None /\ Idle.pc \notin Scheduling
  BY DEF Idle, Scheduling
\* the worker rests, its draft is void
<1>4. ASSUME NEW w \in Workers, Rest(w), Void(w), UNCHANGED <<results, unsent>>,
             worker[w].pc \in Scheduling \/ key' = key,
             \A t \in Tasks : row[t].status = "none" =>
                                queue'[t] = queue[t] /\ events'[t] = events[t]
      PROVE  BaseInv'
  <2>1. worker'[w] = Idle /\ \A v \in Workers \ {w} : worker'[v] = worker[v]
    BY <1>1, <1>4 DEF Rest
  <2>2. Job(w)'
    BY <1>3, <2>1 DEF Job, Executing, Opening
  <2>3. RowsSame /\ (worker[w].pc \notin Scheduling => row' = row)
    <3>1. CASE worker[w].pc \in Opening
      <4>1. worker[w].task \in Tasks /\ row[worker[w].task].status = "open"
        BY <1>1, <3>1 DEF Job, Opening, WorkerType
      <4>2. worker[w].task \notin Committed
        BY <4>1 DEF Committed, Unseen
      <4>3. row' = [row EXCEPT ![worker[w].task].status = "void"]
        BY <1>4, <3>1 DEF Void, Opening
      <4> QED
        BY <3>1, <4>1, <4>2, <4>3, DraftWritten DEF Opening, Scheduling
    <3>2. CASE worker[w].pc \notin Opening
      BY <1>4, <3>2, NoRowsChange DEF Void, Opening
    <3> QED
      BY <3>1, <3>2
  <2>4. RowsKeep /\ OneDailyFlow' /\ (CreatedToday' <=> CreatedToday) /\ ResultsGrow
    BY <1>4, <2>3, SameRows, NoResultsChange
  <2>5. OneScheduler' /\ \A v \in Workers : Job(v)'
    BY <1>3, <1>4, <2>1, <2>2, <2>3, <2>4, OneWorkerMoves
  <2>6. ASSUME NEW t \in Tasks PROVE Reserved(t)'
    <3>1. \A v \in Workers : /\ worker'[v].task = t => \E x \in Workers : worker[x].task = t
                             /\ worker'[v].child = t => \E x \in Workers : worker[x].child = t
      BY <1>3, <2>1 DEF FlowConstants
    <3> QED
      BY <1>4, <2>3, <3>1, ReservedStays DEF RowsSame
  <2>7. unsent' \subseteq Committed
    BY <1>2, <1>4 DEF BaseInv, FlowTypeOK
  <2> QED
    BY <2>3, <2>4, <2>5, <2>6, <2>7, ChainsKept DEF BaseInv
<1>5. ASSUME NEW w \in Workers, NEW removed \in BOOLEAN, FailDay(w, removed) PROVE BaseInv'
  BY <1>4, <1>5 DEF FailDay
<1>6. ASSUME NEW w \in Workers, CommitUnheard(w) PROVE BaseInv'
  <2> DEFINE t == worker[w].task
             x == Task(1, None, TRUE)
  <2>1. /\ worker[w].pc \in Opening /\ worker[w].pc \in Scheduling /\ t \in Tasks
        /\ row[t].status = "open" /\ ~CreatedToday
    BY <1>1, <1>6 DEF CommitUnheard, Opening, Scheduling, Job, WorkerType
  <2>2. RowAdded(t, x) /\ x.step = 1 /\ x.parent = None
    BY <1>6, <2>1 DEF CommitUnheard, RowAdded, Committed, Unseen, Task
  <2> HIDE DEF t, x
  <2>3. /\ RowsKeep /\ Committed' = Committed \cup {t}
        /\ row'[t] = x /\ \A u \in Tasks \ {t} : row'[u] = row[u]
    BY <2>2, AddedRow
  <2>4. OneDailyFlow'
    BY <2>1, <2>3 DEF OneDailyFlow, CreatedToday, Committed
  <2>5. worker'[w] = Idle /\ \A v \in Workers \ {w} : worker'[v] = worker[v]
    BY <1>1, <1>6 DEF CommitUnheard, Rest
  <2>6. Job(w)'
    BY <2>5, <1>3 DEF Job, Executing, Opening
  <2>7. UNCHANGED <<results, queue, events, unsent>> /\ ResultsGrow
    BY <1>6, NoResultsChange DEF CommitUnheard
  <2>8. OneScheduler' /\ \A v \in Workers : Job(v)'
    BY <2>1, <2>3, <2>5, <2>6, <2>7, OneWorkerMoves
  <2>9. \A u \in Tasks : Chained(u)'
    <3>1. unsent' \subseteq Committed
      BY <1>2, <2>7 DEF BaseInv, FlowTypeOK
    <3> QED
      BY <2>2, <2>7, <3>1, ChainGrows
  <2>10. ASSUME NEW u \in Tasks PROVE Reserved(u)'
    <3>1. row'[t].status = "assigned" /\ row'[t].parent = None
      BY <2>2, <2>3 DEF RowAdded
    <3>2. row'[u].status = "none" => row[u].status = "none"
      BY <2>3, <3>1
    <3>3. \A v \in Tasks : row'[v].parent = u => \E y \in Tasks : row[y].parent = u
      BY <2>3, <3>1 DEF FlowConstants
    <3>4. \A v \in Workers : /\ worker'[v].task = u => \E y \in Workers : worker[y].task = u
                             /\ worker'[v].child = u => \E y \in Workers : worker[y].child = u
      BY <1>3, <2>5 DEF FlowConstants
    <3> QED
      BY <2>7, <3>2, <3>3, <3>4, ReservedStays
  <2> QED
    BY <2>4, <2>8, <2>9, <2>10 DEF BaseInv
<1>7. ASSUME NEW w \in Workers, FailTask(w) PROVE BaseInv'
  <2>1. worker[w].task \in Committed /\ worker[w].task \in Tasks
        /\ row[worker[w].task].status # "none" /\ worker[w].attempt \in Attempts
    BY <1>1, <1>7 DEF FailTask, Job, Executing, WorkerType, Committed, Unseen
  <2>2. \A t \in Tasks : t # worker[w].task => queue'[t] = queue[t]
    BY <1>7 DEF FailTask, BaseInv, FlowTypeOK
  <2>3. \E b \in Attempts : Repush(w, b)
    <3>1. worker[w].attempt < MaxRetries => worker[w].attempt + 1 \in Attempts
      BY <2>1 DEF Attempts, FlowConstants
    <3> QED
      BY <1>7, <2>1, <3>1 DEF FailTask
  <2>4. \A t \in Tasks : t # worker[w].task => events'[t] = events[t]
    BY <2>1, <2>3, RepushAdds
  <2>5. Void(w) /\ Rest(w) /\ UNCHANGED <<results, unsent, key>>
    BY <1>7 DEF FailTask, Void
  <2> QED
    BY <1>4, <2>1, <2>2, <2>4, <2>5
<1>8. ASSUME NEW w \in Workers, Crash(w) PROVE BaseInv'
  BY <1>4, <1>8 DEF Crash
<1>9. ASSUME NEW t \in Tasks, LoseRequest(t) PROVE BaseInv'
  <2>1. UNCHANGED <<row, results, queue, events, key, worker>> /\ unsent' \subseteq unsent
    BY <1>9 DEF LoseRequest
  <2>2. RowsSame /\ ResultsGrow
    BY <2>1, NoRowsChange, NoResultsChange
  <2>3. RowsKeep /\ OneDailyFlow' /\ (CreatedToday' <=> CreatedToday)
    BY <2>2, SameRows
  <2>4. OneScheduler' /\ \A v \in Workers : Job(v)'
    BY <2>1, <2>2, <2>3, NobodyMoves
  <2>5. \A u \in Tasks : Reserved(u)'
    BY <2>1, ReservedStays
  <2>6. unsent' \subseteq Committed
    BY <1>2, <2>1 DEF BaseInv, FlowTypeOK
  <2> QED
    BY <2>2, <2>3, <2>4, <2>5, <2>6, ChainsKept DEF BaseInv
<1> QED
  BY <1>5, <1>6, <1>7, <1>8, <1>9 DEF FlowFault

LEMMA BaseHolds == FlowSpec => []BaseInv
<1>1. FlowInit => BaseInv
  <2> SUFFICES ASSUME FlowInit PROVE BaseInv
    OBVIOUS
  <2>1. FlowTypeOK
    <3>1. 0 \in Attempts /\ 0 \in Tries /\ 0 \in 0 .. Steps /\ 0 \in 0 .. MaxCalls /\ 0 \in 0 .. MaxFaults
      BY FlowConstantsHold DEF Attempts, Tries, FlowConstants
    <3>2. NoRow \in RowType
      BY <3>1 DEF NoRow, RowType, FlowStatuses, Unseen
    <3>3. Idle \in WorkerType
      BY <3>1 DEF Idle, WorkerType
    <3>4. /\ [a \in Attempts |-> 0] \in [Attempts -> Nat]
          /\ [a \in Attempts |-> [e \in Tries |-> 0]] \in [Attempts -> [Tries -> Nat]]
      OBVIOUS
    <3> QED
      BY <3>1, <3>2, <3>3, <3>4 DEF FlowInit, FlowTypeOK
  <2>2. Committed = {}
    BY DEF FlowInit, Committed, NoRow, Unseen
  <2>3. Idle.pc = "idle" /\ Idle.task = None /\ Idle.child = None /\ NoRow.parent = None
    BY DEF Idle, NoRow
  <2>4. \A w \in Workers : Job(w) /\ worker[w] = Idle
    BY <2>3 DEF FlowInit, Job, Executing, Opening
  <2>5. \A t \in Tasks : Reserved(t) /\ Chained(t)
    BY FlowConstantsHold, <2>2, <2>3, <2>4 DEF FlowInit, Reserved, Chained, FlowConstants
  <2> QED
    BY <2>1, <2>2, <2>3, <2>4, <2>5 DEF BaseInv, OneScheduler, Scheduling, OneDailyFlow
<1>2. BaseInv /\ [FlowNext]_flowVars => BaseInv'
  <2> SUFFICES ASSUME BaseInv, [FlowNext]_flowVars PROVE BaseInv'
    OBVIOUS
  <2>1. CASE UNCHANGED flowVars
    BY <2>1
    DEF flowVars, bounds, flowHistory, BaseInv, FlowTypeOK, OneScheduler, Job, Reserved, Chained,
        OneDailyFlow,
        Committed, Children, CreatedToday
  <2>2. CASE FlowNext
    BY <2>2, FlowConstantsHold, TypeStep, SchedulerKeepsBase, ExecutionKeepsBase, RequestKeepsBase, FaultKeepsBase
    DEF FlowNext, WorkerStep
  <2> QED
    BY <2>1, <2>2
<1> QED
  BY <1>1, <1>2, PTL DEF FlowSpec

------------------------------------------------------------------------------
(***************************************************************************)
(* The token of a task.  A task that neither failed nor was assigned again  *)
(* is in one place: open or not pushed yet, in a list, run by one worker,   *)
(* or passed on to one successor.  So a chain of such tasks does not fork;  *)
(* and the token is not lost before the last step unless a mishap is noted. *)
(***************************************************************************)

\* Nothing has happened to the task that may put it back twice
Clean(t) == mishap[t] \cap {"again", "failed"} = {}

Opens(v, t) == worker[v].pc = "checked" /\ worker[v].task = t
Runs(v, t)  == worker[v].pc \in Running /\ worker[v].task = t
Makes(v, t) == worker[v].pc = "created" /\ worker[v].child = t

\* Where the right to run a task may be: with the session that has opened or committed it,
\* in a list, with the worker that runs it, with its successor
At(t, k, i) ==
  \/ k = "open" /\ i \in Workers /\ Opens(i, t)
  \/ k = "made" /\ i \in Workers /\ Makes(i, t)
  \/ k = "unsent" /\ i = None /\ t \in unsent
  \/ k = "queue" /\ i = None /\ queue[t][0] > 0
  \/ k = "event" /\ i \in Tries /\ events[t][0][i] > 0
  \/ k = "run" /\ i \in Workers /\ Runs(i, t)
  \/ k = "next" /\ i \in Children(t)

\* Copies of a clean task are first attempts, and each is the only one of its kind
Plain(t) ==
  /\ \A a \in Attempts : queue[t][a] <= IF a = 0 THEN 1 ELSE 0
  /\ \A a \in Attempts, e \in Tries : events[t][a][e] <= IF a = 0 THEN 1 ELSE 0
  /\ \A v \in Workers : Runs(v, t) => worker[v].attempt = 0

Single(t) == \A k, l, i, j : At(t, k, i) /\ At(t, l, j) => k = l /\ i = j

OneToken(t) == Clean(t) => Plain(t) /\ Single(t)

\* A clean task has a successor only when it is completed
Finished(t) ==
  Clean(t) =>
    /\ Children(t) # {} => row[t].status = "completed"
    /\ \A v \in Workers : worker[v].task = t /\ (worker[v].pc = "done" \/ (worker[v].pc = "skill" /\ worker[v].done))
                            => row[t].status = "completed"

Alive(t) == t \in Committed \/ \E w \in Workers : worker[w].pc \in Opening /\ worker[w].task = t
Ended(t) == row[t].status = "completed" /\ row[t].step = Steps
Token(t) == \E k, i : At(t, k, i)

\* A task keeps its token until it has run its last step, or a mishap is noted
TokenKept(t) == mishap[t] = {} /\ Alive(t) => Token(t) \/ Ended(t)

TokenInv(t) == OneToken(t) /\ Finished(t) /\ TokenKept(t)

Tokens == \A t \in Tasks : TokenInv(t)

MishapsGrow == \A t \in Tasks : mishap[t] \subseteq mishap'[t]

StaysCompleted(t) ==
  row[t].status = "completed" => row'[t].status = "completed" /\ row'[t].step = row[t].step

NoToken(v, t) == ~Opens(v, t) /\ ~Runs(v, t) /\ ~Makes(v, t)

LEMMA NothingMoves ==
  ASSUME NEW t \in Tasks, TokenInv(t), mishap[t] \subseteq mishap'[t], FlowTypeOK, FlowTypeOK',
         queue'[t] = queue[t], events'[t] = events[t], t \in unsent' <=> t \in unsent,
         Children(t)' = Children(t), StaysCompleted(t), Alive(t)' => Alive(t),
         \A v \in Workers : worker'[v] = worker[v] \/ (NoToken(v, t) /\ NoToken(v, t)')
  PROVE  TokenInv(t)'
<1>1. Clean(t)' => Clean(t)
  BY DEF Clean
<1>2. \A k, i : At(t, k, i)' <=> At(t, k, i)
  BY DEF At, NoToken, Opens, Runs, Makes
<1>3. OneToken(t)'
  <2>1. Single(t) => Single(t)'
    BY <1>2 DEF Single
  <2>2. Plain(t) => Plain(t)'
    BY DEF Plain, NoToken, Runs
  <2> QED
    BY <1>1, <2>1, <2>2 DEF TokenInv, OneToken
<1>4. Finished(t)'
  <2>1. \A v \in Workers : (worker[v].task = t /\ (worker[v].pc = "done" \/ (worker[v].pc = "skill" /\ worker[v].done)))'
          => (worker[v].task = t /\ (worker[v].pc = "done" \/ (worker[v].pc = "skill" /\ worker[v].done)))
    BY DEF NoToken, Runs, Running
  <2> QED
    BY <1>1, <2>1 DEF TokenInv, Finished, StaysCompleted
<1>5. TokenKept(t)'
  BY <1>2 DEF TokenInv, TokenKept, Token, Ended, StaysCompleted
<1> QED
  BY <1>3, <1>4, <1>5 DEF TokenInv

\* The token goes from one place to another
LEMMA TokenMoves ==
  ASSUME NEW t \in Tasks, TokenInv(t), mishap[t] \subseteq mishap'[t], Finished(t)', Plain(t)',
         NEW k, NEW i, NEW l, NEW j, At(t, k, i),
         \A m, n : At(t, m, n)' <=> (m = l /\ n = j) \/ (At(t, m, n) /\ ~(m = k /\ n = i))
  PROVE  TokenInv(t)'
<1>1. Clean(t)' => Clean(t)
  BY DEF Clean
<1>2. Single(t) => Single(t)'
  BY DEF Single
<1>3. OneToken(t)'
  BY <1>1, <1>2 DEF TokenInv, OneToken
<1>4. TokenKept(t)'
  BY DEF TokenKept, Token
<1> QED
  BY <1>3, <1>4 DEF TokenInv

\* A token is made, or is lost with a mishap or at the end of the chain
LEMMA TokenAppears ==
  ASSUME NEW t \in Tasks, Finished(t)', Plain(t)', NEW l, NEW j,
         \A m, n : At(t, m, n)' <=> m = l /\ n = j
  PROVE  TokenInv(t)'
<1>1. Single(t)'
  BY DEF Single
<1> QED
  BY <1>1 DEF TokenInv, OneToken, TokenKept, Token

LEMMA TokenGoes ==
  ASSUME NEW t \in Tasks, TokenInv(t), mishap[t] \subseteq mishap'[t], Finished(t)',
         Plain(t) => Plain(t)',
         \A m, n : At(t, m, n)' => At(t, m, n),
         TokenKept(t)'
  PROVE  TokenInv(t)'
<1>1. Clean(t)' => Clean(t)
  BY DEF Clean
<1>2. Single(t) => Single(t)'
  BY DEF Single
<1> QED
  BY <1>1, <1>2 DEF TokenInv, OneToken

LEMMA NotClean ==
  ASSUME NEW t \in Tasks, mishap[t] \subseteq mishap'[t], ~Clean(t)'
  PROVE  TokenInv(t)'
BY DEF Clean, TokenInv, OneToken, Finished, TokenKept

\* An id that was not drawn has no token
LEMMA FreshId ==
  ASSUME FlowConstants, BaseInv, NEW t \in Tasks, row[t].status = "none"
  PROVE  /\ \A k, i : ~At(t, k, i)
         /\ Children(t) = {} /\ t \notin Committed
         /\ \A a \in Attempts : queue[t][a] = 0
         /\ \A a \in Attempts, e \in Tries : events[t][a][e] = 0
         /\ \A w \in Workers : worker[w].task # t /\ worker[w].child # t
<1>1. Reserved(t) /\ t \notin Committed /\ Chained(t)
  BY DEF BaseInv, Committed, Unseen
<1>2. Children(t) = {}
  BY <1>1 DEF Reserved, Children, Committed
<1>3. 0 \in Attempts
  BY DEF Attempts, FlowConstants
<1> QED
  BY <1>1, <1>2, <1>3 DEF Reserved, At, Opens, Makes, Runs, Chained

LEMMA ChildrenGrow ==
  ASSUME BaseInv, NEW t, NEW x, RowAdded(t, x)
  PROVE  /\ \A u \in Tasks : Children(u)' = IF x.parent = u THEN Children(u) \cup {t} ELSE Children(u)
         /\ \A u \in Tasks : StaysCompleted(u)
         /\ \A u \in Tasks : u # t => (u \in Committed' <=> u \in Committed)
<1>1. /\ Committed' = Committed \cup {t} /\ row'[t] = x
      /\ \A u \in Tasks \ {t} : row'[u] = row[u]
      /\ t \in Tasks /\ t \notin Committed /\ Committed \subseteq Tasks
  BY AddedRow DEF RowAdded, Committed
<1>2. row[t].status # "completed"
  BY <1>1 DEF Committed, Unseen
<1> QED
  BY <1>1, <1>2 DEF Children, StaysCompleted

LEMMA SchedulerKeepsTokens ==
  ASSUME FlowConstants, BaseInv, BaseInv', Tokens, NEW w \in Workers, SchedulerStep(w)
  PROVE  Tokens'
<1>1. /\ Job(w) /\ Job(w)' /\ worker[w] \in WorkerType /\ worker \in [Workers -> WorkerType]
      /\ FlowTypeOK /\ FlowTypeOK'
  BY DEF BaseInv, FlowTypeOK
<1>2. /\ mishap' = mishap /\ events' = events /\ unsent' = unsent
      /\ \A v \in Workers \ {w} : worker'[v] = worker[v]
  <2>1. ASSUME NEW t \in Tasks, CheckDay(w, t)
        PROVE  /\ mishap' = mishap /\ events' = events /\ unsent' = unsent
               /\ \A v \in Workers \ {w} : worker'[v] = worker[v]
    BY <1>1, <2>1 DEF CheckDay, flowHistory
  <2> QED
    BY <1>1, <2>1
    DEF SchedulerStep, AcquireDay, SkipDay, EnqueueDay, MarkDay, CommitDay, Rest, FlowGoto,
        flowHistory
<1>3. ASSUME NEW t \in Tasks, worker[w].pc \in Scheduling, worker'[w].pc \notin Opening,
             worker[w].pc # "checked", worker'[w].pc = "idle",
             queue' = queue, Children(t)' = Children(t), StaysCompleted(t),
             t \in Committed' => Alive(t)
      PROVE  TokenInv(t)'
  <2>1. NoToken(w, t) /\ NoToken(w, t)'
    BY <1>3 DEF NoToken, Opens, Runs, Makes, Scheduling, Running
  <2>2. Alive(t)' => Alive(t)
    BY <1>2, <1>3 DEF Alive
  <2> QED
    BY <1>1, <1>2, <1>3, <2>1, <2>2, NothingMoves DEF Tokens
<1> SUFFICES ASSUME NEW t \in Tasks PROVE TokenInv(t)'
  BY DEF Tokens
<1>4. CASE AcquireDay(w)
  <2>1. RowsSame /\ Children(t)' = Children(t) /\ StaysCompleted(t)
    BY <1>4, NoRowsChange, SameRows DEF AcquireDay, StaysCompleted
  <2>2. /\ NoToken(w, t) /\ NoToken(w, t)' /\ worker'[w].pc = "acquired"
        /\ worker'[w].pc \notin Opening
    BY <1>1, <1>4
    DEF AcquireDay, FlowGoto, NoToken, Opens, Runs, Makes, Running, WorkerType, Opening
  <2>3. Alive(t)' => Alive(t)
    BY <1>2, <2>1, <2>2 DEF Alive, RowsSame
  <2> QED
    BY <1>1, <1>2, <1>4, <2>1, <2>2, <2>3, NothingMoves DEF AcquireDay, Tokens
<1>5. CASE SkipDay(w)
  <2>1. RowsSame /\ Children(t)' = Children(t) /\ StaysCompleted(t)
    BY <1>5, NoRowsChange, SameRows DEF SkipDay, StaysCompleted
  <2>2. worker'[w].pc = "idle" /\ worker[w].pc = "acquired" /\ queue' = queue
    BY <1>1, <1>5 DEF SkipDay, Rest, Idle
  <2> QED
    BY <1>3, <2>1, <2>2 DEF Opening, Scheduling, Alive, RowsSame
<1>6. CASE EnqueueDay(w)
  <2>1. RowsSame /\ Children(t)' = Children(t) /\ StaysCompleted(t)
    BY <1>6, NoRowsChange, SameRows DEF EnqueueDay, StaysCompleted
  <2>2. /\ worker[w].pc = "checked" /\ worker'[w].pc = "queued" /\ worker'[w].task = worker[w].task
        /\ worker[w].task \in Tasks
    BY <1>1, <1>6 DEF EnqueueDay, FlowGoto, WorkerType, Job
  <2>3. Alive(t)' => Alive(t)
    BY <1>2, <2>1, <2>2 DEF Alive, RowsSame, Opening
  <2>4. 0 \in Attempts /\ queue \in [Tasks -> [Attempts -> Nat]]
    BY <1>1 DEF Attempts, FlowConstants, FlowTypeOK
  <2>5. \A u \in Tasks, b \in Attempts :
          queue'[u][b] = IF u = worker[w].task /\ b = 0 THEN queue[u][b] + 1 ELSE queue[u][b]
    <3>1. queue' = OneMore(queue, worker[w].task, 0)
      BY <1>6 DEF EnqueueDay, Push, OneMore
    <3> QED
      BY <2>2, <2>4, <3>1, CopyAdded
  <2>6. CASE t # worker[w].task
    <3>1. queue'[t] = queue[t]
      BY <1>6, <2>6 DEF EnqueueDay, Push, FlowTypeOK, BaseInv
    <3>2. NoToken(w, t) /\ NoToken(w, t)'
      BY <2>2, <2>6 DEF NoToken, Opens, Runs, Makes, Running
    <3> QED
      BY <1>1, <1>2, <2>1, <2>3, <3>1, <3>2, NothingMoves DEF Tokens
  <2>7. CASE t = worker[w].task
    <3>1. TokenInv(t) /\ At(t, "open", w)
      BY <2>2, <2>7 DEF Tokens, At, Opens
    <3>c. CASE ~Clean(t)
      BY <1>2, <3>c, NotClean DEF Clean
    <3>d. CASE Clean(t)
      <4>1. Single(t) /\ Plain(t) /\ queue[t][0] \in Nat
        BY <3>1, <3>d, <2>4 DEF TokenInv, OneToken
      <4>2. queue[t][0] = 0
        BY <3>1, <4>1 DEF Single, At
      <4>3. Plain(t)'
        BY <1>2, <2>2, <2>4, <2>5, <2>7, <4>1, <4>2 DEF Plain, Runs, Running
      <4>4. Finished(t)'
        BY <1>2, <2>1, <2>2, <3>1 DEF TokenInv, Finished, Clean, StaysCompleted
      <4>5. \A v \in Workers : /\ Opens(v, t)' <=> Opens(v, t) /\ v # w
                               /\ Runs(v, t)' <=> Runs(v, t)
                               /\ Makes(v, t)' <=> Makes(v, t)
        BY <1>2, <2>2 DEF Opens, Runs, Makes, Running
      <4>6. queue'[t][0] > 0
        BY <2>4, <2>5, <2>7, <4>2
      <4>7. \A m, n : At(t, m, n)' <=> (m = "queue" /\ n = None) \/ (At(t, m, n) /\ ~(m = "open" /\ n = w))
        BY <1>2, <2>1, <4>2, <4>5, <4>6 DEF At
      <4> QED
        BY <1>2, <3>1, <4>3, <4>4, <4>7, TokenMoves
    <3> QED
      BY <3>c, <3>d
  <2> QED
    BY <2>6, <2>7
<1>7. CASE MarkDay(w)
  <2>1. RowsSame /\ Children(t)' = Children(t) /\ StaysCompleted(t)
    BY <1>7, NoRowsChange, SameRows DEF MarkDay, StaysCompleted
  <2>2. /\ worker[w].pc = "queued" /\ worker'[w].pc = "marked" /\ worker'[w].task = worker[w].task
    BY <1>1, <1>7 DEF MarkDay, FlowGoto, WorkerType
  <2>3. Alive(t)' => Alive(t)
    BY <1>2, <2>1, <2>2 DEF Alive, RowsSame, Opening
  <2>4. NoToken(w, t) /\ NoToken(w, t)'
    BY <2>2 DEF NoToken, Opens, Runs, Makes, Running
  <2> QED
    BY <1>1, <1>2, <1>7, <2>1, <2>3, <2>4, NothingMoves DEF MarkDay, Tokens
<1>8. CASE CommitDay(w)
  <2>1. worker[w].pc = "marked" /\ worker'[w].pc = "idle" /\ queue' = queue
        /\ worker[w].task \in Tasks /\ row[worker[w].task].status = "open"
    BY <1>1, <1>8 DEF CommitDay, Rest, Idle, Job, WorkerType, Opening
  <2>2. RowAdded(worker[w].task, Task(1, None, TRUE)) /\ Task(1, None, TRUE).parent = None
    BY <1>8, <2>1 DEF CommitDay, RowAdded, Committed, Unseen, Task
  <2>3. Children(t)' = Children(t) /\ StaysCompleted(t)
    BY <2>2, ChildrenGrow DEF FlowConstants
  <2>4. t \in Committed' => Alive(t)
    BY <2>1, <2>2, ChildrenGrow DEF Alive, Opening
  <2> QED
    BY <1>3, <2>1, <2>3, <2>4 DEF Opening, Scheduling
<1>9. ASSUME NEW u \in Tasks, CheckDay(w, u) PROVE TokenInv(t)'
  <2>1. worker[w].pc = "acquired" /\ row[u].status = "none" /\ queue' = queue
        /\ worker'[w].pc = "checked" /\ worker'[w].task = u
    BY <1>1, <1>9 DEF CheckDay, Free, WorkerType
  <2>2. RowsSame /\ row'[u].status = "open" /\ \A v \in Tasks \ {u} : row'[v] = row[v]
    BY <1>9, <2>1, FreshId, DraftWritten DEF CheckDay
  <2>3. Children(t)' = Children(t)
    BY <2>2, SameRows
  <2>4. CASE t # u
    <3>1. NoToken(w, t) /\ NoToken(w, t)'
      BY <2>1, <2>4 DEF NoToken, Opens, Runs, Makes, Running
    <3>2. Alive(t)' => Alive(t)
      BY <1>2, <2>1, <2>2, <2>4 DEF Alive, RowsSame
    <3> QED
      BY <1>1, <1>2, <2>1, <2>2, <2>3, <2>4, <3>1, <3>2, NothingMoves DEF Tokens, StaysCompleted
  <2>5. CASE t = u
    <3>1. /\ \A k, i : ~At(t, k, i)
          /\ Children(t) = {} /\ t \notin Committed
          /\ \A a \in Attempts : queue[t][a] = 0
          /\ \A a \in Attempts, e \in Tries : events[t][a][e] = 0
          /\ \A v \in Workers : worker[v].task # t /\ worker[v].child # t
      BY <2>1, <2>5, FreshId
    <3>2. \A v \in Workers : ~Runs(v, t)' /\ ~Makes(v, t)' /\ (Opens(v, t)' <=> v = w)
      BY <1>2, <2>1, <2>5, <3>1 DEF Opens, Runs, Makes, Running
    <3>3. Plain(t)'
      BY <1>2, <2>1, <3>1, <3>2 DEF Plain
    <3>4. Finished(t)'
      BY <1>2, <2>1, <2>3, <3>1 DEF Finished
    <3>5. \A m, n : At(t, m, n)' <=> m = "open" /\ n = w
      BY <1>2, <2>1, <2>3, <3>1, <3>2 DEF At
    <3> QED
      BY <3>3, <3>4, <3>5, TokenAppears
  <2> QED
    BY <2>4, <2>5
<1> QED
  BY <1>4, <1>5, <1>6, <1>7, <1>8, <1>9 DEF SchedulerStep

\* The copy goes into the event list, and the event that is popped goes to the worker
LEMMA TakenLists ==
  ASSUME FlowConstants, FlowTypeOK, NEW w \in Workers, NEW t \in Tasks, NEW u \in Tasks,
         NEW a \in Attempts, NEW b \in Attempts, NEW e \in Tries, TakeTask(w, t, a, u, b, e)
  PROVE  /\ \A y \in Tasks, c \in Attempts :
              queue'[y][c] = IF y = t /\ c = a THEN queue[y][c] - 1 ELSE queue[y][c]
         /\ \E W \in EventBag :
              /\ \A y \in Tasks, c \in Attempts, d \in Tries :
                   W[y][c][d] = IF y = t /\ c = a /\ d = 0 THEN events[y][c][d] + 1 ELSE events[y][c][d]
              /\ W[u][b][e] > 0
              /\ \A y \in Tasks, c \in Attempts, d \in Tries :
                   events'[y][c][d] = IF y = u /\ c = b /\ d = e THEN W[y][c][d] - 1 ELSE W[y][c][d]
<1>1. queue \in [Tasks -> [Attempts -> Nat]] /\ events \in EventBag /\ 0 \in Tries
  <2>1. 0 \in Tries
    BY DEF Tries, FlowConstants
  <2>2. queue \in [Tasks -> [Attempts -> Nat]] /\ events \in EventBag
    BY DEF FlowTypeOK, EventBag
  <2> QED
    BY <2>1, <2>2
<1>2. queue' = OneLess(queue, t, a) /\ queue[t][a] > 0
  BY DEF TakeTask, OneLess
<1>3. PICK W : W = EventMore(events, t, a, 0)
  OBVIOUS
<1>4. W = Wrapped(t, a) /\ W[u][b][e] > 0 /\ events' = EventLess(W, u, b, e)
  BY <1>3 DEF TakeTask, Wrapped, EventMore, EventLess
<1>5. /\ W \in EventBag
      /\ \A y \in Tasks, c \in Attempts, d \in Tries :
           W[y][c][d] = IF y = t /\ c = a /\ d = 0 THEN events[y][c][d] + 1 ELSE events[y][c][d]
  <2>1. 0 \in Attempts /\ a \in Attempts
    BY DEF Attempts, FlowConstants
  <2>2. /\ EventMore(events, t, a, 0) \in EventBag
        /\ \A y \in Tasks, c \in Attempts, d \in Tries :
             EventMore(events, t, a, 0)[y][c][d] =
               IF y = t /\ c = a /\ d = 0 THEN events[y][c][d] + 1 ELSE events[y][c][d]
    BY <1>1, <2>1, EventAdded
  <2> QED
    BY <1>3, <2>2
<1>6. \A y \in Tasks, c \in Attempts, d \in Tries :
        events'[y][c][d] = IF y = u /\ c = b /\ d = e THEN W[y][c][d] - 1 ELSE W[y][c][d]
  BY <1>4, <1>5, EventTaken
<1>7. \A y \in Tasks, c \in Attempts :
        queue'[y][c] = IF y = t /\ c = a THEN queue[y][c] - 1 ELSE queue[y][c]
  BY <1>1, <1>2, CopyTaken
<1> QED
  BY <1>4, <1>5, <1>6, <1>7

\* Of a clean task that has its token somewhere, nothing is anywhere else
LEMMA OnlyThere ==
  ASSUME FlowConstants, FlowTypeOK, NEW t \in Tasks, TokenInv(t), Clean(t), NEW k, NEW i, At(t, k, i)
  PROVE  /\ Plain(t) /\ Single(t)
         /\ \A a \in Attempts : queue[t][a] = IF a = 0 /\ k = "queue" THEN 1 ELSE 0
         /\ \A a \in Attempts, e \in Tries :
              events[t][a][e] = IF a = 0 /\ k = "event" /\ i = e THEN 1 ELSE 0
         /\ t \in unsent <=> k = "unsent"
         /\ Children(t) = IF k = "next" THEN {i} ELSE {}
         /\ \A v \in Workers : /\ Opens(v, t) <=> k = "open" /\ i = v
                               /\ Runs(v, t) <=> k = "run" /\ i = v
                               /\ Makes(v, t) <=> k = "made" /\ i = v
<1>1. Plain(t) /\ Single(t)
  BY DEF TokenInv, OneToken
<1>2. \A l, j : At(t, l, j) => l = k /\ j = i
  BY <1>1 DEF Single
<1>3. /\ \A a \in Attempts : queue[t][a] \in Nat
      /\ \A a \in Attempts, e \in Tries : events[t][a][e] \in Nat
      /\ 0 \in Attempts
  BY DEF FlowTypeOK, Attempts, FlowConstants
<1>4. \A a \in Attempts : queue[t][a] = IF a = 0 /\ k = "queue" THEN 1 ELSE 0
  <2>1. queue[t][0] > 0 <=> k = "queue"
    <3>1. queue[t][0] > 0 => At(t, "queue", None)
      BY DEF At
    <3>2. k = "queue" => queue[t][0] > 0
      BY DEF At
    <3> QED
      BY <1>2, <3>1, <3>2
  <2>2. queue[t][0] <= 1 /\ \A a \in Attempts : a # 0 => queue[t][a] <= 0
    BY <1>1, <1>3 DEF Plain
  <2>3. queue[t][0] = IF k = "queue" THEN 1 ELSE 0
    BY <1>3, <2>1, <2>2
  <2>4. \A a \in Attempts : a # 0 => queue[t][a] = 0
    BY <1>3, <2>2
  <2> QED
    BY <2>3, <2>4
<1>5. \A a \in Attempts, e \in Tries :
        events[t][a][e] = IF a = 0 /\ k = "event" /\ i = e THEN 1 ELSE 0
  <2>1. ASSUME NEW e \in Tries PROVE events[t][0][e] > 0 <=> k = "event" /\ i = e
    <3>1. events[t][0][e] > 0 => At(t, "event", e)
      BY DEF At
    <3>2. k = "event" /\ i = e => events[t][0][e] > 0
      BY DEF At
    <3> QED
      BY <1>2, <3>1, <3>2
  <2>2. \A e \in Tries : events[t][0][e] <= 1
    BY <1>1, <1>3 DEF Plain
  <2>3. \A a \in Attempts, e \in Tries : a # 0 => events[t][a][e] = 0
    <3>1. \A a \in Attempts, e \in Tries : a # 0 => events[t][a][e] <= 0
      BY <1>1 DEF Plain
    <3> QED
      BY <1>3, <3>1
  <2>4. \A e \in Tries : events[t][0][e] = IF k = "event" /\ i = e THEN 1 ELSE 0
    BY <1>3, <2>1, <2>2
  <2> QED
    BY <2>3, <2>4
<1>6. t \in unsent <=> k = "unsent"
  <2>1. t \in unsent => At(t, "unsent", None)
    BY DEF At
  <2>2. k = "unsent" => t \in unsent
    BY DEF At
  <2> QED
    BY <1>2, <2>1, <2>2
<1>7. Children(t) = IF k = "next" THEN {i} ELSE {}
  <2>1. \A u \in Children(t) : At(t, "next", u)
    BY DEF At
  <2>2. k = "next" => i \in Children(t)
    BY DEF At
  <2> QED
    BY <1>2, <2>1, <2>2
<1>8. ASSUME NEW v \in Workers
      PROVE  /\ Opens(v, t) <=> k = "open" /\ i = v
             /\ Runs(v, t) <=> k = "run" /\ i = v
             /\ Makes(v, t) <=> k = "made" /\ i = v
  <2>1. /\ Opens(v, t) => At(t, "open", v)
        /\ Runs(v, t) => At(t, "run", v)
        /\ Makes(v, t) => At(t, "made", v)
    BY DEF At
  <2>2. /\ k = "open" => Opens(i, t)
        /\ k = "run" => Runs(i, t)
        /\ k = "made" => Makes(i, t)
    BY DEF At
  <2> QED
    BY <1>2, <2>1, <2>2
<1> QED
  BY <1>1, <1>4, <1>5, <1>6, <1>7, <1>8

LEMMA TakeKeepsTokens ==
  ASSUME FlowConstants, BaseInv, BaseInv', Tokens, NEW w \in Workers, NEW x \in Tasks, NEW u \in Tasks,
         NEW a \in Attempts, NEW b \in Attempts, NEW e \in Tries, TakeTask(w, x, a, u, b, e)
  PROVE  Tokens'
<1>1. FlowTypeOK /\ FlowTypeOK' /\ worker \in [Workers -> WorkerType] /\ 0 \in Attempts /\ 0 \in Tries
  <2>1. 0 \in Attempts /\ 0 \in Tries
    BY DEF Attempts, Tries, FlowConstants
  <2> QED
    BY <2>1 DEF BaseInv, FlowTypeOK
<1>2. /\ mishap' = mishap /\ row' = row /\ unsent' = unsent /\ worker[w].pc = "idle"
      /\ queue[x][a] > 0
      /\ \A v \in Workers \ {w} : worker'[v] = worker[v]
      /\ worker'[w].pc = "taken" /\ worker'[w].task = u /\ worker'[w].attempt = b
      /\ worker'[w].child = None
  BY <1>1 DEF TakeTask, Taken, Idle, flowHistory
<1>3. PICK W \in EventBag :
        /\ \A y \in Tasks, c \in Attempts, d \in Tries :
             W[y][c][d] = IF y = x /\ c = a /\ d = 0 THEN events[y][c][d] + 1 ELSE events[y][c][d]
        /\ W[u][b][e] > 0
        /\ \A y \in Tasks, c \in Attempts, d \in Tries :
             events'[y][c][d] = IF y = u /\ c = b /\ d = e THEN W[y][c][d] - 1 ELSE W[y][c][d]
  BY <1>1, TakenLists
<1>4. \A y \in Tasks, c \in Attempts :
        queue'[y][c] = IF y = x /\ c = a THEN queue[y][c] - 1 ELSE queue[y][c]
  BY <1>1, TakenLists
<1> SUFFICES ASSUME NEW t \in Tasks PROVE TokenInv(t)'
  BY DEF Tokens
<1>5. RowsSame /\ Children(t)' = Children(t) /\ StaysCompleted(t)
  BY <1>2, NoRowsChange, SameRows DEF StaysCompleted
<1>6. NoToken(w, t) /\ TokenInv(t)
  BY <1>2 DEF NoToken, Opens, Runs, Makes, Running, Tokens
<1>7. \A v \in Workers : /\ Opens(v, t)' <=> Opens(v, t)
                         /\ Runs(v, t)' <=> Runs(v, t) \/ (v = w /\ t = u)
                         /\ Makes(v, t)' <=> Makes(v, t)
  BY <1>2, <1>6 DEF NoToken, Opens, Runs, Makes, Running
<1>8. CASE t # x /\ t # u
  <2>1. NoToken(w, t)'
    BY <1>6, <1>7, <1>8 DEF NoToken
  <2>2. Alive(t)' => Alive(t)
    BY <1>2, <1>5 DEF Alive, RowsSame, Opening
  <2>3. queue'[t] = queue[t]
    BY <1>1, <1>8 DEF TakeTask, FlowTypeOK
  <2>4. events'[t] = events[t]
    <3>1. Wrapped(t, a) \in EventBag
      BY <1>1, EventAdded DEF Wrapped, EventMore, FlowTypeOK, EventBag
    <3>2. events \in EventBag /\ Wrapped(x, a) \in EventBag
      BY <1>1, EventAdded DEF Wrapped, EventMore, FlowTypeOK, EventBag
    <3>3. Wrapped(x, a)[t] = events[t]
      BY <1>8, <3>2 DEF Wrapped, EventBag
    <3>4. events' = [Wrapped(x, a) EXCEPT ![u][b][e] = @ - 1]
      BY DEF TakeTask
    <3>5. events'[t] = Wrapped(x, a)[t]
      BY <1>8, <3>2, <3>4 DEF EventBag
    <3> QED
      BY <3>3, <3>5
  <2> QED
    BY <1>1, <1>2, <1>5, <1>6, <2>1, <2>2, <2>3, <2>4, NothingMoves
<1>9. CASE ~Clean(t)
  BY <1>2, <1>9, NotClean DEF Clean
<1>10. ASSUME Clean(t), t = x \/ t = u PROVE TokenInv(t)'
  <2>1. /\ \A c \in Attempts : queue[t][c] \in Nat /\ queue[t][c] <= IF c = 0 THEN 1 ELSE 0
        /\ \A c \in Attempts, d \in Tries : events[t][c][d] \in Nat
        /\ \A c \in Attempts, d \in Tries : events[t][c][d] <= IF c = 0 THEN 1 ELSE 0
        /\ \A v \in Workers : Runs(v, t) => worker[v].attempt = 0
    BY <1>1, <1>6, <1>10 DEF TokenInv, OneToken, Plain, FlowTypeOK
  <2>2. Finished(t)'
    <3>1. \A v \in Workers : worker'[v].pc \in {"done", "skill"} => worker'[v] = worker[v]
      BY <1>2
    <3> QED
      BY <1>2, <1>5, <1>6, <3>1 DEF TokenInv, Finished, Clean, StaysCompleted
  <2>3. CASE t = x
    <3>1. a = 0 /\ At(t, "queue", None)
      BY <1>1, <1>2, <2>1, <2>3 DEF At
    <3>3. /\ \A c \in Attempts : queue[t][c] = IF c = 0 THEN 1 ELSE 0
          /\ \A c \in Attempts, d \in Tries : events[t][c][d] = 0
          /\ t \notin unsent /\ Children(t) = {}
          /\ \A v \in Workers : ~Opens(v, t) /\ ~Runs(v, t) /\ ~Makes(v, t)
      BY <1>1, <1>6, <1>10, <3>1, OnlyThere
    <3>4. \A c \in Attempts : queue'[t][c] = 0
      BY <1>4, <2>3, <3>1, <3>3
    <3>5. \A c \in Attempts, d \in Tries : W[t][c][d] = IF c = 0 /\ d = 0 THEN 1 ELSE 0
      BY <1>3, <2>3, <3>1, <3>3
    <3>6. CASE t = u
      <4>1. b = 0 /\ e = 0
        BY <1>3, <3>5, <3>6
      <4>2. \A c \in Attempts, d \in Tries : events'[t][c][d] = 0
        BY <1>3, <3>5, <3>6, <4>1
      <4>3. Plain(t)'
        BY <1>2, <1>7, <3>3, <3>4, <4>1, <4>2 DEF Plain
      <4>4. \A m, n : At(t, m, n)' <=> m = "run" /\ n = w
        BY <1>1, <1>2, <1>5, <1>7, <3>3, <3>4, <3>6, <4>2 DEF At
      <4> QED
        BY <2>2, <4>3, <4>4, TokenAppears
    <3>7. CASE t # u
      <4>1. \A c \in Attempts, d \in Tries : events'[t][c][d] = IF c = 0 /\ d = 0 THEN 1 ELSE 0
        BY <1>3, <3>5, <3>7
      <4>2. Plain(t)'
        BY <1>7, <3>3, <3>4, <3>7, <4>1 DEF Plain
      <4>3. \A m, n : At(t, m, n)' <=> m = "event" /\ n = 0
        BY <1>1, <1>2, <1>5, <1>7, <3>3, <3>4, <3>7, <4>1 DEF At
      <4> QED
        BY <2>2, <4>2, <4>3, TokenAppears
    <3> QED
      BY <3>6, <3>7
  <2>4. CASE t # x
    <3>1. t = u /\ \A c \in Attempts, d \in Tries : W[t][c][d] = events[t][c][d]
      BY <1>3, <1>10, <2>4
    <3>2. b = 0 /\ At(t, "event", e)
      BY <1>1, <1>3, <2>1, <3>1 DEF At
    <3>3. /\ \A c \in Attempts : queue[t][c] = 0
          /\ \A c \in Attempts, d \in Tries : events[t][c][d] = IF c = 0 /\ e = d THEN 1 ELSE 0
          /\ t \notin unsent /\ Children(t) = {}
          /\ \A v \in Workers : ~Opens(v, t) /\ ~Runs(v, t) /\ ~Makes(v, t)
      BY <1>1, <1>6, <1>10, <3>2, OnlyThere
    <3>4. \A c \in Attempts : queue'[t][c] = 0
      BY <1>4, <2>4, <3>3
    <3>5. \A c \in Attempts, d \in Tries : events'[t][c][d] = 0
      BY <1>3, <3>1, <3>2, <3>3
    <3>6. Plain(t)'
      BY <1>2, <1>7, <3>2, <3>3, <3>4, <3>5 DEF Plain
    <3>7. \A m, n : At(t, m, n)' <=> m = "run" /\ n = w
      BY <1>1, <1>2, <1>5, <1>7, <3>1, <3>3, <3>4, <3>5 DEF At
    <3> QED
      BY <2>2, <3>6, <3>7, TokenAppears
  <2> QED
    BY <2>3, <2>4
<1> QED
  BY <1>8, <1>9, <1>10

\* The event of a task goes back into the list, or not any more
LEMMA RepushedEvent ==
  ASSUME FlowConstants, FlowTypeOK, NEW w \in Workers, worker[w].task \in Tasks, NEW b \in Attempts, Repush(w, b)
  PROVE  \/ events' = events
         \/ \E e \in Tries : \A y \in Tasks, c \in Attempts, d \in Tries :
              events'[y][c][d] = IF y = worker[w].task /\ c = b /\ d = e THEN events[y][c][d] + 1
                                 ELSE events[y][c][d]
<1>1. events \in EventBag /\ worker[w].tries \in Tries
  BY DEF FlowTypeOK, EventBag, WorkerType
<1>2. CASE worker[w].tries < EventRetries
  <2>1. PICK e \in Tries : e = worker[w].tries + 1
    BY <1>1, <1>2 DEF Tries, FlowConstants
  <2>2. events' = EventMore(events, worker[w].task, b, e)
    BY <1>2, <2>1 DEF Repush, EventMore
  <2>3. \A y \in Tasks, c \in Attempts, d \in Tries :
          events'[y][c][d] = IF y = worker[w].task /\ c = b /\ d = e
                             THEN events[y][c][d] + 1 ELSE events[y][c][d]
    BY <1>1, <2>2, EventAdded
  <2> QED
    BY <2>3
<1>3. CASE ~(worker[w].tries < EventRetries)
  BY <1>3 DEF Repush
<1> QED
  BY <1>2, <1>3

LEMMA NotFoundKeepsTokens ==
  ASSUME FlowConstants, BaseInv, BaseInv', Tokens, NEW w \in Workers, TaskNotFound(w)
  PROVE  Tokens'
<1>1. FlowTypeOK /\ FlowTypeOK' /\ worker \in [Workers -> WorkerType] /\ 0 \in Attempts
  <2>1. 0 \in Attempts
    BY DEF Attempts, FlowConstants
  <2> QED
    BY <2>1 DEF BaseInv, FlowTypeOK
<1>2. /\ row' = row /\ unsent' = unsent /\ worker[w].pc = "taken" /\ queue' = queue
      /\ worker'[w] = Idle
      /\ \A v \in Workers \ {w} : worker'[v] = worker[v]
      /\ worker[w].task \in Tasks /\ worker[w].attempt \in Attempts
      /\ mishap' = [mishap EXCEPT ![worker[w].task] = @ \cup {"early"}]
  <2>1. worker[w].task \in Tasks /\ worker[w].attempt \in Attempts
    BY <1>1 DEF TaskNotFound, BaseInv, Job, WorkerType
  <2> QED
    BY <1>1, <2>1 DEF TaskNotFound, Rest, Note
<1> SUFFICES ASSUME NEW t \in Tasks PROVE TokenInv(t)'
  BY DEF Tokens
<1>3. RowsSame /\ Children(t)' = Children(t) /\ StaysCompleted(t) /\ mishap[t] \subseteq mishap'[t]
      /\ (Clean(t)' <=> Clean(t)) /\ TokenInv(t)
  <2>1. RowsSame /\ Children(t)' = Children(t) /\ StaysCompleted(t) /\ TokenInv(t)
    BY <1>2, NoRowsChange, SameRows DEF StaysCompleted, Tokens
  <2>2. mishap'[t] = IF t = worker[w].task THEN mishap[t] \cup {"early"} ELSE mishap[t]
    BY <1>1, <1>2 DEF FlowTypeOK
  <2> QED
    BY <2>1, <2>2 DEF Clean
<1>4. \A v \in Workers : /\ Opens(v, t)' <=> Opens(v, t)
                         /\ Runs(v, t)' <=> Runs(v, t) /\ v # w
                         /\ Makes(v, t)' <=> Makes(v, t)
  BY <1>2 DEF Opens, Runs, Makes, Running, Idle
<1>5. CASE t # worker[w].task
  <2>1. events'[t] = events[t]
    BY <1>1, <1>2, <1>5, RepushAdds DEF TaskNotFound
  <2>2. NoToken(w, t) /\ NoToken(w, t)'
    BY <1>2, <1>5 DEF NoToken, Opens, Runs, Makes, Running, Idle
  <2>3. Alive(t)' => Alive(t)
    BY <1>2, <1>3 DEF Alive, RowsSame, Opening, Idle
  <2> QED
    BY <1>1, <1>2, <1>3, <2>1, <2>2, <2>3, NothingMoves
<1>6. CASE ~Clean(t)
  BY <1>3, <1>6, NotClean
<1>7. ASSUME Clean(t), t = worker[w].task PROVE TokenInv(t)'
  <2>1. Finished(t)'
    <3>1. \A v \in Workers : worker'[v].pc \in {"done", "skill"} => worker'[v] = worker[v]
      BY <1>2 DEF Idle
    <3> QED
      BY <1>2, <1>3, <3>1 DEF TokenInv, Finished, StaysCompleted
  <2>2. At(t, "run", w) /\ worker[w].attempt = 0
    <3>1. Runs(w, t)
      BY <1>2, <1>7 DEF Runs, Running
    <3> QED
      BY <1>3, <1>7, <3>1 DEF At, TokenInv, OneToken, Plain
  <2>3. /\ \A c \in Attempts : queue[t][c] = 0
        /\ \A c \in Attempts, d \in Tries : events[t][c][d] = 0
        /\ t \notin unsent /\ Children(t) = {}
        /\ \A v \in Workers : ~Opens(v, t) /\ (Runs(v, t) => v = w) /\ ~Makes(v, t)
    BY <1>1, <1>3, <1>7, <2>2, OnlyThere
  <2>4. CASE events' = events
    <3>1. \A m, n : ~At(t, m, n)'
      BY <1>1, <1>2, <1>3, <1>4, <2>3, <2>4 DEF At
    <3>2. Plain(t)'
      BY <1>2, <1>4, <2>3, <2>4 DEF Plain
    <3>3. mishap'[t] # {}
      BY <1>1, <1>2, <1>7 DEF FlowTypeOK
    <3> QED
      BY <2>1, <3>1, <3>2, <3>3 DEF TokenInv, OneToken, Single, TokenKept
  <2>5. ASSUME NEW e \in Tries,
               \A y \in Tasks, c \in Attempts, d \in Tries :
                 events'[y][c][d] = IF y = worker[w].task /\ c = worker[w].attempt /\ d = e
                                    THEN events[y][c][d] + 1 ELSE events[y][c][d]
        PROVE  TokenInv(t)'
    <3>1. \A c \in Attempts, d \in Tries : events'[t][c][d] = IF c = 0 /\ d = e THEN 1 ELSE 0
      BY <1>7, <2>2, <2>3, <2>5
    <3>2. \A m, n : At(t, m, n)' <=> m = "event" /\ n = e
      BY <1>1, <1>2, <1>3, <1>4, <2>3, <3>1 DEF At
    <3>3. Plain(t)'
      BY <1>2, <1>4, <2>3, <3>1 DEF Plain
    <3> QED
      BY <2>1, <3>2, <3>3, TokenAppears
  <2> QED
    BY <1>1, <1>2, <2>4, <2>5, RepushedEvent DEF TaskNotFound
<1> QED
  BY <1>5, <1>6, <1>7

\* A worker goes on with the task that it runs
LEMMA WorkKeepsTokens ==
  ASSUME FlowConstants, BaseInv, BaseInv', Tokens, NEW w \in Workers,
         BeginTask(w) \/ ReadTask(w) \/ FinishTask(w)
  PROVE  Tokens'
<1>1. /\ FlowTypeOK /\ FlowTypeOK' /\ worker \in [Workers -> WorkerType] /\ worker[w] \in WorkerType
      /\ Job(w)
  BY DEF BaseInv, FlowTypeOK
<1>2. /\ mishap' = mishap /\ unsent' = unsent /\ queue' = queue /\ events' = events
      /\ \A v \in Workers \ {w} : worker'[v] = worker[v]
      /\ worker'[w].task = worker[w].task /\ worker'[w].attempt = worker[w].attempt
      /\ worker[w].pc \in {"taken", "running", "skill"}
      /\ worker'[w].pc = CASE worker[w].pc = "taken" -> "running" [] worker[w].pc = "running" -> "skill"
                           [] OTHER -> "done"
      /\ worker[w].task \in Committed
  BY <1>1 DEF BeginTask, ReadTask, FinishTask, FlowGoto, WorkerType, flowHistory, Job, Executing
<1>3. RowsSame
  BY <1>2, StatusWritten, NoRowsChange DEF BeginTask, ReadTask, FinishTask
<1> SUFFICES ASSUME NEW t \in Tasks PROVE TokenInv(t)'
  BY DEF Tokens
<1>4. Children(t)' = Children(t) /\ TokenInv(t) /\ (Clean(t)' <=> Clean(t))
  BY <1>2, <1>3, SameRows DEF Tokens, Clean
<1>5. \A v \in Workers : /\ Opens(v, t)' <=> Opens(v, t)
                         /\ Runs(v, t)' <=> Runs(v, t)
                         /\ Makes(v, t)' <=> Makes(v, t)
  BY <1>2 DEF Opens, Runs, Makes, Running
<1>6. Alive(t)' => Alive(t)
  BY <1>2, <1>3 DEF Alive, RowsSame, Opening
<1>7. CASE t # worker[w].task
  <2>1. NoToken(w, t) /\ NoToken(w, t)'
    BY <1>2, <1>7 DEF NoToken, Opens, Runs, Makes, Running
  <2>2. row'[t] = row[t]
    BY <1>1, <1>7 DEF BeginTask, ReadTask, FinishTask, FlowTypeOK
  <2> QED
    BY <1>1, <1>2, <1>4, <1>6, <2>1, <2>2, NothingMoves DEF StaysCompleted
<1>8. CASE ~Clean(t)
  BY <1>2, <1>8, NotClean DEF Clean
<1>9. ASSUME Clean(t), t = worker[w].task PROVE TokenInv(t)'
  <2>1. Runs(w, t) /\ At(t, "run", w)
    BY <1>2, <1>9 DEF Runs, Running, At
  <2>2. /\ Plain(t) /\ Single(t) /\ Children(t) = {}
        /\ \A v \in Workers : Runs(v, t) => v = w
    BY <1>1, <1>4, <1>9, <2>1, OnlyThere
  <2>3. Plain(t)'
    BY <1>2, <1>5, <2>1, <2>2 DEF Plain
  <2>4. \A m, n : At(t, m, n)' <=> At(t, m, n)
    BY <1>2, <1>4, <1>5 DEF At
  <2>5. \A v \in Workers : worker'[v].task = t /\ worker'[v].pc \in {"done", "skill"} => v = w
    <3>1. \A v \in Workers : worker'[v].task = t /\ worker'[v].pc \in {"done", "skill"} => Runs(v, t)'
      BY DEF Runs, Running
    <3> QED
      BY <1>5, <2>2, <3>1
  <2>6. worker'[w].pc = "done" \/ (worker'[w].pc = "skill" /\ worker'[w].done) => row'[t].status = "completed"
    <3>1. CASE BeginTask(w)
      BY <1>2, <3>1 DEF BeginTask
    <3>2. CASE ReadTask(w)
      <4>1. worker'[w].done = (row[t].status = "completed")
        BY <1>1, <1>9, <3>2 DEF ReadTask, WorkerType
      <4>2. row'[t] = row[t] /\ worker'[w].pc # "done"
        BY <1>2, <3>2 DEF ReadTask
      <4> QED
        BY <4>1, <4>2
    <3>3. CASE FinishTask(w)
      <4>1. worker[w].done => row[t].status = "completed"
        BY <1>4, <1>9, <3>3 DEF FinishTask, TokenInv, Finished
      <4>2. ~worker[w].done => row'[t].status = "completed"
        BY <1>1, <1>9, <3>3 DEF FinishTask, FlowTypeOK, RowType
      <4> QED
        BY <3>3, <4>1, <4>2 DEF FinishTask
    <3> QED
      BY <3>1, <3>2, <3>3
  <2>7. Finished(t)'
    BY <1>4, <2>2, <2>5, <2>6 DEF Finished
  <2>8. Single(t)' /\ Token(t)'
    BY <2>1, <2>2, <2>4 DEF Single, Token
  <2> QED
    BY <2>3, <2>7, <2>8 DEF TokenInv, OneToken, TokenKept
<1> QED
  BY <1>7, <1>8, <1>9

LEMMA LastKeepsTokens ==
  ASSUME FlowConstants, BaseInv, BaseInv', Tokens, NEW w \in Workers, LastStep(w)
  PROVE  Tokens'
<1>1. FlowTypeOK /\ FlowTypeOK' /\ worker \in [Workers -> WorkerType]
  BY DEF BaseInv, FlowTypeOK
<1>2. /\ mishap' = mishap /\ unsent' = unsent /\ queue' = queue /\ events' = events /\ row' = row
      /\ \A v \in Workers \ {w} : worker'[v] = worker[v]
      /\ worker'[w] = Idle /\ worker[w].pc = "done" /\ row[worker[w].task].step = Steps
  BY <1>1 DEF LastStep, Rest, flowHistory
<1> SUFFICES ASSUME NEW t \in Tasks PROVE TokenInv(t)'
  BY DEF Tokens
<1>3. RowsSame /\ Children(t)' = Children(t) /\ StaysCompleted(t) /\ TokenInv(t)
  BY <1>2, NoRowsChange, SameRows DEF StaysCompleted, Tokens
<1>4. Alive(t)' => Alive(t)
  BY <1>2, <1>3 DEF Alive, RowsSame, Opening, Idle
<1>5. CASE t # worker[w].task
  <2>1. NoToken(w, t) /\ NoToken(w, t)'
    BY <1>2, <1>5 DEF NoToken, Opens, Runs, Makes, Running, Idle
  <2> QED
    BY <1>1, <1>2, <1>3, <1>4, <2>1, NothingMoves
<1>6. CASE t = worker[w].task
  <2>1. \A v \in Workers : /\ Opens(v, t)' => Opens(v, t)
                           /\ Runs(v, t)' => Runs(v, t) /\ v # w
                           /\ Makes(v, t)' => Makes(v, t)
    BY <1>2 DEF Opens, Runs, Makes, Running, Idle
  <2>2. \A m, n : At(t, m, n)' => At(t, m, n)
    BY <1>2, <1>3, <2>1 DEF At
  <2>3. Plain(t) => Plain(t)'
    BY <1>2, <2>1 DEF Plain
  <2>4. Finished(t)'
    <3>1. \A v \in Workers : worker'[v].pc \in {"done", "skill"} => worker'[v] = worker[v]
      BY <1>2 DEF Idle
    <3> QED
      BY <1>2, <1>3, <3>1 DEF TokenInv, Finished, Clean
  <2>5. mishap[t] = {} => Ended(t)'
    BY <1>2, <1>3, <1>6 DEF TokenInv, Finished, Clean, Ended
  <2> QED
    BY <1>2, <1>3, <2>2, <2>3, <2>4, <2>5, TokenGoes DEF TokenKept
<1> QED
  BY <1>5, <1>6

LEMMA CreateKeepsTokens ==
  ASSUME FlowConstants, BaseInv, BaseInv', Tokens, NEW w \in Workers, NEW c \in Tasks, CreateNext(w, c)
  PROVE  Tokens'
<1>1. /\ FlowTypeOK /\ FlowTypeOK' /\ worker \in [Workers -> WorkerType] /\ worker[w] \in WorkerType
      /\ Job(w)
  BY DEF BaseInv, FlowTypeOK
<1>2. /\ mishap' = mishap /\ unsent' = unsent /\ queue' = queue /\ events' = events
      /\ \A v \in Workers \ {w} : worker'[v] = worker[v]
      /\ worker[w].pc = "done" /\ worker'[w].pc = "created" /\ worker'[w].child = c
      /\ worker'[w].task = worker[w].task /\ worker[w].task \in Tasks
      /\ worker[w].task \in Committed /\ worker[w].child = None
      /\ row[c].status = "none"
  BY <1>1 DEF CreateNext, WorkerType, flowHistory, Job, Executing, Free, Committed
<1>3. RowAdded(c, NextTask(worker[w].task)) /\ NextTask(worker[w].task).parent = worker[w].task
  BY <1>2, FreshId DEF CreateNext, RowAdded, NextTask, Task
<1> SUFFICES ASSUME NEW t \in Tasks PROVE TokenInv(t)'
  BY DEF Tokens
<1>4. /\ Children(t)' = IF t = worker[w].task THEN Children(t) \cup {c} ELSE Children(t)
      /\ StaysCompleted(t)
      /\ t # c => (t \in Committed' <=> t \in Committed)
      /\ TokenInv(t) /\ worker[w].task # c
  BY <1>2, <1>3, ChildrenGrow, FreshId DEF Tokens
<1>5. t # c => (Alive(t)' => Alive(t))
  BY <1>2, <1>4 DEF Alive, Opening
<1>6. \A v \in Workers : /\ Opens(v, t)' <=> Opens(v, t)
                         /\ Runs(v, t)' <=> Runs(v, t) /\ v # w
                         /\ Makes(v, t)' <=> Makes(v, t) \/ (v = w /\ t = c)
  BY <1>2 DEF Opens, Runs, Makes, Running, FlowConstants
<1>7. \A v \in Workers : worker'[v].pc \in {"done", "skill"} => worker'[v] = worker[v]
  BY <1>2
<1>8. CASE t # worker[w].task /\ t # c
  <2>1. NoToken(w, t) /\ NoToken(w, t)'
    BY <1>2, <1>8 DEF NoToken, Opens, Runs, Makes, Running
  <2> QED
    BY <1>1, <1>2, <1>4, <1>5, <1>8, <2>1, NothingMoves
<1>9. CASE ~Clean(t)
  BY <1>2, <1>9, NotClean DEF Clean
<1>10. ASSUME Clean(t), t = worker[w].task PROVE TokenInv(t)'
  <2>1. Runs(w, t) /\ At(t, "run", w)
    BY <1>2, <1>10 DEF Runs, Running, At
  <2>2. /\ Plain(t) /\ Children(t) = {} /\ t \notin unsent
        /\ \A a \in Attempts : queue[t][a] = 0
        /\ \A a \in Attempts, e \in Tries : events[t][a][e] = 0
        /\ \A v \in Workers : ~Opens(v, t) /\ (Runs(v, t) => v = w) /\ ~Makes(v, t)
    BY <1>1, <1>4, <1>10, <2>1, OnlyThere
  <2>3. row[t].status = "completed"
    BY <1>2, <1>4, <1>10 DEF TokenInv, Finished
  <2>4. Finished(t)'
    BY <1>4, <2>3 DEF Finished, StaysCompleted
  <2>5. Plain(t)'
    BY <1>2, <1>6, <2>2 DEF Plain
  <2>6. 0 \in Attempts
    BY DEF Attempts, FlowConstants
  <2>7. \A m, n : At(t, m, n)' <=> m = "next" /\ n = c
    BY <1>2, <1>4, <1>6, <1>10, <2>2, <2>6 DEF At
  <2> QED
    BY <2>4, <2>5, <2>7, TokenAppears
<1>11. CASE t = c
  <2>1. /\ \A k, i : ~At(t, k, i)
        /\ Children(t) = {}
        /\ \A a \in Attempts : queue[t][a] = 0
        /\ \A a \in Attempts, e \in Tries : events[t][a][e] = 0
        /\ \A v \in Workers : worker[v].task # t /\ worker[v].child # t
    BY <1>2, <1>11, FreshId
  <2>2. Finished(t)'
    BY <1>2, <1>4, <1>7, <1>11, <2>1 DEF Finished
  <2>3. \A v \in Workers : ~Runs(v, t)
    BY <2>1 DEF Runs
  <2>4. Plain(t)'
    BY <1>2, <1>6, <2>1, <2>3 DEF Plain
  <2>5. \A m, n : At(t, m, n)' <=> m = "made" /\ n = w
    BY <1>2, <1>4, <1>6, <1>11, <2>1 DEF At
  <2> QED
    BY <2>2, <2>4, <2>5, TokenAppears
<1> QED
  BY <1>8, <1>9, <1>10, <1>11

LEMMA EnqueueKeepsTokens ==
  ASSUME FlowConstants, BaseInv, BaseInv', Tokens, NEW w \in Workers, EnqueueNext(w)
  PROVE  Tokens'
<1>1. /\ FlowTypeOK /\ FlowTypeOK' /\ worker \in [Workers -> WorkerType] /\ worker[w] \in WorkerType
      /\ Job(w) /\ 0 \in Attempts
  <2>1. 0 \in Attempts
    BY DEF Attempts, FlowConstants
  <2> QED
    BY <2>1 DEF BaseInv, FlowTypeOK
<1>2. /\ mishap' = mishap /\ unsent' = unsent /\ events' = events /\ row' = row
      /\ \A v \in Workers \ {w} : worker'[v] = worker[v]
      /\ worker'[w].pc = "pushed" /\ worker'[w].child = None
      /\ worker[w].pc = "created" /\ worker[w].child \in Tasks
      /\ queue' = OneMore(queue, worker[w].child, 0)
  BY <1>1 DEF EnqueueNext, flowHistory, Job, Push, OneMore, WorkerType
<1>3. \A y \in Tasks, a \in Attempts :
        queue'[y][a] = IF y = worker[w].child /\ a = 0 THEN queue[y][a] + 1 ELSE queue[y][a]
  <2>1. queue \in [Tasks -> [Attempts -> Nat]]
    BY <1>1 DEF FlowTypeOK
  <2> QED
    BY <1>1, <1>2, <2>1, CopyAdded
<1> SUFFICES ASSUME NEW t \in Tasks PROVE TokenInv(t)'
  BY DEF Tokens
<1>4. RowsSame /\ Children(t)' = Children(t) /\ StaysCompleted(t) /\ TokenInv(t)
  BY <1>2, NoRowsChange, SameRows DEF StaysCompleted, Tokens
<1>5. Alive(t)' => Alive(t)
  BY <1>2, <1>4 DEF Alive, RowsSame, Opening
<1>6. CASE t # worker[w].child
  <2>1. NoToken(w, t) /\ NoToken(w, t)'
    BY <1>2, <1>6 DEF NoToken, Opens, Runs, Makes, Running
  <2>2. queue'[t] = queue[t]
    BY <1>1, <1>2, <1>6 DEF OneMore, FlowTypeOK
  <2> QED
    BY <1>1, <1>2, <1>4, <1>5, <2>1, <2>2, NothingMoves
<1>7. CASE ~Clean(t)
  BY <1>2, <1>7, NotClean DEF Clean
<1>8. ASSUME Clean(t), t = worker[w].child PROVE TokenInv(t)'
  <2>1. Makes(w, t) /\ At(t, "made", w)
    BY <1>2, <1>8 DEF Makes, At
  <2>2. /\ Plain(t) /\ Children(t) = {} /\ t \notin unsent
        /\ \A a \in Attempts : queue[t][a] = 0
        /\ \A a \in Attempts, e \in Tries : events[t][a][e] = 0
        /\ \A v \in Workers : ~Opens(v, t) /\ ~Runs(v, t) /\ (Makes(v, t) => v = w)
    BY <1>1, <1>4, <1>8, <2>1, OnlyThere
  <2>3. \A v \in Workers : ~Opens(v, t)' /\ ~Runs(v, t)' /\ ~Makes(v, t)'
    BY <1>2, <2>2 DEF Opens, Runs, Makes, Running
  <2>4. \A a \in Attempts : queue'[t][a] = IF a = 0 THEN 1 ELSE 0
    BY <1>3, <1>8, <2>2
  <2>5. Plain(t)'
    BY <1>2, <2>2, <2>3, <2>4 DEF Plain
  <2>6. Finished(t)'
    <3>1. \A v \in Workers : worker'[v].pc \in {"done", "skill"} => worker'[v] = worker[v]
      BY <1>2
    <3> QED
      BY <1>2, <1>4, <3>1 DEF TokenInv, Finished, Clean, StaysCompleted
  <2>7. \A m, n : At(t, m, n)' <=> m = "queue" /\ n = None
    BY <1>1, <1>2, <1>4, <2>2, <2>3, <2>4 DEF At
  <2> QED
    BY <2>5, <2>6, <2>7, TokenAppears
<1> QED
  BY <1>6, <1>7, <1>8

LEMMA EndKeepsTokens ==
  ASSUME FlowConstants, BaseInv, BaseInv', Tokens, NEW w \in Workers, EndTask(w)
  PROVE  Tokens'
<1>1. FlowTypeOK /\ FlowTypeOK' /\ worker \in [Workers -> WorkerType]
  BY DEF BaseInv, FlowTypeOK
<1>2. /\ mishap' = mishap /\ unsent' = unsent /\ queue' = queue /\ events' = events /\ row' = row
      /\ \A v \in Workers \ {w} : worker'[v] = worker[v]
      /\ worker'[w] = Idle /\ worker[w].pc = "pushed"
  BY <1>1 DEF EndTask, Rest, flowHistory
<1> SUFFICES ASSUME NEW t \in Tasks PROVE TokenInv(t)'
  BY DEF Tokens
<1>3. RowsSame /\ Children(t)' = Children(t) /\ StaysCompleted(t) /\ TokenInv(t)
  BY <1>2, NoRowsChange, SameRows DEF StaysCompleted, Tokens
<1>4. Alive(t)' => Alive(t)
  BY <1>2, <1>3 DEF Alive, RowsSame, Opening, Idle
<1>5. NoToken(w, t) /\ NoToken(w, t)'
  BY <1>2 DEF NoToken, Opens, Runs, Makes, Running, Idle
<1> QED
  BY <1>1, <1>2, <1>3, <1>4, <1>5, NothingMoves

LEMMA RequestKeepsTokens ==
  ASSUME FlowConstants, BaseInv, BaseInv', Tokens, NEW x \in Tasks,
         CreateFlow(x) \/ AssignTask(x) \/ CompleteTask(x) \/ Send(x)
  PROVE  Tokens'
<1>1. FlowTypeOK /\ FlowTypeOK' /\ 0 \in Attempts
  <2>1. 0 \in Attempts
    BY DEF Attempts, FlowConstants
  <2> QED
    BY <2>1 DEF BaseInv, FlowTypeOK
<1>2. worker' = worker /\ events' = events
  BY DEF CreateFlow, AssignTask, CompleteTask, Send
<1> SUFFICES ASSUME NEW t \in Tasks PROVE TokenInv(t)'
  BY DEF Tokens
<1>3. TokenInv(t)
  BY DEF Tokens
<1>4. \A v \in Workers : /\ Opens(v, t)' <=> Opens(v, t)
                         /\ Runs(v, t)' <=> Runs(v, t)
                         /\ Makes(v, t)' <=> Makes(v, t)
  BY <1>2 DEF Opens, Runs, Makes
<1>5. CASE CreateFlow(x)
  <2>1. /\ row[x].status = "none" /\ unsent' = unsent \cup {x} /\ mishap' = mishap /\ queue' = queue
        /\ RowAdded(x, Task(1, None, FALSE)) /\ Task(1, None, FALSE).parent = None
    BY <1>5, FreshId DEF CreateFlow, Free, RowAdded, Task, flowHistory
  <2>2. /\ Children(t)' = Children(t) /\ StaysCompleted(t)
        /\ t # x => (t \in Committed' <=> t \in Committed)
    BY <2>1, ChildrenGrow DEF FlowConstants
  <2>3. CASE t # x
    <3>1. Alive(t)' => Alive(t)
      BY <1>2, <2>2, <2>3 DEF Alive
    <3> QED
      BY <1>1, <1>2, <1>3, <2>1, <2>2, <2>3, <3>1, NothingMoves
  <2>4. CASE t = x
    <3>1. /\ \A k, i : ~At(t, k, i)
          /\ Children(t) = {}
          /\ \A a \in Attempts : queue[t][a] = 0
          /\ \A a \in Attempts, e \in Tries : events[t][a][e] = 0
          /\ \A v \in Workers : worker[v].task # t /\ worker[v].child # t
      BY <2>1, <2>4, FreshId
    <3>2. Finished(t)'
      BY <1>2, <2>2, <3>1 DEF Finished
    <3>3. \A v \in Workers : ~Runs(v, t)
      BY <3>1 DEF Runs
    <3>4. Plain(t)'
      BY <1>2, <1>4, <2>1, <3>1, <3>3 DEF Plain
    <3>5. \A m, n : At(t, m, n)' <=> m = "unsent" /\ n = None
      BY <1>2, <1>4, <2>1, <2>2, <2>4, <3>1 DEF At
    <3> QED
      BY <3>2, <3>4, <3>5, TokenAppears
  <2> QED
    BY <2>3, <2>4
<1>6. ASSUME RowsSame, t \in unsent' <=> t \in unsent, queue' = queue, mishap[t] \subseteq mishap'[t],
             StaysCompleted(t)
      PROVE  TokenInv(t)'
  <2>1. Children(t)' = Children(t)
    BY <1>6, SameRows
  <2>2. Alive(t)' => Alive(t)
    BY <1>2, <1>6 DEF Alive, RowsSame
  <2> QED
    BY <1>1, <1>2, <1>3, <1>6, <2>1, <2>2, NothingMoves
<1>7. CASE AssignTask(x)
  <2>1. RowsSame /\ mishap' = [mishap EXCEPT ![x] = @ \cup {"again"}] /\ queue' = queue
        /\ unsent' = unsent \cup {x}
    BY <1>7, StatusWritten DEF AssignTask, Note
  <2>2. mishap[t] \subseteq mishap'[t]
    BY <1>1, <2>1 DEF FlowTypeOK
  <2>3. CASE t = x
    <3>1. ~Clean(t)'
      BY <1>1, <2>1, <2>3 DEF Clean, FlowTypeOK
    <3> QED
      BY <2>2, <3>1, NotClean
  <2>4. CASE t # x
    <3>1. row'[t] = row[t]
      BY <1>1, <1>7, <2>4 DEF AssignTask, FlowTypeOK
    <3> QED
      BY <1>6, <2>1, <2>2, <2>4, <3>1 DEF StaysCompleted
  <2> QED
    BY <2>3, <2>4
<1>8. CASE CompleteTask(x)
  <2>1. RowsSame /\ mishap' = mishap /\ queue' = queue /\ unsent' = unsent
    BY <1>8, StatusWritten DEF CompleteTask, flowHistory
  <2>2. StaysCompleted(t)
    <3>1. t = x => row'[t].status = "completed"
      BY <1>1, <1>8 DEF CompleteTask, FlowTypeOK, RowType
    <3>2. t # x => row'[t].status = row[t].status
      BY <1>1, <1>8 DEF CompleteTask, FlowTypeOK
    <3>3. row'[t].step = row[t].step
      BY <2>1 DEF RowsSame
    <3> QED
      BY <3>1, <3>2, <3>3 DEF StaysCompleted
  <2> QED
    BY <1>6, <2>1, <2>2
<1>9. CASE Send(x)
  <2>1. /\ x \in unsent /\ unsent' = unsent \ {x} /\ mishap' = mishap /\ row' = row
        /\ queue' = OneMore(queue, x, 0)
    BY <1>9 DEF Send, Push, OneMore, flowHistory
  <2>2. \A y \in Tasks, a \in Attempts :
          queue'[y][a] = IF y = x /\ a = 0 THEN queue[y][a] + 1 ELSE queue[y][a]
    <3>1. queue \in [Tasks -> [Attempts -> Nat]]
      BY <1>1 DEF FlowTypeOK
    <3> QED
      BY <1>1, <2>1, <3>1, CopyAdded
  <2>3. RowsSame /\ Children(t)' = Children(t) /\ StaysCompleted(t)
    BY <2>1, NoRowsChange, SameRows DEF StaysCompleted
  <2>4. CASE t # x
    <3>1. queue'[t] = queue[t]
      BY <1>1, <2>1, <2>4 DEF OneMore, FlowTypeOK
    <3>2. Alive(t)' => Alive(t)
      BY <1>2, <2>3 DEF Alive, RowsSame
    <3> QED
      BY <1>1, <1>2, <1>3, <2>1, <2>3, <2>4, <3>1, <3>2, NothingMoves
  <2>5. CASE ~Clean(t)
    BY <2>1, <2>5, NotClean DEF Clean
  <2>6. ASSUME Clean(t), t = x PROVE TokenInv(t)'
    <3>1. At(t, "unsent", None)
      BY <2>1, <2>6 DEF At
    <3>2. /\ Plain(t) /\ Children(t) = {}
          /\ \A a \in Attempts : queue[t][a] = 0
          /\ \A a \in Attempts, e \in Tries : events[t][a][e] = 0
          /\ \A v \in Workers : ~Opens(v, t) /\ ~Runs(v, t) /\ ~Makes(v, t)
      BY <1>1, <1>3, <2>6, <3>1, OnlyThere
    <3>3. \A a \in Attempts : queue'[t][a] = IF a = 0 THEN 1 ELSE 0
      BY <2>2, <2>6, <3>2
    <3>4. Plain(t)'
      BY <1>2, <1>4, <3>2, <3>3 DEF Plain
    <3>5. Finished(t)'
      BY <1>2, <1>3, <2>1, <2>3 DEF TokenInv, Finished, Clean, StaysCompleted
    <3>6. \A m, n : At(t, m, n)' <=> m = "queue" /\ n = None
      BY <1>1, <1>2, <1>4, <2>1, <2>3, <2>6, <3>2, <3>3 DEF At
    <3> QED
      BY <3>4, <3>5, <3>6, TokenAppears
  <2> QED
    BY <2>4, <2>5, <2>6
<1> QED
  BY <1>5, <1>7, <1>8, <1>9

\* The rows of a session that ends are void
LEMMA VoidRows ==
  ASSUME BaseInv, NEW w \in Workers, Void(w)
  PROVE  /\ RowsSame
         /\ \A t \in Tasks : StaysCompleted(t)
         /\ \A t \in Tasks : t = worker[w].task /\ worker[w].pc \in Opening => t \notin Committed
<1>1. Job(w) /\ worker[w] \in WorkerType /\ row \in [Tasks -> RowType]
  BY DEF BaseInv, FlowTypeOK
<1>2. CASE worker[w].pc \in Opening
  <2>1. /\ worker[w].task \in Tasks /\ row[worker[w].task].status = "open"
        /\ worker[w].task \notin Committed
    BY <1>1, <1>2 DEF Job, WorkerType, Opening, Committed, Unseen
  <2>2. row' = [row EXCEPT ![worker[w].task].status = "void"]
    BY <1>2 DEF Void, Opening
  <2>3. RowsSame /\ \A t \in Tasks \ {worker[w].task} : row'[t] = row[t]
    BY <2>1, <2>2, DraftWritten
  <2> QED
    BY <2>1, <2>3 DEF StaysCompleted
<1>3. CASE worker[w].pc \notin Opening
  <2>1. row' = row
    BY <1>3 DEF Void, Opening
  <2> QED
    BY <1>3, <2>1, NoRowsChange DEF StaysCompleted
<1> QED
  BY <1>2, <1>3

\* A worker stops in the middle of what it does
LEMMA FaultKeepsTokens ==
  ASSUME FlowConstants, BaseInv, BaseInv', Tokens, NEW w \in Workers,
         \/ \E removed \in BOOLEAN : FailDay(w, removed)
         \/ CommitUnheard(w) \/ FailTask(w) \/ Crash(w)
  PROVE  Tokens'
<1>1. /\ FlowTypeOK /\ FlowTypeOK' /\ worker \in [Workers -> WorkerType] /\ worker[w] \in WorkerType
      /\ Job(w) /\ OneScheduler
  BY DEF BaseInv, FlowTypeOK
<1>2. /\ worker'[w] = Idle /\ unsent' = unsent
      /\ \A v \in Workers \ {w} : worker'[v] = worker[v]
  <2>1. worker' = [worker EXCEPT ![w] = Idle] /\ unsent' = unsent
    BY DEF FailDay, CommitUnheard, FailTask, Crash, Rest
  <2> QED
    BY <1>1, <2>1
<1>3. \A v \in Workers : worker'[v].pc # "idle" => v # w /\ worker'[v] = worker[v]
  BY <1>2 DEF Idle
<1> SUFFICES ASSUME NEW t \in Tasks PROVE TokenInv(t)'
  BY DEF Tokens
<1>4. TokenInv(t)
  BY DEF Tokens
<1>5. \A v \in Workers : /\ Opens(v, t)' <=> Opens(v, t) /\ v # w
                         /\ Runs(v, t)' <=> Runs(v, t) /\ v # w
                         /\ Makes(v, t)' <=> Makes(v, t) /\ v # w
  BY <1>2, <1>3 DEF Opens, Runs, Makes, Running, Idle
\* a task that the worker does not hold
<1>6. ASSUME NoToken(w, t), queue'[t] = queue[t], events'[t] = events[t], StaysCompleted(t),
             Children(t)' = Children(t), t \in Committed' => Alive(t),
             mishap[t] \subseteq mishap'[t]
      PROVE  TokenInv(t)'
  <2>1. NoToken(w, t)'
    BY <1>5 DEF NoToken
  <2>2. Alive(t)' => Alive(t)
    <3>1. \A v \in Workers : worker'[v].pc \in Opening => worker'[v] = worker[v]
      BY <1>3 DEF Opening
    <3> QED
      BY <1>6, <3>1 DEF Alive
  <2> QED
    BY <1>1, <1>2, <1>4, <1>6, <2>1, <2>2, NothingMoves
\* a task that the worker holds
<1>7. ASSUME queue'[t] = queue[t], events'[t] = events[t], StaysCompleted(t),
             Children(t)' = Children(t), mishap[t] \subseteq mishap'[t], TokenKept(t)'
      PROVE  TokenInv(t)'
  <2>1. \A m, n : At(t, m, n)' => At(t, m, n)
    BY <1>2, <1>5, <1>7 DEF At
  <2>2. Plain(t) => Plain(t)'
    BY <1>2, <1>5, <1>7 DEF Plain
  <2>3. Finished(t)'
    <3>1. \A v \in Workers : worker'[v].pc \in {"done", "skill"} => worker'[v] = worker[v]
      BY <1>3
    <3>2. Clean(t)' => Clean(t)
      BY <1>7 DEF Clean
    <3> QED
      BY <1>4, <1>7, <3>1, <3>2 DEF TokenInv, Finished, StaysCompleted
  <2> QED
    BY <1>4, <1>7, <2>1, <2>2, <2>3, TokenGoes
<1>8. ASSUME NEW removed \in BOOLEAN, FailDay(w, removed) PROVE TokenInv(t)'
  <2>1. /\ worker[w].pc \in Scheduling /\ Void(w) /\ mishap' = mishap
        /\ queue' = queue /\ events' = events
    BY <1>8 DEF FailDay
  <2>2. RowsSame /\ StaysCompleted(t) /\ Children(t)' = Children(t)
    BY <2>1, VoidRows, SameRows
  <2>3. CASE ~Opens(w, t)
    <3>1. NoToken(w, t)
      BY <2>1, <2>3 DEF NoToken, Runs, Makes, Scheduling, Running
    <3> QED
      BY <1>6, <2>1, <2>2, <3>1 DEF RowsSame, Alive
  <2>4. CASE Opens(w, t)
    <3>1. t \notin Committed
      BY <2>1, <2>4, VoidRows DEF Opens, Opening
    <3>2. ~\E v \in Workers : worker'[v].pc \in Opening
      BY <1>1, <1>3, <2>1 DEF OneScheduler, Opening, Scheduling
    <3>3. ~Alive(t)'
      BY <2>2, <3>1, <3>2 DEF Alive, RowsSame
    <3> QED
      BY <1>7, <2>1, <2>2, <3>3 DEF TokenKept
  <2> QED
    BY <2>3, <2>4
<1>9. CASE CommitUnheard(w)
  <2>1. /\ worker[w].pc = "marked" /\ queue' = queue /\ events' = events /\ mishap' = mishap
        /\ worker[w].task \in Tasks /\ row[worker[w].task].status = "open"
    BY <1>1, <1>9 DEF CommitUnheard, Job, WorkerType, Opening, flowHistory
  <2>2. RowAdded(worker[w].task, Task(1, None, TRUE)) /\ Task(1, None, TRUE).parent = None
    BY <1>9, <2>1 DEF CommitUnheard, RowAdded, Committed, Unseen, Task
  <2>3. Children(t)' = Children(t) /\ StaysCompleted(t)
    BY <2>2, ChildrenGrow DEF FlowConstants
  <2>4. t \in Committed' => Alive(t)
    BY <2>1, <2>2, ChildrenGrow DEF Alive, Opening
  <2>5. NoToken(w, t)
    BY <2>1 DEF NoToken, Opens, Runs, Makes, Running
  <2> QED
    BY <1>6, <2>1, <2>3, <2>4, <2>5
<1>10. ASSUME NEW what \in {"failed", "lost"}, NoteFault(w, what)
       PROVE  /\ t \in Orphaned(w) => mishap'[t] = mishap[t] \cup {"lost"}
              /\ t \notin Orphaned(w) /\ t = worker[w].task => mishap'[t] = mishap[t] \cup {what}
              /\ mishap[t] \subseteq mishap'[t]
  <2>1. mishap'[t] = CASE t \in Orphaned(w)   -> mishap[t] \cup {"lost"}
                       [] t = worker[w].task -> mishap[t] \cup {what}
                       [] OTHER              -> mishap[t]
    BY <1>10 DEF NoteFault
  <2>2. CASE t \in Orphaned(w)
    <3>1. t # worker[w].task
      BY <1>1, <2>2 DEF Orphaned, Job
    <3> QED
      BY <2>1, <2>2, <3>1
  <2>3. CASE t \notin Orphaned(w) /\ t = worker[w].task
    BY <2>1, <2>3
  <2>4. CASE t \notin Orphaned(w) /\ t # worker[w].task
    BY <2>1, <2>4
  <2> QED
    BY <2>2, <2>3, <2>4
<1>11. CASE FailTask(w)
  <2>1. /\ NoteFault(w, "failed") /\ row' = row /\ worker[w].pc \in Executing
        /\ worker[w].task \in Tasks /\ worker[w].attempt \in Attempts
    BY <1>1, <1>11 DEF FailTask, Executing, Job, Committed, WorkerType
  <2>2. RowsSame /\ StaysCompleted(t) /\ Children(t)' = Children(t)
    BY <2>1, NoRowsChange, SameRows DEF StaysCompleted
  <2>3. CASE t = worker[w].task
    <3>1. t \notin Orphaned(w)
      BY <1>1, <2>3 DEF Orphaned, Job
    <3>2. ~Clean(t)' /\ mishap[t] \subseteq mishap'[t]
      BY <1>10, <2>1, <2>3, <3>1 DEF Clean
    <3> QED
      BY <3>2, NotClean
  <2>4. CASE t # worker[w].task
    <3>1. queue'[t] = queue[t]
      BY <1>1, <1>11, <2>4 DEF FailTask, FlowTypeOK
    <3>2. \E b \in Attempts : Repush(w, b)
      <4>1. worker[w].attempt < MaxRetries => worker[w].attempt + 1 \in Attempts
        BY <2>1 DEF Attempts, FlowConstants
      <4> QED
        BY <1>11, <2>1, <4>1 DEF FailTask
    <3>3. events'[t] = events[t]
      BY <2>1, <2>4, <3>2, RepushAdds
    <3>4. mishap[t] \subseteq mishap'[t]
      BY <1>10, <2>1
    <3>5. CASE NoToken(w, t)
      BY <1>6, <2>2, <3>1, <3>3, <3>4, <3>5 DEF RowsSame, Alive
    <3>6. CASE ~NoToken(w, t)
      <4>1. t \in Orphaned(w)
        BY <2>4, <3>6 DEF NoToken, Opens, Runs, Makes, Orphaned
      <4>2. mishap'[t] # {}
        BY <1>10, <2>1, <4>1
      <4> QED
        BY <1>7, <2>2, <3>1, <3>3, <3>4, <4>2 DEF TokenKept
    <3> QED
      BY <3>5, <3>6
  <2> QED
    BY <2>3, <2>4
<1>12. CASE Crash(w)
  <2>1. NoteFault(w, "lost") /\ Void(w) /\ queue' = queue /\ events' = events
    BY <1>12 DEF Crash
  <2>2. RowsSame /\ StaysCompleted(t) /\ Children(t)' = Children(t)
    BY <2>1, VoidRows, SameRows
  <2>3. mishap[t] \subseteq mishap'[t]
    BY <1>10, <2>1
  <2>4. CASE NoToken(w, t)
    BY <1>6, <2>1, <2>2, <2>3, <2>4 DEF RowsSame, Alive
  <2>5. CASE ~NoToken(w, t)
    <3>1. t \in Orphaned(w) \/ t = worker[w].task
      BY <2>5 DEF NoToken, Opens, Runs, Makes, Orphaned
    <3>2. mishap'[t] # {}
      BY <1>10, <2>1, <3>1
    <3> QED
      BY <1>7, <2>1, <2>2, <2>3, <3>2 DEF TokenKept
  <2> QED
    BY <2>4, <2>5
<1> QED
  BY <1>8, <1>9, <1>11, <1>12

\* The request ends before its push
LEMMA LossKeepsTokens ==
  ASSUME FlowConstants, BaseInv, BaseInv', Tokens, NEW x \in Tasks, LoseRequest(x)
  PROVE  Tokens'
<1>1. FlowTypeOK /\ FlowTypeOK'
  BY DEF BaseInv
<1>2. /\ row' = row /\ queue' = queue /\ events' = events /\ worker' = worker
      /\ unsent' = unsent \ {x} /\ mishap' = [mishap EXCEPT ![x] = @ \cup {"lost"}]
  BY DEF LoseRequest, Note
<1> SUFFICES ASSUME NEW t \in Tasks PROVE TokenInv(t)'
  BY DEF Tokens
<1>3. /\ RowsSame /\ Children(t)' = Children(t) /\ StaysCompleted(t) /\ TokenInv(t)
      /\ mishap[t] \subseteq mishap'[t]
  <2>1. RowsSame /\ Children(t)' = Children(t) /\ StaysCompleted(t) /\ TokenInv(t)
    BY <1>2, NoRowsChange, SameRows DEF StaysCompleted, Tokens
  <2>2. mishap[t] \subseteq mishap'[t]
    BY <1>1, <1>2 DEF FlowTypeOK
  <2> QED
    BY <2>1, <2>2
<1>4. CASE t # x
  <2>1. Alive(t)' => Alive(t)
    BY <1>2, <1>3 DEF Alive, RowsSame
  <2> QED
    BY <1>1, <1>2, <1>3, <1>4, <2>1, NothingMoves
<1>5. CASE t = x
  <2>1. mishap'[t] # {}
    BY <1>1, <1>2, <1>5 DEF FlowTypeOK
  <2>2. \A m, n : At(t, m, n)' => At(t, m, n)
    BY <1>2, <1>3 DEF At, Opens, Runs, Makes
  <2>3. Plain(t) => Plain(t)'
    BY <1>2 DEF Plain, Runs
  <2>4. Clean(t)' => Clean(t)
    BY <1>3 DEF Clean
  <2>5. Finished(t)'
    BY <1>2, <1>3, <2>4 DEF TokenInv, Finished, StaysCompleted
  <2> QED
    BY <1>3, <2>1, <2>2, <2>3, <2>5, TokenGoes DEF TokenKept
<1> QED
  BY <1>4, <1>5

LEMMA TokensHold == FlowSpec => []Tokens
<1>1. FlowInit => Tokens
  <2> SUFFICES ASSUME FlowInit, NEW t \in Tasks PROVE TokenInv(t)
    BY DEF Tokens
  <2>1. Committed = {} /\ Children(t) = {}
    BY DEF FlowInit, Committed, NoRow, Unseen, Children
  <2>2. /\ \A v \in Workers : worker[v].pc = "idle"
        /\ unsent = {} /\ 0 \in Attempts
        /\ \A a \in Attempts : queue[t][a] = 0
        /\ \A a \in Attempts, e \in Tries : events[t][a][e] = 0
    BY FlowConstantsHold DEF FlowInit, Idle, Attempts, FlowConstants
  <2>3. \A k, i : ~At(t, k, i)
    BY <2>1, <2>2 DEF At, Opens, Makes, Runs, Running
  <2>4. Plain(t)
    BY <2>2 DEF Plain, Runs, Running
  <2>5. ~Alive(t)
    BY <2>1, <2>2 DEF Alive, Opening
  <2>6. Finished(t)
    BY <2>1, <2>2 DEF Finished
  <2> QED
    BY <2>3, <2>4, <2>5, <2>6 DEF TokenInv, OneToken, Single, TokenKept
<1>2. BaseInv /\ BaseInv' /\ Tokens /\ [FlowNext]_flowVars => Tokens'
  <2> SUFFICES ASSUME BaseInv, BaseInv', Tokens, [FlowNext]_flowVars PROVE Tokens'
    OBVIOUS
  <2>1. CASE UNCHANGED flowVars
    <3> SUFFICES ASSUME NEW t \in Tasks PROVE TokenInv(t)'
      BY DEF Tokens
    <3>1. TokenInv(t) /\ FlowTypeOK /\ FlowTypeOK'
      BY DEF Tokens, BaseInv
    <3>2. /\ mishap' = mishap /\ row' = row /\ queue' = queue /\ events' = events
          /\ unsent' = unsent /\ worker' = worker
      BY <2>1 DEF flowVars, flowHistory
    <3>3. Children(t)' = Children(t) /\ (Alive(t)' => Alive(t)) /\ StaysCompleted(t)
      BY <3>2 DEF Children, Committed, Alive, StaysCompleted
    <3> QED
      BY <3>1, <3>2, <3>3, NothingMoves
  <2>2. ASSUME NEW w \in Workers, SchedulerStep(w) PROVE Tokens'
    BY <2>2, FlowConstantsHold, SchedulerKeepsTokens
  <2>3. ASSUME NEW w \in Workers, ExecutionStep(w) PROVE Tokens'
    BY <2>3, FlowConstantsHold, TakeKeepsTokens, NotFoundKeepsTokens, WorkKeepsTokens, LastKeepsTokens,
       CreateKeepsTokens, EnqueueKeepsTokens, EndKeepsTokens
    DEF ExecutionStep
  <2>4. CASE RequestStep
    BY <2>4, FlowConstantsHold, RequestKeepsTokens DEF RequestStep
  <2>5. CASE FlowFault
    BY <2>5, FlowConstantsHold, FaultKeepsTokens, LossKeepsTokens DEF FlowFault
  <2> QED
    BY <2>1, <2>2, <2>3, <2>4, <2>5 DEF FlowNext, WorkerStep
<1>3. FlowSpec => []BaseInv
  BY BaseHolds
<1> QED
  BY <1>1, <1>2, <1>3, PTL DEF FlowSpec

------------------------------------------------------------------------------
\* Every variable of the chains keeps its type: a step never exceeds the last one, and no
\* list has a negative number of copies (create_next_flow_task_if_needed, queue_worker.py).
THEOREM FlowTyping == FlowSpec => []FlowTypeOK
<1>1. BaseInv => FlowTypeOK
  BY DEF BaseInv
<1> QED
  BY <1>1, BaseHolds, PTL

\* There is one daily flow a day, however many workers try and whoever of them dies, fails
\* or is not heard (run_daily_scheduler).
THEOREM OneFlowADay == FlowSpec => []OneDailyFlow
<1>1. BaseInv => OneDailyFlow
  BY DEF BaseInv
<1> QED
  BY <1>1, BaseHolds, PTL

\* A chain forks only at a task that failed or was assigned again, and every successor
\* follows its parent by one step and has a result of it (_handle_task_direct).
THEOREM ChainsAreChains == FlowSpec => []ChainsDoNotFork
<1>1. BaseInv /\ Tokens => ChainsDoNotFork
  <2> SUFFICES ASSUME BaseInv, Tokens PROVE ChainsDoNotFork
    OBVIOUS
  <2>1. ASSUME NEW t \in Tasks, NEW u \in Children(t), NEW v \in Children(t), Clean(t) PROVE u = v
    <3>1. Single(t) /\ At(t, "next", u) /\ At(t, "next", v)
      BY <2>1 DEF Tokens, TokenInv, OneToken, At
    <3> QED
      BY <3>1 DEF Single
  <2>2. \A u \in Committed : u \in Tasks /\ Chained(u)
    BY DEF BaseInv, Committed
  <2> QED
    BY <2>1, <2>2 DEF ChainsDoNotFork, Clean, Chained
<1> QED
  BY <1>1, BaseHolds, TokensHold, PTL

\* A task that is in no list and with nobody has run and has its successor, or a mishap of
\* it is known (process_next_event, create_next_flow_task_if_needed).
THEOREM NoTaskIsLost == FlowSpec => []NothingLost
<1>1. BaseInv /\ Tokens => NothingLost
  <2> SUFFICES ASSUME BaseInv, Tokens, NEW t \in Committed,
                      ~InLists(t), ~Held(t), t \notin unsent, mishap[t] = {}
               PROVE  row[t].status = "completed" /\ Continued(t)
    BY DEF NothingLost
  <2>1. t \in Tasks /\ Clean(t) /\ Alive(t) /\ 0 \in Attempts
    BY FlowConstantsHold DEF Committed, Clean, Alive, Attempts, FlowConstants
  <2>2. Token(t) \/ Ended(t)
    BY <2>1 DEF Tokens, TokenInv, TokenKept
  <2>3. Token(t) => Children(t) # {}
    BY <2>1 DEF Token, At, InLists, Held, Opens, Runs, Makes
  <2>4. Children(t) # {} => row[t].status = "completed"
    BY <2>1 DEF Tokens, TokenInv, Finished
  <2> QED
    BY <2>2, <2>3, <2>4 DEF Ended, Continued
<1> QED
  BY <1>1, BaseHolds, TokensHold, PTL
==============================================================================
