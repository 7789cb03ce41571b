------------------------ MODULE ComputerWorkflow_proof ------------------------
(***************************************************************************)
(* Proofs about ComputerWorkflow for every number of steps, checkpoints,    *)
(* requests and faults.                                                     *)
(***************************************************************************)
EXTENDS ComputerWorkflow, TLAPS

(***************************************************************************)
(* The stored steps are a prefix of the plan.  The row lock belongs to the  *)
(* request that works on the step after it, which is the only one that can  *)
(* be performed without being stored or counted as wasted.                  *)
(***************************************************************************)

Performing(n) == lock # None /\ req[lock].pc = "performed" /\ req[lock].step = n

\* What a commit of an answer writes: both of the columns, or none of them
Pair(answer, mark) ==
  \/ answer = "waiting"  /\ mark = "asked"
  \/ answer = "approved" /\ mark = "allowed"
  \/ answer = "rejected" /\ mark = "cancelled"

StepInv ==
  /\ stored = 1 .. workflow.current
  /\ \A n \in Steps :
       /\ n \in stored \/ Performing(n) => performed[n] = wasted[n] + 1
       /\ n \notin stored /\ ~Performing(n) => performed[n] = wasted[n]
       /\ performed[n] > 0 => n <= workflow.current + 1 /\ (n \in Guarded => n \in allowed)
       /\ n \in stored => <<n, evidence[n]>> \in files
  /\ workflow.status = "completed" => workflow.current = N
  /\ results = IF workflow.current = N THEN 1 ELSE 0

CheckpointInv ==
  \A c \in Checkpoints :
    /\ checkpoint[c].answer = "approved" => checkpoint[c].of \in allowed
    /\ checkpoint[c].of \notin {0} \cup stored \cup doubled =>
         Pair(checkpoint[c].answer, step[checkpoint[c].of])

Executes == {"open", "locked", "performed"}

RequestInv(r) ==
  /\ req[r].pc \in Executes \cup {"ask"} =>
       req[r].step \in Steps /\ req[r].step <= workflow.current + 1
  /\ req[r].pc \in Executes /\ req[r].step \in Guarded => req[r].step \in allowed
  /\ req[r].pc \in {"locked", "performed"} => req[r].step = workflow.current + 1
  /\ req[r].pc = "performed" => <<req[r].step, performed[req[r].step]>> \in files
  /\ req[r].pc = "finish" => workflow.current = N
  /\ req[r].pc = "ask" /\ ~req[r].missed /\ req[r].step \notin doubled =>
       \A c \in Checkpoints : checkpoint[c].of # req[r].step
  /\ req[r].pc \in {"allow", "deny"} =>
       /\ req[r].step \in Steps /\ req[r].checkpoint \in Checkpoints
       /\ checkpoint[req[r].checkpoint].of = req[r].step
       /\ req[r].step \notin stored \cup doubled => Pair(req[r].answer, req[r].was)
  /\ req[r].pc = "unsure" =>
       /\ req[r].step \in Steps /\ req[r].shot <= performed[req[r].step]
       /\ Performing(req[r].step) => req[r].shot < performed[req[r].step]

IInv == /\ TypeOK /\ StepInv /\ CheckpointInv /\ OneQuestion
        /\ \A r \in Requests : RequestInv(r)

LEMMA IdleType == Idle \in RequestType /\ Idle.pc = "idle"
BY StepsAssumption DEF Idle, RequestType, NoWorkflow, Rows, Pcs, Marks, Answers, Statuses

LEMMA InitEstablishesInvariant == Init => IInv
<1> SUFFICES ASSUME Init PROVE IInv
  OBVIOUS
<1>1. \A r \in Requests : req[r].pc = "idle"
  BY IdleType DEF Init
<1>2. TypeOK
  BY <1>1, StepsAssumption, FaultsAssumption, NoneAssumption, IdleType
     DEF Init, TypeOK, NoWorkflow, Rows, Statuses, Marks, NoCheckpoint, CheckpointType, Answers
<1>3. /\ stored = {} /\ workflow.current = 0 /\ workflow.status = "none"
      /\ lock = None /\ N # 0 /\ results = 0
      /\ \A n \in Steps : performed[n] = 0 /\ wasted[n] = 0
      /\ \A c \in Checkpoints : checkpoint[c].of = 0 /\ checkpoint[c].answer = "none"
  BY StepsAssumption DEF Init, stored, NoWorkflow, NoCheckpoint
<1>4. StepInv
  BY <1>3 DEF StepInv, Performing
<1>5. CheckpointInv /\ OneQuestion
  BY <1>3 DEF CheckpointInv, OneQuestion
<1>6. \A r \in Requests : RequestInv(r)
  BY <1>1 DEF RequestInv, Executes
<1> QED
  BY <1>2, <1>4, <1>5, <1>6 DEF IInv

------------------------------------------------------------------------------
(* Lemmas                                                                   *)

TableTypes ==
  /\ workflow \in Rows
  /\ step \in [Steps -> Marks]
  /\ checkpoint \in [Checkpoints -> CheckpointType]
  /\ evidence \in [Steps -> Nat]
  /\ files \subseteq Steps \X Nat
  /\ lock \in Requests \cup {None}
  /\ results \in Nat
  /\ faults \in 0 .. MaxFaults
  /\ performed \in [Steps -> Nat] /\ wasted \in [Steps -> Nat]
  /\ allowed \subseteq Steps /\ doubled \subseteq Steps

\* What the invariant says of one request
LEMMA Facts ==
  ASSUME IInv, NEW r \in Requests
  PROVE  /\ TypeOK /\ TableTypes /\ StepInv /\ CheckpointInv /\ OneQuestion /\ RequestInv(r)
         /\ req[r] \in RequestType /\ (req[r].pc \in {"locked", "performed"} <=> lock = r)
         /\ N \in Nat /\ N > 0 /\ workflow.current \in 0 .. N /\ stored = 1 .. workflow.current
         /\ \A n \in Steps : performed[n] \in Nat /\ wasted[n] \in Nat
         /\ \A c \in Checkpoints : checkpoint[c] \in CheckpointType
<1>1. TypeOK /\ StepInv /\ CheckpointInv /\ OneQuestion /\ RequestInv(r)
  BY DEF IInv
<1>2. TableTypes
  BY <1>1 DEF TypeOK, TableTypes
<1>3. req \in [Requests -> RequestType]
  BY <1>1 DEF TypeOK
<1>4. req[r] \in RequestType
  BY <1>3
<1>5. req[r].pc \in {"locked", "performed"} <=> lock = r
  BY <1>1 DEF TypeOK
<1>6. N \in Nat /\ N > 0
  BY StepsAssumption
<1>7. workflow.current \in 0 .. N
  BY <1>2 DEF TableTypes, Rows
<1>8. /\ \A n \in Steps : performed[n] \in Nat /\ wasted[n] \in Nat
      /\ \A c \in Checkpoints : checkpoint[c] \in CheckpointType
  BY <1>2 DEF TableTypes
<1>9. stored = 1 .. workflow.current
  BY <1>1 DEF StepInv
<1> QED
  BY <1>1, <1>2, <1>4, <1>5, <1>6, <1>7, <1>8, <1>9

\* A request that a step leaves as it is, or marks as having missed something
Kept(q) ==
  \/ req'[q].pc = "idle" /\ req[q].pc = "idle"
  \/ /\ req'[q].pc = req[q].pc /\ req'[q].step = req[q].step /\ req'[q].shot = req[q].shot
     /\ req'[q].checkpoint = req[q].checkpoint
     /\ req'[q].answer = req[q].answer /\ req'[q].was = req[q].was
     /\ req[q].missed => req'[q].missed

LEMMA KeepsRequest ==
  ASSUME IInv, TableTypes', NEW q \in Requests, Kept(q),
         workflow.current <= workflow'.current, stored \subseteq stored',
         req[q].pc \in {"locked", "performed"} => workflow'.current = workflow.current,
         allowed \subseteq allowed', doubled \subseteq doubled',
         \A n \in Steps :
           /\ performed[n] <= performed'[n]
           /\ Performing(n)' => Performing(n) \/ performed[n] < performed'[n]
           /\ req[q].pc = "performed" /\ req[q].step = n =>
                performed'[n] = performed[n] /\ <<n, performed[n]>> \in files',
         req[q].pc = "ask" /\ ~req'[q].missed =>
           \A c \in Checkpoints : checkpoint'[c].of = checkpoint[c].of,
         req[q].pc \in {"allow", "deny"} =>
           \A c \in Checkpoints : checkpoint[c].of # 0 => checkpoint'[c].of = checkpoint[c].of
  PROVE  RequestInv(q)'
<1>0. CASE req'[q].pc = "idle"
  BY <1>0 DEF RequestInv, Executes
<1> SUFFICES ASSUME req'[q].pc # "idle" PROVE RequestInv(q)'
  BY <1>0
<1>1. /\ RequestInv(q) /\ N \in Nat /\ workflow.current \in 0 .. N
      /\ \A n \in Steps : performed[n] \in Nat
  BY Facts
<1>2. workflow'.current \in 0 .. N /\ \A n \in Steps : performed'[n] \in Nat
  BY DEF TableTypes, Rows
<1>3. req[q].pc \in Executes \cup {"ask"} =>
        req[q].step \in Steps /\ req[q].step <= workflow'.current + 1
  BY <1>1, <1>2 DEF RequestInv, Steps
<1>4. req[q].pc \in Executes /\ req[q].step \in Guarded => req[q].step \in allowed'
  BY <1>1 DEF RequestInv
<1>5. req[q].pc \in {"locked", "performed"} => req[q].step = workflow'.current + 1
  BY <1>1 DEF RequestInv
<1>6. req[q].pc = "performed" => <<req[q].step, performed'[req[q].step]>> \in files'
  BY <1>3 DEF Executes
<1>7. req[q].pc = "finish" => workflow'.current = N
  BY <1>1, <1>2 DEF RequestInv
<1>8. req[q].pc = "ask" /\ ~req'[q].missed /\ req[q].step \notin doubled' =>
        \A c \in Checkpoints : checkpoint'[c].of # req[q].step
  BY <1>1 DEF RequestInv, Kept
<1>9. req[q].pc \in {"allow", "deny"} =>
        /\ req[q].step \in Steps /\ req[q].checkpoint \in Checkpoints
        /\ checkpoint'[req[q].checkpoint].of = req[q].step
        /\ req[q].step \notin stored' \cup doubled' => Pair(req[q].answer, req[q].was)
  BY <1>1 DEF RequestInv, Steps
<1>10. ASSUME req[q].pc = "unsure"
       PROVE  \E n \in Steps :
                /\ req[q].step = n /\ req[q].shot <= performed'[n]
                /\ Performing(n)' => req[q].shot < performed'[n]
  <2>1. PICK n \in Steps : /\ req[q].step = n /\ req[q].shot <= performed[n]
                           /\ Performing(n) => req[q].shot < performed[n]
    BY <1>1, <1>10 DEF RequestInv
  <2>2. req[q].shot \in Nat /\ performed[n] \in Nat /\ performed'[n] \in Nat
    BY <1>1, <1>2, Facts DEF RequestType
  <2>3. performed[n] <= performed'[n]
    OBVIOUS
  <2>4. Performing(n)' => req[q].shot < performed'[n]
    <3>1. Performing(n)' => Performing(n) \/ performed[n] < performed'[n]
      OBVIOUS
    <3> QED
      BY <2>1, <2>2, <2>3, <3>1
  <2> QED
    BY <2>1, <2>2, <2>3, <2>4
<1>11. req'[q].pc = "unsure" =>
        /\ req'[q].step \in Steps /\ req'[q].shot <= performed'[req'[q].step]
        /\ Performing(req[q].step)' => req'[q].shot < performed'[req'[q].step]
  BY <1>10 DEF Kept
<1> QED
  BY <1>3, <1>4, <1>5, <1>6, <1>7, <1>8, <1>9, <1>11 DEF RequestInv, Kept

\* The parts of the invariant after a step of r
LEMMA Assembled ==
  ASSUME NEW r \in Requests, TableTypes', req' \in [Requests -> RequestType],
         \A q \in Requests : req'[q].pc \in {"locked", "performed"} <=> lock' = q,
         StepInv', CheckpointInv', OneQuestion', RequestInv(r)',
         \A q \in Requests \ {r} : RequestInv(q)'
  PROVE  IInv'
<1>1. TypeOK'
  BY DEF TypeOK, TableTypes
<1>2. \A q \in Requests : RequestInv(q)'
  OBVIOUS
<1> QED
  BY <1>1, <1>2 DEF IInv

\* A step that only changes what r, which holds no rows, is doing
LEMMA LoadKeeps ==
  ASSUME IInv, NEW r \in Requests, NEW x \in RequestType, req' = [req EXCEPT ![r] = x],
         UNCHANGED <<rows, files, faults, history>>,
         req[r].pc \notin {"locked", "performed"}, x.pc \notin {"locked", "performed"},
         RequestInv(r)'
  PROVE  IInv'
<1>1. /\ TypeOK /\ TableTypes /\ StepInv /\ CheckpointInv /\ OneQuestion /\ lock # r
  BY Facts
<1>2. req \in [Requests -> RequestType]
  BY <1>1 DEF TypeOK
<1>3. /\ req' \in [Requests -> RequestType] /\ req'[r] = x
      /\ \A q \in Requests \ {r} : req'[q] = req[q]
  BY <1>2
<1>4. TableTypes'
  BY <1>1 DEF TableTypes, rows, history
<1>5. \A q \in Requests : req'[q].pc \in {"locked", "performed"} <=> lock' = q
  BY <1>1, <1>3 DEF TypeOK, rows
<1>6. lock # None => req'[lock] = req[lock]
  BY <1>1, <1>3 DEF TableTypes
<1>7. \A n : Performing(n)' <=> Performing(n)
  BY <1>6 DEF Performing, rows
<1>8. stored' = stored
  BY DEF stored, rows
<1>9. StepInv'
  BY <1>1, <1>7, <1>8 DEF StepInv, rows, history
<1>10. CheckpointInv' /\ OneQuestion'
  BY <1>1, <1>8 DEF CheckpointInv, OneQuestion, rows, history
<1>11. ASSUME NEW q \in Requests \ {r} PROVE RequestInv(q)'
  BY <1>3, <1>7, <1>8, Facts DEF RequestInv, rows, history
<1> QED
  BY <1>3, <1>4, <1>5, <1>9, <1>10, <1>11, Assembled

\* A commit that changes the status, an answer or the status of a step, and ends r
LEMMA DecisionKeeps ==
  ASSUME IInv, NEW r \in Requests, lock = None, TableTypes',
         UNCHANGED <<evidence, files, lock, results, faults, performed, wasted>>,
         workflow'.current = workflow.current, allowed \subseteq allowed',
         doubled \subseteq doubled', req' \in [Requests -> RequestType], req'[r].pc = "idle",
         \A q \in Requests \ {r} :
           /\ Kept(q)
           /\ req[q].pc = "ask" /\ ~req'[q].missed =>
                \A c \in Checkpoints : checkpoint'[c].of = checkpoint[c].of,
         \A c \in Checkpoints : checkpoint[c].of # 0 => checkpoint'[c].of = checkpoint[c].of,
         CheckpointInv', OneQuestion',
         workflow'.status = "completed" => workflow.current = N
  PROVE  IInv'
<1>1. /\ TypeOK /\ TableTypes /\ StepInv /\ None \notin Requests
      /\ N \in Nat /\ workflow.current \in 0 .. N
      /\ \A n \in Steps : performed[n] \in Nat
  BY Facts, NoneAssumption
<1>2. \A q \in Requests : req[q].pc \notin {"locked", "performed"}
  BY <1>1 DEF TypeOK
<1>3. \A q \in Requests : req'[q].pc \notin {"locked", "performed"}
  BY <1>2 DEF Kept
<1>4. \A q \in Requests : req'[q].pc \in {"locked", "performed"} <=> lock' = q
  BY <1>1, <1>3
<1>5. stored' = stored /\ \A n : ~Performing(n) /\ ~Performing(n)'
  BY DEF stored, Performing
<1>6. StepInv'
  BY <1>1, <1>5 DEF StepInv
<1>7. ASSUME NEW q \in Requests \ {r} PROVE RequestInv(q)'
  <2>1. \A n \in Steps :
           /\ performed[n] <= performed'[n]
           /\ Performing(n)' => Performing(n) \/ performed[n] < performed'[n]
           /\ req[q].pc = "performed" /\ req[q].step = n =>
                performed'[n] = performed[n] /\ <<n, performed[n]>> \in files'
    BY <1>1, <1>2, <1>5
  <2>2. Kept(q) /\ workflow.current <= workflow'.current /\ stored \subseteq stored'
    BY <1>1, <1>5
  <2>3. req[q].pc \in {"locked", "performed"} => workflow'.current = workflow.current
    OBVIOUS
  <2> QED
    BY <2>1, <2>2, <2>3, KeepsRequest
<1>8. RequestInv(r)'
  BY DEF RequestInv, Executes
<1> QED
  BY <1>4, <1>6, <1>7, <1>8, Assembled

\* What the write of a status does to the requests
LEMMA WroteRequests ==
  ASSUME IInv, NEW r \in Requests, WroteStatus(r)
  PROVE  /\ req' \in [Requests -> RequestType] /\ req'[r].pc = "idle"
         /\ \A q \in Requests \ {r} : Kept(q) /\ (req[q].pc # "idle" => req'[q].missed)
<1>1. req'[r] = Idle /\ Idle \in RequestType /\ Idle.pc = "idle"
  BY IdleType DEF WroteStatus
<1>2. ASSUME NEW q \in Requests \ {r}, req[q].pc = "idle"
      PROVE  req'[q] = Idle /\ req'[q] \in RequestType /\ Kept(q)
  BY <1>1, <1>2 DEF WroteStatus, Kept
<1>3. ASSUME NEW q \in Requests \ {r}, req[q].pc # "idle"
      PROVE  req'[q] \in RequestType /\ Kept(q) /\ req'[q].missed
  <2>1. req'[q] = [req[q] EXCEPT !.missed = TRUE]
    BY <1>3 DEF WroteStatus
  <2>2. req[q] \in RequestType
    BY Facts
  <2> QED
    BY <2>1, <2>2 DEF RequestType, Kept
<1>4. req' = [q \in Requests |-> req'[q]]
  BY DEF WroteStatus
<1>5. req' \in [Requests -> RequestType]
  BY <1>1, <1>2, <1>3, <1>4
<1> QED
  BY <1>1, <1>2, <1>3, <1>5

------------------------------------------------------------------------------
(* Every step preserves the invariant: requests that begin                  *)

LEMMA LoadDecisionPreserves ==
  ASSUME IInv, NEW r \in Requests, NEW op \in {"approve", "reject", "pause", "cancel"},
         LoadDecision(r, op)
  PROVE  IInv'
<1> DEFINE x == [Idle EXCEPT !.pc = op, !.seen = [workflow EXCEPT !.current = 0]]
<1>0. workflow \in Rows /\ 0 \in 0 .. N
  BY Facts DEF TableTypes
<1>1. [workflow EXCEPT !.current = 0] \in Rows
  BY <1>0 DEF Rows
<1>2. x \in RequestType /\ x.pc = op
  BY <1>1, IdleType DEF RequestType, Pcs, Idle
<1>3. req' = [req EXCEPT ![r] = x]
  BY DEF LoadDecision, Open
<1>4. req \in [Requests -> RequestType]
  BY DEF IInv, TypeOK
<1> HIDE DEF x
<1>5. RequestInv(r)'
  BY <1>2, <1>3, <1>4 DEF RequestInv, Executes
<1>6. req[r].pc = "idle" /\ UNCHANGED <<rows, files, faults, history>>
  BY DEF LoadDecision
<1> QED
  BY <1>2, <1>3, <1>5, <1>6, LoadKeeps

LEMMA LoadCheckpointPreserves ==
  ASSUME IInv, NEW r \in Requests, NEW c \in Checkpoints, NEW op \in {"allow", "deny"},
         LoadCheckpoint(r, c, op)
  PROVE  IInv'
<1> DEFINE x == [Idle EXCEPT !.pc = op, !.seen.status = workflow.status, !.checkpoint = c,
                             !.step = checkpoint[c].of, !.was = step[checkpoint[c].of],
                             !.answer = checkpoint[c].answer]
<1>1. checkpoint[c].of \in Steps /\ checkpoint[c].answer \in Answers
  BY Facts DEF LoadCheckpoint, CheckpointType, Steps
<1>2. step[checkpoint[c].of] \in Marks /\ workflow.status \in Statuses
  BY <1>1, Facts DEF TableTypes, Rows
<1>3. /\ x.pc = op /\ x.checkpoint = c /\ x.step = checkpoint[c].of
      /\ x.was = step[checkpoint[c].of] /\ x.answer = checkpoint[c].answer
  BY DEF Idle
<1>4. x \in RequestType
  <2>1. ASSUME NEW q \in RequestType
        PROVE  [q EXCEPT !.pc = op, !.seen.status = workflow.status, !.checkpoint = c,
                         !.step = checkpoint[c].of, !.was = step[checkpoint[c].of],
                         !.answer = checkpoint[c].answer] \in RequestType
    <3>1. q.seen \in Rows
      BY DEF RequestType
    <3>2. [q.seen EXCEPT !.status = workflow.status] \in Rows
      BY <1>2, <3>1 DEF Rows
    <3>3. checkpoint[c].of \in 0 .. N + 1
      BY <1>1, StepsAssumption DEF Steps
    <3> QED
      BY <1>1, <1>2, <3>2, <3>3 DEF RequestType, Pcs
  <2> QED
    BY <2>1, IdleType
<1>5. req' = [req EXCEPT ![r] = x]
  BY DEF LoadCheckpoint
<1>6. req \in [Requests -> RequestType]
  BY DEF IInv, TypeOK
<1> HIDE DEF x
<1>7. req'[r] = x
  BY <1>5, <1>6
<1>8. checkpoint' = checkpoint /\ stored' = stored /\ doubled' = doubled
  BY DEF LoadCheckpoint, rows, history, stored
<1>9. x.step \notin stored \cup doubled => Pair(x.answer, x.was)
  BY <1>1, <1>3, Facts DEF CheckpointInv, Steps
<1>10. RequestInv(r)'
  BY <1>1, <1>3, <1>7, <1>8, <1>9 DEF RequestInv, Executes
<1>11. req[r].pc = "idle" /\ UNCHANGED <<rows, files, faults, history>>
  BY DEF LoadCheckpoint
<1> QED
  BY <1>3, <1>4, <1>5, <1>10, <1>11, LoadKeeps

\* The next step is begun
LEMMA BeginKeeps ==
  ASSUME IInv, NEW r \in Requests, req[r].pc = "idle", Begin(r, NextStep),
         NextStep <= N => Runnable(NextStep),
         UNCHANGED <<rows, files, faults, history>>
  PROVE  IInv'
<1> DEFINE n == NextStep
           x == [Idle EXCEPT !.pc = IF n > N THEN "finish"
                                    ELSE IF n \in Guarded /\ ~Confirmed(n) THEN "ask" ELSE "open",
                             !.step = n]
<1>1. /\ N \in Nat /\ workflow.current \in 0 .. N /\ n = workflow.current + 1
      /\ stored = 1 .. workflow.current
  BY Facts DEF NextStep, StepInv
<1>2. /\ x.pc \in {"finish", "ask", "open"} /\ x.step = n
      /\ n > N <=> x.pc = "finish"
      /\ x.pc = "ask" => ~Confirmed(n)
      /\ x.pc = "open" /\ n \in Guarded => Confirmed(n)
  BY DEF Idle
<1>3. n \in 0 .. N + 1
  BY <1>1
<1>4. x \in RequestType
  BY <1>3, IdleType DEF RequestType, Pcs, Idle
<1>5. req' = [req EXCEPT ![r] = x]
  BY DEF Begin
<1>6. req \in [Requests -> RequestType]
  BY DEF IInv, TypeOK
<1> HIDE DEF x, n
<1>7. req'[r] = x
  BY <1>5, <1>6
<1>8. /\ checkpoint' = checkpoint /\ allowed' = allowed /\ doubled' = doubled
      /\ workflow' = workflow
  BY DEF rows, history
<1>9. x.pc # "finish" => n \in Steps \ stored
  BY <1>1, <1>2 DEF Steps
<1>10. ASSUME x.pc = "open", n \in Guarded PROVE n \in allowed
  <2>1. PICK c \in Checkpoints : checkpoint[c] = [of |-> n, answer |-> "approved"]
    BY <1>2, <1>10 DEF Confirmed
  <2>2. checkpoint[c].of = n /\ checkpoint[c].answer = "approved"
    BY <2>1
  <2> QED
    BY <2>2, Facts DEF CheckpointInv
<1>11. ASSUME x.pc = "ask", n \notin doubled, NEW c \in Checkpoints, checkpoint[c].of = n
       PROVE  FALSE
  <2>1. n \notin {0} \cup stored \cup doubled /\ n <= N
    BY <1>1, <1>9, <1>11 DEF Steps
  <2>2. Pair(checkpoint[c].answer, step[n])
    BY <2>1, <1>11, Facts DEF CheckpointInv
  <2>3. step[n] \in {"todo", "allowed"}
    BY <2>1 DEF Runnable, n
  <2>4. checkpoint[c].answer = "approved"
    BY <2>2, <2>3 DEF Pair
  <2>5. checkpoint[c] = [of |-> n, answer |-> "approved"]
    BY <2>4, <1>11, Facts DEF CheckpointType
  <2> QED
    BY <2>5, <1>2, <1>11 DEF Confirmed
<1>12. n <= workflow.current + 1 /\ (x.pc = "finish" => workflow.current = N)
  BY <1>1, <1>2
<1>13. RequestInv(r)'
  BY <1>1, <1>2, <1>7, <1>8, <1>9, <1>10, <1>11, <1>12 DEF RequestInv, Executes
<1> QED
  BY <1>2, <1>4, <1>5, <1>13, LoadKeeps

------------------------------------------------------------------------------
(* ... decisions, and the answers to checkpoints                            *)

\* A commit of r, which writes the status or leaves it as it is
Ends(r) == Close(r) \/ WroteStatus(r)

LEMMA RequestKeeps ==
  ASSUME IInv, NEW r \in Requests, Ends(r)
  PROVE  /\ req' \in [Requests -> RequestType] /\ req'[r].pc = "idle"
         /\ \A q \in Requests \ {r} : Kept(q)
<1>1. CASE Close(r)
  <2>1. req \in [Requests -> RequestType] /\ req' = [req EXCEPT ![r] = Idle]
    BY <1>1 DEF IInv, TypeOK, Close
  <2>2. req' \in [Requests -> RequestType] /\ req'[r].pc = "idle"
    BY <2>1, IdleType
  <2>3. \A q \in Requests \ {r} : req'[q] = req[q]
    BY <2>1
  <2> QED
    BY <2>2, <2>3 DEF Kept
<1>2. CASE WroteStatus(r)
  BY <1>2, WroteRequests
<1> QED
  BY <1>1, <1>2 DEF Ends

LEMMA DecideWorkflowPreserves ==
  ASSUME IInv, NEW r \in Requests, DecideWorkflow(r)
  PROVE  IInv'
<1> DEFINE new == Outcome(req[r].pc)
<1>1. TableTypes /\ StepInv /\ CheckpointInv /\ OneQuestion /\ req \in [Requests -> RequestType]
  BY Facts DEF IInv, TypeOK
<1>2. new \in {"approved", "rejected", "paused", "cancelled"}
  BY DEF DecideWorkflow, Outcome, Answer
<1>3. /\ workflow'.status = (IF new = req[r].seen.status THEN workflow.status ELSE new)
      /\ workflow'.approval \in {"waiting", "approved", "rejected"}
      /\ workflow'.current = workflow.current /\ workflow' \in Rows
  <2>1. workflow \in Rows
    BY <1>1 DEF TableTypes
  <2>2. Answer(req[r].pc) \in {"none", "approved", "rejected"}
    BY DEF DecideWorkflow, Answer
  <2>3. new \in Statuses
    BY <1>2 DEF Statuses, Stopped
  <2> QED
    BY <2>1, <2>2, <2>3 DEF DecideWorkflow, Rows, Put
<1>4. Ends(r)
  <2>1. CASE new = req[r].seen.status
    BY <2>1 DEF DecideWorkflow, Ends
  <2>2. CASE new # req[r].seen.status
    BY <2>2 DEF DecideWorkflow, Ends
  <2> QED
    BY <2>1, <2>2
<1> HIDE DEF new
<1>5. /\ lock = None
      /\ UNCHANGED <<step, checkpoint, evidence, files, lock, results, faults,
                     performed, wasted, allowed, doubled>>
  BY DEF DecideWorkflow
<1>6. TableTypes'
  BY <1>1, <1>3, <1>4, <1>5, RequestKeeps DEF TableTypes
<1>7. CheckpointInv' /\ OneQuestion'
  BY <1>1, <1>5 DEF CheckpointInv, OneQuestion, stored
<1>8. workflow'.status = "completed" => workflow.current = N
  BY <1>1, <1>2, <1>3 DEF StepInv
<1> QED
  BY <1>3, <1>4, <1>5, <1>6, <1>7, <1>8, RequestKeeps, DecisionKeeps

\* An answer to a checkpoint keeps it and its step together
LEMMA AnswerKeeps ==
  ASSUME IInv, NEW r \in Requests, req[r].pc \in {"allow", "deny"}, NEW answer, NEW mark,
         \/ answer = "approved" /\ mark = "allowed" /\ req[r].step \in allowed'
         \/ answer = "rejected" /\ mark = "cancelled",
         allowed \subseteq allowed', DecideCheckpoint(r, answer, mark)
  PROVE  /\ checkpoint' \in [Checkpoints -> CheckpointType] /\ step' \in [Steps -> Marks]
         /\ \A c \in Checkpoints : checkpoint'[c].of = checkpoint[c].of
         /\ CheckpointInv' /\ OneQuestion'
<1> DEFINE k == req[r].checkpoint
           m == req[r].step
<1>1. /\ m \in Steps /\ k \in Checkpoints /\ checkpoint[k].of = m
      /\ m \notin stored \cup doubled => Pair(req[r].answer, req[r].was)
  BY Facts DEF RequestInv
<1>2. /\ checkpoint \in [Checkpoints -> CheckpointType] /\ step \in [Steps -> Marks]
      /\ CheckpointInv /\ OneQuestion
  BY Facts DEF TableTypes
<1>3. stored' = stored /\ doubled' = doubled
  BY DEF DecideCheckpoint, stored
<1>4. /\ checkpoint' = [checkpoint EXCEPT ![k].answer = Put(req[r].answer, answer, @)]
      /\ step' = [step EXCEPT ![m] = Put(req[r].was, mark, @)]
  BY DEF DecideCheckpoint
<1> HIDE DEF k, m
<1>5. /\ checkpoint'[k].answer = Put(req[r].answer, answer, checkpoint[k].answer)
      /\ step'[m] = Put(req[r].was, mark, step[m])
      /\ \A c \in Checkpoints : checkpoint'[c].of = checkpoint[c].of
      /\ \A c \in Checkpoints \ {k} : checkpoint'[c] = checkpoint[c]
      /\ \A n \in Steps \ {m} : step'[n] = step[n]
  BY <1>1, <1>2, <1>4 DEF CheckpointType
<1>6. checkpoint' \in [Checkpoints -> CheckpointType] /\ step' \in [Steps -> Marks]
  <2>1. Put(req[r].answer, answer, checkpoint[k].answer) \in Answers
    BY <1>1, <1>2 DEF Put, Answers, CheckpointType
  <2>2. Put(req[r].was, mark, step[m]) \in Marks
    BY <1>1, <1>2 DEF Put, Marks
  <2> QED
    BY <1>2, <1>4, <2>1, <2>2 DEF CheckpointType
<1>7. OneQuestion'
  BY <1>2, <1>3, <1>5 DEF OneQuestion
<1>8. ASSUME NEW c \in Checkpoints, checkpoint'[c].answer = "approved"
      PROVE  checkpoint'[c].of \in allowed'
  <2>1. CASE c = k
    <3>1. checkpoint[k].answer = "approved" \/ m \in allowed'
      BY <1>5, <1>8, <2>1 DEF Put, m
    <3> QED
      BY <1>1, <1>2, <1>5, <2>1, <3>1 DEF CheckpointInv
  <2>2. CASE c # k
    BY <1>2, <1>5, <1>8, <2>2 DEF CheckpointInv
  <2> QED
    BY <2>1, <2>2
<1>9. ASSUME NEW c \in Checkpoints, checkpoint[c].of \notin {0} \cup stored \cup doubled
      PROVE  Pair(checkpoint'[c].answer, step'[checkpoint[c].of])
  <2>1. Pair(checkpoint[c].answer, step[checkpoint[c].of])
    BY <1>2, <1>9 DEF CheckpointInv
  <2>2. checkpoint[c].of \in Steps
    BY <1>2, <1>9, StepsAssumption DEF CheckpointType, Steps
  <2>3. CASE c = k
    BY <1>1, <1>5, <1>9, <2>1, <2>3 DEF Pair, Put
  <2>4. CASE c # k
    <3>1. checkpoint[c].of # m
      BY <1>1, <1>2, <1>9, <2>4 DEF OneQuestion
    <3> QED
      BY <1>5, <2>1, <2>2, <2>4, <3>1
  <2> QED
    BY <2>3, <2>4
<1>10. CheckpointInv'
  BY <1>3, <1>5, <1>8, <1>9 DEF CheckpointInv
<1> QED
  BY <1>5, <1>6, <1>7, <1>10

LEMMA AllowCheckpointPreserves ==
  ASSUME IInv, NEW r \in Requests, AllowCheckpoint(r)
  PROVE  IInv'
<1>1. TableTypes /\ StepInv /\ req[r].step \in Steps
  BY Facts DEF RequestInv, AllowCheckpoint
<1>2. /\ lock = None /\ UNCHANGED <<evidence, files, lock, results, faults, performed, wasted>>
      /\ doubled' = doubled /\ allowed' = allowed \cup {req[r].step}
      /\ DecideCheckpoint(r, "approved", "allowed") /\ req[r].pc = "allow"
  BY DEF AllowCheckpoint, DecideCheckpoint
<1>3. /\ checkpoint' \in [Checkpoints -> CheckpointType] /\ step' \in [Steps -> Marks]
      /\ \A c \in Checkpoints : checkpoint'[c].of = checkpoint[c].of
      /\ CheckpointInv' /\ OneQuestion'
  BY <1>2, AnswerKeeps
<1>4. /\ workflow' \in Rows /\ workflow'.current = workflow.current
      /\ workflow'.status = "completed" => workflow.status = "completed"
      /\ Ends(r)
  <2>1. workflow \in Rows
    BY <1>1 DEF TableTypes
  <2> QED
    BY <2>1 DEF AllowCheckpoint, Rows, Statuses, Ends
<1>5. TableTypes'
  BY <1>1, <1>2, <1>3, <1>4, RequestKeeps DEF TableTypes
<1>6. workflow'.status = "completed" => workflow.current = N
  BY <1>1, <1>4 DEF StepInv
<1> QED
  BY <1>2, <1>3, <1>4, <1>5, <1>6, RequestKeeps, DecisionKeeps

LEMMA DenyCheckpointPreserves ==
  ASSUME IInv, NEW r \in Requests, DenyCheckpoint(r)
  PROVE  IInv'
<1>1. TableTypes /\ StepInv
  BY Facts
<1>2. /\ lock = None /\ UNCHANGED <<evidence, files, lock, results, faults, performed, wasted>>
      /\ doubled' = doubled /\ allowed' = allowed
      /\ DecideCheckpoint(r, "rejected", "cancelled") /\ req[r].pc = "deny"
  BY DEF DenyCheckpoint, DecideCheckpoint
<1>3. /\ checkpoint' \in [Checkpoints -> CheckpointType] /\ step' \in [Steps -> Marks]
      /\ \A c \in Checkpoints : checkpoint'[c].of = checkpoint[c].of
      /\ CheckpointInv' /\ OneQuestion'
  BY <1>2, AnswerKeeps
<1>4. /\ workflow' \in Rows /\ workflow'.current = workflow.current
      /\ workflow'.status = "completed" => workflow.status = "completed"
      /\ Ends(r)
  <2>1. workflow \in Rows
    BY <1>1 DEF TableTypes
  <2> QED
    BY <2>1 DEF DenyCheckpoint, Rows, Statuses, Stopped, Ends
<1>5. TableTypes'
  BY <1>1, <1>2, <1>3, <1>4, RequestKeeps DEF TableTypes
<1>6. workflow'.status = "completed" => workflow.current = N
  BY <1>1, <1>4 DEF StepInv
<1> QED
  BY <1>2, <1>3, <1>4, <1>5, <1>6, RequestKeeps, DecisionKeeps

LEMMA FinishPreserves ==
  ASSUME IInv, NEW r \in Requests, Finish(r)
  PROVE  IInv'
<1>1. /\ TableTypes /\ StepInv /\ CheckpointInv /\ OneQuestion /\ workflow.current = N
  BY Facts DEF RequestInv, Finish
<1>2. /\ lock = None /\ UNCHANGED <<step, checkpoint, evidence, files, lock, results, faults,
                                    performed, wasted, allowed, doubled>>
  BY DEF Finish
<1>3. workflow' \in Rows /\ workflow'.current = workflow.current /\ Ends(r)
  <2>1. workflow \in Rows
    BY <1>1 DEF TableTypes
  <2> QED
    BY <2>1 DEF Finish, Rows, Statuses, Ends
<1>4. TableTypes'
  BY <1>1, <1>2, <1>3, RequestKeeps DEF TableTypes
<1>5. CheckpointInv' /\ OneQuestion'
  BY <1>1, <1>2 DEF CheckpointInv, OneQuestion, stored
<1> QED
  BY <1>1, <1>2, <1>3, <1>4, <1>5, RequestKeeps, DecisionKeeps

LEMMA AskPreserves ==
  ASSUME IInv, NEW r \in Requests, NEW c \in Checkpoints, Ask(r, c)
  PROVE  IInv'
<1> DEFINE n == req[r].step
<1>1. /\ TableTypes /\ StepInv /\ CheckpointInv /\ OneQuestion
      /\ n \in Steps
      /\ ~req[r].missed /\ n \notin doubled => \A d \in Checkpoints : checkpoint[d].of # n
  BY Facts DEF RequestInv, Ask
<1>2. /\ lock = None /\ UNCHANGED <<evidence, files, lock, results, faults, performed, wasted>>
      /\ allowed' = allowed /\ checkpoint[c].of = 0
      /\ checkpoint' = [checkpoint EXCEPT ![c] = [of |-> n, answer |-> "waiting"]]
      /\ step' = [step EXCEPT ![n] = "asked"]
      /\ doubled' = (IF req[r].missed THEN doubled \cup {n} ELSE doubled)
      /\ WroteStatus(r)
  BY DEF Ask
<1>3. /\ workflow' \in Rows /\ workflow'.current = workflow.current
      /\ workflow'.status = "asking" /\ Ends(r)
  <2>1. workflow \in Rows
    BY <1>1 DEF TableTypes
  <2> QED
    BY <2>1 DEF Ask, Rows, Statuses, Ends
<1> HIDE DEF n
<1>4. /\ checkpoint \in [Checkpoints -> CheckpointType] /\ step \in [Steps -> Marks]
      /\ n \in 0 .. N
  BY <1>1, StepsAssumption DEF TableTypes, Steps
<1>5. /\ checkpoint'[c].of = n /\ checkpoint'[c].answer = "waiting" /\ step'[n] = "asked"
      /\ \A d \in Checkpoints \ {c} : checkpoint'[d] = checkpoint[d]
      /\ \A m \in Steps \ {n} : step'[m] = step[m]
  BY <1>1, <1>2, <1>4
<1>6. checkpoint' \in [Checkpoints -> CheckpointType] /\ step' \in [Steps -> Marks]
  BY <1>2, <1>4 DEF CheckpointType, Answers, Marks
<1>7. TableTypes'
  BY <1>1, <1>2, <1>3, <1>6, RequestKeeps DEF TableTypes
<1>8. stored' = stored /\ doubled \subseteq doubled'
  BY <1>2 DEF stored
<1>9. n \notin doubled' => \A d \in Checkpoints : checkpoint[d].of # n
  BY <1>1, <1>2
<1>10. OneQuestion'
  BY <1>1, <1>5, <1>8, <1>9 DEF OneQuestion
<1>11. CheckpointInv'
  <2>1. ASSUME NEW d \in Checkpoints
        PROVE  /\ checkpoint'[d].answer = "approved" => checkpoint'[d].of \in allowed'
               /\ checkpoint'[d].of \notin {0} \cup stored' \cup doubled' =>
                    Pair(checkpoint'[d].answer, step'[checkpoint'[d].of])
    <3>1. CASE d = c
      BY <1>5, <3>1 DEF Pair
    <3>2. CASE d # c
      <4>1. checkpoint'[d] = checkpoint[d]
        BY <1>5, <3>2
      <4>2. checkpoint[d].of \in {0} \cup Steps
        BY <1>4, StepsAssumption DEF CheckpointType, Steps
      <4>3. checkpoint[d].of \notin {0} \cup stored' \cup doubled' =>
              /\ Pair(checkpoint[d].answer, step[checkpoint[d].of])
              /\ step'[checkpoint[d].of] = step[checkpoint[d].of]
        BY <1>1, <1>5, <1>8, <1>9, <4>2 DEF CheckpointInv
      <4>4. checkpoint[d].answer = "approved" => checkpoint[d].of \in allowed'
        BY <1>1, <1>2 DEF CheckpointInv
      <4> QED
        BY <4>1, <4>3, <4>4
    <3> QED
      BY <3>1, <3>2
  <2> QED
    BY <2>1 DEF CheckpointInv
<1>12. \A q \in Requests \ {r} : req[q].pc = "ask" => req'[q].missed
  BY <1>2, WroteRequests
<1>13. \A d \in Checkpoints : checkpoint[d].of # 0 => checkpoint'[d].of = checkpoint[d].of
  BY <1>2, <1>5
<1> QED
  BY <1>2, <1>3, <1>7, <1>8, <1>10, <1>11, <1>12, <1>13, RequestKeeps, DecisionKeeps

------------------------------------------------------------------------------
(* ... and the execution of a step                                          *)

LEMMA LockPreserves ==
  ASSUME IInv, NEW r \in Requests, Lock(r)
  PROVE  IInv'
<1>1. CASE req[r].step \in stored
  <2>1. req' = [req EXCEPT ![r] = Idle] /\ UNCHANGED <<rows, files, faults, history>>
    BY <1>1 DEF Lock, Close, rows
  <2>2. req \in [Requests -> RequestType] /\ Idle.pc = "idle" /\ Idle \in RequestType
    BY IdleType DEF IInv, TypeOK
  <2>3. RequestInv(r)'
    BY <2>1, <2>2 DEF RequestInv, Executes
  <2> QED
    BY <2>1, <2>2, <2>3, LoadKeeps DEF Lock
<1>2. CASE req[r].step \notin stored
  <2> DEFINE n == req[r].step
             x == [req[r] EXCEPT !.pc = "locked"]
  <2>1. /\ TypeOK /\ TableTypes /\ StepInv /\ CheckpointInv /\ OneQuestion /\ None \notin Requests
        /\ N \in Nat /\ workflow.current \in 0 .. N /\ stored = 1 .. workflow.current
        /\ \A m \in Steps : performed[m] \in Nat
    BY Facts, NoneAssumption
  <2>2. /\ req[r].pc = "open" /\ lock = None /\ lock' = r /\ req' = [req EXCEPT ![r].pc = "locked"]
        /\ UNCHANGED <<workflow, step, checkpoint, evidence, files, results, faults, history>>
    BY <1>2 DEF Lock
  <2>3. RequestInv(r) /\ req[r] \in RequestType
    BY Facts
  <2>4. n \in Steps /\ n <= workflow.current + 1
    BY <2>2, <2>3 DEF RequestInv, Executes
  <2>5. n = workflow.current + 1
    BY <2>1, <2>4, <1>2 DEF Steps
  <2>6. x \in RequestType /\ x.pc = "locked" /\ x.step = n /\ x.missed = req[r].missed
    BY <2>3 DEF RequestType, Pcs
  <2>7. req \in [Requests -> RequestType] /\ req' = [req EXCEPT ![r] = x]
    BY <2>1, <2>2 DEF TypeOK
  <2> HIDE DEF x
  <2>8. /\ req' \in [Requests -> RequestType] /\ req'[r] = x
        /\ \A q \in Requests \ {r} : req'[q] = req[q]
    BY <2>6, <2>7
  <2>9. \A q \in Requests \ {r} : req[q].pc \notin {"locked", "performed"}
    BY <2>1, <2>2 DEF TypeOK
  <2>10. \A q \in Requests : req'[q].pc \in {"locked", "performed"} <=> lock' = q
    BY <2>2, <2>6, <2>8, <2>9
  <2>11. stored' = stored /\ \A m : ~Performing(m) /\ ~Performing(m)'
    BY <2>1, <2>2, <2>6, <2>8 DEF stored, Performing
  <2>12. TableTypes'
    BY <2>1, <2>2 DEF TableTypes, history
  <2>13. StepInv' /\ CheckpointInv' /\ OneQuestion'
    BY <2>1, <2>2, <2>11 DEF StepInv, CheckpointInv, OneQuestion, history
  <2>14. RequestInv(r)'
    BY <2>2, <2>3, <2>4, <2>5, <2>6, <2>8 DEF RequestInv, Executes, history
  <2>15. ASSUME NEW q \in Requests \ {r} PROVE RequestInv(q)'
    BY <2>2, <2>8, <2>11, Facts DEF RequestInv, history
  <2> QED
    BY <2>8, <2>10, <2>12, <2>13, <2>14, <2>15, Assembled
<1> QED
  BY <1>1, <1>2

LEMMA PerformPreserves ==
  ASSUME IInv, NEW r \in Requests, Perform(r)
  PROVE  IInv'
<1>0. PICK n \in Steps : n = req[r].step
  BY Facts DEF RequestInv, Perform, Executes
<1> DEFINE x == [req[r] EXCEPT !.pc = "performed"]
<1>1. /\ TypeOK /\ TableTypes /\ StepInv /\ CheckpointInv /\ OneQuestion /\ None \notin Requests
      /\ N \in Nat /\ workflow.current \in 0 .. N /\ stored = 1 .. workflow.current
      /\ \A m \in Steps : performed[m] \in Nat /\ wasted[m] \in Nat
  BY Facts, NoneAssumption
<1>2. /\ req[r].pc = "locked" /\ req' = [req EXCEPT ![r].pc = "performed"]
      /\ performed' = [performed EXCEPT ![n] = @ + 1]
      /\ files' = files \cup {<<n, performed[n] + 1>>}
      /\ UNCHANGED <<rows, faults, wasted, allowed, doubled>>
  BY <1>0 DEF Perform
<1>3. RequestInv(r) /\ req[r] \in RequestType /\ lock = r
  BY <1>2, Facts
<1>4. /\ n \in Steps /\ n = workflow.current + 1 /\ (n \in Guarded => n \in allowed)
  BY <1>0, <1>2, <1>3 DEF RequestInv, Executes
<1>5. x \in RequestType /\ x.pc = "performed" /\ x.step = n /\ x.missed = req[r].missed
  BY <1>0, <1>3 DEF RequestType, Pcs
<1>6. req \in [Requests -> RequestType] /\ req' = [req EXCEPT ![r] = x]
  BY <1>1, <1>2 DEF TypeOK
<1> HIDE DEF x
<1>7. /\ req' \in [Requests -> RequestType] /\ req'[r] = x
      /\ \A q \in Requests \ {r} : req'[q] = req[q]
  BY <1>5, <1>6
<1>8. \A q \in Requests \ {r} : req[q].pc \notin {"locked", "performed"}
  BY <1>1, <1>3 DEF TypeOK
<1>9. \A q \in Requests : req'[q].pc \in {"locked", "performed"} <=> lock' = q
  BY <1>2, <1>3, <1>5, <1>7, <1>8 DEF rows
<1>10. /\ stored' = stored /\ \A m : ~Performing(m)
       /\ \A m \in Steps : Performing(m)' <=> m = n
  BY <1>1, <1>2, <1>3, <1>5, <1>7 DEF stored, Performing, rows
<1>11. /\ performed' \in [Steps -> Nat] /\ performed'[n] = performed[n] + 1
       /\ \A m \in Steps \ {n} : performed'[m] = performed[m]
  <2>1. performed \in [Steps -> Nat]
    BY <1>1 DEF TableTypes
  <2>2. performed' = [performed EXCEPT ![n] = performed[n] + 1]
    BY <1>2
  <2> QED
    BY <1>4, <2>1, <2>2
<1>12. files' \subseteq Steps \X Nat
  <2>1. files \subseteq Steps \X Nat /\ performed[n] + 1 \in Nat
    BY <1>1, <1>4 DEF TableTypes
  <2> QED
    BY <1>2, <1>4, <2>1
<1>13. TableTypes'
  BY <1>1, <1>2, <1>11, <1>12 DEF TableTypes, rows
<1>14. StepInv'
  <2>1. n \notin stored
    BY <1>1, <1>4
  <2>2. ASSUME NEW m \in Steps
        PROVE  /\ m \in stored' \/ Performing(m)' => performed'[m] = wasted'[m] + 1
               /\ m \notin stored' /\ ~Performing(m)' => performed'[m] = wasted'[m]
               /\ performed'[m] > 0 => m <= workflow'.current + 1 /\ (m \in Guarded => m \in allowed')
               /\ m \in stored' => <<m, evidence'[m]>> \in files'
    <3>1. CASE m = n
      <4>1. performed[n] = wasted[n]
        BY <1>1, <1>4, <1>10, <2>1 DEF StepInv
      <4>2. performed'[n] = wasted'[n] + 1
        BY <1>2, <1>11, <4>1
      <4>3. n <= workflow'.current + 1 /\ Performing(n)' /\ n \notin stored'
        BY <1>1, <1>2, <1>4, <1>10, <2>1 DEF rows, Steps
      <4> QED
        BY <1>2, <1>4, <3>1, <4>2, <4>3 DEF rows
    <3>2. CASE m # n
      BY <1>1, <1>2, <1>10, <1>11, <3>2 DEF StepInv, rows
    <3> QED
      BY <3>1, <3>2
  <2>3. /\ stored' = 1 .. workflow'.current
        /\ workflow'.status = "completed" => workflow'.current = N
        /\ results' = IF workflow'.current = N THEN 1 ELSE 0
    BY <1>1, <1>2, <1>10 DEF StepInv, rows
  <2> QED
    BY <2>2, <2>3 DEF StepInv
<1>15. CheckpointInv' /\ OneQuestion'
  BY <1>1, <1>2, <1>10 DEF CheckpointInv, OneQuestion, rows
<1>16. RequestInv(r)'
  <2>1. <<n, performed'[n]>> \in files'
    BY <1>2, <1>11
  <2>3. req'[r].pc = "performed" /\ req'[r].step = n
    BY <1>5, <1>7
  <2>4. n \in Steps /\ n = workflow'.current + 1 /\ (n \in Guarded => n \in allowed')
    BY <1>2, <1>4 DEF rows
  <2>5. n <= workflow'.current + 1
    BY <1>1, <2>4 DEF Steps
  <2> QED
    BY <2>1, <2>3, <2>4, <2>5 DEF RequestInv, Executes
<1>17. ASSUME NEW q \in Requests \ {r} PROVE RequestInv(q)'
  <2>1. Kept(q)
    BY <1>7 DEF Kept
  <2>2. \A m \in Steps :
           /\ performed[m] <= performed'[m]
           /\ Performing(m)' => Performing(m) \/ performed[m] < performed'[m]
           /\ req[q].pc = "performed" /\ req[q].step = m =>
                performed'[m] = performed[m] /\ <<m, performed[m]>> \in files'
    BY <1>1, <1>4, <1>8, <1>10, <1>11
  <2>3. /\ workflow.current <= workflow'.current /\ stored \subseteq stored'
        /\ workflow'.current = workflow.current /\ allowed' = allowed /\ doubled' = doubled
        /\ checkpoint' = checkpoint
    BY <1>1, <1>2, <1>10 DEF rows
  <2> QED
    BY <1>13, <2>1, <2>2, <2>3, KeepsRequest
<1> QED
  BY <1>7, <1>9, <1>13, <1>14, <1>15, <1>16, <1>17, Assembled

\* What a request that has performed its step knows
LEMMA PerformerFacts ==
  ASSUME IInv, NEW r \in Requests, req[r].pc = "performed"
  PROVE  \E n \in Steps :
           /\ n = req[r].step /\ n = workflow.current + 1 /\ lock = r /\ lock # None
           /\ n \notin stored /\ workflow.current < N /\ (n \in Guarded => n \in allowed)
           /\ performed[n] = wasted[n] + 1 /\ performed[n] > 0 /\ <<n, performed[n]>> \in files
           /\ \A m \in Steps : Performing(m) <=> m = n
           /\ \A q \in Requests \ {r} : req[q].pc \notin {"locked", "performed"}
<1>1. PICK n \in Steps : n = req[r].step
  BY Facts DEF RequestInv, Executes
<1>2. /\ n = workflow.current + 1 /\ lock = r /\ (n \in Guarded => n \in allowed)
      /\ <<n, performed[n]>> \in files
  BY <1>1, Facts DEF RequestInv, Executes
<1>3. lock # None /\ \A q \in Requests \ {r} : req[q].pc \notin {"locked", "performed"}
  BY <1>2, NoneAssumption DEF IInv, TypeOK
<1>4. \A m \in Steps : Performing(m) <=> m = n
  BY <1>1, <1>2, <1>3 DEF Performing
<1>5. n \notin stored /\ workflow.current < N
  BY <1>2, Facts DEF Steps
<1>6. performed[n] = wasted[n] + 1 /\ performed[n] > 0
  <2>1. performed[n] = wasted[n] + 1
    BY <1>4, Facts DEF StepInv
  <2>2. wasted[n] \in Nat
    BY Facts
  <2> QED
    BY <2>1, <2>2
<1> QED
  BY <1>1, <1>2, <1>3, <1>4, <1>5, <1>6

LEMMA StorePreserves ==
  ASSUME IInv, NEW r \in Requests, NEW heard \in BOOLEAN, Store(r, heard)
  PROVE  IInv'
<1> DEFINE new == IF LastStep(req[r].step) THEN "completed" ELSE "paused"
           y == [req[r] EXCEPT !.pc = "unsure", !.shot = performed[req[r].step]]
<1>1. /\ TypeOK /\ TableTypes /\ StepInv /\ CheckpointInv /\ OneQuestion /\ None \notin Requests
      /\ N \in Nat /\ workflow.current \in 0 .. N /\ stored = 1 .. workflow.current
      /\ \A m \in Steps : performed[m] \in Nat /\ wasted[m] \in Nat
  BY Facts, NoneAssumption
<1>2. req[r].pc = "performed"
  BY DEF Store
<1>3. PICK n \in Steps :
        /\ n = req[r].step /\ n = workflow.current + 1 /\ lock = r /\ lock # None
        /\ n \notin stored /\ workflow.current < N /\ (n \in Guarded => n \in allowed)
        /\ performed[n] = wasted[n] + 1 /\ performed[n] > 0 /\ <<n, performed[n]>> \in files
        /\ \A m \in Steps : Performing(m) <=> m = n
        /\ \A q \in Requests \ {r} : req[q].pc \notin {"locked", "performed"}
  BY <1>2, PerformerFacts
<1>4. /\ workflow' = [workflow EXCEPT !.status = new, !.current = n]
      /\ new = (IF n = N THEN "completed" ELSE "paused")
      /\ step' = [step EXCEPT ![n] = "done"] /\ evidence' = [evidence EXCEPT ![n] = performed[n]]
      /\ results' = (IF n = N THEN results + 1 ELSE results) /\ lock' = None
      /\ UNCHANGED <<checkpoint, files, performed, wasted, allowed, doubled>>
  BY <1>3 DEF Store, LastStep
<1>5. faults' \in 0 .. MaxFaults
  BY <1>1, FaultsAssumption DEF Store, Faulted, TableTypes
<1>6. /\ req' = [q \in Requests |->
                   IF q = r THEN (IF heard THEN Idle ELSE y)
                   ELSE IF req[q].pc = "idle" THEN Idle ELSE [req[q] EXCEPT !.missed = TRUE]]
  BY DEF Store
<1>7. /\ workflow' \in Rows /\ workflow'.current = n /\ workflow'.status = new
  <2>1. workflow \in Rows /\ new \in {"completed", "paused"} /\ n \in 0 .. N
    BY <1>1, <1>4 DEF TableTypes, Steps
  <2> HIDE DEF new
  <2> QED
    BY <1>4, <2>1 DEF Rows, Statuses
<1> HIDE DEF new
<1>8. /\ req[r] \in RequestType /\ y \in RequestType /\ y.pc = "unsure" /\ y.step = n
      /\ y.shot = performed[n]
  <2>1. req[r] \in RequestType /\ performed[req[r].step] \in Nat
    BY <1>1, <1>3, Facts
  <2> QED
    BY <1>3, <2>1 DEF RequestType, Pcs
<1> HIDE DEF y
<1>9. /\ req'[r] \in RequestType
      /\ \/ req'[r].pc = "idle"
         \/ req'[r].pc = "unsure" /\ req'[r].step = n /\ req'[r].shot = performed[n]
  <2>1. req'[r] = Idle \/ req'[r] = y
    BY <1>6
  <2> QED
    BY <1>8, <2>1, IdleType
<1>10. ASSUME NEW q \in Requests \ {r}
       PROVE  /\ req'[q] \in RequestType /\ Kept(q)
              /\ req'[q].pc = req[q].pc
  <2>1. CASE req[q].pc = "idle"
    BY <1>6, <2>1, IdleType DEF Kept
  <2>2. CASE req[q].pc # "idle"
    <3>1. req'[q] = [req[q] EXCEPT !.missed = TRUE]
      BY <1>6, <2>2
    <3>2. req[q] \in RequestType
      BY Facts
    <3> QED
      BY <3>1, <3>2 DEF RequestType, Kept
  <2> QED
    BY <2>1, <2>2
<1>11. req' \in [Requests -> RequestType]
  <2>1. req' = [q \in Requests |-> req'[q]]
    BY <1>6
  <2> QED
    BY <1>9, <1>10, <2>1
<1>12. \A q \in Requests : req'[q].pc \in {"locked", "performed"} <=> lock' = q
  BY <1>1, <1>3, <1>4, <1>9, <1>10
<1>13. /\ step' \in [Steps -> Marks] /\ evidence' \in [Steps -> Nat] /\ results' \in Nat
       /\ evidence'[n] = performed[n] /\ \A m \in Steps \ {n} : evidence'[m] = evidence[m]
       /\ \A m \in Steps \ {n} : step'[m] = step[m]
  <2>1. /\ step \in [Steps -> Marks] /\ evidence \in [Steps -> Nat] /\ results \in Nat
        /\ performed[n] \in Nat /\ "done" \in Marks
    BY <1>1, <1>3 DEF TableTypes, Marks
  <2>2. step' = [step EXCEPT ![n] = "done"] /\ evidence' = [evidence EXCEPT ![n] = performed[n]]
    BY <1>4
  <2>3. results' \in Nat
    BY <1>4, <2>1
  <2> QED
    BY <1>3, <2>1, <2>2, <2>3
<1>14. TableTypes'
  BY <1>1, <1>4, <1>5, <1>7, <1>13 DEF TableTypes
<1>15. stored' = stored \cup {n} /\ \A m : ~Performing(m)'
  BY <1>3, <1>4, <1>13 DEF stored, Performing
<1>16. stored' = 1 .. workflow'.current
  BY <1>1, <1>3, <1>7, <1>15
<1>17. StepInv'
  <2>1. ASSUME NEW m \in Steps
        PROVE  /\ m \in stored' \/ Performing(m)' => performed'[m] = wasted'[m] + 1
               /\ m \notin stored' /\ ~Performing(m)' => performed'[m] = wasted'[m]
               /\ performed'[m] > 0 => m <= workflow'.current + 1 /\ (m \in Guarded => m \in allowed')
               /\ m \in stored' => <<m, evidence'[m]>> \in files'
    <3>1. CASE m = n
      BY <1>1, <1>3, <1>4, <1>7, <1>13, <1>15, <3>1
    <3>2. CASE m # n
      <4>1. performed[m] > 0 => m <= workflow'.current + 1
        <5>1. performed[m] > 0 => m <= workflow.current + 1
          BY <1>1 DEF StepInv
        <5> QED
          BY <1>1, <1>3, <1>7, <5>1 DEF Steps
      <4>2. /\ m \in stored => performed[m] = wasted[m] + 1 /\ <<m, evidence[m]>> \in files
            /\ m \notin stored => performed[m] = wasted[m]
            /\ performed[m] > 0 /\ m \in Guarded => m \in allowed
        BY <1>1, <1>3, <3>2 DEF StepInv
      <4> QED
        BY <1>4, <1>13, <1>15, <3>2, <4>1, <4>2
    <3> QED
      BY <3>1, <3>2
  <2>2. results' = IF workflow'.current = N THEN 1 ELSE 0
    BY <1>1, <1>3, <1>4, <1>7 DEF StepInv
  <2>3. workflow'.status = "completed" => workflow'.current = N
    BY <1>4, <1>7
  <2> QED
    BY <1>16, <2>1, <2>2, <2>3 DEF StepInv
<1>18. OneQuestion'
  BY <1>1, <1>4 DEF OneQuestion
<1>19. CheckpointInv'
  <2>1. \A c \in Checkpoints : checkpoint[c].of \in {0} \cup Steps
    BY <1>1 DEF TableTypes, CheckpointType, Steps
  <2> QED
    BY <1>1, <1>4, <1>13, <1>15, <2>1 DEF CheckpointInv
<1>20. RequestInv(r)'
  <2>1. performed'[n] = performed[n] /\ performed[n] \in Nat
    BY <1>1, <1>4
  <2> QED
    BY <1>9, <1>15, <2>1 DEF RequestInv, Executes
<1>21. ASSUME NEW q \in Requests \ {r} PROVE RequestInv(q)'
  <2>1. req[q].pc \notin {"locked", "performed"} /\ Kept(q)
    BY <1>3, <1>10
  <2>2. \A m \in Steps :
           /\ performed[m] <= performed'[m]
           /\ Performing(m)' => Performing(m) \/ performed[m] < performed'[m]
           /\ req[q].pc = "performed" /\ req[q].step = m =>
                performed'[m] = performed[m] /\ <<m, performed[m]>> \in files'
    BY <1>1, <1>4, <1>15, <2>1
  <2>3. workflow.current <= workflow'.current /\ stored \subseteq stored'
    BY <1>1, <1>3, <1>7, <1>15
  <2> QED
    BY <1>4, <1>14, <2>1, <2>2, <2>3, KeepsRequest
<1> QED
  BY <1>11, <1>12, <1>14, <1>17, <1>18, <1>19, <1>20, <1>21, Assembled

LEMMA StoreFailsPreserves ==
  ASSUME IInv, NEW r \in Requests, StoreFails(r)
  PROVE  IInv'
<1> DEFINE y == [req[r] EXCEPT !.pc = "unsure", !.shot = performed[req[r].step]]
<1>1. /\ TypeOK /\ TableTypes /\ StepInv /\ CheckpointInv /\ OneQuestion /\ None \notin Requests
      /\ N \in Nat /\ workflow.current \in 0 .. N
      /\ \A m \in Steps : performed[m] \in Nat /\ wasted[m] \in Nat
  BY Facts, NoneAssumption
<1>2. req[r].pc = "performed"
  BY DEF StoreFails
<1>3. PICK n \in Steps :
        /\ n = req[r].step /\ n = workflow.current + 1 /\ lock = r /\ lock # None
        /\ n \notin stored /\ workflow.current < N /\ (n \in Guarded => n \in allowed)
        /\ performed[n] = wasted[n] + 1 /\ performed[n] > 0 /\ <<n, performed[n]>> \in files
        /\ \A m \in Steps : Performing(m) <=> m = n
        /\ \A q \in Requests \ {r} : req[q].pc \notin {"locked", "performed"}
  BY <1>2, PerformerFacts
<1>4. /\ lock' = None /\ wasted' = [wasted EXCEPT ![n] = @ + 1]
      /\ UNCHANGED <<workflow, step, checkpoint, evidence, files, results,
                     performed, allowed, doubled>>
      /\ faults' \in 0 .. MaxFaults
  BY <1>1, <1>3, FaultsAssumption DEF StoreFails, Faulted, TableTypes
<1>5. /\ y \in RequestType /\ y.pc = "unsure" /\ y.step = n /\ y.shot = performed[n]
  <2>1. req[r] \in RequestType /\ performed[req[r].step] \in Nat
    BY <1>1, <1>3, Facts
  <2> QED
    BY <1>3, <2>1 DEF RequestType, Pcs
<1>6. req' = [req EXCEPT ![r] = y] /\ req \in [Requests -> RequestType]
  BY <1>1 DEF StoreFails, TypeOK
<1> HIDE DEF y
<1>7. /\ req' \in [Requests -> RequestType] /\ req'[r] = y
      /\ \A q \in Requests \ {r} : req'[q] = req[q]
  BY <1>5, <1>6
<1>8. \A q \in Requests : req'[q].pc \in {"locked", "performed"} <=> lock' = q
  BY <1>1, <1>3, <1>4, <1>5, <1>7
<1>9. /\ wasted' \in [Steps -> Nat] /\ wasted'[n] = wasted[n] + 1
      /\ \A m \in Steps \ {n} : wasted'[m] = wasted[m]
  BY <1>1, <1>3, <1>4 DEF TableTypes
<1>10. TableTypes'
  BY <1>1, <1>4, <1>9 DEF TableTypes
<1>11. stored' = stored /\ \A m : ~Performing(m)'
  BY <1>4 DEF stored, Performing
<1>12. StepInv'
  <2>1. ASSUME NEW m \in Steps
        PROVE  /\ m \in stored' \/ Performing(m)' => performed'[m] = wasted'[m] + 1
               /\ m \notin stored' /\ ~Performing(m)' => performed'[m] = wasted'[m]
    <3>1. CASE m = n
      BY <1>3, <1>4, <1>9, <1>11, <3>1
    <3>2. CASE m # n
      BY <1>1, <1>3, <1>4, <1>9, <1>11, <3>2 DEF StepInv
    <3> QED
      BY <3>1, <3>2
  <2> QED
    BY <1>1, <1>4, <1>11, <2>1 DEF StepInv
<1>13. CheckpointInv' /\ OneQuestion'
  BY <1>1, <1>4, <1>11 DEF CheckpointInv, OneQuestion
<1>14. RequestInv(r)'
  <2>1. performed'[n] = performed[n] /\ performed[n] \in Nat
    BY <1>1, <1>4
  <2> QED
    BY <1>5, <1>7, <1>11, <2>1 DEF RequestInv, Executes
<1>15. ASSUME NEW q \in Requests \ {r} PROVE RequestInv(q)'
  BY <1>3, <1>4, <1>7, <1>11, Facts DEF RequestInv
<1> QED
  BY <1>7, <1>8, <1>10, <1>12, <1>13, <1>14, <1>15, Assembled

LEMMA RequeryPreserves ==
  ASSUME IInv, NEW r \in Requests, NEW answered \in BOOLEAN, Requery(r, answered)
  PROVE  IInv'
<1>1. /\ TypeOK /\ TableTypes /\ StepInv /\ CheckpointInv /\ OneQuestion /\ lock # r
      /\ \A m \in Steps : performed[m] \in Nat
  BY Facts DEF Requery
<1>2. PICK n \in Steps : /\ n = req[r].step /\ req[r].shot \in Nat
                         /\ Performing(n) => req[r].shot < performed[n]
  BY Facts DEF RequestInv, RequestType, Requery
<1>3. /\ files' \subseteq files
      /\ \A f \in files \ files' : f = <<n, req[r].shot>> /\ evidence[n] # req[r].shot
      /\ UNCHANGED <<rows, faults, history>> /\ req' = [req EXCEPT ![r] = Idle]
  BY <1>2 DEF Requery, Close
<1>4. /\ req' \in [Requests -> RequestType] /\ req'[r].pc = "idle"
      /\ \A q \in Requests \ {r} : req'[q] = req[q]
  <2>1. req \in [Requests -> RequestType]
    BY <1>1 DEF TypeOK
  <2> QED
    BY <1>3, <2>1, IdleType
<1>5. \A q \in Requests : req'[q].pc \in {"locked", "performed"} <=> lock' = q
  BY <1>1, <1>3, <1>4 DEF TypeOK, rows
<1>6. TableTypes'
  BY <1>1, <1>3 DEF TableTypes, rows, history
<1>7. lock # None => req'[lock] = req[lock]
  BY <1>1, <1>4 DEF TableTypes
<1>8. stored' = stored /\ \A m : Performing(m)' <=> Performing(m)
  BY <1>3, <1>7 DEF stored, Performing, rows
<1>9. \A m \in stored : <<m, evidence[m]>> \in files'
  BY <1>1, <1>3 DEF StepInv, stored
<1>10. StepInv'
  BY <1>1, <1>3, <1>8, <1>9 DEF StepInv, rows, history
<1>11. CheckpointInv' /\ OneQuestion'
  BY <1>1, <1>3, <1>8 DEF CheckpointInv, OneQuestion, rows, history
<1>12. RequestInv(r)'
  BY <1>4 DEF RequestInv, Executes
<1>13. ASSUME NEW q \in Requests \ {r} PROVE RequestInv(q)'
  <2>1. RequestInv(q) /\ req'[q] = req[q]
    BY <1>4, Facts
  <2>2. ASSUME req[q].pc = "performed" PROVE <<req[q].step, performed[req[q].step]>> \in files'
    <3>1. PICK k \in Steps : k = req[q].step /\ Performing(k) /\ <<k, performed[k]>> \in files
      BY <2>2, PerformerFacts
    <3>2. k = n => performed[k] # req[r].shot
      BY <1>1, <1>2, <3>1
    <3> QED
      BY <1>3, <3>1, <3>2
  <2> QED
    BY <1>3, <1>8, <2>1, <2>2 DEF RequestInv, rows, history
<1> QED
  BY <1>4, <1>5, <1>6, <1>10, <1>11, <1>12, <1>13, Assembled

LEMMA FailPreserves ==
  ASSUME IInv, NEW r \in Requests, NEW crash \in BOOLEAN, Fail(r, crash)
  PROVE  IInv'
<1>1. /\ TypeOK /\ TableTypes /\ StepInv /\ CheckpointInv /\ OneQuestion /\ None \notin Requests
      /\ \A m \in Steps : performed[m] \in Nat /\ wasted[m] \in Nat
  BY Facts, NoneAssumption
<1>2. /\ lock' = (IF lock = r THEN None ELSE lock) /\ req' = [req EXCEPT ![r] = Idle]
      /\ UNCHANGED <<workflow, step, checkpoint, evidence, results,
                     performed, allowed, doubled>>
      /\ faults' \in 0 .. MaxFaults /\ stored' = stored
  BY <1>1, FaultsAssumption DEF Fail, Close, Faulted, TableTypes, stored
<1>3. /\ req' \in [Requests -> RequestType] /\ req'[r].pc = "idle"
      /\ \A q \in Requests \ {r} : req'[q] = req[q]
  <2>1. req \in [Requests -> RequestType]
    BY <1>1 DEF TypeOK
  <2> QED
    BY <1>2, <2>1, IdleType
<1>4. \A q \in Requests : req'[q].pc \in {"locked", "performed"} <=> lock' = q
  BY <1>1, <1>2, <1>3 DEF TypeOK
<1>5. RequestInv(r)'
  BY <1>3 DEF RequestInv, Executes
<1>6. CheckpointInv' /\ OneQuestion'
  BY <1>1, <1>2 DEF CheckpointInv, OneQuestion
<1>7. CASE req[r].pc # "performed"
  <2>1. UNCHANGED <<wasted, files>>
    BY <1>7 DEF Fail
  <2>2. \A m : Performing(m)' <=> Performing(m)
    BY <1>1, <1>2, <1>3, <1>7 DEF Performing, TableTypes
  <2>3. TableTypes' /\ StepInv'
    BY <1>1, <1>2, <2>1, <2>2 DEF TableTypes, StepInv
  <2>4. ASSUME NEW q \in Requests \ {r} PROVE RequestInv(q)'
    BY <1>2, <1>3, <2>1, <2>2, Facts DEF RequestInv
  <2> QED
    BY <1>3, <1>4, <1>5, <1>6, <2>3, <2>4, Assembled
<1>8. CASE req[r].pc = "performed"
  <2>1. PICK n \in Steps :
          /\ n = req[r].step /\ lock = r /\ n \notin stored /\ performed[n] = wasted[n] + 1
          /\ \A m \in Steps : Performing(m) <=> m = n
          /\ \A q \in Requests \ {r} : req[q].pc \notin {"locked", "performed"}
    BY <1>8, PerformerFacts
  <2>2. /\ wasted' = [wasted EXCEPT ![n] = @ + 1] /\ lock' = None
        /\ files' \subseteq files /\ \A f \in files \ files' : f = <<n, performed[n]>>
    BY <1>2, <1>8, <2>1 DEF Fail
  <2>3. /\ wasted' \in [Steps -> Nat] /\ wasted'[n] = wasted[n] + 1
        /\ \A m \in Steps \ {n} : wasted'[m] = wasted[m]
    BY <1>1, <2>2 DEF TableTypes
  <2>4. TableTypes'
    BY <1>1, <1>2, <2>2, <2>3 DEF TableTypes
  <2>5. \A m : ~Performing(m)'
    BY <2>2 DEF Performing
  <2>6. StepInv'
    <3>1. ASSUME NEW m \in Steps
          PROVE  /\ m \in stored' \/ Performing(m)' => performed'[m] = wasted'[m] + 1
                 /\ m \notin stored' /\ ~Performing(m)' => performed'[m] = wasted'[m]
                 /\ m \in stored' => <<m, evidence'[m]>> \in files'
      <4>1. CASE m = n
        BY <1>2, <2>1, <2>3, <2>5, <4>1
      <4>2. CASE m # n
        BY <1>1, <1>2, <2>1, <2>2, <2>3, <2>5, <4>2 DEF StepInv
      <4> QED
        BY <4>1, <4>2
    <3> QED
      BY <1>1, <1>2, <2>5, <3>1 DEF StepInv
  <2>7. ASSUME NEW q \in Requests \ {r} PROVE RequestInv(q)'
    BY <1>2, <1>3, <2>1, <2>5, Facts DEF RequestInv
  <2> QED
    BY <1>3, <1>4, <1>5, <1>6, <2>4, <2>6, <2>7, Assembled
<1> QED
  BY <1>7, <1>8

LEMMA CreateWorkflowPreserves ==
  ASSUME IInv, CreateWorkflow
  PROVE  IInv'
<1>1. /\ TypeOK /\ TableTypes /\ StepInv /\ CheckpointInv /\ OneQuestion
  BY DEF IInv, TypeOK, TableTypes
<1>2. /\ workflow' \in Rows /\ workflow'.current = workflow.current
      /\ workflow'.status = "pending"
  BY <1>1 DEF CreateWorkflow, TableTypes, Rows, Statuses, StepInv
<1>3. UNCHANGED <<step, checkpoint, evidence, files, lock, results, req, faults, history>>
  BY DEF CreateWorkflow
<1>4. stored' = stored /\ \A m : Performing(m)' <=> Performing(m)
  BY <1>3 DEF stored, Performing
<1>5. TypeOK'
  BY <1>1, <1>2, <1>3 DEF TypeOK, history
<1>6. StepInv' /\ CheckpointInv' /\ OneQuestion'
  BY <1>1, <1>2, <1>3, <1>4 DEF StepInv, CheckpointInv, OneQuestion, history
<1>7. ASSUME NEW q \in Requests PROVE RequestInv(q)'
  BY <1>2, <1>3, <1>4, Facts DEF RequestInv, history
<1> QED
  BY <1>5, <1>6, <1>7 DEF IInv

LEMMA NextPreservesInvariant == IInv /\ [Next]_vars => IInv'
<1> SUFFICES ASSUME IInv, [Next]_vars PROVE IInv'
  OBVIOUS
<1>1. CASE CreateWorkflow
  BY <1>1, CreateWorkflowPreserves
<1>2. ASSUME NEW r \in Requests, Request(r)
      PROVE  IInv'
  <2>1. ASSUME NEW op \in {"approve", "reject", "pause", "cancel"}, LoadDecision(r, op)
        PROVE  IInv'
    BY <2>1, LoadDecisionPreserves
  <2>2. CASE DecideWorkflow(r)
    BY <2>2, DecideWorkflowPreserves
  <2>3. ASSUME NEW c \in Checkpoints, NEW op \in {"allow", "deny"}, LoadCheckpoint(r, c, op)
        PROVE  IInv'
    BY <2>3, LoadCheckpointPreserves
  <2>4. CASE AllowCheckpoint(r)
    BY <2>4, AllowCheckpointPreserves
  <2>5. CASE DenyCheckpoint(r)
    BY <2>5, DenyCheckpointPreserves
  <2>6. CASE LoadStart(r)
    BY <2>6, BeginKeeps DEF LoadStart
  <2>7. CASE LoadResume(r)
    BY <2>7, BeginKeeps DEF LoadResume
  <2>8. CASE Finish(r)
    BY <2>8, FinishPreserves
  <2>9. ASSUME NEW c \in Checkpoints, Ask(r, c)
        PROVE  IInv'
    BY <2>9, AskPreserves
  <2>10. CASE Lock(r)
    BY <2>10, LockPreserves
  <2>11. CASE Perform(r)
    BY <2>11, PerformPreserves
  <2>12. ASSUME NEW heard \in BOOLEAN, Store(r, heard)
         PROVE  IInv'
    BY <2>12, StorePreserves
  <2>13. CASE StoreFails(r)
    BY <2>13, StoreFailsPreserves
  <2>14. ASSUME NEW answered \in BOOLEAN, Requery(r, answered)
         PROVE  IInv'
    BY <2>14, RequeryPreserves
  <2>15. ASSUME NEW crash \in BOOLEAN, Fail(r, crash)
         PROVE  IInv'
    BY <2>15, FailPreserves
  <2> QED
    BY <1>2, <2>1, <2>2, <2>3, <2>4, <2>5, <2>6, <2>7, <2>8, <2>9, <2>10, <2>11, <2>12, <2>13,
       <2>14, <2>15 DEF Request
<1>3. CASE UNCHANGED vars
  BY <1>3 DEF vars, rows, history, IInv, TypeOK, StepInv, CheckpointInv, OneQuestion,
              RequestInv, Performing, stored
<1> QED
  BY <1>1, <1>2, <1>3 DEF Next

LEMMA InvariantHolds == Spec => []IInv
  BY InitEstablishesInvariant, NextPreservesInvariant, PTL DEF Spec

------------------------------------------------------------------------------
(* Theorems                                                                 *)

\* TypeOK: every variable keeps its type, and the row lock belongs to the request that
\* executes a step
THEOREM TypeCorrect == Spec => []TypeOK
<1>1. IInv => TypeOK
  BY DEF IInv
<1> QED
  BY <1>1, InvariantHolds, PTL

\* PerformedOnce: execute_action acts once per step and once more per performance that was
\* not stored, because the plan of the step is flushed under the lock of the workflow's row
THEOREM StepsArePerformedOnce == Spec => []PerformedOnce
<1>1. IInv => PerformedOnce
  <2> SUFFICES ASSUME IInv, NEW n \in Steps PROVE performed[n] <= wasted[n] + 1
    BY DEF PerformedOnce
  <2>1. /\ n \in stored \/ Performing(n) => performed[n] = wasted[n] + 1
        /\ n \notin stored /\ ~Performing(n) => performed[n] = wasted[n]
    BY DEF IInv, StepInv
  <2>2. performed[n] \in Nat /\ wasted[n] \in Nat
    BY DEF IInv, TypeOK
  <2> QED
    BY <2>1, <2>2
<1> QED
  BY <1>1, InvariantHolds, PTL

\* InOrder: no step is performed before the step before it is stored, although the step to
\* execute is read before the lock is taken
THEOREM StepsAreInOrder == Spec => []InOrder
<1>1. IInv => InOrder
  <2> SUFFICES ASSUME IInv, NEW n \in Steps \ {1}, performed[n] > 0 PROVE n - 1 \in stored
    BY DEF InOrder
  <2>1. n <= workflow.current + 1 /\ stored = 1 .. workflow.current
    BY DEF IInv, StepInv
  <2>2. workflow.current \in Nat
    BY StepsAssumption DEF IInv, TypeOK, Rows
  <2> QED
    BY <2>1, <2>2 DEF Steps
<1> QED
  BY <1>1, InvariantHolds, PTL

\* GuardedOnlyWhenAllowed: a step that requires a checkpoint is performed only after a
\* checkpoint for it was approved
THEOREM GuardedStepsAreAllowed == Spec => []GuardedOnlyWhenAllowed
<1>1. IInv => GuardedOnlyWhenAllowed
  BY GuardedAssumption DEF IInv, StepInv, GuardedOnlyWhenAllowed
<1> QED
  BY <1>1, InvariantHolds, PTL

\* PerformedWhenDue: execute_step performs a step in its turn and with the confirmation it
\* requires, whatever was decided or stored since the step was chosen
THEOREM StepsAreDue == Spec => []PerformedWhenDue
<1>1. InOrder /\ GuardedOnlyWhenAllowed => PerformedWhenDue
  BY DEF PerformedWhenDue
<1> QED
  BY <1>1, StepsAreInOrder, GuardedStepsAreAllowed, PTL

\* OneQuestion: without overlapping requests a step has at most one checkpoint
THEOREM StepsAreAskedAboutOnce == Spec => []OneQuestion
<1>1. IInv => OneQuestion
  BY DEF IInv
<1> QED
  BY <1>1, InvariantHolds, PTL

\* DeliveredWhole: a completed workflow has stored every step, and the result of its task
\* is written exactly once
THEOREM CompletionIsWhole == Spec => []DeliveredWhole
<1>1. IInv => DeliveredWhole
  <2> SUFFICES ASSUME IInv PROVE DeliveredWhole
    OBVIOUS
  <2>1. /\ stored = 1 .. workflow.current
        /\ workflow.status = "completed" => workflow.current = N
        /\ results = IF workflow.current = N THEN 1 ELSE 0
    BY DEF IInv, StepInv
  <2>2. workflow.current \in 0 .. N /\ N \in Nat \ {0}
    BY StepsAssumption DEF IInv, TypeOK, Rows
  <2>3. stored = Steps <=> workflow.current = N
    BY <2>1, <2>2 DEF Steps
  <2> QED
    BY <2>1, <2>3 DEF DeliveredWhole
<1> QED
  BY <1>1, InvariantHolds, PTL

\* CaptureKept: the clean-up of a request that is unsure of its commit never removes the
\* screenshot that stored evidence refers to
THEOREM CapturesAreKept == Spec => []CaptureKept
<1>1. IInv => CaptureKept
  <2> SUFFICES ASSUME IInv, NEW n \in stored PROVE <<n, evidence[n]>> \in files
    BY DEF CaptureKept
  <2>1. n \in Steps
    BY DEF stored
  <2> QED
    BY <2>1 DEF IInv, StepInv
<1> QED
  BY <1>1, InvariantHolds, PTL
------------------------------------------------------------------------------
(***************************************************************************)
(* ComputerWorkflow implements StepLedger.  Only four kinds of steps are    *)
(* seen in the ledger: an allowance, a performance, a commit of a step, and *)
(* whatever ends a performance without one.                                 *)
(***************************************************************************)

Acting == \E r \in Requests : req[r].pc = "performed"

\* Nothing of the ledger changes
NotInLedger == UNCHANGED <<workflow.current, results, allowed, performed>> /\ Acting' = Acting

\* One request performs a step, the one that holds the row
LEMMA OnlyPerformer ==
  ASSUME IInv, NEW r \in Requests, req[r].pc = "performed"
  PROVE  Acting /\ \A q \in Requests \ {r} : req[q].pc # "performed"
BY Facts DEF Acting

\* A step of a request that performs nothing before or after it
LEMMA OutsideStays ==
  ASSUME IInv, NEW r \in Requests, req[r].pc # "performed", req'[r].pc # "performed",
         \A q \in Requests \ {r} : req'[q].pc = req[q].pc
  PROVE  Acting' = Acting
BY DEF Acting

\* Requests go on as they were when another one has written the status
LEMMA WroteKeepsPcs ==
  ASSUME NEW r \in Requests, WroteStatus(r), IInv
  PROVE  req'[r].pc = "idle" /\ \A q \in Requests \ {r} : req'[q].pc = req[q].pc
BY IdleType DEF WroteStatus, IInv, TypeOK, RequestType

LEMMA OthersNotInLedger ==
  ASSUME IInv, NEW r \in Requests,
         \/ \E op \in {"approve", "reject", "pause", "cancel"} : LoadDecision(r, op)
         \/ DecideWorkflow(r)
         \/ \E c \in Checkpoints, op \in {"allow", "deny"} : LoadCheckpoint(r, c, op)
         \/ DenyCheckpoint(r) \/ LoadStart(r) \/ LoadResume(r) \/ Finish(r)
         \/ \E c \in Checkpoints : Ask(r, c)
         \/ Lock(r) \/ \E answered \in BOOLEAN : Requery(r, answered)
  PROVE  NotInLedger
<1>1. /\ req \in [Requests -> RequestType] /\ workflow \in Rows /\ Idle.pc = "idle"
      /\ Idle \in RequestType
  BY IdleType DEF IInv, TypeOK
<1>2. ASSUME NEW x \in RequestType, req' = [req EXCEPT ![r] = x],
             req[r].pc # "performed", x.pc # "performed"
      PROVE  Acting' = Acting
  BY <1>1, <1>2, OutsideStays
<1>3. ASSUME WroteStatus(r), req[r].pc # "performed" PROVE Acting' = Acting
  BY <1>3, WroteKeepsPcs, OutsideStays
<1>4. ASSUME Close(r), req[r].pc # "performed" PROVE Acting' = Acting
  BY <1>1, <1>2, <1>4 DEF Close
<1>5. ASSUME NEW op \in {"approve", "reject", "pause", "cancel"}, LoadDecision(r, op) PROVE NotInLedger
  <2>1. req'[r].pc = op /\ \A q \in Requests \ {r} : req'[q] = req[q]
    BY <1>1, <1>5 DEF LoadDecision, Open, Idle
  <2> QED
    BY <1>5, <2>1, OutsideStays DEF LoadDecision, NotInLedger, rows, history
<1>6. CASE DecideWorkflow(r)
  BY <1>1, <1>3, <1>4, <1>6 DEF DecideWorkflow, NotInLedger, Rows
<1>7. ASSUME NEW c \in Checkpoints, NEW op \in {"allow", "deny"}, LoadCheckpoint(r, c, op)
      PROVE  NotInLedger
  <2>1. req'[r].pc = op /\ \A q \in Requests \ {r} : req'[q] = req[q]
    BY <1>1, <1>7 DEF LoadCheckpoint, Idle
  <2> QED
    BY <1>7, <2>1, OutsideStays DEF LoadCheckpoint, NotInLedger, rows, history
<1>8. CASE DenyCheckpoint(r)
  BY <1>1, <1>3, <1>4, <1>8 DEF DenyCheckpoint, DecideCheckpoint, NotInLedger, Rows
<1>9. CASE LoadStart(r) \/ LoadResume(r)
  <2>1. /\ Begin(r, NextStep) /\ req[r].pc = "idle"
        /\ UNCHANGED <<rows, files, faults, history>>
    BY <1>9 DEF LoadStart, LoadResume
  <2>2. req'[r].pc \in {"finish", "ask", "open"} /\ \A q \in Requests \ {r} : req'[q] = req[q]
    BY <1>1, <2>1 DEF Begin, Idle
  <2> QED
    BY <2>1, <2>2, OutsideStays DEF NotInLedger, rows, history
<1>10. CASE Finish(r)
  BY <1>1, <1>3, <1>10 DEF Finish, NotInLedger, Rows
<1>11. ASSUME NEW c \in Checkpoints, Ask(r, c) PROVE NotInLedger
  BY <1>1, <1>3, <1>11 DEF Ask, NotInLedger, Rows
<1>12. CASE Lock(r)
  <2>1. req'[r].pc # "performed" /\ \A q \in Requests \ {r} : req'[q] = req[q]
    BY <1>1, <1>12 DEF Lock, Close, RequestType
  <2> QED
    BY <1>12, <2>1, OutsideStays DEF Lock, NotInLedger, history
<1>13. ASSUME NEW answered \in BOOLEAN, Requery(r, answered) PROVE NotInLedger
  BY <1>4, <1>13 DEF Requery, NotInLedger, rows, history
<1> QED
  BY <1>5, <1>6, <1>7, <1>8, <1>9, <1>10, <1>11, <1>12, <1>13

\* Nobody acts after the performer has stored its step or lost it
LEMMA PerformerLeaves ==
  ASSUME IInv, NEW r \in Requests, req[r].pc = "performed", req'[r].pc # "performed",
         \A q \in Requests \ {r} : req'[q].pc = req[q].pc
  PROVE  Acting /\ ~Acting'
BY OnlyPerformer DEF Acting

LEMMA LedgerStep ==
  ASSUME IInv, NEW r \in Requests, Request(r)
  PROVE  Ledger!SLNext \/ NotInLedger
<1>1. /\ req \in [Requests -> RequestType] /\ workflow \in Rows /\ Idle.pc = "idle"
      /\ Idle \in RequestType /\ Acting \in BOOLEAN /\ Acting' \in BOOLEAN
      /\ performed \in [Steps -> Nat] /\ allowed \subseteq Steps /\ workflow.current \in Nat /\ N \in Nat
  BY IdleType, StepsAssumption DEF IInv, TypeOK, Acting, Rows
<1>2. CASE AllowCheckpoint(r)
  <2>1. req[r].step \in 1 .. N
    BY <1>2, Facts DEF AllowCheckpoint, RequestInv, Steps
  <2>2. Acting' = Acting
    <3>1. req'[r].pc = "idle" /\ \A q \in Requests \ {r} : req'[q].pc = req[q].pc
      BY <1>1, <1>2, WroteKeepsPcs DEF AllowCheckpoint, Close
    <3> QED
      BY <1>2, <3>1, OutsideStays DEF AllowCheckpoint
  <2>3. /\ allowed' = allowed \cup {req[r].step}
        /\ UNCHANGED <<workflow.current, results, performed>>
    BY <1>1, <1>2 DEF AllowCheckpoint, DecideCheckpoint, Rows
  <2>4. Ledger!Confirm(req[r].step)
    BY <2>2, <2>3 DEF Ledger!Confirm, Acting
  <2> QED
    BY <2>1, <2>4 DEF Ledger!SLNext
<1>3. CASE Perform(r)
  <2>1. /\ req[r].step = workflow.current + 1 /\ req[r].step \in Steps /\ lock = r
        /\ req[r].step \in Guarded => req[r].step \in allowed
    BY <1>3, Facts DEF Perform, RequestInv, Executes
  <2>2. ~Acting
    <3>1. \A q \in Requests : req[q].pc = "performed" => lock = q
      BY Facts
    <3> QED
      BY <1>3, <2>1, <3>1 DEF Perform, Acting
  <2>3. Acting'
    <3>1. req'[r].pc = "performed"
      BY <1>1, <1>3 DEF Perform, RequestType
    <3> QED
      BY <3>1 DEF Acting
  <2>4. /\ performed' = [performed EXCEPT ![workflow.current + 1] = @ + 1]
        /\ UNCHANGED <<workflow.current, results, allowed>>
    BY <1>3, <2>1 DEF Perform, rows
  <2>5. Ledger!CarryOut
    BY <1>1, <2>1, <2>2, <2>3, <2>4 DEF Ledger!CarryOut, Acting, Steps
  <2> QED
    BY <2>5 DEF Ledger!SLNext
<1>4. ASSUME NEW heard \in BOOLEAN, Store(r, heard) PROVE Ledger!SLNext
  <2>1. req[r].step = workflow.current + 1 /\ req[r].step \in Steps
    BY <1>4, Facts DEF Store, RequestInv, Executes
  <2>2. Acting /\ ~Acting'
    <3>1. req'[r].pc # "performed" /\ \A q \in Requests \ {r} : req'[q].pc = req[q].pc
      BY <1>1, <1>4 DEF Store, RequestType
    <3> QED
      BY <1>4, <3>1, PerformerLeaves DEF Store
  <2>3. /\ workflow'.current = workflow.current + 1
        /\ results' = IF workflow'.current = N THEN results + 1 ELSE results
        /\ UNCHANGED <<allowed, performed>>
    BY <1>1, <1>4, <2>1 DEF Store, LastStep, Rows
  <2>4. Ledger!Record
    BY <2>2, <2>3 DEF Ledger!Record, Acting
  <2> QED
    BY <2>4 DEF Ledger!SLNext
<1>5. ASSUME req[r].pc = "performed", req'[r].pc # "performed",
             \A q \in Requests \ {r} : req'[q].pc = req[q].pc,
             UNCHANGED <<workflow, results, allowed, performed>>
      PROVE  Ledger!SLNext
  BY <1>5, PerformerLeaves DEF Ledger!SLNext, Ledger!Lose, Acting
<1>6. CASE StoreFails(r)
  BY <1>1, <1>5, <1>6 DEF StoreFails, RequestType
<1>7. ASSUME NEW crash \in BOOLEAN, Fail(r, crash) PROVE Ledger!SLNext \/ NotInLedger
  <2>1. /\ req'[r].pc = "idle" /\ \A q \in Requests \ {r} : req'[q].pc = req[q].pc
        /\ UNCHANGED <<workflow, results, allowed, performed>>
    BY <1>1, <1>7 DEF Fail, Close
  <2>2. CASE req[r].pc = "performed"
    BY <1>5, <2>1, <2>2
  <2>3. CASE req[r].pc # "performed"
    BY <2>1, <2>3, OutsideStays DEF NotInLedger
  <2> QED
    BY <2>2, <2>3
<1> QED
  BY <1>2, <1>3, <1>4, <1>6, <1>7, OthersNotInLedger DEF Request

\* ImplementsStepLedger: requests that choose a step before they hold the row, fail at any
\* point or never hear of their commit carry the plan out one step at a time and in order,
\* with its confirmations, and deliver its result once (execute_step)
THEOREM LedgerRefinement == Spec => ImplementsStepLedger
<1>1. Init => Ledger!SLInit
  <2> SUFFICES ASSUME Init PROVE Ledger!SLInit
    OBVIOUS
  <2>1. \A r \in Requests : req[r].pc = "idle"
    BY IdleType DEF Init
  <2> QED
    BY <2>1 DEF Init, Ledger!SLInit, NoWorkflow, Steps
<1>2. IInv /\ [Next]_vars => [Ledger!SLNext]_(Ledger!ledger)
  <2> SUFFICES ASSUME IInv, [Next]_vars PROVE Ledger!SLNext \/ NotInLedger
    BY DEF NotInLedger, Ledger!ledger, Acting
  <2>1. CASE CreateWorkflow
    BY <2>1 DEF CreateWorkflow, NotInLedger, Acting, IInv, TypeOK, Rows, history
  <2>2. CASE UNCHANGED vars
    BY <2>2 DEF vars, rows, history, NotInLedger, Acting
  <2> QED
    BY <2>1, <2>2, LedgerStep DEF Next
<1> QED
  BY <1>1, <1>2, InvariantHolds, PTL DEF Spec, ImplementsStepLedger, Ledger!SLSpec
==============================================================================
