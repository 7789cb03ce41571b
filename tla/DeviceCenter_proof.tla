------------------------- MODULE DeviceCenter_proof -------------------------
(***************************************************************************)
(* Proofs about DeviceCenter for every number of devices, tokens, codes,   *)
(* nonces and requests.                                                    *)
(***************************************************************************)
EXTENDS DeviceCenter, FiniteSetTheorems, TLAPS

(***************************************************************************)
(* TokenIsLimited is inductive with the registrations that are under way   *)
(* counted among the devices, and with the fact that nobody gets past the  *)
(* commit of a token that is not used (RegistrationInv).                   *)
(* LastDecisionHolds is inductive with what the                            *)
(* copy of an undisturbed decision says of the row (DecisionInv): its      *)
(* enabled column is exact, and only heartbeats have written the status.   *)
(***************************************************************************)

Known(d) == device[d].status # "unregistered"

UnderWay(p) == req[p].pc \in {"consume", "find", "insert"}

Limited(k) ==
  Cardinality(Registered(k)) + Cardinality(Registering(k)) <= Cardinality(Requests)

RegistrationInv ==
  /\ \A p \in Requests : UnderWay(p) => req[p].token \in Tokens
  /\ \A p \in Requests : req[p].pc \in {"find", "insert"} => token[req[p].token] = "used"
  /\ \A d \in Devices :
       IF Known(d) THEN device[d].token \in Tokens /\ token[device[d].token] = "used"
       ELSE device[d].token = None
  /\ \A k \in Tokens : Limited(k)

Reporting == {"credential", "nonce", "online", "observe"}

Deciding(p, d) == req[p].pc \in Decisions /\ req[p].device = d

DecisionInv ==
  /\ \A p \in Requests : req[p].pc = "idle" => req[p].device = None
  /\ \A p \in Requests :
       req[p].pc \in Decisions \cup Reporting =>
         req[p].device \in Devices /\ Known(req[p].device)
  /\ \A d \in Devices : device[d].enabled => Known(d)
  /\ \A p, q \in Requests, d \in Devices :
       p # q /\ Deciding(p, d) /\ Deciding(q, d) => ~req[p].alone
  /\ \A p \in Requests, d \in Devices :
       Deciding(p, d) /\ req[p].alone =>
         /\ device[d].enabled = req[p].enabled
         /\ device[d].status \in {req[p].status, "online"}
  /\ \A d \in Devices :
       /\ ruled[d] \in {"none", "shut"} => ~device[d].enabled
       /\ ruled[d] = "open" => device[d].enabled /\ device[d].status \in {"approved", "online"}

IInv == TypeOK /\ RegistrationInv /\ DecisionInv

LEMMA InitEstablishesInvariant == Init => IInv
<1> SUFFICES ASSUME Init PROVE IInv
  OBVIOUS
<1>1. TypeOK
  BY SMTT(60) DEF Init, TypeOK, RequestType, Decisions, Idle, NoDevice, Statuses
<1>2. /\ \A p \in Requests : req[p].pc = "idle" /\ req[p].device = None
      /\ \A d \in Devices : ~Known(d) /\ ~device[d].enabled /\ ruled[d] = "none"
  BY DEF Init, Idle, NoDevice, Known
<1>3. RegistrationInv
  <2>1. \A p \in Requests : ~UnderWay(p)
    BY <1>2 DEF UnderWay
  <2>2. \A d \in Devices : device[d].token = None
    BY DEF Init, NoDevice
  <2>3. \A k \in Tokens : Registered(k) = {} /\ Registering(k) = {}
    BY <2>1, <2>2, NoneAssumption DEF Registered, Registering, UnderWay
  <2>4. \A k \in Tokens : Limited(k)
    <3>1. Cardinality({}) = 0
      BY FS_EmptySet
    <3>2. Cardinality(Requests) \in Nat
      BY FiniteAssumption, FS_CardinalityType
    <3>3. 0 + 0 <= Cardinality(Requests)
      BY <3>2
    <3> QED
      BY <2>3, <3>1, <3>3 DEF Limited
  <2> QED
    BY <1>2, <2>1, <2>2, <2>4 DEF RegistrationInv, UnderWay
<1>4. DecisionInv
  BY <1>2 DEF DecisionInv, Deciding, Decisions, Reporting
<1> QED
  BY <1>1, <1>3, <1>4 DEF IInv

------------------------------------------------------------------------------
(* Every variable keeps its type                                            *)

Pcs == {"idle", "consume", "find", "insert", "credential", "nonce", "online", "observe",
        "approve", "disable", "revoke"}

LEMMA RequestFields ==
  /\ Idle \in RequestType
  /\ \A x \in RequestType, pc \in Pcs : [x EXCEPT !.pc = pc] \in RequestType
  /\ \A x \in RequestType, d \in Devices : [x EXCEPT !.device = d] \in RequestType
  /\ \A x \in RequestType, k \in Tokens : [x EXCEPT !.token = k] \in RequestType
  /\ \A x \in RequestType, c \in Codes : [x EXCEPT !.code = c] \in RequestType
  /\ \A x \in RequestType, n \in Nonces : [x EXCEPT !.nonce = n] \in RequestType
  /\ \A x \in RequestType, b \in BOOLEAN : [x EXCEPT !.alone = b] \in RequestType
  /\ \A x \in RequestType, b \in BOOLEAN : [x EXCEPT !.enabled = b] \in RequestType
  /\ \A x \in RequestType, s \in Statuses : [x EXCEPT !.status = s] \in RequestType
<1> DEFINE T == [pc : Pcs, device : Devices \cup {None}, status : Statuses, enabled : BOOLEAN,
                 token : Tokens \cup {None}, code : Codes \cup {None}, nonce : Nonces \cup {None},
                 alone : BOOLEAN]
<1>1. RequestType = T
  BY DEF RequestType, Decisions, Pcs
<1>2. Idle \in T
  BY DEF Idle, Pcs, Statuses
<1>3. \A x \in T, pc \in Pcs : [x EXCEPT !.pc = pc] \in T
  OBVIOUS
<1>4. \A x \in T, d \in Devices : [x EXCEPT !.device = d] \in T
  OBVIOUS
<1>5. \A x \in T, k \in Tokens : [x EXCEPT !.token = k] \in T
  OBVIOUS
<1>6. \A x \in T, c \in Codes : [x EXCEPT !.code = c] \in T
  OBVIOUS
<1>7. \A x \in T, n \in Nonces : [x EXCEPT !.nonce = n] \in T
  OBVIOUS
<1>8. \A x \in T, b \in BOOLEAN : [x EXCEPT !.alone = b] \in T
  OBVIOUS
<1>9. \A x \in T, b \in BOOLEAN : [x EXCEPT !.enabled = b] \in T
  OBVIOUS
<1>10. \A x \in T, s \in Statuses : [x EXCEPT !.status = s] \in T
  OBVIOUS
<1> HIDE DEF T
<1> QED
  BY <1>1, <1>2, <1>3, <1>4, <1>5, <1>6, <1>7, <1>8, <1>9, <1>10

LEMMA RequestMoves ==
  ASSUME TypeOK, NEW r \in Requests
  PROVE  /\ Close(r) => req' \in [Requests -> RequestType]
         /\ \A pc \in Pcs : Step(r, pc) => req' \in [Requests -> RequestType]
         /\ \A x \in RequestType : Open(r, x) => req' \in [Requests -> RequestType]
<1>0. req \in [Requests -> RequestType]
  BY DEF TypeOK
<1>1. Close(r) => req' \in [Requests -> RequestType]
  BY <1>0, RequestFields DEF Close
<1>2. \A x \in RequestType : Open(r, x) => req' \in [Requests -> RequestType]
  BY <1>0 DEF Open
<1>3. \A pc \in Pcs : Step(r, pc) => req' \in [Requests -> RequestType]
  <2> TAKE pc \in Pcs
  <2>1. [req[r] EXCEPT !.pc = pc] \in RequestType
    BY <1>0, RequestFields
  <2> QED
    BY <1>0, <2>1 DEF Step
<1> QED
  BY <1>1, <1>2, <1>3

LEMMA RegisterType ==
  ASSUME TypeOK, RegistrationInv, NEW r \in Requests, Register(r)
  PROVE  TypeOK'
<1> USE RequestFields, RequestMoves
<1>0. req' \in [Requests -> RequestType]
  <2>1. CASE \E k \in Tokens, c \in Codes : LoadToken(r, k, c)
    <3> PICK k \in Tokens, c \in Codes : LoadToken(r, k, c)
      BY <2>1
    <3>1. [Idle EXCEPT !.pc = "consume", !.token = k, !.code = c] \in RequestType
      BY DEF Pcs
    <3> QED
      BY <3>1 DEF LoadToken
  <2>2. CASE Consume(r) \/ RefuseRegistration(r) \/ CodeIsFree(r)
    BY <2>2 DEF Pcs, Consume, RefuseRegistration, CodeIsFree
  <2>3. CASE \E d \in Devices : Insert(r, d)
    BY <2>3 DEF Insert
  <2> QED
    BY <2>1, <2>2, <2>3 DEF Register
<1>1. CASE \E k \in Tokens, c \in Codes : LoadToken(r, k, c)
  BY <1>0, <1>1 DEF TypeOK, LoadToken
<1>2. CASE Consume(r)
  BY <1>0, <1>2 DEF TypeOK, Consume
<1>3. CASE RefuseRegistration(r) \/ CodeIsFree(r)
  BY <1>0, <1>3 DEF TypeOK, RefuseRegistration, CodeIsFree
<1>4. CASE \E d \in Devices : Insert(r, d)
  <2> PICK d \in Devices : Insert(r, d)
    BY <1>4
  <2>1. req[r].token \in Tokens \cup {None} /\ req[r].code \in Codes \cup {None}
    BY DEF TypeOK, RequestType
  <2>2. device' \in [Devices -> [status : Statuses, enabled : BOOLEAN,
                                token : Tokens \cup {None}, code : Codes \cup {None}]]
    BY <2>1 DEF TypeOK, Insert, Statuses
  <2>3. credential' \in [Devices -> [nonce : Nonces \cup {None}, valid : BOOLEAN]]
    BY DEF TypeOK, Insert
  <2> QED
    BY <1>0, <2>2, <2>3 DEF TypeOK, Insert
<1> QED
  BY <1>1, <1>2, <1>3, <1>4 DEF Register

LEMMA DecideType ==
  ASSUME TypeOK, DecisionInv, NEW r \in Requests, NEW op \in Decisions, NEW s \in Statuses, NEW b \in BOOLEAN,
         Decide(r, op, s, b)
  PROVE  /\ device' \in [Devices -> [status : Statuses, enabled : BOOLEAN,
                                    token : Tokens \cup {None}, code : Codes \cup {None}]]
         /\ req' \in [Requests -> RequestType]
         /\ ruled' \in [Devices -> {"none", "open", "shut", "mixed"}]
<1>1. Verdict(op) \in {"open", "shut"}
  BY DEF Verdict
<1>2. req' \in [Requests -> RequestType]
  BY RequestMoves DEF Decide
<1>3. ruled' \in [Devices -> {"none", "open", "shut", "mixed"}]
  BY <1>1, Zenon DEF TypeOK, Decide
<1>4. req[r].device \in Devices
  BY DEF Decide, DecisionInv
<1>5. Decided(device[req[r].device], req[r], s, b)
        \in [status : Statuses, enabled : BOOLEAN,
            token : Tokens \cup {None}, code : Codes \cup {None}]
  <2>1. /\ Written(req[r].status, device[req[r].device].status, s) \in Statuses
        /\ Written(req[r].enabled, device[req[r].device].enabled, b) \in BOOLEAN
    BY <1>4 DEF TypeOK, Written
  <2> DEFINE row == device[req[r].device]
             Row == [status : Statuses, enabled : BOOLEAN,
                     token : Tokens \cup {None}, code : Codes \cup {None}]
  <2>2. PICK t \in Statuses, e \in BOOLEAN :
          t = Written(req[r].status, row.status, s) /\ e = Written(req[r].enabled, row.enabled, b)
    BY <2>1
  <2>3. row \in Row
    BY <1>4 DEF TypeOK
  <2>4. [row EXCEPT !.status = t, !.enabled = e] \in Row
    BY <2>3
  <2>5. Decided(row, req[r], s, b) = [row EXCEPT !.status = t, !.enabled = e]
    BY <2>2, Zenon DEF Decided
  <2> QED
    BY <2>4, <2>5
<1>6. device' \in [Devices -> [status : Statuses, enabled : BOOLEAN,
                              token : Tokens \cup {None}, code : Codes \cup {None}]]
  BY <1>4, <1>5 DEF TypeOK, Decide
<1> QED
  BY <1>2, <1>3, <1>6

LEMMA ManageType ==
  ASSUME TypeOK, DecisionInv, NEW r \in Requests, Manage(r)
  PROVE  TypeOK'
<1>0. TRUE \in BOOLEAN /\ FALSE \in BOOLEAN /\ {"approved", "disabled", "revoked"} \subseteq Statuses
      /\ Decisions = {"approve", "disable", "revoke"}
  BY DEF Statuses, Decisions
<1>1. CASE \E d \in Managed, op \in Decisions : LoadToDecide(r, d, op)
  <2> PICK d \in Managed, op \in Decisions : LoadToDecide(r, d, op)
    BY <1>1
  <2>1. d \in Devices
    BY ManagedAssumption
  <2> DEFINE others == {p \in Requests \ {r} : req[p].device = d /\ req[p].pc \in Decisions}
  <2>2. req' \in [Requests -> RequestType]
    <3>1. op \in Pcs /\ device[d].status \in Statuses /\ device[d].enabled \in BOOLEAN
      BY <2>1 DEF Decisions, Pcs, TypeOK
    <3>2. [Idle EXCEPT !.pc = op, !.device = d, !.alone = others = {},
                       !.status = device[d].status, !.enabled = device[d].enabled] \in RequestType
      <4> HIDE DEF others
      <4>1. [Idle EXCEPT !.pc = op, !.device = d] \in RequestType
        BY <2>1, <3>1, RequestFields
      <4>2. [Idle EXCEPT !.pc = op, !.device = d, !.alone = others = {}] \in RequestType
        <5>1. (others = {}) \in BOOLEAN
          OBVIOUS
        <5> QED
          BY <4>1, <5>1, RequestFields
      <4> QED
        BY <3>1, <4>2, RequestFields
    <3>3. \A p \in Requests : [req[p] EXCEPT !.alone = @ /\ p \notin others] \in RequestType
      <4> TAKE p \in Requests
      <4>1. (req[p].alone /\ p \notin others) \in BOOLEAN /\ req[p] \in RequestType
        BY DEF TypeOK, RequestType
      <4> QED
        BY <4>1, RequestFields
    <3>4. req' = [p \in Requests |->
                   IF p = r
                   THEN [Idle EXCEPT !.pc = op, !.device = d, !.alone = others = {},
                                     !.status = device[d].status, !.enabled = device[d].enabled]
                   ELSE [req[p] EXCEPT !.alone = @ /\ p \notin others]]
      BY DEF LoadToDecide
    <3> HIDE DEF others
    <3> QED
      BY <3>2, <3>3, <3>4
  <2> QED
    BY <2>2 DEF TypeOK, LoadToDecide
<1>2. CASE Approve(r)
  BY <1>0, <1>2, DecideType DEF TypeOK, Approve, Decide
<1>3. CASE Disable(r)
  BY <1>0, <1>3, DecideType DEF TypeOK, Disable, Decide
<1>4. CASE Revoke(r)
  <2>1. credential' \in [Devices -> [nonce : Nonces \cup {None}, valid : BOOLEAN]]
    <3>1. PICK d \in Devices : d = req[r].device
      BY <1>0, <1>4 DEF Revoke, Decide, DecisionInv
    <3>2. credential' = [credential EXCEPT ![d].valid = FALSE]
      BY <1>4, <3>1 DEF Revoke
    <3> QED
      BY <3>2 DEF TypeOK
  <2> QED
    BY <1>0, <1>4, <2>1, DecideType DEF TypeOK, Revoke, Decide
<1> QED
  BY <1>1, <1>2, <1>3, <1>4 DEF Manage

LEMMA ReportType ==
  ASSUME TypeOK, DecisionInv, NEW r \in Requests, Report(r)
  PROVE  TypeOK'
<1> USE RequestFields, RequestMoves
<1>1. CASE \E d \in Managed, n \in Nonces : LoadHeartbeat(r, d, n)
  <2> PICK d \in Managed, n \in Nonces : LoadHeartbeat(r, d, n)
    BY <1>1
  <2>1. [Idle EXCEPT !.pc = "credential", !.device = d, !.nonce = n] \in RequestType
    BY ManagedAssumption DEF Pcs
  <2>2. req' \in [Requests -> RequestType]
    BY <2>1 DEF LoadHeartbeat
  <2> QED
    BY <2>2 DEF TypeOK, LoadHeartbeat
<1>2. CASE LoadCredential(r)
  <2>1. req' \in [Requests -> RequestType]
    BY <1>2 DEF LoadCredential, Pcs
  <2> QED
    BY <1>2, <2>1 DEF TypeOK, LoadCredential
<1>3. CASE RememberNonce(r)
  <2>1. req' \in [Requests -> RequestType]
    BY <1>3 DEF RememberNonce, Pcs
  <2>2. req[r].nonce \in Nonces \cup {None}
    BY DEF TypeOK, RequestType
  <2>3. credential' \in [Devices -> [nonce : Nonces \cup {None}, valid : BOOLEAN]]
    BY <1>3, <2>2 DEF TypeOK, RememberNonce
  <2> QED
    BY <1>3, <2>1, <2>3 DEF TypeOK, RememberNonce
<1>4. CASE MarkOnline(r)
  <2>1. req' \in [Requests -> RequestType]
    BY <1>4 DEF MarkOnline
  <2>2. req[r].device \in Devices /\ "online" \in Statuses
    BY <1>4 DEF MarkOnline, DecisionInv, Reporting, Statuses
  <2>3. device' \in [Devices -> [status : Statuses, enabled : BOOLEAN,
                                token : Tokens \cup {None}, code : Codes \cup {None}]]
    <3> DEFINE Row == [status : Statuses, enabled : BOOLEAN,
                       token : Tokens \cup {None}, code : Codes \cup {None}]
    <3>1. \A x \in Row : [x EXCEPT !.status = "online"] \in Row
      BY <2>2
    <3>2. device \in [Devices -> Row]
      BY DEF TypeOK
    <3>3. device' = [device EXCEPT ![req[r].device] = [@ EXCEPT !.status = "online"]]
      BY <1>4 DEF MarkOnline
    <3> HIDE DEF Row
    <3>4. device' \in [Devices -> Row]
      BY <2>2, <3>1, <3>2, <3>3
    <3> QED
      BY <3>4 DEF Row
  <2> QED
    BY <1>4, <2>1, <2>3 DEF TypeOK, MarkOnline
<1>5. CASE \E d \in Managed : LoadToObserve(r, d)
  <2> PICK d \in Managed : LoadToObserve(r, d)
    BY <1>5
  <2>1. [Idle EXCEPT !.pc = "observe", !.device = d] \in RequestType
    BY ManagedAssumption DEF Pcs
  <2>2. req' \in [Requests -> RequestType]
    BY <2>1 DEF LoadToObserve
  <2> QED
    BY <2>2 DEF TypeOK, LoadToObserve
<1>6. CASE \E o \in Observations, status \in {"waiting", "running", "blocked"} :
             CreateObservation(r, o, status)
  <2>1. req' \in [Requests -> RequestType]
    BY <1>6 DEF CreateObservation
  <2>2. req[r].device \in Devices \cup {None}
    BY DEF TypeOK, RequestType
  <2> QED
    BY <1>6, <2>1, <2>2, SMTT(60) DEF TypeOK, CreateObservation
<1> QED
  BY <1>1, <1>2, <1>3, <1>4, <1>5, <1>6 DEF Report

LEMMA FailType ==
  ASSUME TypeOK, NEW r \in Requests, Fail(r)
  PROVE  TypeOK'
<1>1. req' \in [Requests -> RequestType]
  BY RequestMoves DEF Fail
<1> QED
  BY <1>1 DEF TypeOK, Fail

LEMMA TypeStep ==
  ASSUME TypeOK, RegistrationInv, DecisionInv, Next
  PROVE  TypeOK'
<1>1. CASE \E k \in Tokens : CreateToken(k)
  BY <1>1 DEF TypeOK, CreateToken
<1>2. CASE \E o \in Observations : CancelObservation(o)
  BY <1>2, SMTT(60) DEF TypeOK, CancelObservation
<1>3. CASE \E r \in Requests : Register(r) \/ Manage(r) \/ Report(r) \/ Fail(r)
  BY <1>3, RegisterType, ManageType, ReportType, FailType
<1> QED
  BY <1>1, <1>2, <1>3 DEF Next

------------------------------------------------------------------------------
(* Registrations                                                            *)

\* A step that starts no registration and brings none to its end
RegistrationsRest ==
  /\ \A d \in Devices : device'[d].token = device[d].token /\ Known(d)' = Known(d)
  /\ \A k \in Tokens : token[k] = "used" => token'[k] = "used"
  /\ \A p \in Requests : UnderWay(p)' =>
       UnderWay(p) /\ req'[p].pc = req[p].pc /\ req'[p].token = req[p].token

LEMMA Finite ==
  \A k : /\ IsFiniteSet(Registered(k)) /\ IsFiniteSet(Registering(k))
         /\ Cardinality(Registered(k)) \in Nat /\ Cardinality(Registering(k)) \in Nat
         /\ Cardinality(Registering(k)) <= Cardinality(Requests)
         /\ Cardinality(Requests) \in Nat
<1> TAKE k
<1>1. Registered(k) \subseteq Devices /\ Registering(k) \subseteq Requests
  BY DEF Registered, Registering
<1>2. /\ IsFiniteSet(Registered(k)) /\ IsFiniteSet(Registering(k))
      /\ Cardinality(Registering(k)) <= Cardinality(Requests)
  BY <1>1, FiniteAssumption, FS_Subset
<1> QED
  BY <1>2, FiniteAssumption, FS_CardinalityType

\* No new device and no new registration of k
LEMMA StaysLimited ==
  ASSUME NEW k, Limited(k), Registered(k)' = Registered(k), Registering(k)' \subseteq Registering(k)
  PROVE  Limited(k)'
<1>1. Cardinality(Registering(k)') <= Cardinality(Registering(k))
  BY Finite, FS_Subset
<1>2. Cardinality(Registering(k)') \in Nat
  BY Finite, FS_Subset, FS_CardinalityType
<1> QED
  BY <1>1, <1>2, Finite DEF Limited

LEMMA RestKeepsRegistrations ==
  ASSUME RegistrationInv, RegistrationsRest
  PROVE  RegistrationInv'
<1>1. \A p \in Requests : UnderWay(p)' => req'[p].token \in Tokens
  BY DEF RegistrationInv, RegistrationsRest
<1>2. \A p \in Requests : req'[p].pc \in {"find", "insert"} => token'[req'[p].token] = "used"
  BY DEF RegistrationInv, RegistrationsRest, UnderWay
<1>3. \A d \in Devices :
        IF Known(d)' THEN device'[d].token \in Tokens /\ token'[device'[d].token] = "used"
        ELSE device'[d].token = None
  BY DEF RegistrationInv, RegistrationsRest
<1>4. \A k \in Tokens : Registered(k)' = Registered(k) /\ Registering(k)' \subseteq Registering(k)
  BY DEF RegistrationsRest, Registered, Registering, UnderWay
<1>5. \A k \in Tokens : Limited(k)'
  BY <1>4, StaysLimited DEF RegistrationInv
<1> QED
  BY <1>1, <1>2, <1>3, <1>5 DEF RegistrationInv

\* What one request does to the others' records: nothing
LEMMA OthersKeep ==
  ASSUME TypeOK, NEW r \in Requests
  PROVE  /\ Close(r) => req'[r] = Idle /\ \A p \in Requests \ {r} : req'[p] = req[p]
         /\ \A pc : Step(r, pc) => /\ req'[r] = [req[r] EXCEPT !.pc = pc]
                                 /\ \A p \in Requests \ {r} : req'[p] = req[p]
         /\ \A x : Open(r, x) => req'[r] = x /\ \A p \in Requests \ {r} : req'[p] = req[p]
BY DEF TypeOK, Close, Step, Open

LEMMA StepMoves ==
  ASSUME TypeOK, NEW r \in Requests, NEW pc, Step(r, pc)
  PROVE  /\ req'[r].pc = pc /\ req'[r].device = req[r].device
         /\ \A p \in Requests \ {r} : req'[p] = req[p]
BY DEF TypeOK, RequestType, Step

LEMMA IdleFields == Idle.pc = "idle" /\ Idle.device = None
BY DEF Idle

\* Nobody has come past the commit of a token that is still fresh
LEMMA LoadTokenKeepsRegistrations ==
  ASSUME TypeOK, RegistrationInv, NEW r \in Requests, NEW k \in Tokens, NEW c \in Codes,
         LoadToken(r, k, c)
  PROVE  RegistrationInv'
<1>1. /\ req'[r].pc = "consume" /\ req'[r].token = k
      /\ \A p \in Requests \ {r} : req'[p] = req[p]
  <2>1. LET x == [Idle EXCEPT !.pc = "consume", !.token = k, !.code = c]
        IN  x.pc = "consume" /\ x.token = k
    BY DEF Idle
  <2> QED
    BY <2>1, OthersKeep DEF LoadToken
<1>2. token' = token /\ device' = device /\ token[k] = "fresh"
  BY DEF LoadToken
<1>3. Registered(k)' = {}
  BY <1>2, NoneAssumption DEF RegistrationInv, Registered
<1>4. Cardinality(Registering(k)') <= Cardinality(Requests) /\ Cardinality(Registering(k)') \in Nat
  <2>1. Registering(k)' \subseteq Requests
    BY DEF Registering
  <2> QED
    BY <2>1, FiniteAssumption, FS_Subset, FS_CardinalityType
<1>5. Limited(k)'
  BY <1>3, <1>4, FS_EmptySet, FiniteAssumption, FS_CardinalityType DEF Limited
<1>6. ASSUME NEW j \in Tokens, j # k PROVE Limited(j)'
  <2>1. Registered(j)' = Registered(j) /\ Registering(j)' \subseteq Registering(j)
    BY <1>1, <1>2, <1>6 DEF Registered, Registering
  <2> QED
    BY <2>1, StaysLimited DEF RegistrationInv
<1>7. \A p \in Requests : UnderWay(p)' => req'[p].token \in Tokens
  BY <1>1 DEF RegistrationInv, UnderWay
<1>8. \A p \in Requests : req'[p].pc \in {"find", "insert"} => token'[req'[p].token] = "used"
  BY <1>1, <1>2 DEF RegistrationInv
<1>9. \A d \in Devices :
        IF Known(d)' THEN device'[d].token \in Tokens /\ token'[device'[d].token] = "used"
        ELSE device'[d].token = None
  BY <1>2 DEF RegistrationInv, Known
<1> QED
  BY <1>5, <1>6, <1>7, <1>8, <1>9 DEF RegistrationInv

\* The commit of the token, and the look at the codes: the registration goes on
LEMMA MovesKeepRegistrations ==
  ASSUME TypeOK, RegistrationInv, NEW r \in Requests, Consume(r) \/ CodeIsFree(r)
  PROVE  RegistrationInv'
<1>1. /\ UnderWay(r) /\ req'[r].pc \in {"find", "insert"} /\ req'[r].token = req[r].token
      /\ \A p \in Requests \ {r} : req'[p] = req[p]
      /\ device' = device
  <2>1. /\ UnderWay(r) /\ device' = device
        /\ \E pc \in {"find", "insert"} : Step(r, pc)
    BY DEF Consume, CodeIsFree, UnderWay
  <2> PICK pc \in {"find", "insert"} : Step(r, pc)
    BY <2>1
  <2>2. [req[r] EXCEPT !.pc = pc].pc = pc /\ [req[r] EXCEPT !.pc = pc].token = req[r].token
    BY DEF TypeOK, RequestType
  <2> QED
    BY <2>1, <2>2, OthersKeep
<1>2. /\ token'[req[r].token] = "used"
      /\ \A k \in Tokens : token[k] = "used" => token'[k] = "used"
  BY <1>1 DEF Consume, CodeIsFree, RegistrationInv, TypeOK
<1>3. \A p \in Requests : /\ UnderWay(p)' <=> UnderWay(p)
                          /\ UnderWay(p) => req'[p].token = req[p].token
  BY <1>1 DEF UnderWay
<1>4. \A p \in Requests : UnderWay(p)' => req'[p].token \in Tokens
  BY <1>3 DEF RegistrationInv
<1>5. \A p \in Requests : req'[p].pc \in {"find", "insert"} => token'[req'[p].token] = "used"
  BY <1>1, <1>2, <1>3 DEF RegistrationInv, UnderWay
<1>6. \A d \in Devices :
        IF Known(d)' THEN device'[d].token \in Tokens /\ token'[device'[d].token] = "used"
        ELSE device'[d].token = None
  BY <1>1, <1>2 DEF RegistrationInv, Known
<1>7. \A k \in Tokens : Registered(k)' = Registered(k) /\ Registering(k)' \subseteq Registering(k)
  BY <1>1, <1>3 DEF Registered, Registering, UnderWay
<1>8. \A k \in Tokens : Limited(k)'
  BY <1>7, StaysLimited DEF RegistrationInv
<1> QED
  BY <1>4, <1>5, <1>6, <1>8 DEF RegistrationInv

\* A registration becomes a device
LEMMA InsertKeepsRegistrations ==
  ASSUME TypeOK, RegistrationInv, NEW r \in Requests, NEW x \in Devices, Insert(r, x)
  PROVE  RegistrationInv'
<1> DEFINE k == req[r].token
<1>1. /\ req'[r].pc = "idle" /\ \A p \in Requests \ {r} : req'[p] = req[p]
      /\ token' = token /\ req[r].pc = "insert" /\ ~Known(x)
  BY OthersKeep, IdleFields DEF Insert, Known
<1>2. k \in Tokens /\ token[k] = "used" /\ device[x].token = None /\ r \in Registering(k)
  BY <1>1 DEF RegistrationInv, UnderWay, Registering
<1>3. /\ Known(x)' /\ device'[x].token = k
      /\ \A d \in Devices \ {x} : device'[d] = device[d]
  BY DEF Insert, TypeOK, Known
<1> HIDE DEF k
<1>4. \A p \in Requests : UnderWay(p)' => req'[p].token \in Tokens
  BY <1>1 DEF RegistrationInv, UnderWay
<1>5. \A p \in Requests : req'[p].pc \in {"find", "insert"} => token'[req'[p].token] = "used"
  BY <1>1 DEF RegistrationInv
<1>6. \A d \in Devices :
        IF Known(d)' THEN device'[d].token \in Tokens /\ token'[device'[d].token] = "used"
        ELSE device'[d].token = None
  BY <1>1, <1>2, <1>3 DEF RegistrationInv, Known
<1>7. ASSUME NEW j \in Tokens, j # k PROVE Limited(j)'
  <2>1. Registered(j)' = Registered(j) /\ Registering(j)' \subseteq Registering(j)
    BY <1>1, <1>2, <1>3, <1>7, NoneAssumption DEF Registered, Registering
  <2> QED
    BY <2>1, StaysLimited DEF RegistrationInv
<1>8. ASSUME NEW j \in Tokens, j = k PROVE Limited(j)'
  <2>1. x \notin Registered(j) /\ Registered(j)' = Registered(j) \cup {x}
    BY <1>2, <1>3, <1>8, NoneAssumption DEF Registered
  <2>2. r \in Registering(j) /\ Registering(j)' = Registering(j) \ {r}
    BY <1>1, <1>2, <1>8 DEF Registering
  <2>3. Cardinality(Registered(j)') = Cardinality(Registered(j)) + 1
    BY <2>1, Finite, FS_AddElement
  <2>4. Cardinality(Registering(j)') = Cardinality(Registering(j)) - 1
    BY <2>2, Finite, FS_RemoveElement
  <2>5. Limited(j)
    BY DEF RegistrationInv
  <2> QED
    BY <2>3, <2>4, <2>5, Finite DEF Limited
<1> QED
  BY <1>4, <1>5, <1>6, <1>7, <1>8 DEF RegistrationInv

\* What a decision does
LEMMA DecideEffect ==
  ASSUME TypeOK, DecisionInv, NEW r \in Requests, NEW op \in Decisions, NEW s \in Statuses, NEW b,
         Decide(r, op, s, b), s # "unregistered"
  PROVE  LET d == req[r].device IN
         /\ d \in Devices /\ Deciding(r, d) /\ Known(d)
         /\ device'[d].token = device[d].token /\ device'[d].code = device[d].code
         /\ device'[d].status = Written(req[r].status, device[d].status, s)
         /\ device'[d].enabled = Written(req[r].enabled, device[d].enabled, b)
         /\ device'[d].status # "unregistered"
         /\ \A e \in Devices \ {d} : device'[e] = device[e] /\ ruled'[e] = ruled[e]
         /\ ruled'[d] = IF req[r].alone THEN Verdict(op) ELSE "mixed"
         /\ req'[r] = Idle /\ \A p \in Requests \ {r} : req'[p] = req[p]
<1> DEFINE d == req[r].device
<1>1. d \in Devices /\ Deciding(r, d) /\ Known(d)
  BY DEF Decide, DecisionInv, Deciding
<1>2. device' = [device EXCEPT ![d] = Decided(device[d], req[r], s, b)]
  BY DEF Decide
<1>3. /\ device'[d] = Decided(device[d], req[r], s, b)
      /\ \A e \in Devices \ {d} : device'[e] = device[e]
  BY <1>1, <1>2 DEF TypeOK
<1>4. /\ device'[d].token = device[d].token /\ device'[d].code = device[d].code
      /\ device'[d].status = Written(req[r].status, device[d].status, s)
      /\ device'[d].enabled = Written(req[r].enabled, device[d].enabled, b)
  <2>1. device[d] \in [status : Statuses, enabled : BOOLEAN,
                      token : Tokens \cup {None}, code : Codes \cup {None}]
    BY <1>1 DEF TypeOK
  <2> QED
    BY <1>3, <2>1 DEF Decided
<1>5. device'[d].status # "unregistered"
  BY <1>1, <1>4 DEF Known, Written
<1>6. /\ \A e \in Devices \ {d} : ruled'[e] = ruled[e]
      /\ ruled'[d] = IF req[r].alone THEN Verdict(op) ELSE "mixed"
  BY <1>1 DEF Decide, TypeOK
<1>7. req'[r] = Idle /\ \A p \in Requests \ {r} : req'[p] = req[p]
  BY OthersKeep DEF Decide
<1> QED
  BY <1>1, <1>3, <1>4, <1>5, <1>6, <1>7

LEMMA DecideRests ==
  ASSUME TypeOK, DecisionInv, NEW r \in Requests, NEW op \in Decisions, NEW s \in Statuses, NEW b,
         Decide(r, op, s, b), s # "unregistered"
  PROVE  RegistrationsRest
<1>1. \A e \in Devices : /\ device'[e].token = device[e].token /\ device'[e].code = device[e].code
                         /\ Known(e)' = Known(e)
  <2> TAKE e \in Devices
  <2>1. CASE e = req[r].device
    BY <2>1, DecideEffect DEF Known
  <2>2. CASE e # req[r].device
    BY <2>2, DecideEffect DEF Known
  <2> QED
    BY <2>1, <2>2
<1>2. token' = token
  BY DEF Decide
<1>3. \A p \in Requests : UnderWay(p)' => p # r /\ req'[p] = req[p]
  BY DecideEffect, IdleFields DEF UnderWay
<1> QED
  BY <1>1, <1>2, <1>3 DEF RegistrationsRest, UnderWay

LEMMA DecisionOps ==
  /\ {"approve", "disable", "revoke"} = Decisions
  /\ {"approved", "disabled", "revoked"} \subseteq Statuses \ {"unregistered"}
BY DEF Decisions, Statuses

Rivals(r, d) == {p \in Requests \ {r} : req[p].device = d /\ req[p].pc \in Decisions}

LEMMA LoadToDecideEffect ==
  ASSUME TypeOK, NEW r \in Requests, NEW d \in Devices, NEW op \in Decisions, LoadToDecide(r, d, op)
  PROVE  /\ req[r].pc = "idle" /\ Known(d) /\ device' = device /\ token' = token
         /\ ruled' = ruled
         /\ req'[r].pc = op /\ req'[r].device = d /\ (req'[r].alone <=> Rivals(r, d) = {})
         /\ req'[r].status = device[d].status /\ req'[r].enabled = device[d].enabled
         /\ \A p \in Requests \ {r} :
              /\ req'[p].pc = req[p].pc /\ req'[p].device = req[p].device
              /\ req'[p].token = req[p].token /\ req'[p].code = req[p].code
              /\ req'[p].status = req[p].status /\ req'[p].enabled = req[p].enabled
              /\ req'[p].alone => req[p].alone /\ p \notin Rivals(r, d)
<1> DEFINE others == Rivals(r, d)
           new == [Idle EXCEPT !.pc = op, !.device = d, !.alone = others = {},
                               !.status = device[d].status, !.enabled = device[d].enabled]
           kept(p) == [req[p] EXCEPT !.alone = @ /\ p \notin others]
<1>1. req[r].pc = "idle" /\ Known(d) /\ device' = device /\ token' = token
      /\ ruled' = ruled
  BY DEF LoadToDecide, Known
<1>2. req' = [p \in Requests |-> IF p = r THEN new ELSE kept(p)]
  BY DEF LoadToDecide, Rivals
<1>3. /\ new.pc = op /\ new.device = d /\ (new.alone <=> others = {})
      /\ new.status = device[d].status /\ new.enabled = device[d].enabled
  BY DEF Idle
<1>4. \A p \in Requests :
        /\ kept(p).pc = req[p].pc /\ kept(p).device = req[p].device
        /\ kept(p).token = req[p].token /\ kept(p).code = req[p].code
        /\ kept(p).status = req[p].status /\ kept(p).enabled = req[p].enabled
        /\ (kept(p).alone <=> req[p].alone /\ p \notin others)
  <2> TAKE p \in Requests
  <2>1. req[p] \in RequestType
    BY DEF TypeOK
  <2>2. /\ kept(p).pc = req[p].pc /\ kept(p).device = req[p].device
        /\ kept(p).token = req[p].token /\ kept(p).code = req[p].code
        /\ kept(p).status = req[p].status /\ kept(p).enabled = req[p].enabled
    BY <2>1, SMTT(60) DEF RequestType
  <2>3. \A b : [req[p] EXCEPT !.alone = b].alone = b
    BY <2>1 DEF RequestType
  <2>4. kept(p).alone = (req[p].alone /\ p \notin others)
    BY <2>3, Zenon
  <2> QED
    BY <2>2, <2>4
<1> HIDE DEF new, kept, others
<1>5. req'[r] = new /\ \A p \in Requests \ {r} : req'[p] = kept(p)
  BY <1>2
<1> USE DEF others
<1> QED
  BY <1>1, <1>3, <1>4, <1>5

LEMMA ManageRests ==
  ASSUME TypeOK, DecisionInv, NEW r \in Requests, Manage(r)
  PROVE  RegistrationsRest
<1>1. CASE \E d \in Managed, op \in Decisions : LoadToDecide(r, d, op)
  <2> PICK d \in Devices, op \in Decisions : LoadToDecide(r, d, op)
    BY <1>1, ManagedAssumption
  <2>1. \A p \in Requests : UnderWay(p)' =>
          /\ p # r /\ req'[p].pc = req[p].pc
          /\ req'[p].token = req[p].token /\ req'[p].code = req[p].code
    BY LoadToDecideEffect DEF UnderWay, Decisions
  <2>2. device' = device /\ token' = token
    BY LoadToDecideEffect
  <2> QED
    BY <2>1, <2>2 DEF RegistrationsRest, UnderWay, Known
<1>2. CASE Approve(r)
  BY <1>2, DecideRests, DecisionOps DEF Approve
<1>3. CASE Disable(r)
  BY <1>3, DecideRests, DecisionOps DEF Disable
<1>4. CASE Revoke(r)
  BY <1>4, DecideRests, DecisionOps DEF Revoke
<1> QED
  BY <1>1, <1>2, <1>3, <1>4 DEF Manage

LEMMA ReportRests ==
  ASSUME TypeOK, DecisionInv, NEW r \in Requests, Report(r)
  PROVE  RegistrationsRest
<1>1. CASE \E d \in Managed, n \in Nonces : LoadHeartbeat(r, d, n)
  <2> PICK d \in Managed, n \in Nonces : LoadHeartbeat(r, d, n)
    BY <1>1
  <2>1. [Idle EXCEPT !.pc = "credential", !.device = d, !.nonce = n].pc = "credential"
    BY DEF Idle
  <2>2. req'[r].pc = "credential" /\ \A p \in Requests \ {r} : req'[p] = req[p]
    BY <2>1, OthersKeep DEF LoadHeartbeat
  <2> QED
    BY <2>2 DEF LoadHeartbeat, RegistrationsRest, UnderWay, Known
<1>2. CASE LoadCredential(r)
  <2>1. [req[r] EXCEPT !.pc = "nonce"].pc = "nonce"
    BY DEF TypeOK, RequestType
  <2>2. req'[r].pc \in {"idle", "nonce"} /\ \A p \in Requests \ {r} : req'[p] = req[p]
    BY <1>2, <2>1, OthersKeep, IdleFields DEF LoadCredential
  <2> QED
    BY <1>2, <2>2 DEF LoadCredential, RegistrationsRest, UnderWay, Known
<1>3. CASE RememberNonce(r)
  <2>1. [req[r] EXCEPT !.pc = "online"].pc = "online"
    BY DEF TypeOK, RequestType
  <2>2. req'[r].pc = "online" /\ \A p \in Requests \ {r} : req'[p] = req[p]
    BY <1>3, <2>1, OthersKeep DEF RememberNonce
  <2> QED
    BY <1>3, <2>2 DEF RememberNonce, RegistrationsRest, UnderWay, Known
<1>4. CASE MarkOnline(r)
  <2>1. req'[r].pc = "idle" /\ \A p \in Requests \ {r} : req'[p] = req[p]
    BY <1>4, OthersKeep, IdleFields DEF MarkOnline
  <2>2. \A d \in Devices : /\ device'[d].token = device[d].token /\ device'[d].code = device[d].code
                           /\ Known(d)' = Known(d)
    <3> TAKE d \in Devices
    <3>1. CASE d = req[r].device
      <4>1. Known(d)
        BY <1>4, <3>1 DEF MarkOnline, DecisionInv, Reporting
      <4>2. device'[d] = [device[d] EXCEPT !.status = "online"]
        BY <1>4, <3>1 DEF MarkOnline, TypeOK
      <4> QED
        BY <4>1, <4>2 DEF TypeOK, Known
    <3>2. CASE d # req[r].device
      BY <1>4, <3>2 DEF MarkOnline, TypeOK, Known
    <3> QED
      BY <3>1, <3>2
  <2> QED
    BY <1>4, <2>1, <2>2 DEF MarkOnline, RegistrationsRest, UnderWay
<1>5. CASE \E d \in Managed : LoadToObserve(r, d)
  <2> PICK d \in Managed : LoadToObserve(r, d)
    BY <1>5
  <2>1. [Idle EXCEPT !.pc = "observe", !.device = d].pc = "observe"
    BY DEF Idle
  <2>2. req'[r].pc = "observe" /\ \A p \in Requests \ {r} : req'[p] = req[p]
    BY <2>1, OthersKeep DEF LoadToObserve
  <2> QED
    BY <2>2 DEF LoadToObserve, RegistrationsRest, UnderWay, Known
<1>6. CASE \E o \in Observations, status \in {"waiting", "running", "blocked"} :
             CreateObservation(r, o, status)
  <2>1. req'[r].pc = "idle" /\ \A p \in Requests \ {r} : req'[p] = req[p]
    BY <1>6, OthersKeep, IdleFields DEF CreateObservation
  <2> QED
    BY <1>6, <2>1 DEF CreateObservation, RegistrationsRest, UnderWay, Known
<1> QED
  BY <1>1, <1>2, <1>3, <1>4, <1>5, <1>6 DEF Report

LEMMA ClosingRests ==
  ASSUME TypeOK, NEW r \in Requests, RefuseRegistration(r) \/ Fail(r)
  PROVE  RegistrationsRest
<1>1. req'[r].pc = "idle" /\ \A p \in Requests \ {r} : req'[p] = req[p]
  BY OthersKeep, IdleFields DEF RefuseRegistration, Fail
<1> QED
  BY <1>1 DEF RefuseRegistration, Fail, RegistrationsRest, UnderWay, Known

LEMMA RegistrationStep ==
  ASSUME TypeOK, RegistrationInv, DecisionInv, Next
  PROVE  RegistrationInv'
<1>1. CASE \E k \in Tokens : CreateToken(k)
  <2>1. RegistrationsRest
    BY <1>1 DEF TypeOK, CreateToken, RegistrationsRest, UnderWay, Known
  <2> QED
    BY <2>1, RestKeepsRegistrations
<1>2. CASE \E o \in Observations : CancelObservation(o)
  <2>1. RegistrationsRest
    BY <1>2 DEF CancelObservation, RegistrationsRest, UnderWay, Known
  <2> QED
    BY <2>1, RestKeepsRegistrations
<1>3. ASSUME NEW r \in Requests, Register(r) PROVE RegistrationInv'
  <2>1. CASE \E k \in Tokens, c \in Codes : LoadToken(r, k, c)
    BY <2>1, LoadTokenKeepsRegistrations
  <2>2. CASE Consume(r)
    BY <2>2, MovesKeepRegistrations
  <2>3. CASE RefuseRegistration(r)
    BY <2>3, ClosingRests, RestKeepsRegistrations
  <2>4. CASE CodeIsFree(r)
    BY <2>4, MovesKeepRegistrations
  <2>5. CASE \E d \in Devices : Insert(r, d)
    BY <2>5, InsertKeepsRegistrations
  <2> QED
    BY <1>3, <2>1, <2>2, <2>3, <2>4, <2>5 DEF Register
<1>4. ASSUME NEW r \in Requests, Manage(r) \/ Report(r) \/ Fail(r) PROVE RegistrationInv'
  BY <1>4, ManageRests, ReportRests, ClosingRests, RestKeepsRegistrations
<1> QED
  BY <1>1, <1>2, <1>3, <1>4 DEF Next

------------------------------------------------------------------------------
(* Decisions                                                                *)

\* A step that neither starts nor ends a decision and registers no device
DecisionsRest ==
  /\ ruled' = ruled
  /\ \A d \in Devices : \/ device'[d] = device[d]
                         \/ /\ Known(d)
                            /\ device'[d].enabled = device[d].enabled
                            /\ device'[d].status = "online"
  /\ \A p \in Requests :
       \/ req'[p] = req[p]
       \/ req'[p].pc = "idle" /\ req'[p].device = None
       \/ req'[p].pc \in {"consume", "find", "insert"}
       \/ /\ req'[p].pc \in Reporting
          /\ req'[p].device \in Devices /\ Known(req'[p].device)

LEMMA RestKeepsDecisions ==
  ASSUME TypeOK, DecisionInv, DecisionsRest
  PROVE  DecisionInv'
<1>1. \A d \in Devices : /\ Known(d)' = Known(d)
                         /\ device'[d].enabled = device[d].enabled
                         /\ device'[d].status \in {device[d].status, "online"}
  BY DEF DecisionsRest, Known
<1>2. \A p \in Requests, d \in Devices : Deciding(p, d)' => req'[p] = req[p] /\ Deciding(p, d)
  BY NoneAssumption DEF DecisionsRest, Deciding, Decisions, Reporting
<1>3. \A p \in Requests : req'[p].pc = "idle" => req'[p].device = None
  BY DEF DecisionsRest, DecisionInv, Reporting
<1>4. \A p \in Requests :
        req'[p].pc \in Decisions \cup Reporting =>
          req'[p].device \in Devices /\ device'[req'[p].device].status # "unregistered"
  BY <1>1 DEF DecisionsRest, DecisionInv, Decisions, Reporting, Known
<1>5. \A d \in Devices : device'[d].enabled => Known(d)'
  BY <1>1 DEF DecisionInv
<1>6. \A p, q \in Requests, d \in Devices :
        p # q /\ Deciding(p, d)' /\ Deciding(q, d)' => ~req'[p].alone
  BY <1>2 DEF DecisionInv
<1>7. \A p \in Requests, d \in Devices :
        Deciding(p, d)' /\ req'[p].alone =>
          /\ device'[d].enabled = req'[p].enabled
          /\ device'[d].status \in {req'[p].status, "online"}
  BY <1>1, <1>2 DEF DecisionInv
<1>8. \A d \in Devices :
        /\ ruled'[d] \in {"none", "shut"} => ~device'[d].enabled
        /\ ruled'[d] = "open" => device'[d].enabled /\ device'[d].status \in {"approved", "online"}
  BY <1>1 DEF DecisionInv, DecisionsRest
<1> QED
  BY <1>3, <1>4, <1>5, <1>6, <1>7, <1>8 DEF DecisionInv, Known

LEMMA InsertKeepsDecisions ==
  ASSUME TypeOK, DecisionInv, NEW r \in Requests, NEW x \in Devices, Insert(r, x)
  PROVE  DecisionInv'
<1>1. req'[r].pc = "idle" /\ req'[r].device = None /\ \A p \in Requests \ {r} : req'[p] = req[p]
  BY OthersKeep, IdleFields DEF Insert
<1>2. ruled' = ruled /\ ~Known(x) /\ req[r].pc = "insert"
  BY DEF Insert, Known
<1>3. /\ Known(x)' /\ device'[x].enabled = FALSE
      /\ \A d \in Devices \ {x} : device'[d] = device[d]
  BY DEF Insert, TypeOK, Known
<1>4. \A p \in Requests, d \in Devices : Deciding(p, d)' => req'[p] = req[p] /\ Deciding(p, d) /\ d # x
  BY <1>1, <1>2, NoneAssumption DEF Deciding, Decisions, DecisionInv
<1>5. \A p \in Requests : req'[p].pc = "idle" => req'[p].device = None
  BY <1>1 DEF DecisionInv
<1>6. \A p \in Requests :
        req'[p].pc \in Decisions \cup Reporting =>
          req'[p].device \in Devices /\ device'[req'[p].device].status # "unregistered"
  <2> TAKE p \in Requests
  <2> HAVE req'[p].pc \in Decisions \cup Reporting
  <2>1. p # r
    BY <1>1 DEF Decisions, Reporting
  <2> QED
    BY <1>1, <1>2, <1>3, <2>1 DEF DecisionInv, Known
<1>7. \A d \in Devices : device'[d].enabled => Known(d)'
  BY <1>3 DEF DecisionInv, Known
<1>8. \A p, q \in Requests, d \in Devices :
        p # q /\ Deciding(p, d)' /\ Deciding(q, d)' => ~req'[p].alone
  BY <1>4 DEF DecisionInv
<1>9. \A p \in Requests, d \in Devices :
        Deciding(p, d)' /\ req'[p].alone =>
          /\ device'[d].enabled = req'[p].enabled
          /\ device'[d].status \in {req'[p].status, "online"}
  BY <1>3, <1>4 DEF DecisionInv
<1>10. \A d \in Devices :
        /\ ruled'[d] \in {"none", "shut"} => ~device'[d].enabled
        /\ ruled'[d] = "open" => device'[d].enabled /\ device'[d].status \in {"approved", "online"}
  <2>1. ruled[x] # "open"
    BY <1>2 DEF DecisionInv, Known
  <2> QED
    BY <1>2, <1>3, <2>1 DEF DecisionInv
<1> QED
  BY <1>5, <1>6, <1>7, <1>8, <1>9, <1>10 DEF DecisionInv, Known

LEMMA LoadToDecideKeepsDecisions ==
  ASSUME TypeOK, DecisionInv, NEW r \in Requests, NEW x \in Devices, NEW op \in Decisions,
         LoadToDecide(r, x, op)
  PROVE  DecisionInv'
<1> USE LoadToDecideEffect
<1>1. \A d \in Devices : Known(d)' = Known(d)
  BY DEF Known
<1>2. \A p \in Requests, d \in Devices : p # r => Deciding(p, d)' = Deciding(p, d)
  BY DEF Deciding
<1>3. \A d \in Devices : Deciding(r, d)' => d = x
  BY DEF Deciding
<1>4. \A p \in Requests : p # r /\ Deciding(p, x) => ~req'[p].alone /\ ~req'[r].alone
  BY DEF Deciding, Rivals
<1>5. \A p \in Requests : req'[p].pc = "idle" => req'[p].device = None
  BY DEF DecisionInv, Decisions
<1>6. \A p \in Requests :
        req'[p].pc \in Decisions \cup Reporting =>
          req'[p].device \in Devices /\ device'[req'[p].device].status # "unregistered"
  BY DEF DecisionInv, Known
<1>7. \A d \in Devices : device'[d].enabled => Known(d)'
  BY <1>1 DEF DecisionInv
<1>8. \A p, q \in Requests, d \in Devices :
        p # q /\ Deciding(p, d)' /\ Deciding(q, d)' => ~req'[p].alone
  <2> SUFFICES ASSUME NEW p \in Requests, NEW q \in Requests, NEW d \in Devices,
                      p # q, Deciding(p, d)', Deciding(q, d)'
               PROVE  ~req'[p].alone
    OBVIOUS
  <2>1. CASE p = r
    BY <1>2, <1>3, <1>4, <2>1
  <2>2. CASE q = r
    BY <1>2, <1>3, <1>4, <2>2
  <2>3. CASE p # r /\ q # r
    BY <1>2, <2>3 DEF DecisionInv
  <2> QED
    BY <2>1, <2>2, <2>3
<1>9. \A p \in Requests, d \in Devices :
        Deciding(p, d)' /\ req'[p].alone =>
          /\ device'[d].enabled = req'[p].enabled
          /\ device'[d].status \in {req'[p].status, "online"}
  <2> SUFFICES ASSUME NEW p \in Requests, NEW d \in Devices, Deciding(p, d)', req'[p].alone
               PROVE  /\ device'[d].enabled = req'[p].enabled
                      /\ device'[d].status \in {req'[p].status, "online"}
    OBVIOUS
  <2>1. CASE p = r
    BY <1>3, <2>1
  <2>2. CASE p # r
    BY <1>2, <2>2 DEF DecisionInv
  <2> QED
    BY <2>1, <2>2
<1>10. \A d \in Devices :
        /\ ruled'[d] \in {"none", "shut"} => ~device'[d].enabled
        /\ ruled'[d] = "open" => device'[d].enabled /\ device'[d].status \in {"approved", "online"}
  BY DEF DecisionInv
<1> QED
  BY <1>5, <1>6, <1>7, <1>8, <1>9, <1>10 DEF DecisionInv, Known

LEMMA DecideKeepsDecisions ==
  ASSUME TypeOK, DecisionInv, NEW r \in Requests, NEW op \in Decisions, NEW s \in Statuses,
         NEW b \in BOOLEAN, Decide(r, op, s, b), s # "unregistered",
         op = "approve" => s = "approved" /\ b,
         op # "approve" => ~b
  PROVE  DecisionInv'
<1> DEFINE x == req[r].device
<1>1. /\ x \in Devices /\ Deciding(r, x) /\ Known(x)
      /\ device'[x].status = Written(req[r].status, device[x].status, s)
      /\ device'[x].enabled = Written(req[r].enabled, device[x].enabled, b)
      /\ device'[x].status # "unregistered"
      /\ \A d \in Devices \ {x} : device'[d] = device[d] /\ ruled'[d] = ruled[d]
      /\ ruled'[x] = IF req[r].alone THEN Verdict(op) ELSE "mixed"
      /\ req'[r].pc = "idle" /\ req'[r].device = None
      /\ \A p \in Requests \ {r} : req'[p] = req[p]
  BY DecideEffect, IdleFields
<1> HIDE DEF x
<1>2. \A d \in Devices : Known(d) => device'[d].status # "unregistered"
  BY <1>1 DEF Known
<1>3. \A p \in Requests, d \in Devices : Deciding(p, d)' => p # r /\ req'[p] = req[p] /\ Deciding(p, d)
  BY <1>1 DEF Deciding, Decisions
<1>4. \A p \in Requests : p # r /\ Deciding(p, x) => ~req[p].alone
  BY <1>1 DEF DecisionInv
<1>5. \A p \in Requests : req'[p].pc = "idle" => req'[p].device = None
  BY <1>1 DEF DecisionInv
<1>6. \A p \in Requests :
        req'[p].pc \in Decisions \cup Reporting =>
          req'[p].device \in Devices /\ device'[req'[p].device].status # "unregistered"
  <2> TAKE p \in Requests
  <2> HAVE req'[p].pc \in Decisions \cup Reporting
  <2>1. p # r
    BY <1>1 DEF Decisions, Reporting
  <2> QED
    BY <1>1, <1>2, <2>1 DEF DecisionInv
<1>7. \A d \in Devices : device'[d].enabled => device'[d].status # "unregistered"
  <2> TAKE d \in Devices
  <2>1. CASE d = x
    BY <1>1, <2>1
  <2>2. CASE d # x
    BY <1>1, <2>2 DEF DecisionInv, Known
  <2> QED
    BY <2>1, <2>2
<1>8. \A p, q \in Requests, d \in Devices :
        p # q /\ Deciding(p, d)' /\ Deciding(q, d)' => ~req'[p].alone
  BY <1>3 DEF DecisionInv
<1>9. \A p \in Requests, d \in Devices :
        Deciding(p, d)' /\ req'[p].alone =>
          /\ device'[d].enabled = req'[p].enabled
          /\ device'[d].status \in {req'[p].status, "online"}
  <2> SUFFICES ASSUME NEW p \in Requests, NEW d \in Devices, Deciding(p, d)', req'[p].alone
               PROVE  /\ device'[d].enabled = req'[p].enabled
                      /\ device'[d].status \in {req'[p].status, "online"}
    OBVIOUS
  <2>1. d # x
    BY <1>3, <1>4
  <2> QED
    BY <1>1, <1>3, <2>1 DEF DecisionInv
<1>10. ASSUME req[r].alone
       PROVE  /\ op # "approve" => ~device'[x].enabled
              /\ op = "approve" => device'[x].enabled /\ device'[x].status \in {"approved", "online"}
  <2>1. device[x].enabled = req[r].enabled /\ device[x].status \in {req[r].status, "online"}
    BY <1>1, <1>10 DEF DecisionInv
  <2>2. device'[x].enabled = b
    BY <1>1, <2>1, Zenon DEF Written
  <2>3. op = "approve" => device'[x].status \in {"approved", "online"}
    BY <1>1, <2>1 DEF Written
  <2> QED
    BY <2>2, <2>3
<1>11. \A d \in Devices :
        /\ ruled'[d] \in {"none", "shut"} => ~device'[d].enabled
        /\ ruled'[d] = "open" => device'[d].enabled /\ device'[d].status \in {"approved", "online"}
  <2> TAKE d \in Devices
  <2>1. CASE d = x
    BY <1>1, <1>10, <2>1 DEF Verdict
  <2>2. CASE d # x
    BY <1>1, <2>2 DEF DecisionInv
  <2> QED
    BY <2>1, <2>2
<1> QED
  BY <1>5, <1>6, <1>7, <1>8, <1>9, <1>11 DEF DecisionInv, Known

LEMMA RegisterKeepsDecisions ==
  ASSUME TypeOK, DecisionInv, NEW r \in Requests, Register(r)
  PROVE  DecisionInv'
<1>1. CASE \E k \in Tokens, c \in Codes : LoadToken(r, k, c)
  <2> PICK k \in Tokens, c \in Codes : LoadToken(r, k, c)
    BY <1>1
  <2> DEFINE new == [Idle EXCEPT !.pc = "consume", !.token = k, !.code = c]
  <2>1. Open(r, new)
    BY DEF LoadToken
  <2>2. new.pc = "consume"
    BY DEF Idle
  <2> HIDE DEF new
  <2>3. req'[r].pc = "consume" /\ \A p \in Requests \ {r} : req'[p] = req[p]
    BY <2>1, <2>2, OthersKeep
  <2>4. DecisionsRest
    BY <2>3 DEF LoadToken, DecisionsRest
  <2> QED
    BY <2>4, RestKeepsDecisions
<1>2. CASE Consume(r) \/ CodeIsFree(r)
  <2>1. Step(r, "find") \/ Step(r, "insert")
    BY <1>2 DEF Consume, CodeIsFree
  <2>2. req'[r].pc \in {"find", "insert"} /\ \A p \in Requests \ {r} : req'[p] = req[p]
    BY <2>1, StepMoves
  <2>3. DecisionsRest
    BY <1>2, <2>2 DEF Consume, CodeIsFree, DecisionsRest
  <2> QED
    BY <2>3, RestKeepsDecisions
<1>3. CASE RefuseRegistration(r)
  <2>1. DecisionsRest
    BY <1>3, OthersKeep, IdleFields DEF RefuseRegistration, DecisionsRest
  <2> QED
    BY <2>1, RestKeepsDecisions
<1>4. CASE \E d \in Devices : Insert(r, d)
  BY <1>4, InsertKeepsDecisions
<1> QED
  BY <1>1, <1>2, <1>3, <1>4 DEF Register

LEMMA ManageKeepsDecisions ==
  ASSUME TypeOK, DecisionInv, NEW r \in Requests, Manage(r)
  PROVE  DecisionInv'
<1>1. CASE \E d \in Managed, op \in Decisions : LoadToDecide(r, d, op)
  BY <1>1, ManagedAssumption, LoadToDecideKeepsDecisions
<1>2. CASE Approve(r)
  BY <1>2, DecideKeepsDecisions, DecisionOps DEF Approve
<1>3. CASE Disable(r)
  BY <1>3, DecideKeepsDecisions, DecisionOps DEF Disable
<1>4. CASE Revoke(r)
  BY <1>4, DecideKeepsDecisions, DecisionOps DEF Revoke
<1> QED
  BY <1>1, <1>2, <1>3, <1>4 DEF Manage

LEMMA ReportKeepsDecisions ==
  ASSUME TypeOK, DecisionInv, NEW r \in Requests, Report(r)
  PROVE  DecisionInv'
<1>1. CASE \E d \in Managed, n \in Nonces : LoadHeartbeat(r, d, n)
  <2> PICK d \in Devices, n \in Nonces : LoadHeartbeat(r, d, n)
    BY <1>1, ManagedAssumption
  <2> DEFINE new == [Idle EXCEPT !.pc = "credential", !.device = d, !.nonce = n]
  <2>1. new.pc = "credential" /\ new.device = d /\ Open(r, new)
    BY DEF Idle, LoadHeartbeat
  <2>2. Known(d)
    BY DEF LoadHeartbeat, Usable, DecisionInv
  <2> HIDE DEF new
  <2>3. /\ req'[r].pc = "credential" /\ req'[r].device = d
        /\ \A p \in Requests \ {r} : req'[p] = req[p]
    BY <2>1, OthersKeep
  <2>4. DecisionsRest
    BY <2>2, <2>3 DEF LoadHeartbeat, DecisionsRest, Reporting
  <2> QED
    BY <2>4, RestKeepsDecisions
<1>2. CASE LoadCredential(r)
  <2>1. /\ \/ req'[r].pc = "idle" /\ req'[r].device = None
           \/ req'[r].pc = "nonce" /\ req'[r].device = req[r].device
        /\ \A p \in Requests \ {r} : req'[p] = req[p]
    <3>1. Close(r) \/ Step(r, "nonce")
      BY <1>2 DEF LoadCredential
    <3> QED
      BY <3>1, OthersKeep, StepMoves, IdleFields
  <2>2. req[r].device \in Devices /\ Known(req[r].device)
    BY <1>2 DEF LoadCredential, DecisionInv, Reporting
  <2>3. DecisionsRest
    BY <1>2, <2>1, <2>2 DEF LoadCredential, DecisionsRest, Reporting
  <2> QED
    BY <2>3, RestKeepsDecisions
<1>3. CASE RememberNonce(r)
  <2>1. /\ req'[r].pc = "online" /\ req'[r].device = req[r].device
        /\ \A p \in Requests \ {r} : req'[p] = req[p]
    <3>1. Step(r, "online")
      BY <1>3 DEF RememberNonce
    <3> QED
      BY <3>1, StepMoves
  <2>2. req[r].device \in Devices /\ Known(req[r].device)
    BY <1>3 DEF RememberNonce, DecisionInv, Reporting
  <2>3. DecisionsRest
    BY <1>3, <2>1, <2>2 DEF RememberNonce, DecisionsRest, Reporting
  <2> QED
    BY <2>3, RestKeepsDecisions
<1>4. CASE MarkOnline(r)
  <2>1. req[r].device \in Devices /\ Known(req[r].device)
    BY <1>4 DEF MarkOnline, DecisionInv, Reporting
  <2>2. /\ device'[req[r].device].status = "online"
        /\ device'[req[r].device].enabled = device[req[r].device].enabled
        /\ \A d \in Devices \ {req[r].device} : device'[d] = device[d]
    BY <1>4, <2>1 DEF MarkOnline, TypeOK
  <2>3. req'[r].pc = "idle" /\ req'[r].device = None /\ \A p \in Requests \ {r} : req'[p] = req[p]
    BY <1>4, OthersKeep, IdleFields DEF MarkOnline
  <2>4. ruled' = ruled
    BY <1>4 DEF MarkOnline
  <2>5. DecisionsRest
    BY <2>1, <2>2, <2>3, <2>4 DEF DecisionsRest
  <2> QED
    BY <2>5, RestKeepsDecisions
<1>5. CASE \E d \in Managed : LoadToObserve(r, d)
  <2> PICK d \in Devices : LoadToObserve(r, d)
    BY <1>5, ManagedAssumption
  <2> DEFINE new == [Idle EXCEPT !.pc = "observe", !.device = d]
  <2>1. new.pc = "observe" /\ new.device = d /\ Open(r, new)
    BY DEF Idle, LoadToObserve
  <2>2. Known(d)
    BY DEF LoadToObserve, DecisionInv
  <2> HIDE DEF new
  <2>3. /\ req'[r].pc = "observe" /\ req'[r].device = d
        /\ \A p \in Requests \ {r} : req'[p] = req[p]
    BY <2>1, OthersKeep
  <2>4. DecisionsRest
    BY <2>2, <2>3 DEF LoadToObserve, DecisionsRest, Reporting
  <2> QED
    BY <2>4, RestKeepsDecisions
<1>6. CASE \E o \in Observations, status \in {"waiting", "running", "blocked"} :
             CreateObservation(r, o, status)
  <2>1. DecisionsRest
    BY <1>6, OthersKeep, IdleFields DEF CreateObservation, DecisionsRest
  <2> QED
    BY <2>1, RestKeepsDecisions
<1> QED
  BY <1>1, <1>2, <1>3, <1>4, <1>5, <1>6 DEF Report

LEMMA DecisionStep ==
  ASSUME TypeOK, DecisionInv, Next
  PROVE  DecisionInv'
<1>1. CASE \E k \in Tokens : CreateToken(k)
  <2>1. DecisionsRest
    BY <1>1 DEF CreateToken, DecisionsRest
  <2> QED
    BY <2>1, RestKeepsDecisions
<1>2. CASE \E o \in Observations : CancelObservation(o)
  <2>1. DecisionsRest
    BY <1>2 DEF CancelObservation, DecisionsRest
  <2> QED
    BY <2>1, RestKeepsDecisions
<1>3. ASSUME NEW r \in Requests, Register(r) \/ Manage(r) \/ Report(r) PROVE DecisionInv'
  BY <1>3, RegisterKeepsDecisions, ManageKeepsDecisions, ReportKeepsDecisions
<1>4. ASSUME NEW r \in Requests, Fail(r) PROVE DecisionInv'
  <2>1. DecisionsRest
    BY <1>4, OthersKeep, IdleFields DEF Fail, DecisionsRest
  <2> QED
    BY <2>1, RestKeepsDecisions
<1> QED
  BY <1>1, <1>2, <1>3, <1>4 DEF Next

------------------------------------------------------------------------------
(* The theorems                                                             *)

LEMMA StutterKeepsInvariant ==
  ASSUME IInv, UNCHANGED vars
  PROVE  IInv'
<1>1. TypeOK' /\ DecisionInv'
  BY DEF IInv, TypeOK, Known, DecisionInv, Deciding, vars
<1>2. RegistrationsRest
  BY DEF RegistrationsRest, Known, UnderWay, vars
<1> QED
  BY <1>1, <1>2, RestKeepsRegistrations DEF IInv

LEMMA Inductive == Spec => []IInv
<1>1. IInv /\ [Next]_vars => IInv'
  BY TypeStep, RegistrationStep, DecisionStep, StutterKeepsInvariant DEF IInv
<1> QED
  BY <1>1, InitEstablishesInvariant, PTL DEF Spec

\* Every variable keeps its type, for any number of devices, tokens and requests
THEOREM TypeCorrect == Spec => []TypeOK
<1>1. IInv => TypeOK
  BY DEF IInv
<1> QED
  BY <1>1, Inductive, PTL

\* consume_registration_token: however many registrations come with a token, and
\* whatever becomes of them, it gives no more devices than requests can be open at a time
THEOREM TokensLimited == Spec => []TokenIsLimited
<1>1. IInv => TokenIsLimited
  BY Finite DEF IInv, RegistrationInv, Limited, TokenIsLimited
<1> QED
  BY <1>1, Inductive, PTL

\* approve_device, disable_device, revoke_device: the last undisturbed decision
\* holds against every heartbeat that is under way
THEOREM DecisionsHold == Spec => []LastDecisionHolds
<1>1. IInv => LastDecisionHolds
  BY DEF IInv, DecisionInv, LastDecisionHolds, Usable
<1> QED
  BY <1>1, Inductive, PTL

LEMMA RefusalStep ==
  ASSUME IInv, Next, NEW r \in Requests, NEW d \in Devices,
         ruled[d] \in {"none", "shut"}, req[r].pc = "idle", req'[r].device = d
  PROVE  req'[r].pc \in Decisions
<1> USE DEF IInv
<1>0. req[r].device = None /\ d # None /\ ~device[d].enabled
  BY NoneAssumption DEF DecisionInv
<1>1. req'[r] # req[r]
  BY <1>0
<1>2. PICK q \in Requests : Register(q) \/ Manage(q) \/ Report(q) \/ Fail(q)
  BY <1>1 DEF Next, CreateToken, CancelObservation
<1>3. CASE \E x \in Managed, op \in Decisions : LoadToDecide(q, x, op)
  <2> PICK x \in Devices, op \in Decisions : LoadToDecide(q, x, op)
    BY <1>3, ManagedAssumption
  <2> QED
    BY <1>0, LoadToDecideEffect
<1>4. CASE \E x \in Managed, n \in Nonces : LoadHeartbeat(q, x, n)
  <2> PICK x \in Devices, n \in Nonces : LoadHeartbeat(q, x, n)
    BY <1>4, ManagedAssumption
  <2> DEFINE new == [Idle EXCEPT !.pc = "credential", !.device = x, !.nonce = n]
  <2>1. new.device = x /\ Open(q, new) /\ device[x].enabled
    BY DEF Idle, LoadHeartbeat, Usable
  <2> HIDE DEF new
  <2> QED
    BY <1>0, <1>1, <2>1, OthersKeep
<1>5. CASE \E x \in Managed : LoadToObserve(q, x)
  <2> PICK x \in Devices : LoadToObserve(q, x)
    BY <1>5, ManagedAssumption
  <2> DEFINE new == [Idle EXCEPT !.pc = "observe", !.device = x]
  <2>1. new.device = x /\ Open(q, new) /\ device[x].enabled
    BY DEF Idle, LoadToObserve
  <2> HIDE DEF new
  <2> QED
    BY <1>0, <1>1, <2>1, OthersKeep
<1>6. CASE \E k \in Tokens, c \in Codes : LoadToken(q, k, c)
  <2> PICK k \in Tokens, c \in Codes : LoadToken(q, k, c)
    BY <1>6
  <2> DEFINE new == [Idle EXCEPT !.pc = "consume", !.token = k, !.code = c]
  <2>1. new.device = None /\ Open(q, new)
    BY DEF Idle, LoadToken
  <2> HIDE DEF new
  <2> QED
    BY <1>0, <1>1, <2>1, OthersKeep
<1>7. CASE req[q].pc # "idle" /\ (\A p \in Requests \ {q} : req'[p] = req[p])
  BY <1>1, <1>7
<1>8. Approve(q) \/ Disable(q) \/ Revoke(q) \/ Fail(q) =>
        req[q].pc # "idle" /\ (\A p \in Requests \ {q} : req'[p] = req[p])
  BY OthersKeep DEF Approve, Disable, Revoke, Decide, Fail
<1>9. Consume(q) \/ RefuseRegistration(q) \/ CodeIsFree(q) \/ (\E x \in Devices : Insert(q, x)) =>
        req[q].pc # "idle" /\ (\A p \in Requests \ {q} : req'[p] = req[p])
  BY OthersKeep DEF Consume, RefuseRegistration, CodeIsFree, Insert
<1>10. \/ LoadCredential(q) \/ RememberNonce(q) \/ MarkOnline(q)
       \/ \E o \in Observations, status \in {"waiting", "running", "blocked"} :
            CreateObservation(q, o, status)
       => req[q].pc # "idle" /\ (\A p \in Requests \ {q} : req'[p] = req[p])
  BY OthersKeep DEF LoadCredential, RememberNonce, MarkOnline, CreateObservation
<1> QED
  BY <1>2, <1>3, <1>4, <1>5, <1>6, <1>7, <1>8, <1>9, <1>10, Zenon DEF Register, Manage, Report

\* heartbeat_device, create_observation: a device that is not approved, or that
\* the last undisturbed decision has shut, begins nothing
THEOREM ShutRefuses == Spec => ShutDeviceRefuses
<1> DEFINE Refuses ==
      \A r \in Requests, d \in Devices :
        ruled[d] \in {"none", "shut"} /\ req[r].pc = "idle" /\ req'[r].device = d =>
          req'[r].pc \in Decisions
<1>1. IInv /\ [Next]_vars => [Refuses]_vars
  BY RefusalStep
<1> QED
  BY <1>1, Inductive, PTL DEF Spec, ShutDeviceRefuses
=============================================================================
