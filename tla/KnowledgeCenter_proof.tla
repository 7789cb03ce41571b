------------------------ MODULE KnowledgeCenter_proof ------------------------
(***************************************************************************)
(* Proofs about KnowledgeCenter for every number of assets, versions, texts *)
(* and requests.                                                            *)
(***************************************************************************)
EXTENDS KnowledgeCenter, TLAPS

(***************************************************************************)
(* The safety properties are inductive together with what links the rows   *)
(* (RowInv: an asset has its current version) and with what a request still *)
(* knows of the rows it has read as long as it has missed no write (Knows). *)
(* A request that has counted the versions knows no more, once others may   *)
(* have added some, than that its number follows one of theirs, and that it *)
(* is the next one or taken (Counted).                                      *)
(***************************************************************************)

Counted(k, n) ==
  /\ \E u \in VersionsOf(k) : n = version[u].number + 1
  /\ \/ \A v \in VersionsOf(k) : version[v].number < n
     \/ \E v \in VersionsOf(k) : version[v].number = n

RowInv ==
  /\ \A v \in Versions : version[v].of # None => Exists(version[v].of)
  /\ \A k \in Assets :
       Exists(k) => asset[k].current \in Versions /\ version[asset[k].current].of = k
  /\ \A k \in Assets :
       shown[k] # NotShown => shown[k].version \in Versions /\ version[shown[k].version].of = k

OnVersion == {"edit", "read", "publish"}
OnAsset   == Decisions \cup OnVersion \cup {"restore", "version"}

Knows(x) ==
  /\ x.pc \in OnAsset => x.asset \in Assets /\ Exists(x.asset)
  /\ x.pc \in OnVersion => x.version \in Versions /\ version[x.version].of = x.asset
  /\ x.pc = "edit" => /\ "publish" \notin x.missed => asset[x.asset].status # "published"
                      /\ "approve" \notin x.missed => asset[x.asset].status # "approved"
  /\ x.pc = "approve" /\ "edit" \notin x.missed => x.sure \/ asset[x.asset].risk # "high"
  /\ x.pc = "publish" /\ "edit" \notin x.missed => version[x.version].content = x.content
  /\ x.pc = "version" => Counted(x.asset, x.number)
  /\ x.pc = "report" => /\ x.report \in Reports
                        /\ "report" \notin x.missed => ~Submitted(x.report)
  /\ x.pc \in {"restore", "version"} /\ x.report # None =>
       \E v \in VersionsOf(x.asset) : version[v].report = x.report

RequestInv == \A q \in Requests, x \in RequestType : req[q] = x => Knows(x)

Safe == /\ VersionsInOrder /\ IndexFollowsContent /\ PublishedAsSeen
        /\ HighRiskConfirmed /\ ReportOnce

IInv == TypeOK /\ RowInv /\ RequestInv /\ Safe

LEMMA InitEstablishesInvariant == Init => IInv
<1> SUFFICES ASSUME Init PROVE IInv
  OBVIOUS
<1>1. TypeOK
  BY DEF Init, TypeOK, RequestType, RowType, VersionType, Pcs, Kinds, Decisions, Idle, NoRow,
         NoVersion, NotShown, Statuses, Risks
<1>2. /\ \A k \in Assets : ~Exists(k) /\ shown[k] = NotShown /\ asset[k].status = "none"
      /\ \A v \in Versions : version[v].of = None /\ version[v].report = None
                             /\ chunks[v] = None /\ version[v].content = None
      /\ \A q \in Requests : req[q].pc = "idle"
  BY DEF Init, NoRow, NoVersion, Idle, Exists
<1>3. RowInv
  BY <1>2 DEF RowInv
<1>4. RequestInv
  <2> SUFFICES ASSUME NEW x \in RequestType, x.pc = "idle" PROVE Knows(x)
    BY <1>2 DEF RequestInv
  <2> QED
    BY DEF Knows, OnAsset, OnVersion, Decisions
<1>5. Safe
  BY <1>2, NoneAssumption DEF Safe, VersionsInOrder, IndexFollowsContent, PublishedAsSeen,
         HighRiskConfirmed, ReportOnce, VersionsOf
<1> QED
  BY <1>1, <1>3, <1>4, <1>5 DEF IInv

------------------------------------------------------------------------------
(* Requests                                                                 *)

LEMMA IdleType == Idle \in RequestType /\ Idle.pc = "idle"
BY DEF Idle, RequestType, Pcs, Risks, Decisions, Kinds

LEMMA IdleKnows ==
  ASSUME NEW x, x.pc = "idle"
  PROVE  Knows(x)
BY DEF Knows, OnAsset, OnVersion, Decisions

LEMMA MissedType ==
  ASSUME NEW x \in RequestType, NEW kind \in Kinds
  PROVE  /\ [x EXCEPT !.missed = @ \cup {kind}] \in RequestType
         /\ [x EXCEPT !.missed = @ \cup {kind}].missed = x.missed \cup {kind}
<1> DEFINE T == [pc : Pcs, asset : Assets \cup {None}, version : Versions \cup {None},
                 content : Contents \cup {None}, report : Reports \cup {None},
                 risk : Risks \cup {"keep"}, same : BOOLEAN, sure : BOOLEAN, number : Nat,
                 missed : SUBSET Kinds]
<1>1. RequestType = T
  BY DEF RequestType
<1>2. x.missed \cup {kind} \in SUBSET Kinds
  BY DEF RequestType
<1>3. \A y \in T, m \in SUBSET Kinds : [y EXCEPT !.missed = m] \in T
  OBVIOUS
<1>4. \A y \in T, m \in SUBSET Kinds : [y EXCEPT !.missed = m].missed = m
  OBVIOUS
<1> HIDE DEF T
<1> QED
  BY <1>1, <1>2, <1>3, <1>4

\* What the invariant says of one request
LEMMA InvariantOf ==
  ASSUME IInv, NEW r \in Requests
  PROVE  TypeOK /\ RowInv /\ RequestInv /\ Safe /\ req[r] \in RequestType /\ Knows(req[r])
<1>1. TypeOK /\ RowInv /\ RequestInv /\ Safe
  BY DEF IInv
<1>2. req \in [Requests -> RequestType]
  BY <1>1 DEF TypeOK
<1>3. req[r] \in RequestType
  BY <1>2
<1>4. Knows(req[r])
  BY <1>1, <1>3 DEF RequestInv
<1> QED
  BY <1>1, <1>3, <1>4

\* What a request knows does not change as long as the rows do not
LEMMA KnowsStable ==
  ASSUME NEW x, UNCHANGED rows
  PROVE  Knows(x)' <=> Knows(x)
BY DEF Knows, Counted, rows, Exists, VersionsOf, Submitted

\* A step of a request that writes no row
LEMMA RequestStep ==
  ASSUME IInv, NEW r \in Requests, NEW x \in RequestType, Knows(x),
         req' = [req EXCEPT ![r] = x], UNCHANGED <<rows, history>>
  PROVE  IInv'
<1>0. TypeOK /\ RowInv /\ RequestInv /\ Safe
  BY DEF IInv
<1>1. TypeOK'
  BY <1>0 DEF TypeOK, rows, history
<1>2. RowInv'
  BY <1>0 DEF RowInv, VersionsOf, Exists, rows, history
<1>3. RequestInv'
  <2> SUFFICES ASSUME NEW q \in Requests, NEW y \in RequestType, req'[q] = y PROVE Knows(y)'
    BY DEF RequestInv
  <2>1. Knows(y)
    BY <1>0 DEF RequestInv, TypeOK
  <2> QED
    BY <2>1, KnowsStable DEF rows
<1>4. Safe'
  BY <1>0 DEF Safe, VersionsInOrder, IndexFollowsContent, PublishedAsSeen, HighRiskConfirmed,
       ReportOnce, VersionsOf, rows, history
<1> QED
  BY <1>1, <1>2, <1>3, <1>4 DEF IInv

\* next_version_number: one more than the number of the current version, which no version
\* is above
LEMMA NumberAfterCounted ==
  ASSUME TypeOK, RowInv, VersionsInOrder, NEW k \in Assets, Exists(k)
  PROVE  NumberAfter(k) \in Nat /\ Counted(k, NumberAfter(k))
<1> DEFINE above == {1} \cup {i + 1 : i \in Numbers(k)}
           v == asset[k].current
<1>1. Numbers(k) \subseteq Nat
  BY DEF TypeOK, VersionType, Numbers, VersionsOf
<1>2. v \in VersionsOf(k) /\ \A w \in VersionsOf(k) : version[w].number <= version[v].number
  BY DEF RowInv, VersionsInOrder, VersionsOf
<1> HIDE DEF v
<1>3. version[v].number \in Numbers(k)
  BY <1>2 DEF Numbers
<1>4. \A i \in Numbers(k) : i <= version[v].number
  BY <1>2 DEF Numbers
<1>5. \A i \in Numbers(k) : i < version[v].number + 1
  BY <1>1, <1>3, <1>4
<1>6. version[v].number + 1 \in above
  BY <1>3
<1>7. NumberAfter(k) \in above /\ \A i \in Numbers(k) : i < NumberAfter(k)
  BY <1>5, <1>6 DEF NumberAfter
<1>8. NumberAfter(k) \in Nat /\ version[v].number \in Nat
  BY <1>1, <1>3, <1>7
<1>9. NumberAfter(k) = version[v].number + 1
  <2>1. version[v].number < NumberAfter(k)
    BY <1>3, <1>7
  <2>2. CASE NumberAfter(k) = 1
    BY <1>8, <2>1, <2>2
  <2>3. ASSUME NEW i \in Numbers(k), NumberAfter(k) = i + 1
        PROVE  NumberAfter(k) = version[v].number + 1
    BY <1>1, <1>4, <1>8, <2>1, <2>3
  <2> QED
    BY <1>7, <2>2, <2>3
<1>10. \A w \in VersionsOf(k) : version[w].number < NumberAfter(k)
  BY <1>7 DEF Numbers
<1> QED
  BY <1>2, <1>8, <1>9, <1>10 DEF Counted

Reads(r) ==
  \/ \E p \in Reports : LoadReport(r, p)
  \/ \E k \in Managed :
       \/ \E c \in Contents \cup {None}, risk \in Risks \cup {"keep"} : LoadEdit(r, k, c, risk)
       \/ \E op \in Decisions, sure \in BOOLEAN : LoadDecision(r, k, op, sure)
       \/ \E sure \in BOOLEAN : LoadPublish(r, k, sure)
       \/ \E c \in Contents : CreateVersion(r, k, c)
       \/ \E v \in Versions : RestoreVersion(r, k, v)
  \/ ReadVersion(r) \/ CountVersions(r) \/ Fail(r)

LEMMA LoadStep ==
  ASSUME IInv, NEW r \in Requests, NEW k \in Managed
  PROVE  /\ \A c \in Contents \cup {None}, risk \in Risks \cup {"keep"} : LoadEdit(r, k, c, risk) => IInv'
         /\ \A op \in Decisions, sure \in BOOLEAN : LoadDecision(r, k, op, sure) => IInv'
         /\ \A sure \in BOOLEAN : LoadPublish(r, k, sure) => IInv'
<1>0. TypeOK /\ RowInv /\ k \in Assets
  BY ManagedAssumption DEF IInv
<1>1. asset[k] \in RowType
  BY <1>0 DEF TypeOK
<1>2. Exists(k) => asset[k].current \in Versions /\ version[asset[k].current].of = k
  BY <1>0 DEF RowInv
<1>3. ASSUME NEW c \in Contents \cup {None}, NEW risk \in Risks \cup {"keep"}, LoadEdit(r, k, c, risk)
      PROVE  IInv'
  <2> DEFINE new == IF risk = asset[k].risk THEN "keep" ELSE risk
             x == [Idle EXCEPT !.pc = "edit", !.asset = k, !.version = asset[k].current,
                               !.content = c, !.risk = new]
  <2>1. Exists(k) /\ asset[k].status \notin {"published", "approved"}
    BY <1>3 DEF LoadEdit, Editable, Exists
  <2>2. new \in Risks \cup {"keep"}
    OBVIOUS
  <2> HIDE DEF new
  <2>3. x \in RequestType
    BY <1>0, <1>2, <2>1, <2>2 DEF Idle, RequestType, Pcs
  <2>4. x.pc = "edit" /\ x.asset = k /\ x.version = asset[k].current
    BY DEF Idle
  <2>5. req' = [req EXCEPT ![r] = x] /\ UNCHANGED <<rows, history>>
    BY <1>3 DEF LoadEdit, Open, new
  <2> HIDE DEF x
  <2>6. Knows(x)
    BY <1>0, <1>2, <2>1, <2>4 DEF Knows
  <2> QED
    BY <2>3, <2>5, <2>6, RequestStep
<1>4. ASSUME NEW op \in Decisions, NEW sure \in BOOLEAN, LoadDecision(r, k, op, sure)
      PROVE  IInv'
  <2> DEFINE same == (asset[k].status = Decided(op))
             x == [Idle EXCEPT !.pc = op, !.asset = k, !.same = same, !.sure = sure]
  <2>1. Exists(k) /\ (op = "approve" /\ asset[k].risk = "high" => sure)
    BY <1>4 DEF LoadDecision
  <2>2. same \in BOOLEAN
    OBVIOUS
  <2>5. req' = [req EXCEPT ![r] = x] /\ UNCHANGED <<rows, history>>
    BY <1>4 DEF LoadDecision, Open, Decision
  <2> HIDE DEF same
  <2>3. x \in RequestType
    BY <1>0, <2>2 DEF Idle, RequestType, Pcs, Risks
  <2>4. x.pc = op /\ x.asset = k /\ x.sure = sure
    BY Zenon DEF Idle
  <2> HIDE DEF x
  <2>6. Knows(x)
    BY <1>0, <2>1, <2>4 DEF Knows, Decisions, OnAsset, OnVersion
  <2> QED
    BY <2>3, <2>5, <2>6, RequestStep
<1>5. ASSUME NEW sure \in BOOLEAN, LoadPublish(r, k, sure)
      PROVE  IInv'
  <2> DEFINE x == [Idle EXCEPT !.pc = "read", !.asset = k, !.version = asset[k].current]
  <2>1. Exists(k)
    BY <1>5 DEF LoadPublish
  <2>3. x \in RequestType
    BY <1>0, <1>2, <2>1 DEF Idle, RequestType, Pcs, Risks
  <2>4. x.pc = "read" /\ x.asset = k /\ x.version = asset[k].current
    BY DEF Idle
  <2>5. req' = [req EXCEPT ![r] = x] /\ UNCHANGED <<rows, history>>
    BY <1>5 DEF LoadPublish, Open
  <2> HIDE DEF x
  <2>6. Knows(x)
    BY <1>0, <1>2, <2>1, <2>4 DEF Knows
  <2> QED
    BY <2>3, <2>5, <2>6, RequestStep
<1> QED
  BY <1>3, <1>4, <1>5

LEMMA LoadVersionStep ==
  ASSUME IInv, NEW r \in Requests, NEW k \in Managed
  PROVE  /\ \A c \in Contents : CreateVersion(r, k, c) => IInv'
         /\ \A v \in Versions : RestoreVersion(r, k, v) => IInv'
<1>0. TypeOK /\ RowInv /\ VersionsInOrder /\ k \in Assets
  BY ManagedAssumption DEF IInv, Safe
<1>1. ASSUME NEW c \in Contents, CreateVersion(r, k, c)
      PROVE  IInv'
  <2> DEFINE n == NumberAfter(k)
             x == [Idle EXCEPT !.pc = "version", !.asset = k, !.content = c, !.number = n]
  <2>1. Exists(k)
    BY <1>1 DEF CreateVersion
  <2>2. n \in Nat /\ Counted(k, n)
    BY <1>0, <2>1, NumberAfterCounted
  <2>5. req' = [req EXCEPT ![r] = x] /\ UNCHANGED <<rows, history>>
    BY <1>1 DEF CreateVersion, Open
  <2> HIDE DEF n
  <2>3. x \in RequestType
    BY <1>0, <2>2 DEF Idle, RequestType, Pcs, Risks
  <2>4. x.pc = "version" /\ x.asset = k /\ x.number = n /\ x.report = None
    BY DEF Idle
  <2> HIDE DEF x
  <2>6. Knows(x)
    BY <1>0, <2>1, <2>2, <2>4 DEF Knows, OnVersion
  <2> QED
    BY <2>3, <2>5, <2>6, RequestStep
<1>2. ASSUME NEW v \in Versions, RestoreVersion(r, k, v)
      PROVE  IInv'
  <2> DEFINE x == [Idle EXCEPT !.pc = "restore", !.asset = k, !.content = version[v].content,
                               !.report = version[v].report]
  <2>1. version[v].of = k /\ Exists(k)
    BY <1>0, <1>2, NoneAssumption DEF RestoreVersion, RowInv
  <2>2. version[v] \in VersionType
    BY <1>0 DEF TypeOK
  <2>3. x \in RequestType
    BY <1>0, <2>2 DEF Idle, RequestType, VersionType, Pcs, Risks
  <2>4. x.pc = "restore" /\ x.asset = k /\ x.report = version[v].report
    BY DEF Idle
  <2>5. req' = [req EXCEPT ![r] = x] /\ UNCHANGED <<rows, history>>
    BY <1>2 DEF RestoreVersion, Open
  <2> HIDE DEF x
  <2>6. Knows(x)
    BY <1>0, <2>1, <2>4 DEF Knows, OnVersion, VersionsOf
  <2> QED
    BY <2>3, <2>5, <2>6, RequestStep
<1> QED
  BY <1>1, <1>2

LEMMA ReadStep ==
  ASSUME IInv, NEW r \in Requests, Reads(r)
  PROVE  IInv'
<1>0. TypeOK /\ RowInv /\ RequestInv /\ Safe /\ req[r] \in RequestType /\ Knows(req[r])
  BY InvariantOf
<1>1. ASSUME NEW p \in Reports, LoadReport(r, p)
      PROVE  IInv'
  <2> DEFINE x == [Idle EXCEPT !.pc = "report", !.report = p]
  <2>1. ~Submitted(p)
    BY <1>1 DEF LoadReport
  <2>3. x \in RequestType
    BY DEF Idle, RequestType, Pcs, Risks
  <2>4. x.pc = "report" /\ x.report = p
    BY DEF Idle
  <2>5. req' = [req EXCEPT ![r] = x] /\ UNCHANGED <<rows, history>>
    BY <1>1 DEF LoadReport, Open
  <2> HIDE DEF x
  <2>6. Knows(x)
    BY <2>1, <2>4 DEF Knows, OnAsset, OnVersion, Decisions
  <2> QED
    BY <2>3, <2>5, <2>6, RequestStep
<1>2. CASE ReadVersion(r)
  <2> DEFINE x == [[[req[r] EXCEPT !.pc = "publish"]
                       EXCEPT !.content = version[req[r].version].content] EXCEPT !.missed = {}]
  <2>1. req[r].pc = "read" /\ UNCHANGED <<rows, history>> /\ req' = [req EXCEPT ![r] = x]
    BY <1>0, <1>2 DEF ReadVersion, TypeOK
  <2>2. /\ req[r].asset \in Assets /\ Exists(req[r].asset)
        /\ req[r].version \in Versions /\ version[req[r].version].of = req[r].asset
    BY <1>0, <2>1 DEF Knows, OnAsset, OnVersion
  <2>3. version[req[r].version].content \in Contents \cup {None}
    BY <1>0, <2>2 DEF TypeOK, VersionType
  <2>4. x \in RequestType
    BY <1>0, <2>3 DEF RequestType, Pcs
  <2>5. /\ x.pc = "publish" /\ x.asset = req[r].asset /\ x.version = req[r].version
        /\ x.content = version[req[r].version].content
    BY <1>0 DEF RequestType
  <2> HIDE DEF x
  <2>6. Knows(x)
    BY <2>2, <2>5 DEF Knows
  <2> QED
    BY <2>1, <2>4, <2>6, RequestStep
<1>3. CASE CountVersions(r)
  <2> DEFINE k == req[r].asset
             n == NumberAfter(k)
             x == [[req[r] EXCEPT !.pc = "version"] EXCEPT !.number = n]
  <2>1. req[r].pc = "restore" /\ UNCHANGED <<rows, history>> /\ req' = [req EXCEPT ![r] = x]
    BY <1>0, <1>3 DEF CountVersions, TypeOK
  <2>2. /\ k \in Assets /\ Exists(k)
        /\ req[r].report # None => \E v \in VersionsOf(k) : version[v].report = req[r].report
    BY <1>0, <2>1 DEF Knows, OnAsset
  <2>3. n \in Nat /\ Counted(k, n)
    BY <1>0, <2>2, NumberAfterCounted DEF Safe
  <2> HIDE DEF n
  <2>4. x \in RequestType
    BY <1>0, <2>3 DEF RequestType, Pcs
  <2>5. /\ x.pc = "version" /\ x.asset = k /\ x.number = n /\ x.report = req[r].report
    BY <1>0 DEF RequestType
  <2> HIDE DEF x
  <2>6. Knows(x)
    BY <2>2, <2>3, <2>5 DEF Knows, OnVersion
  <2> QED
    BY <2>1, <2>4, <2>6, RequestStep
<1>4. CASE Fail(r)
  BY <1>4, IdleType, IdleKnows, RequestStep DEF Fail, Close
<1> QED
  BY <1>1, <1>2, <1>3, <1>4, LoadStep, LoadVersionStep DEF Reads

------------------------------------------------------------------------------
(* Writes                                                                   *)

\* After a write of r on k, a request is idle, or it has read nothing that was written,
\* or it has missed the write
LEMMA WrittenRequests ==
  ASSUME TypeOK, NEW r \in Requests, NEW k, NEW kind, Written(r, k, kind)
  PROVE  /\ req' \in [Requests -> RequestType]
         /\ \A q \in Requests, x \in RequestType : req'[q] = x =>
              \/ x.pc = "idle"
              \/ /\ req[q] = x
                 /\ x.asset = k => kind \notin Counts(x.pc)
              \/ \E y \in RequestType :
                   /\ req[q] = y /\ y.asset = k /\ kind \in Counts(y.pc)
                   /\ x = [y EXCEPT !.missed = @ \cup {kind}]
                   /\ x.missed = y.missed \cup {kind}
<1>1. \A pc \in Pcs : Counts(pc) \subseteq Kinds
  BY DEF Counts, Pcs, Decisions, Kinds
<1>2. req \in [Requests -> RequestType] /\ \A x \in RequestType : x.pc \in Pcs
  BY DEF TypeOK, RequestType
<1>3. \A q \in Requests : req'[q] \in RequestType
  BY <1>1, <1>2, IdleType, MissedType DEF Written
<1>4. req' \in [Requests -> RequestType]
  BY <1>3 DEF Written
<1>5. ASSUME NEW q \in Requests, q # r, req[q].asset = k, kind \in Counts(req[q].pc)
      PROVE  /\ req'[q] = [req[q] EXCEPT !.missed = @ \cup {kind}]
             /\ req'[q].missed = req[q].missed \cup {kind}
  <2>1. req'[q] = [req[q] EXCEPT !.missed = @ \cup {kind}]
    BY <1>5 DEF Written
  <2>2. kind \in Kinds
    BY <1>1, <1>2, <1>5
  <2> QED
    BY <1>2, <2>1, <2>2, MissedType
<1>6. ASSUME NEW q \in Requests, q # r, ~(req[q].asset = k /\ kind \in Counts(req[q].pc))
      PROVE  req'[q] = req[q]
  BY <1>6 DEF Written
<1>7. req'[r] = Idle
  BY DEF Written
<1> QED
  BY <1>2, <1>4, <1>5, <1>6, <1>7, IdleType

\* The fields of a request that has missed a write
LEMMA MissedFields ==
  ASSUME NEW y \in RequestType, NEW m, NEW x, x = [y EXCEPT !.missed = m]
  PROVE  /\ x.pc = y.pc /\ x.asset = y.asset /\ x.version = y.version /\ x.content = y.content
         /\ x.report = y.report /\ x.sure = y.sure /\ x.number = y.number
BY DEF RequestType

\* What the write of r on k leaves to the others: enough to show is what those know that
\* have not missed the write
LEMMA RequestsAfterWrite ==
  ASSUME TypeOK, RequestInv, NEW r \in Requests, NEW k, NEW kind, Written(r, k, kind),
         \A x \in RequestType :
           Knows(x) /\ (x.asset = k => kind \notin Counts(x.pc)) => Knows(x)',
         \A x, y \in RequestType :
           /\ Knows(y) /\ y.asset = k /\ kind \in Counts(y.pc)
           /\ x.pc = y.pc /\ x.asset = y.asset /\ x.version = y.version /\ x.content = y.content
           /\ x.report = y.report /\ x.sure = y.sure /\ x.number = y.number
           /\ x.missed = y.missed \cup {kind}
           => Knows(x)'
  PROVE  RequestInv'
<1> SUFFICES ASSUME NEW q \in Requests, NEW x \in RequestType, req'[q] = x PROVE Knows(x)'
  BY DEF RequestInv
<1>0. \A z \in RequestType : z.pc = "idle" => Knows(z)'
  BY DEF Knows, OnAsset, OnVersion, Decisions
<1>1. CASE x.pc = "idle"
  BY <1>0, <1>1
<1>2. CASE req[q] = x /\ (x.asset = k => kind \notin Counts(x.pc))
  BY <1>2 DEF RequestInv
<1>3. ASSUME NEW y \in RequestType, req[q] = y, y.asset = k, kind \in Counts(y.pc),
             x = [y EXCEPT !.missed = @ \cup {kind}], x.missed = y.missed \cup {kind}
      PROVE  Knows(x)'
  <2>1. Knows(y)
    BY <1>3 DEF RequestInv
  <2>2. /\ x.pc = y.pc /\ x.asset = y.asset /\ x.version = y.version /\ x.content = y.content
        /\ x.report = y.report /\ x.sure = y.sure /\ x.number = y.number
    BY <1>3, MissedFields
  <2> QED
    BY <1>3, <2>1, <2>2
<1>4. \/ x.pc = "idle"
      \/ req[q] = x /\ (x.asset = k => kind \notin Counts(x.pc))
      \/ \E y \in RequestType :
           /\ req[q] = y /\ y.asset = k /\ kind \in Counts(y.pc)
           /\ x = [y EXCEPT !.missed = @ \cup {kind}]
           /\ x.missed = y.missed \cup {kind}
  BY WrittenRequests
<1> QED
  BY <1>1, <1>2, <1>3, <1>4

LEMMA RowUpdate ==
  ASSUME NEW row \in RowType
  PROVE  /\ \A s \in Statuses : [row EXCEPT !.status = s] \in RowType
         /\ \A v \in Versions : [row EXCEPT !.current = v] \in RowType
         /\ \A risk \in Risks : [row EXCEPT !.risk = risk] \in RowType
BY DEF RowType

LEMMA UpdateDraftStep ==
  ASSUME IInv, NEW r \in Requests, UpdateDraft(r)
  PROVE  IInv'
<1> DEFINE k == req[r].asset
           v == req[r].version
           c == req[r].content
<1>0. TypeOK /\ RowInv /\ RequestInv /\ Safe /\ req[r] \in RequestType /\ Knows(req[r])
  BY InvariantOf
<1>1. /\ k \in Assets /\ Exists(k) /\ v \in Versions /\ version[v].of = k
      /\ c \in Contents \cup {None} /\ req[r].risk \in Risks \cup {"keep"}
      /\ "publish" \notin req[r].missed => asset[k].status # "published"
      /\ "approve" \notin req[r].missed => asset[k].status # "approved"
  BY <1>0 DEF UpdateDraft, Knows, OnAsset, OnVersion, RequestType
<1>2. /\ asset' = IF req[r].risk = "keep" THEN asset ELSE [asset EXCEPT ![k].risk = req[r].risk]
      /\ version' = IF c = None THEN version ELSE [version EXCEPT ![v].content = c]
      /\ chunks' = IF c = None THEN chunks ELSE [chunks EXCEPT ![v] = c]
      /\ shown' = IF "publish" \in req[r].missed THEN [shown EXCEPT ![k] = NotShown] ELSE shown
      /\ confirmed' = IF "approve" \in req[r].missed /\ asset[k].status = "approved"
                      THEN [confirmed EXCEPT ![k] = "raced"] ELSE confirmed
      /\ outdated' = IF c = None THEN outdated ELSE outdated \ {v}
      /\ Written(r, k, "edit")
      /\ UNCHANGED twins
  BY DEF UpdateDraft
<1>3. /\ \A j \in Assets : asset'[j].status = asset[j].status /\ asset'[j].current = asset[j].current
      /\ \A j \in Assets : j # k => asset'[j] = asset[j]
      /\ \A w \in Versions : /\ version'[w].of = version[w].of
                             /\ version'[w].number = version[w].number
                             /\ version'[w].report = version[w].report
                             /\ w # v => version'[w] = version[w]
  BY <1>0, <1>1, <1>2 DEF TypeOK, RowType, VersionType
<1>4. TypeOK'
  <2>1. req' \in [Requests -> RequestType]
    BY <1>0, <1>2, WrittenRequests
  <2>2. asset' \in [Assets -> RowType]
    BY <1>0, <1>1, <1>2, RowUpdate DEF TypeOK
  <2>3. version' \in [Versions -> VersionType]
    <3>1. \A x \in VersionType : [x EXCEPT !.content = c] \in VersionType
      BY <1>1 DEF VersionType
    <3>2. version \in [Versions -> VersionType] /\ version[v] \in VersionType
      BY <1>0, <1>1 DEF TypeOK
    <3> HIDE DEF v, c
    <3> QED
      BY <1>1, <1>2, <3>1, <3>2
  <2>5. chunks' \in [Versions -> Contents \cup {None}]
    BY <1>0, <1>1, <1>2 DEF TypeOK
  <2>4. NotShown \in [version : Versions \cup {None}, content : Contents \cup {None}]
    BY DEF NotShown
  <2> HIDE DEF k, v, c
  <2> QED
    BY <1>0, <1>1, <1>2, <2>1, <2>2, <2>3, <2>4, <2>5 DEF TypeOK
<1> HIDE DEF k, v, c
<1>5. RowInv'
  <2>1. \A j \in Assets : shown'[j] # NotShown => shown'[j] = shown[j]
    BY <1>0, <1>1, <1>2 DEF TypeOK
  <2>2. \A j \in Assets : (Exists(j)' <=> Exists(j)) /\ VersionsOf(j)' = VersionsOf(j)
    BY <1>3 DEF Exists, VersionsOf
  <2>4. \A w \in Versions : version[w].of # None => version[w].of \in Assets
    BY <1>0 DEF TypeOK, VersionType
  <2> QED
    BY <1>0, <1>3, <2>1, <2>2, <2>4 DEF RowInv
<1>6. RequestInv'
  <2>1. \A j \in Assets : (Exists(j)' <=> Exists(j)) /\ VersionsOf(j)' = VersionsOf(j)
    BY <1>3 DEF Exists, VersionsOf
  <2>2. \A p \in Reports : Submitted(p)' <=> Submitted(p)
    BY <1>3 DEF Submitted
  <2>3. ASSUME NEW x \in RequestType, Knows(x), x.asset = k => "edit" \notin Counts(x.pc)
        PROVE  Knows(x)'
    <3>1. x.pc = "approve" => asset'[x.asset] = asset[x.asset]
      BY <1>3, <2>3 DEF Knows, OnAsset, Decisions, Counts
    <3>2. x.pc = "publish" => version'[x.version] = version[x.version]
      BY <1>1, <1>3, <2>3 DEF Knows, OnVersion, Counts
    <3>3. x.pc = "version" => Counted(x.asset, x.number)'
      BY <1>3, <2>1, <2>3 DEF Knows, OnAsset, Counted, VersionsOf
    <3> QED
      BY <1>3, <2>1, <2>2, <2>3, <3>1, <3>2, <3>3 DEF Knows, OnAsset, OnVersion, VersionsOf
  <2>4. ASSUME NEW x \in RequestType, NEW y \in RequestType, Knows(y), y.asset = k,
               "edit" \in Counts(y.pc),
               x.pc = y.pc, x.asset = y.asset, x.version = y.version, x.content = y.content,
               x.report = y.report, x.sure = y.sure, x.number = y.number,
               x.missed = y.missed \cup {"edit"}
        PROVE  Knows(x)'
    <3>1. y.pc \in {"read", "publish", "approve"}
      BY <2>4 DEF Counts
    <3> QED
      BY <1>3, <2>1, <2>4, <3>1 DEF Knows, OnAsset, OnVersion, Decisions
  <2> QED
    BY <1>0, <1>2, <2>3, <2>4, RequestsAfterWrite
<1>7. Safe'
  <2>1. VersionsInOrder'
    BY <1>0, <1>2, <1>3 DEF Safe, VersionsInOrder, VersionsOf, RowInv, Exists
  <2>2. IndexFollowsContent'
    BY <1>0, <1>1, <1>2 DEF Safe, IndexFollowsContent, TypeOK, VersionType
  <2>3. PublishedAsSeen'
    <3> SUFFICES ASSUME NEW j \in Assets, asset'[j].status = "published", shown'[j] # NotShown
                 PROVE  version'[shown'[j].version].content = shown'[j].content
      BY DEF PublishedAsSeen
    <3>1. j # k /\ shown'[j] = shown[j]
      BY <1>0, <1>1, <1>2, <1>3 DEF TypeOK
    <3>2. version'[shown[j].version] = version[shown[j].version]
      BY <1>0, <1>1, <1>3, <3>1 DEF RowInv
    <3> QED
      BY <1>0, <1>3, <3>1, <3>2 DEF Safe, PublishedAsSeen
  <2>4. HighRiskConfirmed'
    BY <1>0, <1>1, <1>2, <1>3 DEF Safe, HighRiskConfirmed, TypeOK
  <2>5. ReportOnce'
    BY <1>0, <1>2, <1>3 DEF Safe, ReportOnce
  <2> QED
    BY <2>1, <2>2, <2>3, <2>4, <2>5 DEF Safe
<1> QED
  BY <1>4, <1>5, <1>6, <1>7 DEF IInv

LEMMA DecideStep ==
  ASSUME IInv, NEW r \in Requests, Decide(r)
  PROVE  IInv'
<1> DEFINE k == req[r].asset
           op == req[r].pc
           new == WriteStatus(r, Decided(req[r].pc))
<1>0. TypeOK /\ RowInv /\ RequestInv /\ Safe /\ req[r] \in RequestType /\ Knows(req[r])
  BY InvariantOf
<1>1. /\ op \in Decisions /\ k \in Assets /\ Exists(k)
      /\ op = "approve" /\ "edit" \notin req[r].missed => req[r].sure \/ asset[k].risk # "high"
  BY <1>0 DEF Decide, Knows, OnAsset
<1>2. /\ asset' = [asset EXCEPT ![k].status = new]
      /\ confirmed' = [confirmed EXCEPT ![k] = Confirmation(r)]
      /\ Written(r, k, op)
      /\ UNCHANGED <<version, chunks, shown, outdated, twins>>
  BY DEF Decide
<1>3. /\ new \in Statuses /\ new # "none"
      /\ new = "published" => asset[k].status = "published"
      /\ new = "approved" /\ op # "approve" => asset[k].status = "approved"
  BY <1>0, <1>1 DEF WriteStatus, Decided, Decisions, Statuses, TypeOK, RowType, Exists
<1>4. /\ Confirmation(r) \in {"no", "yes", "raced"}
      /\ new = "approved" /\ op # "approve" => Confirmation(r) = confirmed[k]
      /\ new = "approved" /\ op = "approve" /\ Confirmation(r) = "no" =>
            "edit" \notin req[r].missed /\ ~req[r].sure
  <2>1. new # "approved" => Confirmation(r) = "no"
    BY Zenon DEF Confirmation
  <2>2. new = "approved" /\ op # "approve" => Confirmation(r) = confirmed[k]
    BY DEF Confirmation
  <2>3. new = "approved" /\ op = "approve" =>
          IF "edit" \in req[r].missed THEN Confirmation(r) = "raced"
          ELSE IF req[r].sure THEN Confirmation(r) = "yes" ELSE Confirmation(r) = "no"
    BY DEF Confirmation
  <2> HIDE DEF new, op
  <2> QED
    BY <1>0, <1>1, <2>1, <2>2, <2>3 DEF TypeOK
<1> HIDE DEF new
<1>5. /\ \A j \in Assets : asset'[j].current = asset[j].current /\ asset'[j].risk = asset[j].risk
      /\ \A j \in Assets : j # k => asset'[j] = asset[j]
      /\ asset'[k].status = new
  BY <1>0, <1>1, <1>2 DEF TypeOK, RowType
<1>6. TypeOK'
  <2>1. req' \in [Requests -> RequestType]
    BY <1>0, <1>2, WrittenRequests
  <2>2. asset' \in [Assets -> RowType]
    BY <1>0, <1>1, <1>2, <1>3, RowUpdate DEF TypeOK
  <2> HIDE DEF k, op
  <2> QED
    BY <1>0, <1>2, <1>4, <2>1, <2>2 DEF TypeOK
<1> HIDE DEF k, op
<1>7. \A j \in Assets : (Exists(j)' <=> Exists(j)) /\ VersionsOf(j)' = VersionsOf(j)
  BY <1>1, <1>2, <1>3, <1>5 DEF Exists, VersionsOf
<1>8. RowInv'
  <2>2. \A w \in Versions : version[w].of # None => version[w].of \in Assets
    BY <1>0 DEF TypeOK, VersionType
  <2> QED
    BY <1>0, <1>2, <1>5, <1>7, <2>2 DEF RowInv
<1>9. RequestInv'
  <2>1. \A p \in Reports : Submitted(p)' <=> Submitted(p)
    BY <1>2 DEF Submitted
  <2>2. \A x \in RequestType : x.asset \in Assets /\ x.asset # k => asset'[x.asset] = asset[x.asset]
    BY <1>5
  <2>3. ASSUME NEW x \in RequestType, Knows(x), x.asset = k => op \notin Counts(x.pc)
        PROVE  Knows(x)'
    <3>1. x.pc = "edit" => /\ "publish" \notin x.missed => asset'[x.asset].status # "published"
                           /\ "approve" \notin x.missed => asset'[x.asset].status # "approved"
      BY <1>3, <1>5, <2>2, <2>3 DEF Knows, OnAsset, OnVersion, Counts
    <3>2. x.pc = "version" => Counted(x.asset, x.number)'
      BY <1>2, <1>7, <2>3 DEF Knows, OnAsset, Counted
    <3> QED
      BY <1>2, <1>5, <1>7, <2>1, <2>3, <3>1, <3>2
         DEF Knows, OnAsset, OnVersion, VersionsOf, Decisions
  <2>4. ASSUME NEW x \in RequestType, NEW y \in RequestType, Knows(y), y.asset = k,
               op \in Counts(y.pc),
               x.pc = y.pc, x.asset = y.asset, x.version = y.version, x.content = y.content,
               x.report = y.report, x.sure = y.sure, x.number = y.number,
               x.missed = y.missed \cup {op}
        PROVE  Knows(x)'
    <3>1. y.pc = "edit" /\ op = "approve"
      BY <1>1, <2>4 DEF Counts, Decisions
    <3> QED
      BY <1>2, <1>3, <1>5, <1>7, <2>4, <3>1 DEF Knows, OnAsset, OnVersion, Decisions
  <2> QED
    BY <1>0, <1>2, <2>3, <2>4, RequestsAfterWrite
<1>10. Safe'
  <2>1. VersionsInOrder'
    BY <1>0, <1>2, <1>5, <1>7 DEF Safe, VersionsInOrder
  <2>2. IndexFollowsContent' /\ ReportOnce'
    BY <1>0, <1>2 DEF Safe, IndexFollowsContent, ReportOnce
  <2>3. PublishedAsSeen'
    BY <1>0, <1>1, <1>2, <1>3, <1>5 DEF Safe, PublishedAsSeen
  <2>4. HighRiskConfirmed'
    <3> SUFFICES ASSUME NEW j \in Assets, asset'[j].status = "approved", asset'[j].risk = "high"
                 PROVE  confirmed'[j] # "no"
      BY DEF HighRiskConfirmed
    <3>1. CASE j # k
      BY <1>0, <1>1, <1>2, <1>5, <3>1 DEF Safe, HighRiskConfirmed, TypeOK
    <3>2. CASE j = k
      <4>1. confirmed'[k] = Confirmation(r)
        BY <1>0, <1>1, <1>2 DEF TypeOK
      <4>2. new = "approved" /\ asset[k].risk = "high"
        BY <1>1, <1>5, <3>2
      <4> QED
        BY <1>0, <1>1, <1>3, <1>4, <3>2, <4>1, <4>2 DEF Safe, HighRiskConfirmed
    <3> QED
      BY <3>1, <3>2
  <2> QED
    BY <2>1, <2>2, <2>3, <2>4 DEF Safe
<1> QED
  BY <1>6, <1>8, <1>9, <1>10 DEF IInv

LEMMA PublishStep ==
  ASSUME IInv, NEW r \in Requests, Publish(r)
  PROVE  IInv'
<1> DEFINE k == req[r].asset
           v == req[r].version
           c == req[r].content
           seen == IF req[r].missed = {} THEN [version |-> v, content |-> c] ELSE NotShown
<1>0. TypeOK /\ RowInv /\ RequestInv /\ Safe /\ req[r] \in RequestType /\ Knows(req[r])
  BY InvariantOf
<1>1. /\ k \in Assets /\ Exists(k) /\ v \in Versions /\ version[v].of = k
      /\ c \in Contents \cup {None}
      /\ req[r].missed = {} => version[v].content = c
  BY <1>0 DEF Publish, Knows, OnAsset, OnVersion, RequestType
<1>2. /\ asset' = [asset EXCEPT ![k].status = "published"]
      /\ chunks' = [chunks EXCEPT ![v] = c]
      /\ shown' = [shown EXCEPT ![k] = seen]
      /\ outdated' = IF req[r].missed = {} THEN outdated \ {v} ELSE outdated \cup {v}
      /\ confirmed' = [confirmed EXCEPT ![k] = "no"]
      /\ Written(r, k, "publish")
      /\ UNCHANGED <<version, twins>>
  BY DEF Publish
<1>3. /\ seen \in [version : Versions \cup {None}, content : Contents \cup {None}]
      /\ seen # NotShown => /\ req[r].missed = {}
                            /\ seen.version = v /\ seen.content = c
  BY <1>1 DEF NotShown
<1> HIDE DEF seen
<1>4. /\ \A j \in Assets : asset'[j].current = asset[j].current /\ asset'[j].risk = asset[j].risk
      /\ \A j \in Assets : j # k => asset'[j] = asset[j] /\ shown'[j] = shown[j]
      /\ asset'[k].status = "published" /\ shown'[k] = seen
  BY <1>0, <1>1, <1>2 DEF TypeOK, RowType
<1>5. TypeOK'
  <2>1. req' \in [Requests -> RequestType]
    BY <1>0, <1>2, WrittenRequests
  <2>2. asset' \in [Assets -> RowType]
    BY <1>0, <1>1, <1>2, RowUpdate DEF TypeOK, Statuses
  <2> HIDE DEF k, v, c
  <2> QED
    BY <1>0, <1>1, <1>2, <1>3, <2>1, <2>2 DEF TypeOK
<1> HIDE DEF k, v, c
<1>6. \A j \in Assets : (Exists(j)' <=> Exists(j)) /\ VersionsOf(j)' = VersionsOf(j)
  BY <1>1, <1>2, <1>4 DEF Exists, VersionsOf
<1>7. RowInv'
  <2>2. \A w \in Versions : version[w].of # None => version[w].of \in Assets
    BY <1>0 DEF TypeOK, VersionType
  <2>3. \A j \in Assets : shown'[j] # NotShown =>
          shown'[j].version \in Versions /\ version[shown'[j].version].of = j
    BY <1>0, <1>1, <1>3, <1>4 DEF RowInv
  <2> QED
    BY <1>0, <1>2, <1>4, <1>6, <2>2, <2>3 DEF RowInv
<1>8. RequestInv'
  <2>1. \A p \in Reports : Submitted(p)' <=> Submitted(p)
    BY <1>2 DEF Submitted
  <2>2. ASSUME NEW x \in RequestType, Knows(x), x.asset = k => "publish" \notin Counts(x.pc)
        PROVE  Knows(x)'
    <3>1. x.pc = "edit" => asset'[x.asset].status = asset[x.asset].status
      BY <1>4, <2>2 DEF Knows, OnAsset, OnVersion, Counts
    <3>2. x.pc = "version" => Counted(x.asset, x.number)'
      BY <1>2, <1>6, <2>2 DEF Knows, OnAsset, Counted
    <3> QED
      BY <1>2, <1>4, <1>6, <2>1, <2>2, <3>1, <3>2
         DEF Knows, OnAsset, OnVersion, VersionsOf, Decisions
  <2>3. ASSUME NEW x \in RequestType, NEW y \in RequestType, Knows(y), y.asset = k,
               "publish" \in Counts(y.pc),
               x.pc = y.pc, x.asset = y.asset, x.version = y.version, x.content = y.content,
               x.report = y.report, x.sure = y.sure, x.number = y.number,
               x.missed = y.missed \cup {"publish"}
        PROVE  Knows(x)'
    <3>1. y.pc = "edit"
      BY <2>3 DEF Counts
    <3> QED
      BY <1>2, <1>4, <1>6, <2>3, <3>1 DEF Knows, OnAsset, OnVersion, Decisions
  <2> QED
    BY <1>0, <1>2, <2>2, <2>3, RequestsAfterWrite
<1>9. Safe'
  <2>1. VersionsInOrder'
    BY <1>0, <1>2, <1>4, <1>6 DEF Safe, VersionsInOrder
  <2>2. IndexFollowsContent'
    BY <1>0, <1>1, <1>2 DEF Safe, IndexFollowsContent, TypeOK
  <2>3. PublishedAsSeen'
    <3> SUFFICES ASSUME NEW j \in Assets, asset'[j].status = "published", shown'[j] # NotShown
                 PROVE  version[shown'[j].version].content = shown'[j].content
      BY <1>2 DEF PublishedAsSeen
    <3>1. CASE j = k
      BY <1>1, <1>3, <1>4, <3>1
    <3>2. CASE j # k
      BY <1>0, <1>4, <3>2 DEF Safe, PublishedAsSeen
    <3> QED
      BY <3>1, <3>2
  <2>4. HighRiskConfirmed'
    BY <1>0, <1>1, <1>2, <1>4 DEF Safe, HighRiskConfirmed, TypeOK
  <2>5. ReportOnce'
    BY <1>0, <1>2 DEF Safe, ReportOnce
  <2> QED
    BY <2>1, <2>2, <2>3, <2>4, <2>5 DEF Safe
<1> QED
  BY <1>5, <1>7, <1>8, <1>9 DEF IInv

LEMMA AddVersionStep ==
  ASSUME IInv, NEW r \in Requests, NEW v \in Versions, AddVersion(r, v)
  PROVE  IInv'
<1> DEFINE k == req[r].asset
           n == req[r].number
           c == req[r].content
           p == req[r].report
           new == [of |-> k, number |-> n, content |-> c, report |-> p]
<1>0. TypeOK /\ RowInv /\ RequestInv /\ Safe /\ req[r] \in RequestType /\ Knows(req[r])
  BY InvariantOf
<1>1. /\ k \in Assets /\ Exists(k) /\ version[v].of = None
      /\ c \in Contents \cup {None} /\ n \in Nat /\ p \in Reports \cup {None}
      /\ Counted(k, n) /\ n \notin Numbers(k)
      /\ p # None => \E w \in VersionsOf(k) : version[w].report = p
  BY <1>0 DEF AddVersion, Knows, OnAsset, OnVersion, RequestType
<1>2. /\ version' = [version EXCEPT ![v] = new]
      /\ asset' = [asset EXCEPT ![k].current = v]
      /\ chunks' = [chunks EXCEPT ![v] = c]
      /\ req' = [req EXCEPT ![r] = Idle]
      /\ UNCHANGED <<confirmed, shown, outdated, twins>>
  BY DEF AddVersion, Close, history
<1>3. /\ new \in VersionType
      /\ new.of = k /\ new.number = n /\ new.content = c /\ new.report = p
  BY <1>1 DEF VersionType
<1> HIDE DEF new
<1>4. /\ \A j \in Assets : asset'[j].status = asset[j].status /\ asset'[j].risk = asset[j].risk
      /\ \A j \in Assets : j # k => asset'[j] = asset[j]
      /\ asset'[k].current = v
      /\ \A w \in Versions : w # v => version'[w] = version[w]
      /\ version'[v] = new
  BY <1>0, <1>1, <1>2 DEF TypeOK, RowType
<1>5. TypeOK'
  <2>1. req' \in [Requests -> RequestType]
    BY <1>0, <1>2, IdleType DEF TypeOK
  <2>2. asset' \in [Assets -> RowType]
    BY <1>0, <1>1, <1>2, RowUpdate DEF TypeOK
  <2> HIDE DEF k, n, c, p
  <2> QED
    BY <1>0, <1>1, <1>2, <1>3, <2>1, <2>2 DEF TypeOK
<1> HIDE DEF k, n, c, p
<1>6. /\ \A j \in Assets : Exists(j)' <=> Exists(j)
      /\ \A j \in Assets : j # k => VersionsOf(j)' = VersionsOf(j)
      /\ \A j \in Assets : j = k => VersionsOf(j)' = VersionsOf(j) \cup {v}
      /\ \A j \in Assets : \A w \in VersionsOf(j) : w # v /\ version'[w] = version[w]
  <2>1. \A j \in Assets : Exists(j)' <=> Exists(j)
    BY <1>4 DEF Exists
  <2>2. \A w \in Versions : version'[w].of = IF w = v THEN k ELSE version[w].of
    BY <1>3, <1>4
  <2>3. \A j \in Assets : j # None
    BY NoneAssumption
  <2>4. \A j \in Assets : j # k => VersionsOf(j)' = VersionsOf(j)
    BY <1>1, <2>2, <2>3 DEF VersionsOf
  <2>5. \A j \in Assets : j = k => VersionsOf(j)' = VersionsOf(j) \cup {v}
    BY <2>2 DEF VersionsOf
  <2>6. \A j \in Assets : \A w \in VersionsOf(j) : w # v /\ version'[w] = version[w]
    BY <1>1, <1>4, <2>3 DEF VersionsOf
  <2> QED
    BY <2>1, <2>4, <2>5, <2>6
<1>10. /\ \A w \in VersionsOf(k) : version[w].number < n /\ version[w].number \in Nat
       /\ \E u \in VersionsOf(k) : n = version[u].number + 1
  BY <1>0, <1>1 DEF Counted, Numbers, TypeOK, VersionType, VersionsOf
<1>7. RowInv'
  <2>3. \A w \in Versions : version[w].of # None => version[w].of \in Assets
    BY <1>0 DEF TypeOK, VersionType
  <2>4. \A w \in Versions : version'[w].of # None => asset'[version'[w].of].status # "none"
    BY <1>0, <1>1, <1>3, <1>4, <2>3 DEF RowInv, Exists
  <2>5. \A j \in Assets : Exists(j)' => /\ asset'[j].current \in Versions
                                       /\ version'[asset'[j].current].of = j
    BY <1>0, <1>3, <1>4, <1>6, <1>1, NoneAssumption DEF RowInv
  <2>6. \A j \in Assets :
          shown[j] # NotShown => shown[j].version # v /\ shown[j].version \in Versions
    BY <1>0, <1>1, NoneAssumption DEF RowInv
  <2> QED
    BY <1>0, <1>2, <1>4, <1>6, <2>4, <2>5, <2>6 DEF RowInv, Exists
<1>8. RequestInv'
  <2>1. \A q \in Reports : Submitted(q)' => Submitted(q)
    BY <1>1, <1>3, <1>4, NoneAssumption DEF Submitted, VersionsOf
  <2>2. \A x \in RequestType : Knows(x) /\ x.pc \in OnVersion =>
          x.version # v /\ version'[x.version] = version[x.version]
    BY <1>1, <1>4, NoneAssumption DEF Knows, OnAsset
  <2>3. ASSUME NEW x \in RequestType, Knows(x), x.pc \in {"restore", "version"}, x.report # None
        PROVE  \E w \in VersionsOf(x.asset)' : version'[w].report = x.report
    <3>1. PICK w \in VersionsOf(x.asset) : version[w].report = x.report
      BY <2>3 DEF Knows
    <3>2. x.asset \in Assets
      BY <2>3 DEF Knows, OnAsset
    <3>3. version'[w].report = x.report /\ w \in VersionsOf(x.asset)'
      BY <1>1, <1>6, <3>1, <3>2
    <3> QED
      BY <3>3
  <2>4. ASSUME NEW x \in RequestType, Knows(x), x.pc = "version"
        PROVE  Counted(x.asset, x.number)'
    <3>1. x.asset \in Assets /\ Counted(x.asset, x.number) /\ x.number \in Nat
      BY <2>4 DEF Knows, OnAsset, RequestType
    <3>2. CASE x.asset # k
      BY <1>6, <3>1, <3>2 DEF Counted
    <3>3. CASE x.asset = k
      <4>1. version'[v].number = n /\ v \in VersionsOf(x.asset)'
        BY <1>1, <1>3, <1>4, <1>6, <3>1, <3>3
      <4>2. \A w \in VersionsOf(k) : w \in VersionsOf(x.asset)' /\ version'[w] = version[w]
        BY <1>1, <1>6, <3>1, <3>3
      <4>3. PICK u \in VersionsOf(k) : x.number = version[u].number + 1
        BY <3>1, <3>3 DEF Counted
      <4>4. PICK t \in VersionsOf(k) : n = version[t].number + 1
        BY <1>10
      <4>5. (\A w \in VersionsOf(k) : version[w].number < x.number) => x.number = n
        BY <1>1, <1>10, <3>1, <4>3, <4>4
      <4>6. \E w \in VersionsOf(x.asset)' : version'[w].number = x.number
        BY <3>1, <3>3, <4>1, <4>2, <4>5 DEF Counted
      <4>7. x.number = version'[u].number + 1 /\ u \in VersionsOf(x.asset)'
        BY <4>2, <4>3
      <4> QED
        BY <4>6, <4>7 DEF Counted
    <3> QED
      BY <3>2, <3>3
  <2>5. ASSUME NEW x \in RequestType, Knows(x)
        PROVE  Knows(x)'
    BY <1>4, <1>6, <2>1, <2>2, <2>3, <2>4, <2>5 DEF Knows, OnAsset, OnVersion, Decisions
  <2> SUFFICES ASSUME NEW q \in Requests, NEW x \in RequestType, req'[q] = x PROVE Knows(x)'
    BY DEF RequestInv
  <2>6. Knows(x)
    BY <1>0, <1>2, IdleType, IdleKnows DEF RequestInv, TypeOK
  <2> QED
    BY <2>5, <2>6
<1>9. Safe'
  <2>1. VersionsInOrder'
    <3> SUFFICES ASSUME NEW j \in Assets, NEW u \in Versions, NEW w \in Versions,
                        version'[u].of = j, version'[w].of = j
                 PROVE  /\ u # w => version'[u].number # version'[w].number
                        /\ version'[u].number <= version'[asset'[j].current].number
      BY DEF VersionsInOrder, VersionsOf
    <3>2. CASE j # k
      <4>1. asset'[j] = asset[j] /\ u \in VersionsOf(j) /\ w \in VersionsOf(j)
        BY <1>3, <1>4, <3>2 DEF VersionsOf
      <4>2. asset[j].current \in VersionsOf(j)
        BY <1>0, <4>1, NoneAssumption DEF RowInv, VersionsOf
      <4> QED
        BY <1>0, <1>6, <4>1, <4>2 DEF Safe, VersionsInOrder
    <3>3. CASE j = k
      <4>1. \A i \in VersionsOf(k) : version'[i].number < n /\ version'[i].number \in Nat
        BY <1>1, <1>6, <1>10
      <4>2. version'[v].number = n
        BY <1>3, <1>4
      <4>3. (u = v \/ u \in VersionsOf(k)) /\ (w = v \/ w \in VersionsOf(k))
        BY <1>4, <3>3 DEF VersionsOf
      <4>4. u # w /\ u # v /\ w # v => version'[u].number # version'[w].number
        BY <1>0, <1>6, <3>3, <4>3 DEF Safe, VersionsInOrder
      <4> QED
        BY <1>1, <1>4, <3>3, <4>1, <4>2, <4>3, <4>4
    <3> QED
      BY <3>2, <3>3
  <2>2. IndexFollowsContent'
    BY <1>0, <1>1, <1>2, <1>3, <1>4 DEF Safe, IndexFollowsContent, TypeOK
  <2>3. PublishedAsSeen'
    <3>1. \A j \in Assets : shown[j] # NotShown =>
            version'[shown[j].version] = version[shown[j].version]
      BY <1>0, <1>1, <1>4, NoneAssumption DEF RowInv
    <3> QED
      BY <1>0, <1>2, <1>4, <3>1 DEF Safe, PublishedAsSeen
  <2>4. HighRiskConfirmed'
    BY <1>0, <1>2, <1>4 DEF Safe, HighRiskConfirmed
  <2>5. ReportOnce'
    <3> SUFFICES ASSUME NEW q \in Reports \ twins, NEW u \in Versions, NEW w \in Versions,
                        version'[u].report = q, version'[w].report = q
                 PROVE  version'[u].of = version'[w].of
      BY <1>2 DEF ReportOnce
    <3>1. \A i \in Versions : i # v /\ version[i].report = q /\ p = q => version[i].of = k
      BY <1>0, <1>1, NoneAssumption DEF Safe, ReportOnce, VersionsOf
    <3> QED
      BY <1>0, <1>3, <1>4, <3>1 DEF Safe, ReportOnce
  <2> QED
    BY <2>1, <2>2, <2>3, <2>4, <2>5 DEF Safe
<1> QED
  BY <1>5, <1>7, <1>8, <1>9 DEF IInv

\* A new asset: no request knows it yet, and its only version comes from a report that no
\* other asset comes from, unless the two submissions have overlapped
LEMMA DraftStep ==
  ASSUME IInv, NEW k \in Assets, NEW v \in Versions, NEW c \in Contents, NEW risk \in Risks,
         NEW p \in Reports \cup {None}, Draft(k, v, c, p, risk),
         req' \in [Requests -> RequestType], twins \subseteq twins', twins' \subseteq Reports,
         p \in Reports /\ p \notin twins' => ~Submitted(p)
  PROVE  /\ TypeOK' /\ RowInv' /\ Safe'
         /\ \A x \in RequestType : Knows(x) /\ x.pc # "report" => Knows(x)'
         /\ \A q \in Reports : q # p /\ ~Submitted(q) => ~Submitted(q)'
<1> DEFINE new == [of |-> k, number |-> 1, content |-> c, report |-> p]
           row == [status |-> "draft", current |-> v, risk |-> risk]
<1>0. TypeOK /\ RowInv /\ RequestInv /\ Safe
  BY DEF IInv
<1>1. ~Exists(k) /\ version[v].of = None /\ \A j \in Assets : j # None
  BY NoneAssumption DEF Draft
<1>2. /\ asset' = [asset EXCEPT ![k] = row]
      /\ version' = [version EXCEPT ![v] = new]
      /\ chunks' = [chunks EXCEPT ![v] = c]
      /\ UNCHANGED <<confirmed, shown, outdated>>
  BY DEF Draft
<1>3. /\ new \in VersionType /\ row \in RowType
      /\ new.of = k /\ new.number = 1 /\ new.content = c /\ new.report = p
      /\ row.status = "draft" /\ row.current = v
  BY DEF VersionType, RowType, Statuses
<1> HIDE DEF new, row
<1>4. /\ \A j \in Assets : j # k => asset'[j] = asset[j]
      /\ \A w \in Versions : w # v => version'[w] = version[w]
      /\ version'[v] = new /\ asset'[k] = row
  BY <1>0, <1>1, <1>2 DEF TypeOK
<1>5. TypeOK'
  BY <1>0, <1>2, <1>3 DEF TypeOK
<1>6. VersionsOf(k) = {} /\ shown[k] = NotShown
  BY <1>0, <1>1 DEF VersionsOf, RowInv
<1>7. \A w \in Versions : version'[w].of = IF w = v THEN k ELSE version[w].of
  BY <1>3, <1>4
<1>8. /\ \A j \in Assets : j # k => VersionsOf(j)' = VersionsOf(j) /\ (Exists(j)' <=> Exists(j))
      /\ VersionsOf(k)' = {v} /\ Exists(k)'
      /\ \A j \in Assets : \A w \in VersionsOf(j) : w # v /\ version'[w] = version[w]
  BY <1>1, <1>3, <1>4, <1>6, <1>7 DEF VersionsOf, Exists
<1>9. RowInv'
  <2>3. \A w \in Versions : version[w].of # None => version[w].of \in Assets
    BY <1>0 DEF TypeOK, VersionType
  <2>4. \A w \in Versions : version'[w].of # None => asset'[version'[w].of].status # "none"
    BY <1>0, <1>1, <1>3, <1>4, <1>7, <2>3 DEF RowInv, Exists
  <2>5. \A j \in Assets : Exists(j)' => /\ asset'[j].current \in Versions
                                       /\ version'[asset'[j].current].of = j
    BY <1>0, <1>1, <1>3, <1>4, <1>7, <1>8 DEF RowInv
  <2>6. \A j \in Assets :
          shown[j] # NotShown => shown[j].version # v /\ shown[j].version \in Versions
    BY <1>0, <1>1 DEF RowInv
  <2> QED
    BY <1>0, <1>2, <1>4, <1>8, <2>4, <2>5, <2>6 DEF RowInv, Exists
<1>10. \A q \in Reports : q # p /\ ~Submitted(q) => ~Submitted(q)'
  BY <1>3, <1>4 DEF Submitted
<1>11. ASSUME NEW x \in RequestType, Knows(x), x.pc # "report"
       PROVE  Knows(x)'
  <2>1. CASE x.pc \in OnAsset
    <3>1. x.asset \in Assets /\ x.asset # k /\ Exists(x.asset)
      BY <1>1, <1>11, <2>1 DEF Knows
    <3>2. /\ asset'[x.asset] = asset[x.asset] /\ Exists(x.asset)'
          /\ VersionsOf(x.asset)' = VersionsOf(x.asset)
          /\ \A w \in VersionsOf(x.asset) : version'[w] = version[w]
      BY <1>4, <1>8, <3>1
    <3>3. x.pc \in OnVersion => x.version \in VersionsOf(x.asset)
      BY <1>11 DEF Knows, VersionsOf
    <3>4. x.pc \in OnVersion => /\ x.version \in Versions /\ version[x.version].of = x.asset
                                /\ version'[x.version] = version[x.version]
      BY <1>11, <3>2, <3>3 DEF Knows
    <3>5. x.pc = "version" => Counted(x.asset, x.number)'
      BY <1>11, <3>2 DEF Knows, Counted
    <3>6. x.pc \in {"restore", "version"} /\ x.report # None =>
            \E w \in VersionsOf(x.asset)' : version'[w].report = x.report
      BY <1>11, <3>2 DEF Knows
    <3>7. x.pc = "edit" => /\ "publish" \notin x.missed => asset[x.asset].status # "published"
                           /\ "approve" \notin x.missed => asset[x.asset].status # "approved"
      BY <1>11 DEF Knows
    <3>8. /\ x.pc = "approve" /\ "edit" \notin x.missed => x.sure \/ asset[x.asset].risk # "high"
          /\ x.pc = "publish" /\ "edit" \notin x.missed => version[x.version].content = x.content
      BY <1>11 DEF Knows
    <3> QED
      BY <1>11, <3>1, <3>2, <3>4, <3>5, <3>6, <3>7, <3>8 DEF Knows, OnVersion
  <2>2. CASE x.pc \notin OnAsset
    BY <1>11, <2>2 DEF Knows, OnAsset, OnVersion, Decisions
  <2> QED
    BY <2>1, <2>2
<1>12. Safe'
  <2>1. VersionsInOrder'
    <3> SUFFICES ASSUME NEW j \in Assets, NEW u \in Versions, NEW w \in Versions,
                        version'[u].of = j, version'[w].of = j
                 PROVE  /\ u # w => version'[u].number # version'[w].number
                        /\ version'[u].number <= version'[asset'[j].current].number
      BY <1>2 DEF VersionsInOrder, VersionsOf
    <3>1. CASE j # k
      <4>1. /\ asset'[j] = asset[j] /\ u \in VersionsOf(j) /\ w \in VersionsOf(j)
            /\ version[asset[j].current].of = j /\ asset[j].current \in Versions
        BY <1>0, <1>1, <1>4, <1>7, <3>1 DEF VersionsOf, RowInv
      <4>2. asset[j].current \in VersionsOf(j)
        BY <4>1 DEF VersionsOf
      <4> QED
        BY <1>0, <1>8, <4>1, <4>2 DEF Safe, VersionsInOrder
    <3>2. CASE j = k
      <4>1. u = v /\ w = v
        BY <1>6, <1>7, <3>2 DEF VersionsOf
      <4> QED
        BY <1>3, <1>4, <3>2, <4>1
    <3> QED
      BY <3>1, <3>2
  <2>2. IndexFollowsContent'
    BY <1>0, <1>2, <1>3, <1>4 DEF Safe, IndexFollowsContent, TypeOK
  <2>3. PublishedAsSeen'
    <3>1. \A j \in Assets : shown[j] # NotShown =>
            j # k /\ version'[shown[j].version] = version[shown[j].version]
      BY <1>0, <1>1, <1>4, <1>6 DEF RowInv
    <3> QED
      BY <1>0, <1>2, <1>4, <3>1 DEF Safe, PublishedAsSeen
  <2>4. HighRiskConfirmed'
    BY <1>0, <1>2, <1>3, <1>4 DEF Safe, HighRiskConfirmed
  <2>5. ReportOnce'
    <3> SUFFICES ASSUME NEW q \in Reports \ twins', NEW u \in Versions, NEW w \in Versions,
                        version'[u].report = q, version'[w].report = q
                 PROVE  version'[u].of = version'[w].of
      BY DEF ReportOnce
    <3>1. q = p => \A i \in Versions : version[i].report # q
      BY DEF Submitted
    <3> QED
      BY <1>0, <1>3, <1>4, <3>1 DEF Safe, ReportOnce
  <2> QED
    BY <2>1, <2>2, <2>3, <2>4, <2>5 DEF Safe
<1> QED
  BY <1>5, <1>9, <1>10, <1>11, <1>12

LEMMA CreateStep ==
  ASSUME IInv, NEW k \in Assets, NEW v \in Versions, NEW c \in Contents, NEW risk \in Risks
  PROVE  /\ CreateManualDraft(k, v, c, risk) => IInv'
         /\ \A r \in Requests : CreateReportDraft(r, k, v, c, risk) => IInv'
<1>0. TypeOK /\ RequestInv
  BY DEF IInv
<1>1. ASSUME CreateManualDraft(k, v, c, risk)
      PROVE  IInv'
  <2>1. /\ Draft(k, v, c, None, risk) /\ UNCHANGED <<req, twins>>
        /\ req' \in [Requests -> RequestType] /\ twins' \subseteq Reports /\ None \notin Reports
    BY <1>0, <1>1, NoneAssumption DEF CreateManualDraft, TypeOK
  <2>2. /\ TypeOK' /\ RowInv' /\ Safe'
        /\ \A x \in RequestType : Knows(x) /\ x.pc # "report" => Knows(x)'
        /\ \A q \in Reports : ~Submitted(q) => ~Submitted(q)'
    BY <2>1, DraftStep
  <2>3. \A x \in RequestType : x.pc = "report" /\ Knows(x) => Knows(x)'
    BY <2>2 DEF Knows, OnAsset, OnVersion, Decisions
  <2>4. RequestInv'
    BY <1>0, <2>1, <2>2, <2>3 DEF RequestInv
  <2> QED
    BY <2>2, <2>4 DEF IInv
<1>2. ASSUME NEW r \in Requests, CreateReportDraft(r, k, v, c, risk)
      PROVE  IInv'
  <2> DEFINE p == req[r].report
  <2>1. /\ req[r].pc = "report" /\ Draft(k, v, c, p, risk)
        /\ req[r] \in RequestType /\ Knows(req[r])
        /\ twins' = IF req[r].missed = {} THEN twins ELSE twins \cup {p}
    BY <1>0, <1>2 DEF CreateReportDraft, TypeOK, RequestInv
  <2>2. p \in Reports /\ (req[r].missed = {} => ~Submitted(p))
    BY <2>1 DEF Knows
  <2>3. \A q \in Requests : req'[q] =
           IF q = r THEN Idle
           ELSE IF req[q].pc = "report" /\ req[q].report = p
                THEN [req[q] EXCEPT !.missed = @ \cup {"report"}]
           ELSE req[q]
    BY <1>2 DEF CreateReportDraft
  <2>4. req' \in [Requests -> RequestType]
    <3>1. \A x \in RequestType : [x EXCEPT !.missed = @ \cup {"report"}] \in RequestType
      BY MissedType DEF Kinds
    <3>2. \A q \in Requests : req[q] \in RequestType
      BY <1>0 DEF TypeOK
    <3>3. \A q \in Requests : req'[q] \in RequestType
      BY <2>3, <3>1, <3>2, IdleType
    <3> QED
      BY <1>2, <3>3 DEF CreateReportDraft
  <2> HIDE DEF p
  <2>5. twins \subseteq twins' /\ twins' \subseteq Reports /\ (p \notin twins' => ~Submitted(p))
    BY <1>0, <2>1, <2>2 DEF TypeOK
  <2>6. /\ TypeOK' /\ RowInv' /\ Safe'
        /\ \A x \in RequestType : Knows(x) /\ x.pc # "report" => Knows(x)'
        /\ \A q \in Reports : q # p /\ ~Submitted(q) => ~Submitted(q)'
    BY <2>1, <2>2, <2>4, <2>5, DraftStep
  <2>7. ASSUME NEW q \in Requests, NEW x \in RequestType, req'[q] = x
        PROVE  Knows(x)'
    <3>1. CASE q = r
      <4>1. x.pc = "idle"
        BY <2>3, <2>7, <3>1, IdleType
      <4> QED
        BY <4>1 DEF Knows, OnAsset, OnVersion, Decisions
    <3>2. CASE q # r /\ req[q].pc = "report" /\ req[q].report = p
      <4>1. x.pc = "report" /\ x.report = p /\ "report" \in x.missed
        <5>1. req[q] \in RequestType /\ x = [req[q] EXCEPT !.missed = @ \cup {"report"}]
          BY <1>0, <2>3, <2>7, <3>2 DEF TypeOK
        <5>2. x.missed = req[q].missed \cup {"report"}
          BY <5>1, MissedType DEF Kinds
        <5>3. x.pc = req[q].pc /\ x.report = req[q].report
          BY <5>1, MissedFields
        <5> QED
          BY <3>2, <5>2, <5>3
      <4> QED
        BY <2>2, <4>1 DEF Knows, OnAsset, OnVersion, Decisions
    <3>3. CASE q # r /\ ~(req[q].pc = "report" /\ req[q].report = p)
      <4>1. req[q] = x /\ Knows(x)
        BY <1>0, <2>3, <2>7, <3>3 DEF RequestInv
      <4>2. x.pc = "report" => x.report # p
        BY <3>3, <4>1
      <4>3. x.pc = "report" => Knows(x)'
        BY <2>6, <4>1, <4>2 DEF Knows, OnAsset, OnVersion, Decisions
      <4> QED
        BY <2>6, <4>1, <4>3
    <3> QED
      BY <3>1, <3>2, <3>3
  <2>8. RequestInv'
    BY <2>7 DEF RequestInv
  <2> QED
    BY <2>6, <2>8 DEF IInv
<1> QED
  BY <1>1, <1>2

------------------------------------------------------------------------------
LEMMA NextPreservesInvariant == IInv /\ [Next]_vars => IInv'
<1> SUFFICES ASSUME IInv, [Next]_vars PROVE IInv'
  OBVIOUS
<1>1. ASSUME NEW k \in Assets, NEW v \in Versions, NEW c \in Contents, NEW risk \in Risks,
             \/ CreateManualDraft(k, v, c, risk)
             \/ \E r \in Requests : CreateReportDraft(r, k, v, c, risk)
      PROVE  IInv'
  BY <1>1, CreateStep
<1>2. ASSUME NEW r \in Requests, Reads(r) PROVE IInv'
  BY <1>2, ReadStep
<1>3. ASSUME NEW r \in Requests, NEW v \in Versions, AddVersion(r, v) PROVE IInv'
  BY <1>3, AddVersionStep
<1>4. ASSUME NEW r \in Requests, UpdateDraft(r) \/ Decide(r) \/ Publish(r) PROVE IInv'
  BY <1>4, UpdateDraftStep, DecideStep, PublishStep
<1>5. CASE UNCHANGED vars
  <2>1. UNCHANGED rows /\ UNCHANGED history /\ req' = req
    BY <1>5 DEF vars
  <2>2. TypeOK' /\ RowInv' /\ Safe'
    BY <2>1 DEF IInv, TypeOK, RowInv, VersionsOf, Exists, rows, history, Safe,
         VersionsInOrder, IndexFollowsContent, PublishedAsSeen, HighRiskConfirmed, ReportOnce
  <2>3. RequestInv'
    BY <2>1, KnowsStable DEF IInv, RequestInv
  <2> QED
    BY <2>2, <2>3 DEF IInv
<1> QED
  BY <1>1, <1>2, <1>3, <1>4, <1>5 DEF Next, Reads

\* The strengthened invariant holds in every state
LEMMA InvariantHolds == Spec => []IInv
  BY InitEstablishesInvariant, NextPreservesInvariant, PTL DEF Spec

\* Every row and every request keeps its type, for every number of assets, versions and
\* requests.
THEOREM TypeCorrect == Spec => []TypeOK
<1>1. IInv => TypeOK
  BY DEF IInv
<1> QED
  BY <1>1, InvariantHolds, PTL

\* However the requests that edit, decide, publish, extend and restore an asset overlap,
\* its versions have different numbers and the current one has the highest: of two that
\* counted the same versions the unique number lets one through.
THEOREM VersionsOrdered == Spec => []VersionsInOrder
<1>1. IInv => VersionsInOrder
  BY DEF IInv, Safe
<1> QED
  BY <1>1, InvariantHolds, PTL

\* A version is indexed with its text, unless an edit came between the read and the commit
\* of a publication.
THEOREM IndexFollows == Spec => []IndexFollowsContent
<1>1. IInv => IndexFollowsContent
  BY DEF IInv, Safe
<1> QED
  BY <1>1, InvariantHolds, PTL

\* The text of a published version stays as it was published, unless an edit overlapped
\* the publication.
THEOREM PublishedStays == Spec => []PublishedAsSeen
<1>1. IInv => PublishedAsSeen
  BY DEF IInv, Safe
<1> QED
  BY <1>1, InvariantHolds, PTL

\* An approval of a high risk is confirmed, unless an edit of the risk overlapped it.
THEOREM HighRiskIsConfirmed == Spec => []HighRiskConfirmed
<1>1. IInv => HighRiskConfirmed
  BY DEF IInv, Safe
<1> QED
  BY <1>1, InvariantHolds, PTL

\* Two assets come from one report only if two requests submitted it at a time.
THEOREM ReportIsUsedOnce == Spec => []ReportOnce
<1>1. IInv => ReportOnce
  BY DEF IInv, Safe
<1> QED
  BY <1>1, InvariantHolds, PTL
==============================================================================
