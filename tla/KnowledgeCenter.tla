--------------------------- MODULE KnowledgeCenter ---------------------------
(***************************************************************************)
(* Knowledge assets, their versions and the search index                   *)
(* (backend/knowledge_center).  An asset is drafted, reviewed, published    *)
(* and archived; its current version holds the text and is indexed in       *)
(* chunks.  Every request works in a session of its own: it decides on the  *)
(* rows as it has read them and writes everything in one commit, which      *)
(* leaves a column alone that has kept the value it was read with.          *)
(*                                                                         *)
(* Every writer of rows that others can see updates the asset's row before  *)
(* them, and holds that row until it commits: of the writers of one asset   *)
(* only the reads interleave, so that each write is one step.               *)
(***************************************************************************)
EXTENDS Naturals, FiniteSets

CONSTANTS Assets, Versions,  \* ids of rows, drawn at random
          Contents,          \* texts of versions
          Reports,           \* research reports that drafts are made from
          Managed,           \* the assets that managers work on
          Requests,          \* requests that can be open at a time
          None               \* no asset, version, text or report

ASSUME ManagedAssumption == Managed \subseteq Assets

ASSUME NoneAssumption ==
  None \notin Assets \cup Versions \cup Contents \cup Reports

VARIABLES
  asset,      \* knowledge_assets: status, current version and risk
  version,    \* knowledge_versions
  chunks,     \* knowledge_chunks: the text a version is indexed with
  req,        \* what each request is doing, and what it has read
  confirmed,  \* history: has the owner confirmed the last approval; "raced" after an overlap
  shown,      \* history: version and text of the last publication, unless an edit overlapped it
  outdated,   \* history: versions indexed with a text that an edit had replaced
  twins       \* history: reports that overlapping requests have submitted

rows    == <<asset, version, chunks>>
history == <<confirmed, shown, outdated, twins>>
vars    == <<rows, req, history>>

Statuses == {"none", "draft", "submitted", "rejected", "approved", "published", "archived"}
Editable == {"draft", "rejected", "submitted"}
Risks    == {"low", "high"}

NoRow     == [status |-> "none", current |-> None, risk |-> "low"]
NoVersion == [of |-> None, number |-> 0, content |-> None, report |-> None]
NotShown  == [version |-> None, content |-> None]

Idle == [pc |-> "idle", asset |-> None, version |-> None, content |-> None,
         report |-> None, risk |-> "keep", same |-> FALSE, sure |-> FALSE, number |-> 0,
         missed |-> {}]

Open(r, fields) == req' = [req EXCEPT ![r] = fields]
Close(r)        == req' = [req EXCEPT ![r] = Idle]

Exists(k)     == asset[k].status # "none"
VersionsOf(k) == {v \in Versions : version[v].of = k}

\* The writes that a request counts which has read the rows before them
Counts(pc) ==
  CASE pc = "edit"                           -> {"publish", "approve"}
    [] pc \in {"read", "publish", "approve"} -> {"edit"}
    [] OTHER                                 -> {}

\* r has written; the other requests on k have not seen it
Written(r, k, kind) ==
  req' = [q \in Requests |->
            IF q = r THEN Idle
            ELSE IF req[q].asset = k /\ kind \in Counts(req[q].pc)
                 THEN [req[q] EXCEPT !.missed = @ \cup {kind}]
            ELSE req[q]]

------------------------------------------------------------------------------
(* Drafts                                                                   *)

\* The rows of a new asset: nobody else knows them before they are committed
Draft(k, v, c, p, risk) ==
  /\ ~Exists(k)
  /\ version[v].of = None
  /\ asset' = [asset EXCEPT ![k] = [status |-> "draft", current |-> v, risk |-> risk]]
  /\ version' = [version EXCEPT ![v] = [of |-> k, number |-> 1, content |-> c, report |-> p]]
  /\ chunks' = [chunks EXCEPT ![v] = c]
  /\ UNCHANGED <<confirmed, shown, outdated>>

CreateManualDraft(k, v, c, risk) ==
  /\ Draft(k, v, c, None, risk)
  /\ UNCHANGED <<req, twins>>

Submitted(p) == \E v \in Versions : version[v].report = p

\* Faulty: the draft is made without looking for an earlier one
LoadReportAgain(r, p) ==
  /\ req[r].pc = "idle"
  /\ Open(r, [Idle EXCEPT !.pc = "report", !.report = p])
  /\ UNCHANGED <<rows, history>>

\* No version comes from the report yet
LoadReport(r, p) ==
  /\ req[r].pc = "idle"
  /\ ~Submitted(p)
  /\ Open(r, [Idle EXCEPT !.pc = "report", !.report = p])
  /\ UNCHANGED <<rows, history>>

CreateReportDraft(r, k, v, c, risk) ==
  /\ req[r].pc = "report"
  /\ Draft(k, v, c, req[r].report, risk)
  /\ req' = [q \in Requests |->
               IF q = r THEN Idle
               ELSE IF req[q].pc = "report" /\ req[q].report = req[r].report
                    THEN [req[q] EXCEPT !.missed = @ \cup {"report"}]
               ELSE req[q]]
  /\ twins' = IF req[r].missed = {} THEN twins ELSE twins \cup {req[r].report}

------------------------------------------------------------------------------
(* Editing the current version in place                                     *)

\* Faulty: an asset in any status is edited
LoadEditAny(r, k, c, risk) ==
  /\ req[r].pc = "idle"
  /\ Exists(k)
  /\ Open(r, [Idle EXCEPT !.pc = "edit", !.asset = k, !.version = asset[k].current,
                !.content = c, !.risk = IF risk = asset[k].risk THEN "keep" ELSE risk])
  /\ UNCHANGED <<rows, history>>

\* c = None: the request has no text; risk = "keep": it has no risk level
LoadEdit(r, k, c, risk) ==
  /\ req[r].pc = "idle"
  /\ asset[k].status \in Editable
  /\ Open(r, [Idle EXCEPT !.pc = "edit", !.asset = k, !.version = asset[k].current,
                !.content = c, !.risk = IF risk = asset[k].risk THEN "keep" ELSE risk])
  /\ UNCHANGED <<rows, history>>

\* Faulty: the chunks of the old text stay
UpdateDraftOnly(r) ==
  /\ req[r].pc = "edit"
  /\ LET k == req[r].asset  v == req[r].version  c == req[r].content IN
     /\ asset' = IF req[r].risk = "keep" THEN asset
                 ELSE [asset EXCEPT ![k].risk = req[r].risk]
     /\ version' = IF c = None THEN version ELSE [version EXCEPT ![v].content = c]
     /\ chunks' = chunks
     /\ shown' = IF "publish" \in req[r].missed THEN [shown EXCEPT ![k] = NotShown] ELSE shown
     /\ confirmed' = IF "approve" \in req[r].missed /\ asset[k].status = "approved"
                     THEN [confirmed EXCEPT ![k] = "raced"] ELSE confirmed
     /\ outdated' = IF c = None THEN outdated ELSE outdated \ {v}
     /\ Written(r, k, "edit")
  /\ UNCHANGED twins

UpdateDraft(r) ==
  /\ req[r].pc = "edit"
  /\ LET k == req[r].asset  v == req[r].version  c == req[r].content IN
     /\ asset' = IF req[r].risk = "keep" THEN asset
                 ELSE [asset EXCEPT ![k].risk = req[r].risk]
     /\ version' = IF c = None THEN version ELSE [version EXCEPT ![v].content = c]
     /\ chunks' = IF c = None THEN chunks ELSE [chunks EXCEPT ![v] = c]
     /\ shown' = IF "publish" \in req[r].missed THEN [shown EXCEPT ![k] = NotShown] ELSE shown
     /\ confirmed' = IF "approve" \in req[r].missed /\ asset[k].status = "approved"
                     THEN [confirmed EXCEPT ![k] = "raced"] ELSE confirmed
     /\ outdated' = IF c = None THEN outdated ELSE outdated \ {v}
     /\ Written(r, k, "edit")
  /\ UNCHANGED twins

------------------------------------------------------------------------------
(* Review                                                                   *)

Decisions == {"submit", "approve", "reject", "archive"}

\* The status that a decision gives, whatever the status was before
Decided(op) ==
  CASE op = "submit"  -> "submitted"
    [] op = "approve" -> "approved"
    [] op = "reject"  -> "rejected"
    [] op = "archive" -> "archived"

\* Only an approval asks whether the owner is sure
Decision(k, op, sure) ==
  [Idle EXCEPT !.pc = op, !.asset = k, !.same = (asset[k].status = Decided(op)), !.sure = sure]

\* Faulty: a high risk is approved without the owner
LoadDecisionUnsure(r, k, op, sure) ==
  /\ req[r].pc = "idle"
  /\ Exists(k)
  /\ sure => op = "approve"
  /\ Open(r, Decision(k, op, sure))
  /\ UNCHANGED <<rows, history>>

LoadDecision(r, k, op, sure) ==
  /\ req[r].pc = "idle"
  /\ Exists(k)
  /\ sure => op = "approve"
  /\ (op = "approve" /\ asset[k].risk = "high") => sure
  /\ Open(r, Decision(k, op, sure))
  /\ UNCHANGED <<rows, history>>

WriteStatus(r, new) ==
  LET k == req[r].asset IN
  IF req[r].same THEN asset[k].status ELSE new

\* Is the approval, if there still is one, confirmed
Confirmation(r) ==
  LET k == req[r].asset  new == WriteStatus(r, Decided(req[r].pc)) IN
  IF new # "approved"              THEN "no"
  ELSE IF req[r].pc # "approve"    THEN confirmed[k]
  ELSE IF "edit" \in req[r].missed THEN "raced"
  ELSE IF req[r].sure              THEN "yes" ELSE "no"

Decide(r) ==
  /\ req[r].pc \in Decisions
  /\ LET k == req[r].asset IN
     /\ asset' = [asset EXCEPT ![k].status = WriteStatus(r, Decided(req[r].pc))]
     /\ confirmed' = [confirmed EXCEPT ![k] = Confirmation(r)]
     /\ Written(r, k, req[r].pc)
  /\ UNCHANGED <<version, chunks, shown, outdated, twins>>

------------------------------------------------------------------------------
(* Publication                                                              *)

LoadPublish(r, k, sure) ==
  /\ req[r].pc = "idle"
  /\ Exists(k)
  /\ asset[k].status # "published"
  /\ asset[k].status \in {"approved", "submitted"} \/ sure
  /\ Open(r, [Idle EXCEPT !.pc = "read", !.asset = k, !.version = asset[k].current])
  /\ UNCHANGED <<rows, history>>

\* The text that will be indexed.  An edit that was missed until here has been read now
ReadVersion(r) ==
  /\ req[r].pc = "read"
  /\ req' = [req EXCEPT ![r].pc = "publish", ![r].content = version[req[r].version].content,
                        ![r].missed = {}]
  /\ UNCHANGED <<rows, history>>

Publish(r) ==
  /\ req[r].pc = "publish"
  /\ LET k == req[r].asset  v == req[r].version  c == req[r].content IN
     /\ asset' = [asset EXCEPT ![k].status = "published"]
     /\ chunks' = [chunks EXCEPT ![v] = c]
     /\ shown' = [shown EXCEPT ![k] = IF req[r].missed = {} THEN [version |-> v, content |-> c]
                                      ELSE NotShown]
     /\ outdated' = IF req[r].missed = {} THEN outdated \ {v} ELSE outdated \cup {v}
     /\ confirmed' = [confirmed EXCEPT ![k] = "no"]
     /\ Written(r, k, "publish")
  /\ UNCHANGED <<version, twins>>

------------------------------------------------------------------------------
(* New versions                                                             *)

Numbers(k) == {version[v].number : v \in VersionsOf(k)}

\* next_version_number: one more than the highest
NumberAfter(k) ==
  CHOOSE n \in {1} \cup {i + 1 : i \in Numbers(k)} : \A i \in Numbers(k) : i < n

\* POST /versions, with a new text
CreateVersion(r, k, c) ==
  /\ req[r].pc = "idle"
  /\ Exists(k)
  /\ Open(r, [Idle EXCEPT !.pc = "version", !.asset = k, !.content = c,
                          !.number = NumberAfter(k)])
  /\ UNCHANGED <<rows, history>>

\* POST /versions/{v}/restore reads the text and the origin of v ...
RestoreVersion(r, k, v) ==
  /\ req[r].pc = "idle"
  /\ version[v].of = k
  /\ Open(r, [Idle EXCEPT !.pc = "restore", !.asset = k, !.content = version[v].content,
                          !.report = version[v].report])
  /\ UNCHANGED <<rows, history>>

\* ... and then the numbers
CountVersions(r) ==
  /\ req[r].pc = "restore"
  /\ req' = [req EXCEPT ![r].pc = "version", ![r].number = NumberAfter(req[r].asset)]
  /\ UNCHANGED <<rows, history>>

\* Faulty: the table takes a number that the asset has already
AddVersionTwice(r, v) ==
  /\ req[r].pc = "version"
  /\ version[v].of = None
  /\ LET k == req[r].asset IN
     /\ version' = [version EXCEPT ![v] = [of |-> k, number |-> req[r].number,
                      content |-> req[r].content, report |-> req[r].report]]
     /\ asset' = [asset EXCEPT ![k].current = v]
     /\ chunks' = [chunks EXCEPT ![v] = req[r].content]
     /\ Close(r)
  /\ UNCHANGED history

\* The new version becomes the current one; the status of the asset stays.  The table
\* refuses a number that the asset has already (uq_knowledge_versions_number): the
\* request that has counted the same versions as another ends in Fail, nothing written.
AddVersion(r, v) ==
  /\ req[r].pc = "version"
  /\ version[v].of = None
  /\ LET k == req[r].asset IN
     /\ req[r].number \notin Numbers(k)
     /\ version' = [version EXCEPT ![v] = [of |-> k, number |-> req[r].number,
                      content |-> req[r].content, report |-> req[r].report]]
     /\ asset' = [asset EXCEPT ![k].current = v]
     /\ chunks' = [chunks EXCEPT ![v] = req[r].content]
     /\ Close(r)
  /\ UNCHANGED history

\* A request that ends before its commit has written nothing
Fail(r) ==
  /\ req[r].pc # "idle"
  /\ Close(r)
  /\ UNCHANGED <<rows, history>>

------------------------------------------------------------------------------
Init ==
  /\ asset = [k \in Assets |-> NoRow]
  /\ version = [v \in Versions |-> NoVersion]
  /\ chunks = [v \in Versions |-> None]
  /\ req = [r \in Requests |-> Idle]
  /\ confirmed = [k \in Assets |-> "no"]
  /\ shown = [k \in Assets |-> NotShown]
  /\ outdated = {}
  /\ twins = {}

Next ==
  \/ \E k \in Assets, v \in Versions, c \in Contents, risk \in Risks :
       \/ CreateManualDraft(k, v, c, risk)
       \/ \E r \in Requests : CreateReportDraft(r, k, v, c, risk)
  \/ \E r \in Requests :
       \/ \E p \in Reports : LoadReport(r, p)
       \/ \E k \in Managed :
            \/ \E c \in Contents \cup {None}, risk \in Risks \cup {"keep"} : LoadEdit(r, k, c, risk)
            \/ \E op \in Decisions, sure \in BOOLEAN : LoadDecision(r, k, op, sure)
            \/ \E sure \in BOOLEAN : LoadPublish(r, k, sure)
            \/ \E c \in Contents : CreateVersion(r, k, c)
            \/ \E v \in Versions : RestoreVersion(r, k, v)
       \/ \E v \in Versions : AddVersion(r, v)
       \/ UpdateDraft(r) \/ Decide(r) \/ ReadVersion(r) \/ Publish(r) \/ CountVersions(r)
       \/ Fail(r)

Spec == Init /\ [][Next]_vars

------------------------------------------------------------------------------
(* Properties                                                               *)

RowType     == [status : Statuses, current : Versions \cup {None}, risk : Risks]
VersionType == [of : Assets \cup {None}, number : Nat, content : Contents \cup {None},
                report : Reports \cup {None}]

Pcs   == Decisions \cup {"idle", "report", "edit", "read", "publish", "restore", "version"}
Kinds == {"edit", "publish", "approve", "report"}

RequestType ==
  [pc : Pcs, asset : Assets \cup {None}, version : Versions \cup {None},
   content : Contents \cup {None}, report : Reports \cup {None}, risk : Risks \cup {"keep"},
   same : BOOLEAN, sure : BOOLEAN, number : Nat, missed : SUBSET Kinds]

\* Every variable keeps its type: statuses are those of constants.py, versions belong
\* to assets, and a request holds what its handler reads.
TypeOK ==
  /\ asset \in [Assets -> RowType]
  /\ version \in [Versions -> VersionType]
  /\ chunks \in [Versions -> Contents \cup {None}]
  /\ req \in [Requests -> RequestType]
  /\ confirmed \in [Assets -> {"no", "yes", "raced"}]
  /\ shown \in [Assets -> [version : Versions \cup {None}, content : Contents \cup {None}]]
  /\ outdated \subseteq Versions
  /\ twins \subseteq Reports

\* The numbers of an asset's versions differ and the current version has the highest
\* one, however the requests overlap that create, restore, edit and decide: numbers are
\* counted before the asset's row is written (next_version_number), so a request may
\* come with an old count, and the unique number refuses exactly those that would have
\* made an older text the current one (current_version_id).
VersionsInOrder ==
  \A k \in Assets :
    \A v, w \in VersionsOf(k) :
      /\ v # w => version[v].number # version[w].number
      /\ version[v].number <= version[asset[k].current].number

\* The index of a version holds the text of the version, unless an edit has come
\* between the read of a text and its publication, which indexes the old text again
\* until the next edit or publication.
IndexFollowsContent ==
  \A v \in Versions \ outdated : chunks[v] = version[v].content

\* As long as an asset is published, the version that was published has the text it
\* was published with, unless an edit overlapped the publication: the status that
\* update_draft looks at protects it.
PublishedAsSeen ==
  \A k \in Assets :
    (asset[k].status = "published" /\ shown[k] # NotShown) =>
       version[shown[k].version].content = shown[k].content

\* An approved asset of high risk has the owner's confirmation, unless an edit of the
\* risk and the approval overlapped.
HighRiskConfirmed ==
  \A k \in Assets :
    (asset[k].status = "approved" /\ asset[k].risk = "high") => confirmed[k] # "no"

\* One research report makes one asset, unless two requests submit it at a time.
ReportOnce ==
  \A p \in Reports \ twins : \A v, w \in Versions :
    (version[v].report = p /\ version[w].report = p) => version[v].of = version[w].of
=============================================================================
