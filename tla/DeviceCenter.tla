---------------------------- MODULE DeviceCenter ----------------------------
(***************************************************************************)
(* Devices, their registration tokens, credentials and observations        *)
(* (backend/device_center).  Every request works in a session of its own:   *)
(* it decides on a copy of the row, and its commit writes only the columns  *)
(* whose value it has changed.                                              *)
(***************************************************************************)
EXTENDS Naturals, FiniteSets

CONSTANTS Devices,       \* ids of device rows, drawn at random
          Tokens, Codes, \* registration tokens, device codes
          Nonces,        \* nonces that heartbeats carry
          Observations,  \* ids of observation sessions
          Managed,       \* the devices that managers and agents call on
          Requests,      \* requests that can be open at a time
          None           \* no device, token, code or nonce

ASSUME ManagedAssumption == Managed \subseteq Devices

ASSUME NoneAssumption ==
  None \notin Devices \cup Tokens \cup Codes \cup Nonces \cup Observations

ASSUME FiniteAssumption == IsFiniteSet(Devices) /\ IsFiniteSet(Requests)

VARIABLES
  token,       \* device_registration_tokens: "absent", "fresh" or "used"
  device,      \* devices, with their token and code
  credential,  \* device_credentials: last_nonce and status, one per device
  observation, \* device_observation_sessions
  req,         \* what each request is doing, and its copies
  ruled        \* history: the last decision on a device, "mixed" after an overlap

vars == <<token, device, credential, observation, req, ruled>>

Statuses == {"unregistered", "waiting", "approved", "online", "disabled", "revoked"}

Verdict(op) == IF op = "approve" THEN "open" ELSE "shut"
Decisions   == {"approve", "disable", "revoke"}

NoDevice == [status |-> "unregistered", enabled |-> FALSE, token |-> None, code |-> None]

Idle == [pc |-> "idle", device |-> None, status |-> "unregistered", enabled |-> FALSE,
         token |-> None, code |-> None, nonce |-> None, alone |-> FALSE]

Open(r, fields) == req' = [req EXCEPT ![r] = fields]
Step(r, pc)     == req' = [req EXCEPT ![r].pc = pc]
Close(r)        == req' = [req EXCEPT ![r] = Idle]

\* What the copy says already is not written
Written(copy, current, new) == IF copy = new THEN current ELSE new

\* A device that heartbeats are taken from
Usable(row) == row.enabled /\ row.status \notin {"disabled", "revoked"}

------------------------------------------------------------------------------
(* Registration                                                             *)

CreateToken(k) ==
  /\ token[k] = "absent"
  /\ token' = [token EXCEPT ![k] = "fresh"]
  /\ UNCHANGED <<device, credential, observation, req, ruled>>

\* consume_registration_token reads the token ...
LoadToken(r, k, c) ==
  /\ req[r].pc = "idle"
  /\ token[k] = "fresh"
  /\ Open(r, [Idle EXCEPT !.pc = "consume", !.token = k, !.code = c])
  /\ UNCHANGED <<token, device, credential, observation, ruled>>

\* Faulty: the token is left as it is
ConsumeNothing(r) ==
  /\ req[r].pc = "consume"
  /\ Step(r, "find")
  /\ UNCHANGED <<token, device, credential, observation, ruled>>

\* ... and marks it used, committed before anything else is checked
Consume(r) ==
  /\ req[r].pc = "consume"
  /\ token' = [token EXCEPT ![req[r].token] = "used"]
  /\ Step(r, "find")
  /\ UNCHANGED <<device, credential, observation, ruled>>

\* Wrong type or signature, or the code is taken: the token is gone all the same
RefuseRegistration(r) ==
  /\ req[r].pc = "find"
  /\ Close(r)
  /\ UNCHANGED <<token, device, credential, observation, ruled>>

CodeIsFree(r) ==
  /\ req[r].pc = "find"
  /\ \A d \in Devices : device[d].code # req[r].code
  /\ Step(r, "insert")
  /\ UNCHANGED <<token, device, credential, observation, ruled>>

\* register_device: the device and its credential in one commit.  The table refuses a
\* code that it has by now (uq_devices_device_code): such a request ends in Fail
Insert(r, d) ==
  /\ req[r].pc = "insert"
  /\ device[d].status = "unregistered"
  /\ \A e \in Devices : device[e].code # req[r].code
  /\ device' = [device EXCEPT ![d] = [status |-> "waiting", enabled |-> FALSE,
                                      token |-> req[r].token, code |-> req[r].code]]
  /\ credential' = [credential EXCEPT ![d].valid = TRUE]
  /\ Close(r)
  /\ UNCHANGED <<token, observation, ruled>>

------------------------------------------------------------------------------
(* Decisions of the managers                                                *)

\* approve_device, disable_device and revoke_device take a device in any status
LoadToDecide(r, d, op) ==
  LET others == {p \in Requests \ {r} : req[p].device = d /\ req[p].pc \in Decisions} IN
  /\ req[r].pc = "idle"
  /\ device[d].status # "unregistered"
  /\ req' = [p \in Requests |->
               IF p = r
               THEN [Idle EXCEPT !.pc = op, !.device = d, !.alone = others = {},
                                 !.status = device[d].status, !.enabled = device[d].enabled]
               ELSE [req[p] EXCEPT !.alone = @ /\ p \notin others]]
  /\ UNCHANGED <<token, device, credential, observation, ruled>>

Decided(row, copy, newStatus, newEnabled) ==
  [row EXCEPT !.status  = Written(copy.status, row.status, newStatus),
              !.enabled = Written(copy.enabled, row.enabled, newEnabled)]

Decide(r, op, newStatus, newEnabled) ==
  LET d == req[r].device IN
  /\ req[r].pc = op
  /\ device' = [device EXCEPT ![d] = Decided(device[d], req[r], newStatus, newEnabled)]
  /\ ruled' = [ruled EXCEPT ![d] = IF req[r].alone THEN Verdict(op) ELSE "mixed"]
  /\ Close(r)
  /\ UNCHANGED <<token, observation>>

Approve(r) == Decide(r, "approve", "approved", TRUE) /\ UNCHANGED credential

\* Faulty: only the status says that the device is disabled
DisableByStatus(r) == Decide(r, "disable", "disabled", req[r].enabled) /\ UNCHANGED credential

Disable(r) == Decide(r, "disable", "disabled", FALSE) /\ UNCHANGED credential

Revoke(r) ==
  /\ Decide(r, "revoke", "revoked", FALSE)
  /\ credential' = [credential EXCEPT ![req[r].device].valid = FALSE]

------------------------------------------------------------------------------
(* Heartbeats and observations                                              *)

\* Faulty: heartbeats are taken from any device that is known
LoadHeartbeatAny(r, d, n) ==
  /\ req[r].pc = "idle"
  /\ device[d].status # "unregistered"
  /\ Open(r, [Idle EXCEPT !.pc = "credential", !.device = d, !.nonce = n])
  /\ UNCHANGED <<token, device, credential, observation, ruled>>

\* heartbeat_device: the status of the credential is not looked at
LoadHeartbeat(r, d, n) ==
  /\ req[r].pc = "idle"
  /\ Usable(device[d])
  /\ Open(r, [Idle EXCEPT !.pc = "credential", !.device = d, !.nonce = n])
  /\ UNCHANGED <<token, device, credential, observation, ruled>>

\* The credential is read when it is needed; a repeated nonce is refused
LoadCredential(r) ==
  /\ req[r].pc = "credential"
  /\ IF credential[req[r].device].nonce = req[r].nonce THEN Close(r) ELSE Step(r, "nonce")
  /\ UNCHANGED <<token, device, credential, observation, ruled>>

\* remember_nonce commits ...
RememberNonce(r) ==
  /\ req[r].pc = "nonce"
  /\ credential' = [credential EXCEPT ![req[r].device].nonce = req[r].nonce]
  /\ Step(r, "online")
  /\ UNCHANGED <<token, device, observation, ruled>>

\* ... and after it mark_online writes the status whatever the row says by then
MarkOnline(r) ==
  /\ req[r].pc = "online"
  /\ device' = [device EXCEPT ![req[r].device].status = "online"]
  /\ Close(r)
  /\ UNCHANGED <<token, credential, observation, ruled>>

LoadToObserve(r, d) ==
  /\ req[r].pc = "idle"
  /\ device[d].status \in {"approved", "online"} /\ device[d].enabled
  /\ Open(r, [Idle EXCEPT !.pc = "observe", !.device = d])
  /\ UNCHANGED <<token, device, credential, observation, ruled>>

\* create_observation: what it sees decides the status it starts with
CreateObservation(r, o, status) ==
  /\ req[r].pc = "observe"
  /\ observation[o].device = None
  /\ observation' = [observation EXCEPT ![o] = [device |-> req[r].device, status |-> status]]
  /\ Close(r)
  /\ UNCHANGED <<token, device, credential, ruled>>

CancelObservation(o) ==
  /\ observation[o].device # None
  /\ observation' = [observation EXCEPT ![o].status = "cancelled"]
  /\ UNCHANGED <<token, device, credential, req, ruled>>

\* The process dies, or the database refuses: what is committed stays
Fail(r) ==
  /\ req[r].pc # "idle"
  /\ Close(r)
  /\ UNCHANGED <<token, device, credential, observation, ruled>>

------------------------------------------------------------------------------
Init ==
  /\ token = [k \in Tokens |-> "absent"]
  /\ device = [d \in Devices |-> NoDevice]
  /\ credential = [d \in Devices |-> [nonce |-> None, valid |-> FALSE]]
  /\ observation = [o \in Observations |-> [device |-> None, status |-> "waiting"]]
  /\ req = [r \in Requests |-> Idle]
  /\ ruled = [d \in Devices |-> "none"]

Register(r) ==
  \/ \E k \in Tokens, c \in Codes : LoadToken(r, k, c)
  \/ Consume(r)
  \/ RefuseRegistration(r)
  \/ CodeIsFree(r)
  \/ \E d \in Devices : Insert(r, d)

Manage(r) ==
  \/ \E d \in Managed, op \in Decisions : LoadToDecide(r, d, op)
  \/ Approve(r)
  \/ Disable(r)
  \/ Revoke(r)

Report(r) ==
  \/ \E d \in Managed, n \in Nonces : LoadHeartbeat(r, d, n)
  \/ LoadCredential(r)
  \/ RememberNonce(r)
  \/ MarkOnline(r)
  \/ \E d \in Managed : LoadToObserve(r, d)
  \/ \E o \in Observations, status \in {"waiting", "running", "blocked"} :
       CreateObservation(r, o, status)

Next ==
  \/ \E k \in Tokens : CreateToken(k)
  \/ \E o \in Observations : CancelObservation(o)
  \/ \E r \in Requests : Register(r) \/ Manage(r) \/ Report(r) \/ Fail(r)

Spec == Init /\ [][Next]_vars

------------------------------------------------------------------------------
(* Properties                                                               *)

RequestType ==
  [pc : {"idle", "consume", "find", "insert", "credential", "nonce", "online", "observe"}
          \cup Decisions,
   device : Devices \cup {None}, status : Statuses, enabled : BOOLEAN,
   token : Tokens \cup {None}, code : Codes \cup {None}, nonce : Nonces \cup {None},
   alone : BOOLEAN]

\* Every variable has its type
TypeOK ==
  /\ token \in [Tokens -> {"absent", "fresh", "used"}]
  /\ device \in [Devices -> [status : Statuses, enabled : BOOLEAN,
                             token : Tokens \cup {None}, code : Codes \cup {None}]]
  /\ credential \in [Devices -> [nonce : Nonces \cup {None}, valid : BOOLEAN]]
  /\ observation \in [Observations -> [device : Devices \cup {None},
                                       status : {"waiting", "running", "blocked", "cancelled"}]]
  /\ req \in [Requests -> RequestType]
  /\ ruled \in [Devices -> {"none", "open", "shut", "mixed"}]

\* The registrations with k that are under way, and the devices that came of it
Registering(k) ==
  {r \in Requests : req[r].pc \in {"consume", "find", "insert"} /\ req[r].token = k}
Registered(k)  == {d \in Devices : device[d].token = k}

\* A token gives no more devices than requests can be open at a time, however many
\* come with it, fail or are refused.  The check of used_at and its commit are two steps,
\* so that every registration that has read the token before the first commit goes
\* through; after it the token is never fresh again.
TokenIsLimited ==
  \A k \in Tokens : Cardinality(Registered(k)) <= Cardinality(Requests)

\* The last decision on a device holds, if no other decision on it overlapped
\* it: heartbeats that began before it may write the status over, but they
\* neither open a device that was disabled or revoked nor shut one that was
\* approved
LastDecisionHolds ==
  \A d \in Devices :
    /\ ruled[d] = "shut" => ~Usable(device[d])
    /\ ruled[d] = "open" => Usable(device[d]) /\ device[d].status \in {"approved", "online"}

\* No heartbeat and no observation begins on a device that such a decision has
\* shut, nor on one that nobody has approved
ShutDeviceRefuses ==
  [][\A r \in Requests, d \in Devices :
       ruled[d] \in {"none", "shut"} /\ req[r].pc = "idle" /\ req'[r].device = d =>
         req'[r].pc \in Decisions]_vars
=============================================================================
