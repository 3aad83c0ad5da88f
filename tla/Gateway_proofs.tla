--------------------------- MODULE Gateway_proofs ---------------------------
(***************************************************************************)
(* Proofs about Gateway, for any number of requests, agents, keys and      *)
(* versions of the tables, and any failures of the environment: what is    *)
(* forwarded was authorised, and what the audit file says is true.         *)
(***************************************************************************)
EXTENDS Gateway, TLAPS

LEMMA Constants ==
  /\ NoAgent \notin Agents
  /\ MaxVersion \in Nat /\ MaxSent \in Nat /\ MaxRestarts \in Nat
  /\ OwnerIn \in [Versions -> [Keys -> Agents \cup {NoAgent}]]
  /\ AllowedIn \in [Versions -> SUBSET Agents]
  /\ Inputs \in [Requests -> SUBSET [method : Methods, cred : Credentials]]
BY GatewayAssumption

(* What is written about a request is an event, and NoEvent is none. *)
LEMMA Events ==
  /\ \A d \in {"allow", "deny", "allow-upstream-error"},
        r \in {"no-identity", "quota-exceeded", "policy"}, b \in Nat :
       AuditEvent(d, r, b) \in Event
  /\ \A d, r, b : /\ AuditEvent(d, r, b).decision = d
                  /\ AuditEvent(d, r, b).reason = r
                  /\ AuditEvent(d, r, b).bytes = b
  /\ NoEvent.decision = "none"
  /\ \A e \in Event : e # NoEvent /\ e.decision \in {"allow", "deny", "allow-upstream-error"}
BY DEF AuditEvent, Event, NoEvent

LEMMA VersionRange ==
  /\ 0 \in Versions
  /\ \A v \in Versions : v \in Nat /\ v <= MaxVersion
  /\ \A v \in Nat : v <= MaxVersion => v \in Versions
BY Constants DEF Versions

-----------------------------------------------------------------------------
(* The steps of Next, case by case: a step of one request or of the rest.  *)

RequestStep(p) == Arrive(p) \/ HandlerStep(p) \/ PeerStep(p) \/ UpDone(p)

LEMMA NextCases ==
  ASSUME [Next]_vars
  PROVE  \/ \E p \in Requests : RequestStep(p)
         \/ DiskChanges \/ Publish \/ Reload \/ Restart \/ UNCHANGED vars
BY DEF Next, RequestStep

(* A request that is to be recorded has its event. *)
Prepared ==
  \A p \in Requests : stage[p] \in {"record", "refuse"} => pending[p] \in Event

TypeInv == TypeOK /\ Prepared

(* The types in five parts, each disturbed by few steps. *)
HandlerTypes ==
  /\ stage \in [Requests -> Stages]
  /\ method \in [Requests -> Methods]
  /\ cred \in [Requests -> Credentials]
  /\ who \in [Requests -> Agents \cup {NoAgent}]
  /\ pending \in [Requests -> Event \cup {NoEvent}]
  /\ answer \in [Requests -> {0, 200, 403, 407, 429, 500, 502}]
  /\ since \in [Requests -> [reg : Versions, pol : Versions]]
  /\ reached \subseteq Requests

TunnelTypes ==
  /\ up \in [Requests -> {"off", "copying", "returned", "ended"}]
  /\ down \in [Requests -> {"off", "copying", "ended"}]
  /\ done \in [Requests -> Seq({"up", "down"})]
  /\ closed \in [Requests -> SUBSET {"client", "upstream"}]
  /\ sent \in [Requests -> 0 .. MaxSent]
  /\ bytesOut \in [Requests -> Nat]
  /\ ender \in [Requests -> {"none", "up", "down"}]

TableTypes ==
  /\ disk \in Versions /\ reg \in Versions /\ pol \in Versions
  /\ reload \in {"wait", "identity", "policy"}

AuditTypes ==
  /\ lines \in [Requests -> Seq(Event)]
  /\ ragged \in BOOLEAN /\ diskFull \in BOOLEAN
  /\ missed \subseteq Requests

LEMMA TypeParts ==
  /\ TypeOK => HandlerTypes /\ TunnelTypes /\ TableTypes /\ AuditTypes /\ restarts \in 0 .. MaxRestarts
  /\ HandlerTypes /\ TunnelTypes /\ TableTypes /\ AuditTypes /\ restarts \in 0 .. MaxRestarts => TypeOK
  /\ (HandlerTypes /\ TunnelTypes /\ TableTypes /\ AuditTypes /\ restarts \in 0 .. MaxRestarts)' => TypeOK'
  /\ TypeOK' => (HandlerTypes /\ TableTypes)'
BY DEF TypeOK, HandlerTypes, TunnelTypes, TableTypes, AuditTypes

LEMMA TypeInit == Init => TypeInv
<1> SUFFICES ASSUME Init PROVE TypeInv
  OBVIOUS
<1>1. HandlerTypes
  BY VersionRange DEF Init, HandlerTypes, Stages, Methods, Credentials
<1>2. TunnelTypes
  BY Constants DEF Init, TunnelTypes
<1>3. TableTypes
  BY VersionRange DEF Init, TableTypes
<1>4. AuditTypes
  <2>1. lines \in [Requests -> Seq(Event)] /\ missed \subseteq Requests
    BY DEF Init
  <2>2. ragged \in BOOLEAN /\ diskFull \in BOOLEAN
    BY DEF Init
  <2> QED BY <2>1, <2>2 DEF AuditTypes
<1>5. restarts \in 0 .. MaxRestarts /\ Prepared
  BY Constants DEF Init, Prepared
<1> QED BY <1>1, <1>2, <1>3, <1>4, <1>5, TypeParts DEF TypeInv

(* A handler that moves on to record an event, or elsewhere, keeps its     *)
(* types.                                                                  *)
LEMMA RecordTypes ==
  ASSUME TypeInv, NEW p \in Requests,
         \/ \E e \in Event : Record(p, e)
         \/ \E s \in Stages \ {"record", "refuse"} :
              Goto(p, s) /\ (pending' = pending \/ pending' = [pending EXCEPT ![p] = NoEvent])
  PROVE  /\ stage' \in [Requests -> Stages] /\ pending' \in [Requests -> Event \cup {NoEvent}]
         /\ Prepared'
<1>1. stage \in [Requests -> Stages] /\ pending \in [Requests -> Event \cup {NoEvent}] /\ Prepared
  BY DEF TypeInv, TypeOK
<1>2. CASE \E e \in Event : Record(p, e)
  <2>1. "record" \in Stages
    BY DEF Stages
  <2> QED BY <1>1, <1>2, <2>1 DEF Record, Goto, Prepared
<1>3. CASE \E s \in Stages \ {"record", "refuse"} :
             Goto(p, s) /\ (pending' = pending \/ pending' = [pending EXCEPT ![p] = NoEvent])
  BY <1>1, <1>3 DEF Goto, Prepared
<1> QED BY <1>2, <1>3

(* The parts a step leaves alone keep their types. *)
LEMMA PartsKept ==
  ASSUME TypeInv
  PROVE  /\ UNCHANGED handlerVars => HandlerTypes' /\ Prepared'
         /\ UNCHANGED tunnelVars => TunnelTypes'
         /\ UNCHANGED tableVars => TableTypes'
         /\ UNCHANGED auditVars => AuditTypes'
         /\ restarts' = restarts => (restarts \in 0 .. MaxRestarts)'
<1>1. ASSUME UNCHANGED handlerVars PROVE HandlerTypes' /\ Prepared'
  BY <1>1, TypeParts DEF TypeInv, HandlerTypes, Prepared, handlerVars
<1>2. ASSUME UNCHANGED tunnelVars PROVE TunnelTypes'
  BY <1>2, TypeParts DEF TypeInv, TunnelTypes, tunnelVars
<1>3. ASSUME UNCHANGED tableVars PROVE TableTypes'
  BY <1>3, TypeParts DEF TypeInv, TableTypes, tableVars
<1>4. ASSUME UNCHANGED auditVars PROVE AuditTypes'
  BY <1>4, TypeParts DEF TypeInv, AuditTypes, auditVars
<1>5. ASSUME restarts' = restarts PROVE (restarts \in 0 .. MaxRestarts)'
  BY <1>5, TypeParts DEF TypeInv
<1> QED BY <1>1, <1>2, <1>3, <1>4, <1>5

LEMMA OnlyHandlers ==
  ASSUME TypeInv, UNCHANGED tunnelVars, UNCHANGED tableVars, UNCHANGED auditVars,
         restarts' = restarts, HandlerTypes', Prepared'
  PROVE  TypeInv'
BY PartsKept, TypeParts DEF TypeInv

LEMMA CheckTypes ==
  ASSUME TypeInv, NEW p \in Requests,
         \/ Arrive(p) \/ CheckIdentity(p) \/ CheckQuota(p) \/ CheckPolicy(p) \/ Refuse(p)
  PROVE  TypeInv'
<1> HandlerTypes
  BY TypeParts DEF TypeInv
<1> TableTypes
  BY TypeParts DEF TypeInv
<1> USE Constants, Events
<1>1. CASE Arrive(p)
  <2>1. "identity" \in Stages \ {"record", "refuse"}
    BY DEF Stages
  <2>2. stage' \in [Requests -> Stages] /\ Prepared'
    BY <1>1, <2>1, RecordTypes DEF Arrive
  <2>3. method' \in [Requests -> Methods] /\ cred' \in [Requests -> Credentials]
    <3>1. PICK input \in Inputs[p] : /\ method' = [method EXCEPT ![p] = input.method]
                                     /\ cred' = [cred EXCEPT ![p] = input.cred]
      BY <1>1 DEF Arrive
    <3>2. input.method \in Methods /\ input.cred \in Credentials
      OBVIOUS
    <3> QED BY <3>1, <3>2 DEF HandlerTypes
  <2>4. since' \in [Requests -> [reg : Versions, pol : Versions]]
    BY <1>1 DEF Arrive, HandlerTypes, TableTypes
  <2>5. HandlerTypes'
    BY <1>1, <2>2, <2>3, <2>4 DEF Arrive, HandlerTypes
  <2> QED BY <1>1, <2>2, <2>5, OnlyHandlers DEF Arrive
<1>2. CASE CheckIdentity(p)
  <2>1. Identity(cred[p]) \in Agents \cup {NoAgent}
    BY DEF HandlerTypes, TableTypes, Identity, Credentials
  <2>2. "quota" \in Stages \ {"record", "refuse"}
    BY DEF Stages
  <2>3. stage' \in [Requests -> Stages] /\ pending' \in [Requests -> Event \cup {NoEvent}] /\ Prepared'
    BY <1>2, <2>2, RecordTypes DEF CheckIdentity
  <2>4. HandlerTypes'
    BY <1>2, <2>1, <2>3 DEF CheckIdentity, HandlerTypes
  <2> QED BY <1>2, <2>3, <2>4, OnlyHandlers DEF CheckIdentity
<1>3. CASE CheckQuota(p)
  <2>1. "policy" \in Stages \ {"record", "refuse"}
    BY DEF Stages
  <2>2. stage' \in [Requests -> Stages] /\ pending' \in [Requests -> Event \cup {NoEvent}] /\ Prepared'
    BY <1>3, <2>1, RecordTypes DEF CheckQuota
  <2>3. HandlerTypes'
    BY <1>3, <2>2 DEF CheckQuota, HandlerTypes
  <2> QED BY <1>3, <2>2, <2>3, OnlyHandlers DEF CheckQuota
<1>4. CASE CheckPolicy(p)
  <2>1. {"dial", "fetch"} \subseteq Stages \ {"record", "refuse"}
    BY DEF Stages
  <2>2. stage' \in [Requests -> Stages] /\ pending' \in [Requests -> Event \cup {NoEvent}] /\ Prepared'
    BY <1>4, <2>1, RecordTypes DEF CheckPolicy
  <2>3. HandlerTypes'
    BY <1>4, <2>2 DEF CheckPolicy, HandlerTypes
  <2> QED BY <1>4, <2>2, <2>3, OnlyHandlers DEF CheckPolicy
<1>5. CASE Refuse(p)
  <2>1. "finished" \in Stages \ {"record", "refuse"}
    BY DEF Stages
  <2>2. stage' \in [Requests -> Stages] /\ pending' \in [Requests -> Event \cup {NoEvent}] /\ Prepared'
    BY <1>5, <2>1, RecordTypes DEF Refuse
  <2>3. HandlerTypes'
    BY <1>5, <2>2 DEF Refuse, Answer, Refusal, HandlerTypes
  <2> QED BY <1>5, <2>2, <2>3, OnlyHandlers DEF Refuse
<1> QED BY <1>1, <1>2, <1>3, <1>4, <1>5

LEMMA ForwardTypes ==
  ASSUME TypeInv, NEW p \in Requests,
         Dial(p) \/ Fetch(p) \/ CopyResponse(p)
  PROVE  TypeInv'
<1> HandlerTypes
  BY TypeParts DEF TypeInv
<1> USE Events
<1>1. {"hijack", "copy", "finished"} \subseteq Stages \ {"record", "refuse"}
  BY DEF Stages
<1>2. stage' \in [Requests -> Stages] /\ pending' \in [Requests -> Event \cup {NoEvent}] /\ Prepared'
  <2>1. CASE Dial(p)
    BY <1>1, <2>1, RecordTypes DEF Dial
  <2>2. CASE Fetch(p)
    BY <1>1, <2>2, RecordTypes DEF Fetch
  <2>3. CASE CopyResponse(p)
    <3>1. PICK n \in 0 .. 1 : Record(p, AuditEvent("allow", "policy", n))
      BY <2>3 DEF CopyResponse
    <3>2. AuditEvent("allow", "policy", n) \in Event
      OBVIOUS
    <3> QED BY <3>1, <3>2, RecordTypes
  <2> QED BY <2>1, <2>2, <2>3
<1>3. HandlerTypes'
  BY <1>2 DEF Dial, Fetch, CopyResponse, Answer, HandlerTypes
<1> QED BY <1>2, <1>3, OnlyHandlers DEF Dial, Fetch, CopyResponse

LEMMA TunnelStepTypes ==
  ASSUME TypeInv, NEW p \in Requests,
         \/ CopyUp(p) \/ UpReturn(p) \/ UpDone(p) \/ DownDone(p)
  PROVE  TypeInv'
<1> TunnelTypes
  BY TypeParts DEF TypeInv
<1>1. UNCHANGED handlerVars /\ UNCHANGED tableVars /\ UNCHANGED auditVars /\ restarts' = restarts
  BY DEF CopyUp, UpReturn, UpDone, DownDone
<1>2. TunnelTypes'
  <2>1. CASE CopyUp(p)
    BY <2>1, Constants DEF CopyUp, TunnelTypes
  <2>2. CASE UpReturn(p)
    <3>1. bytesOut[p] + sent[p] \in Nat
      BY Constants DEF TunnelTypes
    <3> QED BY <2>2, <3>1 DEF UpReturn, TunnelTypes
  <2>3. CASE UpDone(p)
    BY <2>3 DEF UpDone, SendDone, TunnelTypes
  <2>4. CASE DownDone(p)
    BY <2>4 DEF DownDone, SendDone, TunnelTypes
  <2> QED BY <2>1, <2>2, <2>3, <2>4
<1> QED BY <1>1, <1>2, PartsKept, TypeParts DEF TypeInv

LEMMA HijackTypes ==
  ASSUME TypeInv, NEW p \in Requests, Hijack(p)
  PROVE  TypeInv'
<1> HandlerTypes /\ TunnelTypes
  BY TypeParts DEF TypeInv
<1>1. {"tunnel", "finished"} \subseteq Stages \ {"record", "refuse"}
  BY DEF Stages
<1>2. stage' \in [Requests -> Stages] /\ Prepared'
  BY <1>1, RecordTypes DEF Hijack
<1>3. HandlerTypes'
  BY <1>2 DEF Hijack, Answer, HandlerTypes
<1>4. /\ up' \in [Requests -> {"off", "copying", "returned", "ended"}]
      /\ down' \in [Requests -> {"off", "copying", "ended"}]
      /\ closed' \in [Requests -> SUBSET {"client", "upstream"}]
  <2>1. CASE up' = [up EXCEPT ![p] = "copying"] /\ down' = [down EXCEPT ![p] = "copying"]
             /\ UNCHANGED closed
    BY <2>1 DEF TunnelTypes
  <2>2. CASE UNCHANGED <<up, down>> /\ closed' = [closed EXCEPT ![p] = {"upstream"}]
    BY <2>2 DEF TunnelTypes
  <2> QED BY <2>1, <2>2 DEF Hijack
<1>5. TunnelTypes'
  BY <1>4 DEF Hijack, TunnelTypes
<1>6. UNCHANGED tableVars /\ UNCHANGED auditVars /\ restarts' = restarts
  BY DEF Hijack
<1> QED BY <1>2, <1>3, <1>5, <1>6, PartsKept, TypeParts DEF TypeInv

LEMMA TunnelEndsTypes ==
  ASSUME TypeInv, NEW p \in Requests, TunnelEnds(p)
  PROVE  TypeInv'
<1> HandlerTypes /\ TunnelTypes
  BY TypeParts DEF TypeInv
<1>1. AuditEvent("allow", "policy", bytesOut[p]) \in Event
  BY Events DEF TunnelTypes
<1>2. stage' \in [Requests -> Stages] /\ pending' \in [Requests -> Event \cup {NoEvent}] /\ Prepared'
  BY <1>1, RecordTypes DEF TunnelEnds
<1>3. HandlerTypes'
  BY <1>2 DEF TunnelEnds, HandlerTypes
<1>4. done[p] \in Seq({"up", "down"}) /\ done[p] # <<>>
  BY DEF TunnelEnds, TunnelTypes
<1>5. Head(done[p]) \in {"up", "down"} /\ Tail(done[p]) \in Seq({"up", "down"})
  BY <1>4
<1>6. TunnelTypes'
  BY <1>5 DEF TunnelEnds, TunnelTypes
<1>7. UNCHANGED tableVars /\ UNCHANGED auditVars /\ restarts' = restarts
  BY DEF TunnelEnds
<1> QED BY <1>2, <1>3, <1>6, <1>7, PartsKept, TypeParts DEF TypeInv

LEMMA WriteAuditTypes ==
  ASSUME TypeInv, NEW p \in Requests, WriteAudit(p)
  PROVE  TypeInv'
<1> HandlerTypes /\ TunnelTypes /\ AuditTypes
  BY TypeParts DEF TypeInv
<1>1. stage[p] = "record" /\ pending[p] \in Event
  BY DEF WriteAudit, TypeInv, Prepared
<1>2. stage' \in [Requests -> Stages] /\ pending' \in [Requests -> Event \cup {NoEvent}] /\ Prepared'
  <2>1. CASE Goto(p, "refuse") /\ pending' = pending
    <3>1. "refuse" \in Stages
      BY DEF Stages
    <3> QED BY <1>1, <2>1, <3>1 DEF Goto, TypeInv, Prepared, HandlerTypes
  <2>2. CASE Goto(p, "finished") /\ pending' = [pending EXCEPT ![p] = NoEvent]
    <3>1. "finished" \in Stages \ {"record", "refuse"}
      BY DEF Stages
    <3> QED BY <2>2, <3>1, RecordTypes
  <2> QED BY <2>1, <2>2 DEF WriteAudit, AfterAudit
<1>3. HandlerTypes'
  BY <1>2 DEF WriteAudit, HandlerTypes
<1>4. closed' \in [Requests -> SUBSET {"client", "upstream"}]
  BY DEF WriteAudit, AfterAudit, TunnelTypes
<1>5. TunnelTypes'
  BY <1>4 DEF WriteAudit, TunnelTypes
<1>6. lines' \in [Requests -> Seq(Event)] /\ missed' \subseteq Requests
  <2>1. CASE lines' = [lines EXCEPT ![p] = Append(lines[p], pending[p])] /\ UNCHANGED missed
    BY <1>1, <2>1 DEF AuditTypes
  <2>2. CASE missed' = missed \cup {p} /\ UNCHANGED lines
    BY <2>2 DEF AuditTypes
  <2> QED BY <2>1, <2>2 DEF WriteAudit, WriteLine
<1>7. ragged' \in BOOLEAN
  BY DEF WriteAudit, WriteLine, AuditTypes
<1>8. diskFull' \in BOOLEAN
  BY DEF WriteAudit, AuditTypes
<1>9. AuditTypes'
  BY <1>6, <1>7, <1>8 DEF AuditTypes
<1>10. UNCHANGED tableVars /\ restarts' = restarts
  BY DEF WriteAudit
<1> QED BY <1>2, <1>3, <1>5, <1>9, <1>10, PartsKept, TypeParts DEF TypeInv

LEMMA OtherTypes ==
  ASSUME TypeInv, DiskChanges \/ Publish \/ Reload
  PROVE  TypeInv'
<1> TableTypes /\ AuditTypes
  BY TypeParts DEF TypeInv
<1>1. UNCHANGED handlerVars /\ UNCHANGED tunnelVars /\ restarts' = restarts
  BY DEF DiskChanges, Publish, Reload
<1>2. AuditTypes'
  BY DEF DiskChanges, Publish, Reload, auditVars, AuditTypes
<1>3. TableTypes'
  <2>1. CASE DiskChanges
    BY <2>1 DEF DiskChanges, tableVars, TableTypes
  <2>2. CASE Publish
    BY <2>2, Constants DEF Publish, TableTypes, Versions
  <2>3. CASE Reload
    BY <2>3 DEF Reload, TableTypes
  <2> QED BY <2>1, <2>2, <2>3
<1> QED BY <1>1, <1>2, <1>3, PartsKept, TypeParts DEF TypeInv

LEMMA RestartTypes ==
  ASSUME TypeInv, Restart
  PROVE  TypeInv'
<1> HandlerTypes /\ TunnelTypes /\ TableTypes /\ AuditTypes
  BY TypeParts DEF TypeInv
<1>1. HandlerTypes'
  BY DEF Restart, HandlerTypes, Stages
<1>2. TunnelTypes'
  BY DEF Restart, TunnelTypes
<1>3. TableTypes' /\ AuditTypes'
  BY DEF Restart, TableTypes, AuditTypes
<1>4. Prepared'
  BY DEF Restart, Prepared, HandlerTypes
<1>5. restarts' \in 0 .. MaxRestarts
  BY Constants, TypeParts DEF Restart, TypeInv
<1> QED BY <1>1, <1>2, <1>3, <1>4, <1>5, TypeParts DEF TypeInv

LEMMA TypeNext == TypeInv /\ [Next]_vars => TypeInv'
<1> SUFFICES ASSUME TypeInv, [Next]_vars PROVE TypeInv'
  OBVIOUS
<1>1. ASSUME NEW p \in Requests, RequestStep(p) PROVE TypeInv'
  BY <1>1, CheckTypes, ForwardTypes, TunnelStepTypes, HijackTypes, TunnelEndsTypes, WriteAuditTypes
     DEF RequestStep, HandlerStep, PeerStep
<1>2. CASE UNCHANGED vars
  BY <1>2 DEF vars, TypeInv, TypeOK, Prepared
<1> QED BY <1>1, <1>2, NextCases, OtherTypes, RestartTypes

(* Every variable keeps its type: in particular only whole events reach    *)
(* the audit file (main.go, audit.Log).                                    *)
THEOREM TypeCorrect == Spec => []TypeOK
<1>1. Spec => []TypeInv
  BY TypeInit, TypeNext, PTL DEF Spec
<1> QED BY <1>1, PTL DEF TypeInv

-----------------------------------------------------------------------------
(* What is forwarded was authorised *)

(* The tables only move on to newer versions, and none is newer than the   *)
(* disk.                                                                   *)
Ahead ==
  /\ reg <= disk /\ pol <= disk
  /\ \A p \in Requests : since[p].reg <= reg /\ since[p].pol <= pol

Early == {"idle", "identity", "quota", "policy", "dial", "fetch"}

Fresh == \A p \in Requests : stage[p] \in Early => p \notin reached

(* Some registry since the request arrived has the key for that agent, ... *)
Owned(p) ==
  cred[p].kind = "key" => \E v \in since[p].reg .. reg : OwnerIn[v][cred[p].of] = who[p]

(* ... and some policy allows the agent; both are known from the check on. *)
Permitted(p) == \E v \in since[p].pol .. pol : who[p] \in AllowedIn[v]

Checked ==
  \A p \in Requests :
    /\ stage[p] \in {"quota", "policy", "dial", "fetch"} \/ p \in reached => Owned(p)
    /\ stage[p] \in {"dial", "fetch"} \/ p \in reached => Permitted(p)

AuthInv == Ahead /\ Fresh /\ Checked

LEMMA AuthInit == Init => AuthInv
BY DEF Init, AuthInv, Ahead, Fresh, Checked

(* Of a request that none of it changes, later tables change nothing.      *)
LEMMA AuthKept ==
  ASSUME TypeInv, TypeInv', AuthInv, reg <= reg', pol <= pol', Ahead',
         UNCHANGED <<cred, who, since, reached>>,
         \A p \in Requests : \/ stage'[p] = stage[p]
                             \/ stage'[p] \notin Early
                             \/ stage[p] = "quota" /\ stage'[p] = "policy"
  PROVE  AuthInv'
<1> TableTypes /\ TableTypes' /\ HandlerTypes
  BY TypeParts DEF TypeInv
<1>1. /\ reg \in Nat /\ reg' \in Nat /\ pol \in Nat /\ pol' \in Nat
      /\ \A p \in Requests : since[p].reg \in Nat /\ since[p].pol \in Nat
  BY VersionRange DEF TableTypes, HandlerTypes
<1>2. Fresh'
  BY DEF AuthInv, Fresh, Early
<1>3. \A p \in Requests : Owned(p) => Owned(p)'
  BY <1>1 DEF Owned
<1>4. \A p \in Requests : Permitted(p) => Permitted(p)'
  BY <1>1 DEF Permitted
<1>5. Checked'
  BY <1>3, <1>4 DEF AuthInv, Checked, Early
<1> QED BY <1>2, <1>5 DEF AuthInv

LEMMA AuthArrive ==
  ASSUME TypeInv, TypeInv', AuthInv, NEW p \in Requests, Arrive(p)
  PROVE  AuthInv'
<1> HandlerTypes /\ TableTypes
  BY TypeParts DEF TypeInv
<1>1. /\ UNCHANGED <<who, reached, reg, pol, disk>> /\ stage[p] = "idle"
      /\ stage' = [stage EXCEPT ![p] = "identity"]
      /\ since' = [since EXCEPT ![p] = [reg |-> reg, pol |-> pol]]
      /\ \A q \in Requests : q # p => cred'[q] = cred[q]
  BY DEF Arrive, Goto, tableVars, HandlerTypes
<1>2. p \notin reached
  BY <1>1 DEF AuthInv, Fresh, Early
<1>3. \A q \in Requests : q # p => stage'[q] = stage[q] /\ since'[q] = since[q]
  BY <1>1 DEF HandlerTypes
<1>4. stage'[p] = "identity" /\ since'[p] = [reg |-> reg, pol |-> pol]
  BY <1>1 DEF HandlerTypes
<1>5. reg \in Nat /\ pol \in Nat
  BY VersionRange DEF TableTypes
<1>6. Ahead'
  BY <1>1, <1>3, <1>4, <1>5 DEF AuthInv, Ahead
<1>7. Fresh'
  BY <1>1, <1>2, <1>3 DEF AuthInv, Fresh
<1>8. Checked'
  BY <1>1, <1>2, <1>3, <1>4 DEF AuthInv, Checked, Owned, Permitted
<1> QED BY <1>6, <1>7, <1>8 DEF AuthInv

LEMMA AuthIdentity ==
  ASSUME TypeInv, TypeInv', AuthInv, NEW p \in Requests, CheckIdentity(p)
  PROVE  AuthInv'
<1> HandlerTypes /\ TableTypes
  BY TypeParts DEF TypeInv
<1>1. /\ UNCHANGED <<cred, since, reached, reg, pol, disk>> /\ stage[p] = "identity"
      /\ who' = [who EXCEPT ![p] = Identity(cred[p])]
      /\ Goto(p, "record") \/ Goto(p, "quota")
  BY DEF CheckIdentity, Record, tableVars
<1>2. p \notin reached
  BY <1>1 DEF AuthInv, Fresh, Early
<1>3. \A q \in Requests : q # p => stage'[q] = stage[q] /\ who'[q] = who[q]
  BY <1>1 DEF Goto, HandlerTypes
<1>4. who'[p] = Identity(cred[p]) /\ stage'[p] \in {"record", "quota"}
  BY <1>1 DEF Goto, HandlerTypes
<1>5. reg \in Nat /\ since[p].reg \in Nat /\ since[p].reg <= reg
  BY VersionRange DEF TableTypes, HandlerTypes, AuthInv, Ahead
<1>6. Owned(p)'
  BY <1>1, <1>4, <1>5 DEF Owned, Identity
<1>7. Ahead'
  BY <1>1 DEF AuthInv, Ahead
<1>8. Fresh'
  BY <1>1, <1>2, <1>3 DEF AuthInv, Fresh
<1>9. Checked'
  BY <1>1, <1>2, <1>3, <1>4, <1>6 DEF AuthInv, Checked, Owned, Permitted
<1> QED BY <1>7, <1>8, <1>9 DEF AuthInv

LEMMA AuthPolicy ==
  ASSUME TypeInv, TypeInv', AuthInv, NEW p \in Requests, CheckPolicy(p)
  PROVE  AuthInv'
<1> HandlerTypes /\ TableTypes
  BY TypeParts DEF TypeInv
<1>1. /\ UNCHANGED <<cred, who, since, reached, reg, pol, disk>> /\ stage[p] = "policy"
      /\ \/ Goto(p, "record")
         \/ who[p] \in AllowedIn[pol] /\ (Goto(p, "dial") \/ Goto(p, "fetch"))
  BY DEF CheckPolicy, Record, tableVars
<1>2. p \notin reached /\ Owned(p)
  BY <1>1 DEF AuthInv, Fresh, Early, Checked
<1>3. \A q \in Requests : q # p => stage'[q] = stage[q]
  BY <1>1 DEF Goto, HandlerTypes
<1>4. stage'[p] \in {"record", "dial", "fetch"} /\ (stage'[p] # "record" => who[p] \in AllowedIn[pol])
  BY <1>1 DEF Goto, HandlerTypes
<1>5. pol \in Nat /\ since[p].pol \in Nat /\ since[p].pol <= pol
  BY VersionRange DEF TableTypes, HandlerTypes, AuthInv, Ahead
<1>6. who[p] \in AllowedIn[pol] => Permitted(p)
  BY <1>5 DEF Permitted
<1>7. Ahead'
  BY <1>1 DEF AuthInv, Ahead
<1>8. Fresh'
  BY <1>1, <1>2, <1>3 DEF AuthInv, Fresh
<1>9. \A q \in Requests : (Owned(q) => Owned(q)') /\ (Permitted(q) => Permitted(q)')
  BY <1>1 DEF Owned, Permitted
<1>10. Checked'
  BY <1>1, <1>2, <1>3, <1>4, <1>6, <1>9 DEF AuthInv, Checked
<1> QED BY <1>7, <1>8, <1>10 DEF AuthInv

(* Only what passed both checks is handed to an upstream. *)
LEMMA AuthForward ==
  ASSUME TypeInv, TypeInv', AuthInv, NEW p \in Requests, Dial(p) \/ Fetch(p)
  PROVE  AuthInv'
<1> HandlerTypes /\ TableTypes
  BY TypeParts DEF TypeInv
<1>1. /\ UNCHANGED <<cred, who, since, reg, pol, disk>> /\ stage[p] \in {"dial", "fetch"}
      /\ reached' \in {reached, reached \cup {p}}
      /\ \E s \in {"hijack", "record", "copy", "finished"} : Goto(p, s)
  BY DEF Dial, Fetch, Record, tableVars
<1>2. Owned(p) /\ Permitted(p)
  BY <1>1 DEF AuthInv, Checked
<1>3. \A q \in Requests : q # p => stage'[q] = stage[q]
  BY <1>1 DEF Goto, HandlerTypes
<1>4. stage'[p] \in {"hijack", "record", "copy", "finished"}
  BY <1>1 DEF Goto, HandlerTypes
<1>5. Ahead'
  BY <1>1 DEF AuthInv, Ahead
<1>6. Fresh'
  BY <1>1, <1>3, <1>4 DEF AuthInv, Fresh, Early
<1>7. \A q \in Requests : (Owned(q) => Owned(q)') /\ (Permitted(q) => Permitted(q)')
  BY <1>1 DEF Owned, Permitted
<1>8. Checked'
  BY <1>1, <1>2, <1>3, <1>4, <1>7 DEF AuthInv, Checked
<1> QED BY <1>5, <1>6, <1>8 DEF AuthInv

LEMMA AuthNext == TypeInv /\ TypeInv' /\ AuthInv /\ [Next]_vars => AuthInv'
<1> SUFFICES ASSUME TypeInv, TypeInv', AuthInv, [Next]_vars PROVE AuthInv'
  OBVIOUS
<1> HandlerTypes /\ TableTypes
  BY TypeParts DEF TypeInv
<1>1. reg \in Nat /\ pol \in Nat /\ disk \in Nat
  BY VersionRange DEF TableTypes
<1>2. ASSUME UNCHANGED <<cred, who, since, reached>>, UNCHANGED tableVars,
             \A p \in Requests : \/ stage'[p] = stage[p]
                                 \/ stage'[p] \notin Early
                                 \/ stage[p] = "quota" /\ stage'[p] = "policy"
      PROVE  AuthInv'
  <2>1. Ahead'
    BY <1>2 DEF AuthInv, Ahead, tableVars
  <2>2. reg' = reg /\ pol' = pol
    BY <1>2 DEF tableVars
  <2> QED BY <1>1, <1>2, <2>1, <2>2, AuthKept
<1>3. ASSUME NEW p \in Requests, RequestStep(p) PROVE AuthInv'
  <2>1. CASE CheckQuota(p)
    BY <1>2, <2>1 DEF CheckQuota, Record, Goto, Early, HandlerTypes
  <2>2. CASE Refuse(p)
    BY <1>2, <2>2 DEF Refuse, Goto, Early, HandlerTypes
  <2>3. CASE Hijack(p)
    BY <1>2, <2>3 DEF Hijack, Goto, Early, HandlerTypes
  <2>4. CASE TunnelEnds(p)
    BY <1>2, <2>4 DEF TunnelEnds, Record, Goto, Early, HandlerTypes
  <2>5. CASE WriteAudit(p)
    BY <1>2, <2>5 DEF WriteAudit, AfterAudit, Goto, Early, HandlerTypes
  <2>6. CASE CopyResponse(p)
    BY <1>2, <2>6 DEF CopyResponse, Record, Goto, Early, HandlerTypes
  <2>7. CASE CopyUp(p) \/ UpReturn(p) \/ UpDone(p) \/ DownDone(p)
    BY <1>2, <2>7 DEF CopyUp, UpReturn, UpDone, DownDone, handlerVars
  <2> QED BY <1>3, <2>1, <2>2, <2>3, <2>4, <2>5, <2>6, <2>7,
             AuthArrive, AuthIdentity, AuthPolicy, AuthForward
          DEF RequestStep, HandlerStep, PeerStep
<1>4. CASE DiskChanges
  BY <1>2, <1>4 DEF DiskChanges, handlerVars
<1>5. CASE UNCHANGED vars
  BY <1>2, <1>5 DEF vars, tableVars
<1>6. CASE Publish \/ Reload
  <2>1. UNCHANGED <<cred, who, since, reached, stage>>
    BY <1>6 DEF Publish, Reload, handlerVars
  <2>2. disk <= disk' /\ reg' \in {reg, disk} /\ pol' \in {pol, disk}
    BY <1>1, <1>6 DEF Publish, Reload
  <2>3. reg <= reg' /\ pol <= pol'
    BY <1>1, <2>2 DEF AuthInv, Ahead
  <2>4. Ahead'
    <3>1. disk' \in Nat /\ reg' \in Nat /\ pol' \in Nat
      BY TypeParts, VersionRange DEF TypeInv, TypeOK
    <3>2. \A p \in Requests : since[p].reg \in Nat /\ since[p].pol \in Nat
      BY VersionRange DEF HandlerTypes
    <3> QED BY <1>1, <2>1, <2>2, <2>3, <3>1, <3>2 DEF AuthInv, Ahead
  <2> QED BY <2>1, <2>3, <2>4, AuthKept
<1>7. CASE Restart
  <2>1. UNCHANGED <<cred, who, since, reached>> /\ reg' = disk /\ pol' = disk /\ disk' = disk
    BY <1>7 DEF Restart
  <2>2. \A p \in Requests : stage'[p] = stage[p] \/ stage'[p] \notin Early
    BY <1>7 DEF Restart, Early
  <2>3. reg <= reg' /\ pol <= pol'
    BY <1>1, <2>1 DEF AuthInv, Ahead
  <2>4. Ahead'
    <3>1. \A p \in Requests : since[p].reg \in Nat /\ since[p].pol \in Nat
      BY VersionRange DEF HandlerTypes
    <3> QED BY <1>1, <2>1, <3>1 DEF AuthInv, Ahead
  <2> QED BY <2>1, <2>2, <2>3, <2>4, AuthKept
<1> QED BY <1>3, <1>4, <1>5, <1>6, <1>7, NextCases

(* A request that was handed to an upstream had passed an identity and a   *)
(* policy check against tables no older than its arrival, whatever         *)
(* reloads and restarts came between (main.go, ServeHTTP).                 *)
THEOREM OnlyAuthorised == Spec => []ForwardedIsAuthorised
<1>1. TypeInv /\ AuthInv => ForwardedIsAuthorised
  <2> SUFFICES ASSUME TypeInv, AuthInv, NEW p \in reached
               PROVE  /\ \E v \in since[p].pol .. pol : who[p] \in AllowedIn[v]
                      /\ cred[p].kind = "key" =>
                           \E v \in since[p].reg .. reg : OwnerIn[v][cred[p].of] = who[p]
    BY DEF ForwardedIsAuthorised
  <2>1. p \in Requests
    BY TypeParts DEF TypeInv, HandlerTypes
  <2>2. Owned(p) /\ Permitted(p)
    BY <2>1 DEF AuthInv, Checked
  <2> QED BY <2>2 DEF Owned, Permitted
<1> QED BY <1>1, TypeInit, TypeNext, AuthInit, AuthNext, PTL DEF Spec

-----------------------------------------------------------------------------
(* What the audit file says *)

Denials == {403, 407, 429}

(* Nothing is on record about a request until it is recorded, ... *)
Unrecorded(p) ==
  stage[p] \in Early \cup {"hijack", "tunnel", "copy", "record"}
  => lines[p] = <<>> /\ answer[p] \notin Denials

(* ... it goes to its upstream between the checks and the record, ... *)
Forwarded(p) ==
  /\ stage[p] \in Early => p \notin reached /\ answer[p] = 0
  /\ stage[p] \in {"hijack", "tunnel", "copy"} => p \in reached

(* ... its event is true when it is written, ... *)
ToldTrue(p) ==
  stage[p] = "record"
  => Truthful(p, pending[p]) /\ (pending[p].decision = "deny" => answer[p] = 0)

(* ... and a denial is answered when its event is written, or lost. *)
Refused(p) ==
  stage[p] = "refuse"
  => /\ pending[p].decision = "deny" /\ p \notin reached /\ answer[p] = 0
     /\ lines[p] = <<pending[p]>> \/ (lines[p] = <<>> /\ p \in missed)

OnFile(p) ==
  /\ Len(lines[p]) <= 1
  /\ \A i \in DOMAIN lines[p] : Truthful(p, lines[p][i])

Told(p) ==
  p \notin missed /\ answer[p] \in Denials
  => \E i \in DOMAIN lines[p] :
       lines[p][i].decision = "deny" /\ Refusal(lines[p][i].reason) = answer[p]

AuditOf(p) ==
  Unrecorded(p) /\ Forwarded(p) /\ ToldTrue(p) /\ Refused(p) /\ OnFile(p) /\ Told(p)

AuditInv == \A p \in Requests : AuditOf(p)

LEMMA NoLines ==
  ASSUME NEW p, lines[p] = <<>>
  PROVE  OnFile(p)
BY DEF OnFile

LEMMA AuditInit == Init => AuditInv
<1> SUFFICES ASSUME Init, NEW p \in Requests PROVE AuditOf(p)
  BY DEF AuditInv
<1>1. stage[p] = "idle" /\ answer[p] = 0 /\ lines[p] = <<>> /\ p \notin reached
  BY DEF Init
<1> QED BY <1>1, NoLines
        DEF AuditOf, Unrecorded, Forwarded, ToldTrue, Refused, Told, Early, Denials

(* Steps that change nothing about a request keep what is known of it; so  *)
(* does giving it up.                                                      *)
LEMMA AuditKept ==
  ASSUME NEW p \in Requests, AuditOf(p),
         answer'[p] = answer[p], lines'[p] = lines[p],
         p \in reached' <=> p \in reached, p \in missed => p \in missed',
         \/ stage'[p] = stage[p] /\ pending'[p] = pending[p]
         \/ stage'[p] = stage[p] /\ stage[p] \in {"idle", "finished", "lost"}
         \/ stage'[p] \in {"finished", "lost"}
  PROVE  AuditOf(p)'
<1>1. Truthful(p, pending[p])' <=> Truthful(p, pending'[p])
  BY DEF Truthful
<1>2. Unrecorded(p)' /\ Forwarded(p)'
  BY DEF AuditOf, Unrecorded, Forwarded, Early
<1>3. \A e : Truthful(p, e) => Truthful(p, e)'
  BY DEF Truthful
<1>4. ToldTrue(p)'
  BY <1>1, <1>3 DEF AuditOf, ToldTrue
<1>5. Refused(p)'
  BY DEF AuditOf, Refused
<1>6. OnFile(p)'
  BY <1>3 DEF AuditOf, OnFile
<1>7. Told(p)'
  BY DEF AuditOf, Told
<1> QED BY <1>2, <1>4, <1>5, <1>6, <1>7 DEF AuditOf

(* A step of one request, before anything about it is written: what it     *)
(* has to show of that request.                                            *)
LEMMA AuditStep ==
  ASSUME TypeInv, AuditInv, NEW p \in Requests,
         stage[p] \in Early \cup {"hijack", "tunnel", "copy"},
         UNCHANGED <<lines, missed>>,
         \A q \in Requests : q # p =>
           /\ stage'[q] = stage[q] /\ pending'[q] = pending[q] /\ answer'[q] = answer[q]
           /\ q \in reached' <=> q \in reached,
         answer'[p] \notin Denials,
         Forwarded(p)', ToldTrue(p)', stage'[p] # "refuse"
  PROVE  AuditInv'
<1>1. \A q \in Requests : q # p => AuditOf(q)'
  BY AuditKept DEF AuditInv
<1>2. lines'[p] = <<>>
  BY DEF AuditInv, AuditOf, Unrecorded
<1>3. OnFile(p)'
  BY <1>2 DEF OnFile
<1>4. AuditOf(p)'
  BY <1>2, <1>3 DEF AuditOf, Unrecorded, Refused, Told
<1> QED BY <1>1, <1>4 DEF AuditInv

LEMMA AuditChecks ==
  ASSUME TypeInv, AuditInv, NEW p \in Requests,
         Arrive(p) \/ CheckIdentity(p) \/ CheckQuota(p) \/ CheckPolicy(p)
  PROVE  AuditInv'
<1> HandlerTypes
  BY TypeParts DEF TypeInv
<1>1. stage[p] \in Early /\ UNCHANGED <<answer, reached, lines, missed>>
  BY DEF Arrive, CheckIdentity, CheckQuota, CheckPolicy, auditVars, Early
<1>2. p \notin reached /\ answer[p] = 0
  BY <1>1 DEF AuditInv, AuditOf, Forwarded
<1>3. \A q \in Requests : q # p => stage'[q] = stage[q] /\ pending'[q] = pending[q]
  BY DEF Arrive, CheckIdentity, CheckQuota, CheckPolicy, Record, Goto, HandlerTypes
<1>4. \/ stage'[p] \in Early
      \/ stage'[p] = "record" /\ \E r : pending'[p] = AuditEvent("deny", r, 0)
  BY DEF Arrive, CheckIdentity, CheckQuota, CheckPolicy, Record, Goto, HandlerTypes, Early
<1>5. answer'[p] \notin Denials /\ stage'[p] # "refuse"
  BY <1>1, <1>2, <1>4 DEF Denials, Early
<1>6. Forwarded(p)'
  BY <1>1, <1>2, <1>4 DEF Forwarded, Early
<1>7. ToldTrue(p)'
  BY <1>1, <1>2, <1>4, Events DEF ToldTrue, Truthful, Early
<1> QED BY <1>1, <1>3, <1>5, <1>6, <1>7, AuditStep

LEMMA AuditForwards ==
  ASSUME TypeInv, AuditInv, NEW p \in Requests,
         Dial(p) \/ Fetch(p) \/ Hijack(p) \/ CopyResponse(p) \/ TunnelEnds(p)
  PROVE  AuditInv'
<1> HandlerTypes
  BY TypeParts DEF TypeInv
<1>1. /\ stage[p] \in {"dial", "fetch", "hijack", "copy", "tunnel"}
      /\ UNCHANGED <<lines, missed>>
  BY DEF Dial, Fetch, Hijack, CopyResponse, TunnelEnds, auditVars
<1>2. /\ stage[p] \in Early => p \notin reached /\ answer[p] = 0
      /\ stage[p] \in {"hijack", "tunnel", "copy"} => p \in reached
      /\ answer[p] \notin Denials
  BY <1>1 DEF AuditInv, AuditOf, Forwarded, Unrecorded, Early
<1>3. \A q \in Requests : q # p =>
        /\ stage'[q] = stage[q] /\ pending'[q] = pending[q] /\ answer'[q] = answer[q]
        /\ q \in reached' <=> q \in reached
  BY DEF Dial, Fetch, Hijack, CopyResponse, TunnelEnds, Record, Goto, Answer, HandlerTypes
<1>4. \/ /\ stage'[p] \in {"hijack", "copy", "tunnel"} /\ p \in reached'
         /\ answer'[p] \in {answer[p], 200}
      \/ stage'[p] = "finished" /\ answer'[p] \in {0, 500, 502}
      \/ /\ stage'[p] = "record" /\ p \notin reached' /\ answer'[p] = 502
         /\ pending'[p] = AuditEvent("allow-upstream-error", "policy", 0)
      \/ /\ stage'[p] = "record" /\ p \in reached' /\ answer'[p] \in {answer[p], 200}
         /\ \E n \in Nat : pending'[p] = AuditEvent("allow", "policy", n)
  <2>1. CASE Dial(p)
    BY <1>2, <2>1 DEF Dial, Record, Goto, Answer, HandlerTypes, Early
  <2>2. CASE Fetch(p)
    BY <1>2, <2>2 DEF Fetch, Goto, Answer, HandlerTypes
  <2>3. CASE Hijack(p)
    BY <1>2, <2>3 DEF Hijack, Goto, Answer, HandlerTypes
  <2>4. CASE CopyResponse(p)
    <3>1. PICK n \in 0 .. 1 : Record(p, AuditEvent("allow", "policy", n))
      BY <2>4 DEF CopyResponse
    <3>2. stage'[p] = "record" /\ pending'[p] = AuditEvent("allow", "policy", n) /\ n \in Nat
      BY <3>1 DEF Record, Goto, HandlerTypes
    <3>3. p \in reached' /\ answer'[p] = 200
      BY <1>2, <2>4 DEF CopyResponse, Answer, HandlerTypes
    <3> QED BY <3>2, <3>3
  <2>5. CASE TunnelEnds(p)
    <3>1. bytesOut[p] \in Nat
      BY TypeParts DEF TypeInv, TunnelTypes
    <3>2. stage'[p] = "record" /\ pending'[p] = AuditEvent("allow", "policy", bytesOut[p])
      BY <2>5 DEF TunnelEnds, Record, Goto, HandlerTypes
    <3>3. p \in reached' /\ answer'[p] = answer[p]
      BY <1>2, <2>5 DEF TunnelEnds
    <3> QED BY <3>1, <3>2, <3>3
  <2> QED BY <2>1, <2>2, <2>3, <2>4, <2>5
<1>5. answer'[p] \notin Denials /\ stage'[p] # "refuse"
  BY <1>2, <1>4 DEF Denials
<1>6. Forwarded(p)'
  BY <1>4 DEF Forwarded, Early
<1>7. ToldTrue(p)'
  BY <1>4, Events DEF ToldTrue, Truthful
<1>8. stage[p] \in Early \cup {"hijack", "tunnel", "copy"}
  BY <1>1 DEF Early
<1> QED BY <1>1, <1>3, <1>5, <1>6, <1>7, <1>8, AuditStep

(* The event of a denial is on file, or lost, when the handler answers. *)
LEMMA AuditWrite ==
  ASSUME TypeInv, AuditInv, NEW p \in Requests, WriteAudit(p)
  PROVE  AuditInv'
<1> HandlerTypes /\ AuditTypes
  BY TypeParts DEF TypeInv
<1> PICK e : e = pending[p]
  OBVIOUS
<1>1. /\ stage[p] = "record" /\ UNCHANGED <<answer, reached>>
      /\ missed \subseteq missed'
  BY DEF WriteAudit, WriteLine
<1>2. /\ e \in Event /\ lines[p] = <<>> /\ answer[p] \notin Denials
      /\ Truthful(p, e) /\ (e.decision = "deny" => answer[p] = 0)
  BY <1>1 DEF TypeInv, Prepared, AuditInv, AuditOf, Unrecorded, ToldTrue
<1>3. \A q \in Requests : q # p =>
        stage'[q] = stage[q] /\ pending'[q] = pending[q] /\ lines'[q] = lines[q]
  <2> SUFFICES ASSUME NEW q \in Requests, q # p
               PROVE  stage'[q] = stage[q] /\ pending'[q] = pending[q] /\ lines'[q] = lines[q]
    OBVIOUS
  <2>1. stage'[q] = stage[q] /\ pending'[q] = pending[q]
    BY DEF WriteAudit, AfterAudit, Goto, HandlerTypes
  <2>2. lines'[q] = lines[q]
    BY DEF WriteAudit, WriteLine, AuditTypes
  <2> QED BY <2>1, <2>2
<1>4. \A q \in Requests : q # p => AuditOf(q)'
  BY <1>1, <1>3, AuditKept DEF AuditInv
<1>5. lines'[p] = <<e>> \/ (lines'[p] = <<>> /\ p \in missed')
  <2>1. CASE lines' = [lines EXCEPT ![p] = Append(lines[p], e)]
    <3>1. lines'[p] = Append(lines[p], e) /\ lines[p] = <<>> /\ lines[p] \in Seq(Event)
      BY <1>2, <2>1 DEF AuditTypes
    <3>2. e \in Event
      BY <1>2
    <3>3. lines'[p] = <<e>>
      BY <3>1, <3>2
    <3> QED BY <3>3
  <2>2. CASE missed' = missed \cup {p} /\ UNCHANGED lines
    BY <1>2, <2>2
  <2> QED BY <2>1, <2>2 DEF WriteAudit, WriteLine
<1>6. \/ e.decision = "deny" /\ stage'[p] = "refuse" /\ pending'[p] = e
      \/ e.decision # "deny" /\ stage'[p] = "finished"
  BY DEF WriteAudit, AfterAudit, Goto, HandlerTypes
<1>7. \A x : Truthful(p, x) => Truthful(p, x)'
  BY <1>1 DEF Truthful
<1>8. OnFile(p)'
  <2>1. CASE lines'[p] = <<>>
    BY <2>1 DEF OnFile
  <2>2. CASE lines'[p] = <<e>>
    <3>1. Len(lines'[p]) = 1 /\ \A i \in DOMAIN lines'[p] : lines'[p][i] = e
      BY <2>2
    <3> QED BY <1>2, <1>7, <3>1 DEF OnFile
  <2> QED BY <1>5, <2>1, <2>2
<1>9. e.decision = "deny" => p \notin reached'
  BY <1>1, <1>2 DEF Truthful
<1>10. Unrecorded(p)' /\ Forwarded(p)' /\ ToldTrue(p)'
  BY <1>6 DEF Unrecorded, Forwarded, ToldTrue, Early
<1>11. Refused(p)'
  BY <1>1, <1>2, <1>5, <1>6, <1>9 DEF Refused
<1>12. Told(p)'
  BY <1>1, <1>2 DEF Told
<1>13. AuditOf(p)'
  BY <1>8, <1>10, <1>11, <1>12 DEF AuditOf
<1> QED BY <1>4, <1>13 DEF AuditInv

LEMMA AuditRefuse ==
  ASSUME TypeInv, AuditInv, NEW p \in Requests, Refuse(p)
  PROVE  AuditInv'
<1> HandlerTypes
  BY TypeParts DEF TypeInv
<1> PICK e : e = pending[p]
  OBVIOUS
<1>1. /\ stage[p] = "refuse" /\ UNCHANGED <<reached, lines, missed>>
      /\ stage'[p] = "finished" /\ answer'[p] = Refusal(e.reason)
  BY DEF Refuse, Goto, Answer, auditVars, HandlerTypes
<1>2. /\ e \in Event /\ e.decision = "deny" /\ p \notin reached
      /\ lines[p] = <<e>> \/ (lines[p] = <<>> /\ p \in missed)
  BY <1>1 DEF TypeInv, Prepared, AuditInv, AuditOf, Refused
<1>3. \A q \in Requests : q # p =>
        stage'[q] = stage[q] /\ pending'[q] = pending[q] /\ answer'[q] = answer[q]
  BY DEF Refuse, Goto, Answer, HandlerTypes
<1>4. \A q \in Requests : q # p => AuditOf(q)'
  BY <1>1, <1>3, AuditKept DEF AuditInv
<1>5. OnFile(p)' /\ Told(p)'
  <2>1. CASE lines[p] = <<>> /\ p \in missed
    BY <1>1, <2>1 DEF OnFile, Told
  <2>2. CASE lines[p] = <<e>>
    <3>1. Len(lines'[p]) = 1 /\ DOMAIN lines'[p] = {1} /\ lines'[p][1] = e
      BY <1>1, <2>2
    <3>2. Truthful(p, e)'
      BY <1>1, <1>2 DEF Truthful
    <3> QED BY <1>1, <1>2, <3>1, <3>2 DEF OnFile, Told
  <2> QED BY <1>2, <2>1, <2>2
<1>6. Unrecorded(p)' /\ Forwarded(p)' /\ ToldTrue(p)' /\ Refused(p)'
  BY <1>1 DEF Unrecorded, Forwarded, ToldTrue, Refused, Early
<1>7. AuditOf(p)'
  BY <1>5, <1>6 DEF AuditOf
<1> QED BY <1>4, <1>7 DEF AuditInv

LEMMA AuditNext == TypeInv /\ AuditInv /\ [Next]_vars => AuditInv'
<1> SUFFICES ASSUME TypeInv, AuditInv, [Next]_vars PROVE AuditInv'
  OBVIOUS
<1>1. ASSUME UNCHANGED <<stage, pending, answer, reached, lines, missed>> PROVE AuditInv'
  BY <1>1, AuditKept DEF AuditInv
<1>2. ASSUME NEW p \in Requests, RequestStep(p) PROVE AuditInv'
  <2>1. CASE CopyUp(p) \/ UpReturn(p) \/ UpDone(p) \/ DownDone(p)
    BY <1>1, <2>1 DEF CopyUp, UpReturn, UpDone, DownDone, handlerVars, auditVars
  <2> QED BY <1>2, <2>1, AuditChecks, AuditForwards, AuditWrite, AuditRefuse
          DEF RequestStep, HandlerStep, PeerStep
<1>3. CASE DiskChanges \/ Publish \/ Reload
  BY <1>1, <1>3 DEF DiskChanges, Publish, Reload, handlerVars, auditVars
<1>4. CASE UNCHANGED vars
  BY <1>1, <1>4 DEF vars
<1>5. CASE Restart
  <2> SUFFICES ASSUME NEW p \in Requests PROVE AuditOf(p)'
    BY DEF AuditInv
  <2>1. /\ UNCHANGED <<answer, reached, lines, missed>>
        /\ stage'[p] = IF stage[p] \in {"idle", "finished"} THEN stage[p] ELSE "lost"
    BY <1>5 DEF Restart
  <2> QED BY <2>1, AuditKept DEF AuditInv
<1> QED BY <1>2, <1>3, <1>4, <1>5, NextCases

(* What the audit file says of a request is what was done with it, through *)
(* crashes, full disks and torn lines (main.go, writeAudit and its calls). *)
THEOREM AuditIsTrue == Spec => []AuditTellsTheTruth
<1>1. AuditInv => AuditTellsTheTruth
  BY DEF AuditInv, AuditOf, OnFile, AuditTellsTheTruth
<1> QED BY <1>1, TypeInit, TypeNext, AuditInit, AuditNext, PTL DEF Spec

(* A client that was told of a denial can be shown its event, unless the   *)
(* write of that event was lost (main.go, ServeHTTP; log.go, Write).       *)
THEOREM DenialsAreWritten == Spec => []DenialsOnRecord
<1>1. AuditInv => DenialsOnRecord
  BY DEF AuditInv, AuditOf, Told, Denials, DenialsOnRecord
<1> QED BY <1>1, TypeInit, TypeNext, AuditInit, AuditNext, PTL DEF Spec

-----------------------------------------------------------------------------
(* What a tunnel counts *)

(* The copy goroutines run once the connection is taken over, and end with *)
(* their signals.                                                          *)
Running(p) ==
  /\ stage[p] \in Early \cup {"hijack", "copy"} => up[p] = "off"
  /\ up[p] = "off" => down[p] = "off" /\ sent[p] = 0 /\ bytesOut[p] = 0 /\ done[p] = <<>>

(* The counter has what was sent when the copy has returned; a signal of   *)
(* the goroutine says that this is so.                                     *)
Counted(p) ==
  /\ up[p] = "copying" => bytesOut[p] = 0
  /\ up[p] = "returned" => bytesOut[p] = sent[p]
  /\ \A i \in DOMAIN done[p] : done[p][i] = "up" => up[p] = "ended" /\ bytesOut[p] = sent[p]

Ended(p) ==
  /\ ender[p] # "none" => stage[p] \in {"record", "finished", "lost"}
  /\ ender[p] # "none" /\ stage[p] = "record" => pending[p].decision = "allow"
  /\ ender[p] = "up" =>
       /\ up[p] = "ended" /\ bytesOut[p] = sent[p]
       /\ stage[p] = "record" => pending[p].bytes = sent[p]
       /\ \A i \in DOMAIN lines[p] : lines[p][i].bytes = sent[p]

TunnelOf(p) == Running(p) /\ Counted(p) /\ Ended(p)

TunnelInv == \A p \in Requests : TunnelOf(p)

LEMMA TunnelInit == Init => TunnelInv
<1> SUFFICES ASSUME Init, NEW p \in Requests PROVE TunnelOf(p)
  BY DEF TunnelInv
<1>1. /\ up[p] = "off" /\ down[p] = "off" /\ sent[p] = 0 /\ bytesOut[p] = 0
      /\ done[p] = <<>> /\ ender[p] = "none"
  BY DEF Init
<1> QED BY <1>1 DEF TunnelOf, Running, Counted, Ended

(* A step of the handler that leaves the goroutines alone, and goes where  *)
(* there are none or where the ender is kept.                              *)
LEMMA TunnelKept ==
  ASSUME NEW p \in Requests, TunnelOf(p),
         /\ up'[p] = up[p] /\ down'[p] = down[p] /\ sent'[p] = sent[p]
         /\ bytesOut'[p] = bytesOut[p] /\ done'[p] = done[p] /\ ender'[p] = ender[p],
         lines'[p] = lines[p],
         \/ stage'[p] = stage[p] /\ pending'[p] = pending[p]
         \/ stage'[p] \in {"finished", "lost"}
         \/ /\ stage[p] \in Early \cup {"hijack", "copy"}
            /\ stage'[p] \in Early \cup {"hijack", "copy", "record"}
  PROVE  TunnelOf(p)'
<1>1. Running(p)'
  BY DEF TunnelOf, Running, Early
<1>2. Counted(p)'
  BY DEF TunnelOf, Counted
<1>3. Ended(p)'
  BY DEF TunnelOf, Ended, Early
<1> QED BY <1>1, <1>2, <1>3 DEF TunnelOf

LEMMA TunnelHandler ==
  ASSUME TypeInv, TunnelInv, NEW p \in Requests,
         \/ Arrive(p) \/ CheckIdentity(p) \/ CheckQuota(p) \/ CheckPolicy(p) \/ Refuse(p)
         \/ Dial(p) \/ Fetch(p) \/ CopyResponse(p)
  PROVE  TunnelInv'
<1> HandlerTypes
  BY TypeParts DEF TypeInv
<1>1. UNCHANGED <<up, down, done, sent, bytesOut, ender, lines>>
  BY DEF Arrive, CheckIdentity, CheckQuota, CheckPolicy, Refuse, Dial, Fetch, CopyResponse,
         tunnelVars, auditVars
<1>2. \A q \in Requests : q # p => stage'[q] = stage[q] /\ pending'[q] = pending[q]
  BY DEF Arrive, CheckIdentity, CheckQuota, CheckPolicy, Refuse, Dial, Fetch, CopyResponse,
         Record, Goto, HandlerTypes
<1>3. \/ stage'[p] = "finished"
      \/ /\ stage[p] \in Early \cup {"hijack", "copy"}
         /\ stage'[p] \in Early \cup {"hijack", "copy", "record"}
  BY DEF Arrive, CheckIdentity, CheckQuota, CheckPolicy, Refuse, Dial, Fetch, CopyResponse,
         Record, Goto, HandlerTypes, Early
<1> QED BY <1>1, <1>2, <1>3, TunnelKept DEF TunnelInv

LEMMA TunnelStarts ==
  ASSUME TypeInv, TunnelInv, NEW p \in Requests, Hijack(p)
  PROVE  TunnelInv'
<1> HandlerTypes /\ TunnelTypes
  BY TypeParts DEF TypeInv
<1>1. stage[p] = "hijack" /\ UNCHANGED <<done, sent, bytesOut, ender, lines, pending>>
  BY DEF Hijack, auditVars
<1>2. \A q \in Requests : q # p => stage'[q] = stage[q] /\ up'[q] = up[q] /\ down'[q] = down[q]
  BY DEF Hijack, Goto, HandlerTypes, TunnelTypes
<1>3. \A q \in Requests : q # p => TunnelOf(q)'
  BY <1>1, <1>2, TunnelKept DEF TunnelInv
<1>4. TunnelOf(p)'
  <2>1. CASE stage'[p] = "finished" /\ UNCHANGED <<up, down>>
    BY <1>1, <2>1, TunnelKept DEF TunnelInv
  <2>2. CASE stage'[p] = "tunnel" /\ up'[p] = "copying"
    <3>1. bytesOut[p] = 0 /\ done[p] = <<>> /\ ender[p] = "none"
      BY <1>1 DEF TunnelInv, TunnelOf, Running, Ended, Early
    <3> QED BY <1>1, <2>2, <3>1 DEF TunnelOf, Running, Counted, Ended, Early
  <2> QED BY <2>1, <2>2 DEF Hijack, Goto, HandlerTypes, TunnelTypes
<1> QED BY <1>3, <1>4 DEF TunnelInv

(* The goroutines' own steps: up returns with the count, then signals. *)
LEMMA TunnelCopies ==
  ASSUME TypeInv, TunnelInv, NEW p \in Requests,
         CopyUp(p) \/ UpReturn(p) \/ UpDone(p) \/ DownDone(p)
  PROVE  TunnelInv'
<1> TunnelTypes
  BY TypeParts DEF TypeInv
<1>1. UNCHANGED <<stage, pending, ender, lines>>
  BY DEF CopyUp, UpReturn, UpDone, DownDone, handlerVars, auditVars
<1>2. \A q \in Requests : q # p =>
        /\ up'[q] = up[q] /\ down'[q] = down[q] /\ done'[q] = done[q]
        /\ sent'[q] = sent[q] /\ bytesOut'[q] = bytesOut[q]
  BY DEF CopyUp, UpReturn, UpDone, DownDone, SendDone, TunnelTypes
<1>3. \A q \in Requests : q # p => TunnelOf(q)'
  BY <1>1, <1>2, TunnelKept DEF TunnelInv
<1>4. Running(p) /\ Counted(p) /\ Ended(p)
  BY DEF TunnelInv, TunnelOf
<1>5. done[p] \in Seq({"up", "down"}) /\ sent[p] \in Nat
  BY Constants DEF TunnelTypes
<1>6. CASE CopyUp(p)
  <2>1. /\ up[p] = "copying" /\ up'[p] = up[p] /\ down'[p] = down[p] /\ done'[p] = done[p]
        /\ bytesOut'[p] = bytesOut[p]
    BY <1>6 DEF CopyUp
  <2>2. ender[p] # "up" /\ \A i \in DOMAIN done[p] : done[p][i] # "up"
    BY <1>4, <2>1 DEF Counted, Ended
  <2> QED BY <1>1, <1>3, <1>4, <2>1, <2>2 DEF TunnelInv, TunnelOf, Running, Counted, Ended
<1>7. CASE UpReturn(p)
  <2>1. /\ up[p] = "copying" /\ up'[p] = "returned" /\ done'[p] = done[p] /\ sent'[p] = sent[p]
        /\ bytesOut'[p] = bytesOut[p] + sent[p]
    BY <1>7 DEF UpReturn, TunnelTypes
  <2>2. /\ bytesOut'[p] = sent'[p]
        /\ ender[p] # "up" /\ \A i \in DOMAIN done[p] : done[p][i] # "up"
    BY <1>4, <1>5, <2>1 DEF Counted, Ended
  <2> QED BY <1>1, <1>3, <1>4, <2>1, <2>2 DEF TunnelInv, TunnelOf, Running, Counted, Ended
<1>8. CASE UpDone(p)
  <2>1. /\ up[p] = "returned" /\ up'[p] = "ended" /\ done'[p] = Append(done[p], "up")
        /\ sent'[p] = sent[p] /\ bytesOut'[p] = bytesOut[p]
    BY <1>8 DEF UpDone, SendDone, TunnelTypes
  <2>2. bytesOut'[p] = sent'[p] /\ ender[p] # "up"
    BY <1>4, <2>1 DEF Counted, Ended
  <2> QED BY <1>1, <1>3, <1>4, <2>1, <2>2 DEF TunnelInv, TunnelOf, Running, Counted, Ended
<1>9. CASE DownDone(p)
  <2>1. /\ down[p] = "copying" /\ up'[p] = up[p] /\ done'[p] = Append(done[p], "down")
        /\ sent'[p] = sent[p] /\ bytesOut'[p] = bytesOut[p]
    BY <1>9 DEF DownDone, SendDone, TunnelTypes
  <2>2. up[p] # "off"
    BY <1>4, <2>1 DEF Running
  <2>3. \A i \in DOMAIN done'[p] : done'[p][i] = "up" =>
          i \in DOMAIN done[p] /\ done[p][i] = "up"
    BY <1>5, <2>1
  <2> QED BY <1>1, <1>3, <1>4, <2>1, <2>2, <2>3 DEF TunnelInv, TunnelOf, Running, Counted, Ended
<1> QED BY <1>6, <1>7, <1>8, <1>9

(* The handler reads the counter after the signal it received: when that   *)
(* was up's, the count is whole.                                           *)
LEMMA TunnelReads ==
  ASSUME TypeInv, AuditInv, TunnelInv, NEW p \in Requests, TunnelEnds(p)
  PROVE  TunnelInv'
<1> HandlerTypes /\ TunnelTypes
  BY TypeParts DEF TypeInv
<1>1. /\ stage[p] = "tunnel" /\ UNCHANGED <<up, down, sent, bytesOut, lines>>
      /\ \A q \in Requests : q # p =>
           /\ stage'[q] = stage[q] /\ pending'[q] = pending[q]
           /\ done'[q] = done[q] /\ ender'[q] = ender[q]
  BY DEF TunnelEnds, Record, Goto, auditVars, HandlerTypes, TunnelTypes
<1>2. \A q \in Requests : q # p => TunnelOf(q)'
  BY <1>1, TunnelKept DEF TunnelInv
<1>3. Running(p) /\ Counted(p) /\ lines[p] = <<>>
  BY <1>1 DEF TunnelInv, TunnelOf, AuditInv, AuditOf, Unrecorded
<1>4. done[p] \in Seq({"up", "down"}) /\ done[p] # <<>>
  BY DEF TunnelEnds, TunnelTypes
<1>5. /\ stage'[p] = "record" /\ pending'[p] = AuditEvent("allow", "policy", bytesOut[p])
      /\ done'[p] = Tail(done[p]) /\ ender'[p] = Head(done[p])
  BY DEF TunnelEnds, Record, Goto, HandlerTypes, TunnelTypes
<1>6. pending'[p].decision = "allow" /\ pending'[p].bytes = bytesOut[p]
  BY <1>5, Events
<1>7. /\ 1 \in DOMAIN done[p] /\ Head(done[p]) = done[p][1]
      /\ \A i \in DOMAIN Tail(done[p]) :
           i + 1 \in DOMAIN done[p] /\ Tail(done[p])[i] = done[p][i + 1]
  BY <1>4
<1>8. Running(p)'
  BY <1>1, <1>3, <1>4, <1>5 DEF Running, Early
<1>9. Counted(p)'
  BY <1>1, <1>3, <1>5, <1>7 DEF Counted
<1>10. Ended(p)'
  BY <1>1, <1>3, <1>5, <1>6, <1>7 DEF Counted, Ended
<1> QED BY <1>2, <1>8, <1>9, <1>10 DEF TunnelInv, TunnelOf

LEMMA TunnelWrites ==
  ASSUME TypeInv, TunnelInv, NEW p \in Requests, WriteAudit(p)
  PROVE  TunnelInv'
<1> HandlerTypes /\ AuditTypes
  BY TypeParts DEF TypeInv
<1>1. stage[p] = "record" /\ UNCHANGED <<up, down, done, sent, bytesOut, ender>>
  BY DEF WriteAudit
<1>2. \A q \in Requests : q # p => lines'[q] = lines[q]
  BY DEF WriteAudit, WriteLine, AuditTypes
<1>3. \A q \in Requests : q # p => stage'[q] = stage[q] /\ pending'[q] = pending[q]
  BY DEF WriteAudit, AfterAudit, Goto, HandlerTypes
<1>4. \A q \in Requests : q # p => TunnelOf(q)'
  BY <1>1, <1>2, <1>3, TunnelKept DEF TunnelInv
<1>5. Running(p) /\ Counted(p) /\ Ended(p)
  BY DEF TunnelInv, TunnelOf
<1>6. \/ pending[p].decision = "deny" /\ stage'[p] = "refuse"
      \/ stage'[p] = "finished"
  BY DEF WriteAudit, AfterAudit, Goto, HandlerTypes
<1>7. lines'[p] = lines[p] \/ lines'[p] = Append(lines[p], pending[p])
  BY DEF WriteAudit, WriteLine, AuditTypes
<1>8. lines[p] \in Seq(Event) /\ pending[p] \in Event
  BY <1>1 DEF AuditTypes, TypeInv, Prepared
<1>9. \A i \in DOMAIN lines'[p] :
        lines'[p][i] = pending[p] \/ (i \in DOMAIN lines[p] /\ lines'[p][i] = lines[p][i])
  BY <1>7, <1>8
<1>10. Running(p)' /\ Counted(p)'
  BY <1>1, <1>5, <1>6 DEF Running, Counted, Early
<1>11. Ended(p)'
  BY <1>1, <1>5, <1>6, <1>9 DEF Ended
<1> QED BY <1>4, <1>10, <1>11 DEF TunnelInv, TunnelOf

LEMMA TunnelNext == TypeInv /\ AuditInv /\ TunnelInv /\ [Next]_vars => TunnelInv'
<1> SUFFICES ASSUME TypeInv, AuditInv, TunnelInv, [Next]_vars PROVE TunnelInv'
  OBVIOUS
<1>1. ASSUME UNCHANGED <<stage, pending, lines>>, UNCHANGED tunnelVars PROVE TunnelInv'
  BY <1>1, TunnelKept DEF TunnelInv, tunnelVars
<1>2. ASSUME NEW p \in Requests, RequestStep(p) PROVE TunnelInv'
  BY <1>2, TunnelHandler, TunnelStarts, TunnelCopies, TunnelReads, TunnelWrites
     DEF RequestStep, HandlerStep, PeerStep
<1>3. CASE DiskChanges \/ Publish \/ Reload
  BY <1>1, <1>3 DEF DiskChanges, Publish, Reload, handlerVars, auditVars
<1>4. CASE UNCHANGED vars
  BY <1>1, <1>4 DEF vars, tunnelVars
<1>5. CASE Restart
  <2> SUFFICES ASSUME NEW p \in Requests PROVE TunnelOf(p)'
    BY DEF TunnelInv
  <2>1. /\ UNCHANGED <<sent, bytesOut, ender, lines>> /\ done'[p] = <<>>
        /\ stage'[p] = IF stage[p] \in {"idle", "finished"} THEN stage[p] ELSE "lost"
        /\ up'[p] = IF up[p] = "off" THEN "off" ELSE "ended"
        /\ down'[p] = IF down[p] = "off" THEN "off" ELSE "ended"
    BY <1>5 DEF Restart
  <2>2. Running(p) /\ Counted(p) /\ Ended(p)
    BY DEF TunnelInv, TunnelOf
  <2> QED BY <2>1, <2>2 DEF TunnelOf, Running, Counted, Ended, Early
<1> QED BY <1>2, <1>3, <1>4, <1>5, NextCases

(* The event of a tunnel that its client ended has every byte that went    *)
(* to the upstream (main.go, handleConnect).                               *)
THEOREM ClientEndIsCounted == Spec => []ClientCloseCounted
<1>1. TunnelInv => ClientCloseCounted
  BY DEF TunnelInv, TunnelOf, Ended, ClientCloseCounted
<1> QED BY <1>1, TypeInit, TypeNext, AuditInit, AuditNext, TunnelInit, TunnelNext, PTL DEF Spec
=============================================================================
