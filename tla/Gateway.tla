------------------------------ MODULE Gateway ------------------------------
(***************************************************************************)
(* The request path of the egress proxy: concurrent ServeHTTP handlers,    *)
(* the two copy goroutines of a CONNECT tunnel, the SIGHUP reload that     *)
(* swaps the identity and policy tables between a handler's stages, and    *)
(* the audit file every handler appends to.                                *)
(*                                                                         *)
(* A configuration is a version number: version v maps the API keys to     *)
(* their active owners (OwnerIn) and names the agents the policy allows    *)
(* (AllowedIn).  How versions reach the disk is ConfigSync's subject, how  *)
(* a quota decides is QuotaLimiter's: here its answer is any of the three. *)
(***************************************************************************)
EXTENDS Naturals, Sequences, FiniteSets

CONSTANTS
  Requests,    \* requests the proxy receives, one handler goroutine each
  Agents, NoAgent,
  Keys,        \* API keys clients present
  Inputs,      \* per request: what it may arrive as, [method, cred]
  OwnerIn,     \* per version: the active agent of each key, or NoAgent
  AllowedIn,   \* per version: the agents whose requests the policy allows
  MaxVersion,  \* bound: versions the admin API publishes
  MaxSent,     \* bound: chunks an agent sends through a tunnel
  MaxRestarts, \* bound: restarts of the gateway process
  Faults       \* which failures of the environment may happen

Versions == 0 .. MaxVersion

(* A handler only tells CONNECT from the rest. *)
Methods == {"CONNECT", "GET"}

(* "none" is no header, another scheme, or what does not decode or verify. *)
Credentials ==
  [kind : {"key"}, of : Keys] \cup [kind : {"token"}, of : Agents]
    \cup [kind : {"none"}, of : {NoAgent}]

FaultKinds == {"upstream", "hijack", "disk_full"}

ASSUME GatewayAssumption ==
  /\ NoAgent \notin Agents
  /\ MaxVersion \in Nat /\ MaxSent \in Nat /\ MaxRestarts \in Nat
  /\ OwnerIn \in [Versions -> [Keys -> Agents \cup {NoAgent}]]
  /\ AllowedIn \in [Versions -> SUBSET Agents]
  /\ Faults \subseteq FaultKinds
  /\ Inputs \in [Requests -> SUBSET [method : Methods, cred : Credentials]]

VARIABLES
  (* each request's handler *)
  stage,     \* where it is
  method,    \* "CONNECT" or "GET", the latter for every other method
  cred,      \* the Proxy-Authorization header
  who,       \* the agent the identity check resolved
  pending,   \* the audit event about to be written
  answer,    \* the status the client was sent
  (* its tunnel *)
  up,        \* the goroutine copying client to upstream
  down,      \* the goroutine copying upstream to client
  done,      \* the channel of capacity two: which goroutine signalled
  closed,    \* which of the two connections this process closed
  sent,      \* chunks copied to the upstream
  bytesOut,  \* the shared counter
  (* the tables *)
  disk,      \* version on disk
  reg, pol,  \* versions of the registry and of the rules in memory
  reload,    \* which table the reload goroutine loads next, or "wait"
  (* the audit file *)
  lines,     \* events a reader of the audit file finds, per request
  ragged,    \* the file ends in a piece of a line
  diskFull,
  (* history *)
  missed,    \* requests with an event that cannot be read back
  since,     \* table versions in memory when the request arrived
  reached,   \* requests handed to their upstream
  ender,     \* goroutine whose signal ended the tunnel
  restarts

handlerVars == <<stage, method, cred, who, pending, answer, since, reached>>
tunnelVars  == <<up, down, done, closed, sent, bytesOut, ender>>
tableVars   == <<disk, reg, pol, reload>>
auditVars   == <<lines, ragged, diskFull, missed>>
vars == <<stage, method, cred, who, pending, answer, since, reached,
          up, down, done, closed, sent, bytesOut, ender,
          disk, reg, pol, reload,
          lines, ragged, diskFull, missed, restarts>>

Event == [decision : {"allow", "deny", "allow-upstream-error"},
          reason : {"no-identity", "quota-exceeded", "policy"},
          bytes : Nat]
NoEvent == [decision |-> "none"]

AuditEvent(decision, reason, bytes) ==
  [decision |-> decision, reason |-> reason, bytes |-> bytes]

Init ==
  /\ stage = [p \in Requests |-> "idle"]
  /\ method = [p \in Requests |-> "GET"]
  /\ cred = [p \in Requests |-> [kind |-> "none", of |-> NoAgent]]
  /\ who = [p \in Requests |-> NoAgent]
  /\ pending = [p \in Requests |-> NoEvent]
  /\ answer = [p \in Requests |-> 0]
  /\ since = [p \in Requests |-> [reg |-> 0, pol |-> 0]]
  /\ reached = {}
  /\ up = [p \in Requests |-> "off"]
  /\ down = [p \in Requests |-> "off"]
  /\ done = [p \in Requests |-> <<>>]
  /\ closed = [p \in Requests |-> {}]
  /\ sent = [p \in Requests |-> 0]
  /\ bytesOut = [p \in Requests |-> 0]
  /\ ender = [p \in Requests |-> "none"]
  /\ disk = 0 /\ reg = 0 /\ pol = 0
  /\ reload = "wait"
  /\ lines = [p \in Requests |-> <<>>]
  /\ ragged = FALSE
  /\ diskFull = FALSE
  /\ missed = {}
  /\ restarts = 0

Goto(p, s) == stage' = [stage EXCEPT ![p] = s]

(* Leave for writeAudit with this event. *)
Record(p, event) ==
  /\ pending' = [pending EXCEPT ![p] = event]
  /\ Goto(p, "record")

Answer(p, status) == answer' = [answer EXCEPT ![p] = status]

-----------------------------------------------------------------------------
(* The three checks *)

Arrive(p) ==
  /\ stage[p] = "idle"
  /\ \E input \in Inputs[p] :
       /\ method' = [method EXCEPT ![p] = input.method]
       /\ cred' = [cred EXCEPT ![p] = input.cred]
  /\ since' = [since EXCEPT ![p] = [reg |-> reg, pol |-> pol]]
  /\ Goto(p, "identity")
  /\ UNCHANGED <<who, pending, answer, reached, restarts>>
  /\ UNCHANGED tunnelVars /\ UNCHANGED tableVars /\ UNCHANGED auditVars

(* LookupByKey, or else the claims of a token that verifies: a token names *)
(* its agent whatever the registry holds.                                  *)
Identity(c) ==
  CASE c.kind = "key"   -> OwnerIn[reg][c.of]
    [] c.kind = "token" -> c.of
    [] OTHER            -> NoAgent

CheckIdentity(p) ==
  /\ stage[p] = "identity"
  /\ who' = [who EXCEPT ![p] = Identity(cred[p])]
  /\ \/ who'[p] = NoAgent /\ Record(p, AuditEvent("deny", "no-identity", 0))
     \/ who'[p] # NoAgent /\ Goto(p, "quota") /\ UNCHANGED pending
  /\ UNCHANGED <<method, cred, answer, since, reached, restarts>>
  /\ UNCHANGED tunnelVars /\ UNCHANGED tableVars /\ UNCHANGED auditVars

(* Within the limits and over an alert_only limit both go on. *)
CheckQuota(p) ==
  /\ stage[p] = "quota"
  /\ \/ Record(p, AuditEvent("deny", "quota-exceeded", 0))
     \/ Goto(p, "policy") /\ UNCHANGED pending
  /\ UNCHANGED <<method, cred, who, answer, since, reached, restarts>>
  /\ UNCHANGED tunnelVars /\ UNCHANGED tableVars /\ UNCHANGED auditVars

(* Mutant: only requests whose URL the proxy sees are evaluated. *)
CheckPolicyGetOnly(p) ==
  /\ stage[p] = "policy"
  /\ \/ /\ method[p] = "GET" /\ who[p] \notin AllowedIn[pol]
        /\ Record(p, AuditEvent("deny", "policy", 0))
     \/ /\ method[p] = "CONNECT" \/ who[p] \in AllowedIn[pol]
        /\ Goto(p, IF method[p] = "CONNECT" THEN "dial" ELSE "fetch")
        /\ UNCHANGED pending
  /\ UNCHANGED <<method, cred, who, answer, since, reached, restarts>>
  /\ UNCHANGED tunnelVars /\ UNCHANGED tableVars /\ UNCHANGED auditVars

CheckPolicy(p) ==
  /\ stage[p] = "policy"
  /\ \/ /\ who[p] \notin AllowedIn[pol]
        /\ Record(p, AuditEvent("deny", "policy", 0))
     \/ /\ who[p] \in AllowedIn[pol]
        /\ Goto(p, IF method[p] = "CONNECT" THEN "dial" ELSE "fetch")
        /\ UNCHANGED pending
  /\ UNCHANGED <<method, cred, who, answer, since, reached, restarts>>
  /\ UNCHANGED tunnelVars /\ UNCHANGED tableVars /\ UNCHANGED auditVars

(* A denial is answered once writeAudit has returned. *)
Refusal(reason) ==
  CASE reason = "no-identity"    -> 407
    [] reason = "quota-exceeded" -> 429
    [] OTHER                     -> 403

Refuse(p) ==
  /\ stage[p] = "refuse"
  /\ Answer(p, Refusal(pending[p].reason))
  /\ pending' = [pending EXCEPT ![p] = NoEvent]
  /\ Goto(p, "finished")
  /\ UNCHANGED <<method, cred, who, since, reached, restarts>>
  /\ UNCHANGED tunnelVars /\ UNCHANGED tableVars /\ UNCHANGED auditVars

-----------------------------------------------------------------------------
(* Forwarding a CONNECT *)

(* Mutant: a decision that audit.Validate does not know. *)
DialUnknownDecision(p) ==
  /\ stage[p] = "dial"
  /\ \/ /\ Goto(p, "hijack")
        /\ reached' = reached \cup {p}
        /\ UNCHANGED <<pending, answer>>
     \/ /\ "upstream" \in Faults
        /\ Answer(p, 502)
        /\ Record(p, AuditEvent("upstream-error", "policy", 0))
        /\ UNCHANGED reached
  /\ UNCHANGED <<method, cred, who, since, restarts>>
  /\ UNCHANGED tunnelVars /\ UNCHANGED tableVars /\ UNCHANGED auditVars

(* net.DialTimeout; a failure is answered first and audited after. *)
Dial(p) ==
  /\ stage[p] = "dial"
  /\ \/ /\ Goto(p, "hijack")
        /\ reached' = reached \cup {p}
        /\ UNCHANGED <<pending, answer>>
     \/ /\ "upstream" \in Faults
        /\ Answer(p, 502)
        /\ Record(p, AuditEvent("allow-upstream-error", "policy", 0))
        /\ UNCHANGED reached
  /\ UNCHANGED <<method, cred, who, since, restarts>>
  /\ UNCHANGED tunnelVars /\ UNCHANGED tableVars /\ UNCHANGED auditVars

(* Both ways hijacking can fail return without an audit event. *)
Hijack(p) ==
  /\ stage[p] = "hijack"
  /\ \/ /\ Answer(p, 200)
        /\ Goto(p, "tunnel")
        /\ up' = [up EXCEPT ![p] = "copying"]
        /\ down' = [down EXCEPT ![p] = "copying"]
        /\ UNCHANGED closed
     \/ /\ "hijack" \in Faults
        /\ \E status \in {0, 500} : Answer(p, status)
        /\ Goto(p, "finished")
        /\ closed' = [closed EXCEPT ![p] = {"upstream"}]
        /\ UNCHANGED <<up, down>>
  /\ UNCHANGED <<method, cred, who, pending, since, reached, restarts>>
  /\ UNCHANGED <<done, sent, bytesOut, ender>>
  /\ UNCHANGED tableVars /\ UNCHANGED auditVars

(* One chunk read from the agent and written to the upstream. *)
CopyUp(p) ==
  /\ up[p] = "copying" /\ closed[p] = {}
  /\ sent[p] < MaxSent
  /\ sent' = [sent EXCEPT ![p] = sent[p] + 1]
  /\ UNCHANGED <<up, down, done, closed, bytesOut, ender, restarts>>
  /\ UNCHANGED handlerVars /\ UNCHANGED tableVars /\ UNCHANGED auditVars

(* Mutant: an unbuffered channel needs the handler at its receive. *)
SendDoneUnbuffered(p, g) ==
  /\ stage[p] = "tunnel" /\ done[p] = <<>>
  /\ done' = [done EXCEPT ![p] = Append(done[p], g)]

SendDone(p, g) ==
  /\ Len(done[p]) < 2
  /\ done' = [done EXCEPT ![p] = Append(done[p], g)]

(* Mutant: the goroutine signals first and adds its count then. *)
UpReturnLate(p) ==
  /\ \/ /\ up[p] = "copying"
        /\ SendDone(p, "up")
        /\ closed' = [closed EXCEPT ![p] = closed[p] \cup {"upstream"}]
        /\ up' = [up EXCEPT ![p] = "ended"]
        /\ UNCHANGED bytesOut
     \/ /\ up[p] = "ended" /\ bytesOut[p] # sent[p]
        /\ bytesOut' = [bytesOut EXCEPT ![p] = sent[p]]
        /\ UNCHANGED <<up, done, closed>>
  /\ UNCHANGED <<down, sent, ender, restarts>>
  /\ UNCHANGED handlerVars /\ UNCHANGED tableVars /\ UNCHANGED auditVars

(* io.Copy returns, because a peer or this process closed; the number of   *)
(* bytes becomes visible only now.                                         *)
UpReturn(p) ==
  /\ up[p] = "copying"
  /\ up' = [up EXCEPT ![p] = "returned"]
  /\ bytesOut' = [bytesOut EXCEPT ![p] = bytesOut[p] + sent[p]]
  /\ UNCHANGED <<down, done, closed, sent, ender, restarts>>
  /\ UNCHANGED handlerVars /\ UNCHANGED tableVars /\ UNCHANGED auditVars

UpDone(p) ==
  /\ up[p] = "returned"
  /\ SendDone(p, "up")
  /\ closed' = [closed EXCEPT ![p] = closed[p] \cup {"upstream"}]
  /\ up' = [up EXCEPT ![p] = "ended"]
  /\ UNCHANGED <<down, sent, bytesOut, ender, restarts>>
  /\ UNCHANGED handlerVars /\ UNCHANGED tableVars /\ UNCHANGED auditVars

DownDone(p) ==
  /\ down[p] = "copying"
  /\ SendDone(p, "down")
  /\ closed' = [closed EXCEPT ![p] = closed[p] \cup {"client"}]
  /\ down' = [down EXCEPT ![p] = "ended"]
  /\ UNCHANGED <<up, sent, bytesOut, ender, restarts>>
  /\ UNCHANGED handlerVars /\ UNCHANGED tableVars /\ UNCHANGED auditVars

(* The handler receives the first signal and reads the counter. *)
TunnelEnds(p) ==
  /\ stage[p] = "tunnel" /\ done[p] # <<>>
  /\ done' = [done EXCEPT ![p] = Tail(done[p])]
  /\ ender' = [ender EXCEPT ![p] = Head(done[p])]
  /\ Record(p, AuditEvent("allow", "policy", bytesOut[p]))
  /\ UNCHANGED <<method, cred, who, answer, since, reached, restarts>>
  /\ UNCHANGED <<up, down, closed, sent, bytesOut>>
  /\ UNCHANGED tableVars /\ UNCHANGED auditVars

-----------------------------------------------------------------------------
(* Forwarding any other method *)

(* client.Do: an error is answered and leaves no audit event. *)
Fetch(p) ==
  /\ stage[p] = "fetch"
  /\ reached' = reached \cup {p}
  /\ \/ Goto(p, "copy") /\ UNCHANGED answer
     \/ "upstream" \in Faults /\ Answer(p, 502) /\ Goto(p, "finished")
  /\ UNCHANGED <<method, cred, who, pending, since, restarts>>
  /\ UNCHANGED tunnelVars /\ UNCHANGED tableVars /\ UNCHANGED auditVars

(* The response is copied to the client, to its end or to an error. *)
CopyResponse(p) ==
  /\ stage[p] = "copy"
  /\ Answer(p, 200)
  /\ \E n \in 0 .. 1 : Record(p, AuditEvent("allow", "policy", n))
  /\ UNCHANGED <<method, cred, who, since, reached, restarts>>
  /\ UNCHANGED tunnelVars /\ UNCHANGED tableVars /\ UNCHANGED auditVars

-----------------------------------------------------------------------------
(* The audit file *)

(* Log.Write under its mutex.  A full disk takes nothing of the line or a  *)
(* piece of it, and a piece spoils the next line that is written after it. *)
WriteLine(p) ==
  \/ /\ ~diskFull
     /\ ragged' = FALSE
     /\ \/ ~ragged /\ lines' = [lines EXCEPT ![p] = Append(lines[p], pending[p])]
           /\ UNCHANGED missed
        \/ ragged /\ missed' = missed \cup {p} /\ UNCHANGED lines
  \/ /\ diskFull
     /\ missed' = missed \cup {p}
     /\ ragged' \in {ragged, TRUE}
     /\ UNCHANGED lines

(* Mutant: the quota branch has lost its return. *)
AfterAuditFallsThrough(p) ==
  \/ /\ pending[p].decision = "deny"
     /\ Goto(p, IF pending[p].reason = "quota-exceeded" THEN "policy" ELSE "refuse")
     /\ UNCHANGED <<pending, closed>>
  \/ /\ pending[p].decision # "deny"
     /\ pending' = [pending EXCEPT ![p] = NoEvent]
     /\ closed' = [closed EXCEPT ![p] =
                     IF up[p] = "off" THEN {} ELSE {"client", "upstream"}]
     /\ Goto(p, "finished")

(* What follows writeAudit: a denial is answered, the rest return and run  *)
(* their deferred closes.                                                  *)
AfterAudit(p) ==
  \/ /\ pending[p].decision = "deny"
     /\ Goto(p, "refuse")
     /\ UNCHANGED <<pending, closed>>
  \/ /\ pending[p].decision # "deny"
     /\ pending' = [pending EXCEPT ![p] = NoEvent]
     /\ closed' = [closed EXCEPT ![p] =
                     IF up[p] = "off" THEN {} ELSE {"client", "upstream"}]
     /\ Goto(p, "finished")

(* Mutant: the handler answers a denial and then writes its event. *)
WriteAuditLate(p) ==
  /\ stage[p] = "record"
  /\ \/ /\ pending[p].decision = "deny" /\ answer[p] = 0
        /\ Answer(p, Refusal(pending[p].reason))
        /\ UNCHANGED <<stage, pending, closed, lines, missed, ragged>>
     \/ /\ pending[p].decision = "deny" => answer[p] # 0
        /\ WriteLine(p) /\ AfterAudit(p)
        /\ UNCHANGED answer
  /\ UNCHANGED <<method, cred, who, since, reached, diskFull, restarts>>
  /\ UNCHANGED <<up, down, done, sent, bytesOut, ender>>
  /\ UNCHANGED tableVars

(* Mutant: the handler retries until the event is written. *)
WriteAuditRetry(p) ==
  /\ stage[p] = "record" /\ ~diskFull
  /\ WriteLine(p)
  /\ AfterAudit(p)
  /\ UNCHANGED <<method, cred, who, answer, since, reached, diskFull, restarts>>
  /\ UNCHANGED <<up, down, done, sent, bytesOut, ender>>
  /\ UNCHANGED tableVars

(* A write error is logged and changes nothing. *)
WriteAudit(p) ==
  /\ stage[p] = "record"
  /\ WriteLine(p)
  /\ AfterAudit(p)
  /\ UNCHANGED <<method, cred, who, answer, since, reached, diskFull, restarts>>
  /\ UNCHANGED <<up, down, done, sent, bytesOut, ender>>
  /\ UNCHANGED tableVars

(* The file system runs full, and is cleaned up. *)
DiskChanges ==
  /\ "disk_full" \in Faults
  /\ diskFull' = ~diskFull
  /\ UNCHANGED <<lines, ragged, missed, restarts>>
  /\ UNCHANGED handlerVars /\ UNCHANGED tunnelVars /\ UNCHANGED tableVars

-----------------------------------------------------------------------------
(* The tables *)

(* The admin API writes new tables and sends SIGHUP. *)
Publish ==
  /\ disk < MaxVersion
  /\ disk' = disk + 1
  /\ UNCHANGED <<reg, pol, reload, restarts>>
  /\ UNCHANGED handlerVars /\ UNCHANGED tunnelVars /\ UNCHANGED auditVars

(* One table after the other, requests in between.  A reload that can meet *)
(* nothing new changes nothing and is left out.                            *)
Reload ==
  /\ \/ /\ reload = "wait" /\ (disk < MaxVersion \/ {reg, pol} # {disk})
        /\ reload' = "identity" /\ UNCHANGED <<reg, pol>>
     \/ reload = "identity" /\ reload' = "policy" /\ reg' = disk /\ UNCHANGED pol
     \/ reload = "policy" /\ reload' = "wait" /\ pol' = disk /\ UNCHANGED reg
  /\ UNCHANGED <<disk, restarts>>
  /\ UNCHANGED handlerVars /\ UNCHANGED tunnelVars /\ UNCHANGED auditVars

(* The process ends and systemd starts it again: open requests and tunnels *)
(* are gone, the tables come from the disk.                                *)
Restart ==
  /\ restarts < MaxRestarts
  /\ restarts' = restarts + 1
  /\ stage' = [p \in Requests |->
                 IF stage[p] \in {"idle", "finished"} THEN stage[p] ELSE "lost"]
  /\ pending' = [p \in Requests |-> NoEvent]
  /\ up' = [p \in Requests |-> IF up[p] = "off" THEN "off" ELSE "ended"]
  /\ down' = [p \in Requests |-> IF down[p] = "off" THEN "off" ELSE "ended"]
  /\ done' = [p \in Requests |-> <<>>]
  /\ reg' = disk /\ pol' = disk
  /\ reload' = "wait"
  /\ UNCHANGED <<method, cred, who, answer, since, reached>>
  /\ UNCHANGED <<closed, sent, bytesOut, ender>>
  /\ UNCHANGED <<disk, lines, ragged, diskFull, missed>>

-----------------------------------------------------------------------------
(* The steps of a handler that need no peer but a bounded wait: a dial     *)
(* ends after 10 s and client.Do after 30 s.                               *)
HandlerStep(p) ==
  \/ CheckIdentity(p) \/ CheckQuota(p) \/ CheckPolicy(p) \/ Refuse(p)
  \/ Dial(p) \/ Hijack(p) \/ Fetch(p)
  \/ TunnelEnds(p) \/ WriteAudit(p)

(* Copying ends when a peer decides so... *)
PeerStep(p) == CopyUp(p) \/ UpReturn(p) \/ DownDone(p) \/ CopyResponse(p)

(* ... or for certain once this process closed one of the connections. *)
CutStep(p) == closed[p] # {} /\ (UpReturn(p) \/ DownDone(p))

Next ==
  \/ \E p \in Requests : Arrive(p) \/ HandlerStep(p) \/ PeerStep(p) \/ UpDone(p)
  \/ DiskChanges \/ Publish \/ Reload \/ Restart

Spec == Init /\ [][Next]_vars

Fairness ==
  \A p \in Requests :
    WF_vars(HandlerStep(p)) /\ WF_vars(CutStep(p)) /\ WF_vars(UpDone(p))

FairSpec == Spec /\ Fairness

-----------------------------------------------------------------------------
Stages == {"idle", "identity", "quota", "policy", "dial", "hijack", "tunnel",
           "fetch", "copy", "record", "refuse", "finished", "lost"}

TypeOK ==
  /\ stage \in [Requests -> Stages]
  /\ method \in [Requests -> Methods]
  /\ cred \in [Requests -> Credentials]
  /\ who \in [Requests -> Agents \cup {NoAgent}]
  /\ pending \in [Requests -> Event \cup {NoEvent}]
  /\ answer \in [Requests -> {0, 200, 403, 407, 429, 500, 502}]
  /\ since \in [Requests -> [reg : Versions, pol : Versions]]
  /\ reached \subseteq Requests
  /\ up \in [Requests -> {"off", "copying", "returned", "ended"}]
  /\ down \in [Requests -> {"off", "copying", "ended"}]
  /\ done \in [Requests -> Seq({"up", "down"})]
  /\ closed \in [Requests -> SUBSET {"client", "upstream"}]
  /\ sent \in [Requests -> 0 .. MaxSent]
  /\ bytesOut \in [Requests -> Nat]
  /\ ender \in [Requests -> {"none", "up", "down"}]
  /\ disk \in Versions /\ reg \in Versions /\ pol \in Versions
  /\ reload \in {"wait", "identity", "policy"}
  /\ lines \in [Requests -> Seq(Event)]
  /\ ragged \in BOOLEAN /\ diskFull \in BOOLEAN
  /\ missed \subseteq Requests
  /\ restarts \in 0 .. MaxRestarts

(* The audit file never tells two stories about a request, nor a wrong     *)
(* one: at most one event, a deny only for what never went out and was     *)
(* refused for that very reason, an upstream error only for a 502, an      *)
(* allow only for what was forwarded.                                      *)
Truthful(p, e) ==
  CASE e.decision = "deny"  -> p \notin reached /\ answer[p] \in {0, Refusal(e.reason)}
    [] e.decision = "allow" -> p \in reached
    [] OTHER                -> p \notin reached /\ answer[p] = 502

AuditTellsTheTruth ==
  \A p \in Requests :
    /\ Len(lines[p]) <= 1
    /\ \A i \in DOMAIN lines[p] : Truthful(p, lines[p][i])

(* No client is told of a denial that is not in the audit file, also when  *)
(* the process dies right after the answer; only a full disk may have      *)
(* taken the event away (ServeHTTP writes the event first).                *)
DenialsOnRecord ==
  \A p \in Requests \ missed :
    answer[p] \in {403, 407, 429}
    => \E i \in DOMAIN lines[p] :
         lines[p][i].decision = "deny" /\ Refusal(lines[p][i].reason) = answer[p]

(* What is forwarded was allowed: its key belonged to that agent and the   *)
(* policy let that agent out in tables the gateway held at some moment     *)
(* since the request arrived.  A revocation that was loaded before a       *)
(* request arrived stops it, however reloads run between its checks.       *)
ForwardedIsAuthorised ==
  \A p \in reached :
    /\ \E v \in since[p].pol .. pol : who[p] \in AllowedIn[v]
    /\ cred[p].kind = "key" => \E v \in since[p].reg .. reg : OwnerIn[v][cred[p].of] = who[p]

(* A tunnel whose client closed first is accounted for to the last chunk:  *)
(* the count is visible before the signal that makes the handler read it.  *)
ClientCloseCounted ==
  \A p \in Requests :
    ender[p] = "up" => \A i \in DOMAIN lines[p] : lines[p][i].bytes = sent[p]

(* An outage of the audit file never holds a request up                    *)
(* (MVPv1.md: "Audit sink outages do not block request path").             *)
AuditNeverBlocks ==
  \A p \in Requests : (stage[p] = "record") ~> (stage[p] \in {"finished", "lost"})

(* Neither copy goroutine of a tunnel outlives its handler for good.       *)
TunnelsWindDown ==
  \A p \in Requests :
    (ender[p] # "none") ~> (up[p] \notin {"copying", "returned"} /\ down[p] # "copying")

(* "Every request has one and only one decision log event" (MVPv1.md): a   *)
(* request that is over has its event.                                     *)
EveryRequestAudited ==
  \A p \in Requests : stage[p] = "finished" => Len(lines[p]) = 1
=============================================================================
