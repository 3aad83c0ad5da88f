----------------------------- MODULE PolicyEval -----------------------------
(***************************************************************************)
(* The pure half of internal/policy: which requests a rule matches, which  *)
(* rule decides, which pairs of rules DetectConflicts reports, and which   *)
(* names the RPZ zone of internal/dns blocks.                              *)
(*                                                                         *)
(* A DNS name is the sequence of its labels from the top down, so that     *)
(* "ends in .example.com" is IsPrefix; caps says whether it is spelled in  *)
(* capitals.  A pattern is [wild, name, caps]: "*.example.com" is wild,    *)
(* and "*" is wild with the empty name.  The port, the trailing dot and    *)
(* the white space a destination may carry are left out: stripPort and     *)
(* sanitizeHost drop them before anything is compared.                     *)
(***************************************************************************)
EXTENDS Naturals, Sequences, SequencesExt

CONSTANTS
  AnyAgent,  \* agent_id "*"
  NoAgent,   \* agent_id ""
  None       \* a field of the request that is empty

IsAny(p) == p.wild /\ p.name = <<>>

(* matchDomain lowers the pattern and not the host.                        *)
MatchDomain(host, p) ==
  \/ IsAny(p)
  \/ /\ ~host.caps
     /\ IF p.wild THEN IsPrefix(p.name, host.name) ELSE host.name = p.name

(* sanitizeHost, as far as the spelling goes. *)
Lower(host) == [host EXCEPT !.caps = FALSE]

MatchDomainList(host, domains) ==
  domains = {} \/ \E p \in domains : MatchDomain(host, p)

(* Conditions: the keys the code knows; an identity that has no value for  *)
(* a key meets every condition on it.                                      *)
MatchConditions(conds, ctx) ==
  \A c \in conds : c.key \in DOMAIN ctx.identity =>
    ctx.identity[c.key] \in {None, c.value}

MatchAgent(r, agent) == r.agent \in {AnyAgent, NoAgent, agent}

Matches(r, ctx) ==
  /\ MatchAgent(r, ctx.agent)
  /\ MatchDomainList(Lower(ctx.host), r.domains)
  /\ r.methods = {} \/ ctx.method \in r.methods \cup {None}
  /\ r.prefixes = {} \/ ctx.path = None \/ \E p \in r.prefixes : IsPrefix(p, ctx.path)
  /\ MatchConditions(r.conds, ctx)

Decides(r) == [action |-> r.action, id |-> r.id]

DefaultDeny == [action |-> "deny", id |-> "default-deny"]

(* EvaluateRich on a list that does not change: the first match wins.      *)
EvaluateRich(rules, ctx) ==
  LET i == SelectInSeq(rules, LAMBDA r : Matches(r, ctx)) IN
  IF i = 0 THEN DefaultDeny ELSE Decides(rules[i])

-----------------------------------------------------------------------------
(* DetectConflicts compares patterns as if each was a host of the other.   *)
AsHost(p) == [name |-> IF p.wild THEN Append(p.name, "*") ELSE p.name, caps |-> p.caps]

(* Mutant: only asks whether the later pattern lies within the earlier. *)
DomainOverlapsOneWay(a, b) ==
  IsAny(a) \/ IsAny(b) \/ a = b \/ MatchDomain(AsHost(b), a)

DomainOverlaps(a, b) ==
  \/ IsAny(a) \/ IsAny(b) \/ a = b
  \/ MatchDomain(AsHost(a), b) \/ MatchDomain(AsHost(b), a)

AgentOverlaps(a, b) == AnyAgent \in {a, b} \/ a = b

Conflicting(a, b) ==
  /\ a.action # b.action
  /\ AgentOverlaps(a.agent, b.agent)
  /\ \E p \in a.domains, q \in b.domains : DomainOverlaps(p, q)

(* The pairs reported, each as "shadowed". *)
DetectConflicts(rules) ==
  {ij \in (DOMAIN rules) \X (DOMAIN rules) :
     ij[1] < ij[2] /\ Conflicting(rules[ij[1]], rules[ij[2]])}

-----------------------------------------------------------------------------
(* Mutant: the zone has "*.evil.com" and not "evil.com". *)
ZoneNamesStarOnly(p) == IF IsAny(p) THEN {} ELSE {[wild |-> p.wild, name |-> p.name]}

(* The owner names one pattern of a deny rule adds to the zone. *)
ZoneNames(p) ==
  IF IsAny(p) THEN {}
  ELSE {[wild |-> FALSE, name |-> p.name], [wild |-> p.wild, name |-> p.name]}

GenerateRPZ(rules) ==
  UNION {ZoneNames(p) : p \in UNION {rules[i].domains :
           i \in {j \in DOMAIN rules : rules[j].action = "deny"}}}

(* What bind9 makes of the zone: a wildcard covers the names below it, and *)
(* DNS does not tell capitals apart.                                       *)
Resolves(zone, name) ==
  ~\E z \in zone : IF z.wild THEN IsStrictPrefix(z.name, name) ELSE z.name = name
=============================================================================
