----------------------------- MODULE PolicyList -----------------------------
(***************************************************************************)
(* policy.Engine as its callers see it: one list of rules that is loaded,  *)
(* added to and removed from under a lock.  PolicyEngine shows that the    *)
(* slices the code keeps the list in implement this.                       *)
(***************************************************************************)
EXTENDS PolicyEval

CONSTANTS
  Bodies,    \* the rules an administrator may POST
  Files,     \* rule lists policy.json may hold when it is loaded
  Contexts,  \* requests, in full
  MaxRules,  \* bound: rules in the list
  Ops        \* the operations in use: the admin API edits, the gateway loads

(* The rule the handler of POST /v1/policies makes of the body.            *)
RuleOf(b) == [b EXCEPT !.agent = IF @ = NoAgent THEN AnyAgent ELSE @]

(* The rules that may ever be in the list. *)
Known == {RuleOf(b) : b \in Bodies} \cup UNION {Range(f) : f \in Files}

OneRulePerId(list) == \A i, j \in DOMAIN list : list[i].id = list[j].id => i = j

IsName(n) == n \in Seq(Range(n))

IsRule(r) ==
  /\ DOMAIN r = {"id", "agent", "domains", "methods", "prefixes", "conds", "action"}
  /\ \A p \in r.domains : p \in [wild : BOOLEAN, name : {p.name}, caps : BOOLEAN] /\ IsName(p.name)

(* policy.json is what Save wrote of such a list. *)
ASSUME PolicyListAssumption ==
  /\ Ops \subseteq {"Load", "Add", "Remove"}
  /\ MaxRules \in Nat /\ AnyAgent # NoAgent
  /\ \A b \in Bodies : IsRule(b)
  /\ \A f \in Files : /\ f \in Seq(Range(f)) /\ OneRulePerId(f) /\ Len(f) <= MaxRules
                       /\ \A r \in Range(f) : IsRule(r) /\ r.agent # NoAgent
  /\ \A ctx \in Contexts : /\ ctx.host \in [name : {ctx.host.name}, caps : BOOLEAN]
                            /\ IsName(ctx.host.name)

(* Requests may come from every agent a rule names for every host that a   *)
(* pattern spells out.                                                     *)
ASSUME ContextsAssumption ==
  \A r \in Known, p \in UNION {q.domains : q \in Known} :
    \E ctx \in Contexts :
      r.agent \in {AnyAgent, ctx.agent} /\ (IsAny(p) \/ ctx.host.name = p.name)

VARIABLE rules

Ids == {b.id : b \in Bodies}

Rank(list, i) == SelectInSeq(list, LAMBDA r : r.id = i)

(* Mutant: the rule is moved to the end when it is replaced. *)
WithRuleLast(list, r) ==
  IF Rank(list, r.id) = 0 THEN Append(list, r)
  ELSE Append(RemoveAt(list, Rank(list, r.id)), r)

(* Mutant: nothing is replaced. *)
WithRuleAgain(list, r) == Append(list, r)

(* The list with the rule in the place of the one with its id, or last.    *)
WithRule(list, r) ==
  IF Rank(list, r.id) = 0 THEN Append(list, r)
  ELSE ReplaceAt(list, Rank(list, r.id), r)

WithoutRule(list, i) == RemoveAt(list, Rank(list, i))

Init == rules = <<>> \/ rules \in Files

LoadRules == "Load" \in Ops /\ rules' \in Files

AddRule ==
  /\ "Add" \in Ops
  /\ \E b \in Bodies : rules' = WithRule(rules, RuleOf(b))
  /\ Len(rules') <= MaxRules

RemoveRule ==
  /\ "Remove" \in Ops
  /\ \E i \in Ids : Rank(rules, i) # 0 /\ rules' = WithoutRule(rules, i)

Next == LoadRules \/ AddRule \/ RemoveRule

Spec == Init /\ [][Next]_rules

-----------------------------------------------------------------------------
(* A policy id names one rule of the list, so that replacing and removing  *)
(* by id reach the rule that was meant.                                    *)
TypeOK ==
  /\ rules \in Seq(Known)
  /\ OneRulePerId(rules)

(* An edit changes the decision only on requests that a rule it wrote,     *)
(* replaced or removed matches: no edit reorders the other rules, and a    *)
(* replaced rule keeps its rank ("first match wins", engine.go:12).  A     *)
(* load may bring any list.                                                *)
EditsStayLocal ==
  [][rules' \notin Files =>
       \A ctx \in Contexts :
         EvaluateRich(rules, ctx) # EvaluateRich(rules', ctx) =>
           \E r \in Range(rules) \cup Range(rules') :
             r \notin Range(rules) \cap Range(rules') /\ Matches(r, ctx)]_rules

(* The two rules match the same (agent, domain) pair (conflict.go:5).      *)
Meet(a, b) ==
  \E ctx \in Contexts : \A r \in {a, b} :
    MatchAgent(r, ctx.agent) /\ MatchDomainList(Lower(ctx.host), r.domains)

(* Of two rules that name lower-case domains and disagree, GET             *)
(* /v1/policy/conflicts reports exactly those pairs that meet on some      *)
(* agent and host, although it compares patterns and not hosts.  A rule    *)
(* without domains, which matches every host, is never reported.           *)
ConflictsExact ==
  LET Plain(r) == r.domains # {} /\ \A p \in r.domains : ~p.caps
  IN \A i, j \in DOMAIN rules :
       i < j /\ Plain(rules[i]) /\ Plain(rules[j]) /\ rules[i].action # rules[j].action =>
         (<<i, j>> \in DetectConflicts(rules) <=> Meet(rules[i], rules[j]))

(* The generated zone withholds a name exactly when some deny rule names   *)
(* it by a pattern other than "*" (rpz.go: "Only deny rules produce RPZ    *)
(* entries", "block evil.com AND *.evil.com").                             *)
ZoneFollowsDenyRules ==
  \A ctx \in Contexts :
    ~Resolves(GenerateRPZ(rules), ctx.host.name) <=>
      \E i \in DOMAIN rules : \E p \in rules[i].domains :
        rules[i].action = "deny" /\ ~IsAny(p) /\ MatchDomain(Lower(ctx.host), Lower(p))
=============================================================================
