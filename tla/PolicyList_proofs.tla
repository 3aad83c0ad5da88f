------------------------- MODULE PolicyList_proofs -------------------------
(***************************************************************************)
(* What holds of PolicyList for every rule, file, request and length.      *)
(***************************************************************************)
EXTENDS PolicyList, TLAPS, FiniteSetTheorems, SequenceTheorems

(* The least of some numbers from 1 to n, by the well-foundedness of the   *)
(* strict inclusion of the intervals up to them.                           *)
LEMMA Least ==
  ASSUME NEW n \in Nat, NEW T \in SUBSET (1 .. n), T # {}
  PROVE  Min(T) \in T /\ \A k \in T : Min(T) <= k
<1> DEFINE F == {1 .. m : m \in T}
<1>1. F \subseteq FiniteSubsetsOf(1 .. n) /\ F # {}
  <2>1. ASSUME NEW m \in T PROVE IsFiniteSet(1 .. m) /\ 1 .. m \subseteq 1 .. n
    <3>1. m \in Int /\ m <= n
      OBVIOUS
    <3> QED BY <3>1, FS_Interval
  <2> QED BY <2>1 DEF FiniteSubsetsOf
<1>2. PICK x \in F : \A y \in F : ~(<<y, x>> \in StrictSubsetOrdering(1 .. n))
  BY <1>1, FS_StrictSubsetOrderingWellFounded, WFMin
<1>3. PICK m \in T : x = 1 .. m
  OBVIOUS
<1>4. ASSUME NEW k \in T, k < m PROVE FALSE
  <2>1. <<1 .. k, x>> \in StrictSubsetOrdering(1 .. n)
    BY <1>3, <1>4 DEF StrictSubsetOrdering
  <2> QED BY <1>2, <2>1
<1>5. m \in T /\ \A k \in T : m <= k
  BY <1>4
<1> QED BY <1>5 DEF Min

-----------------------------------------------------------------------------
(* A list whose first match is known decides by it. *)
LEMMA FirstMatch ==
  ASSUME NEW l, NEW ctx, Len(l) \in Nat, NEW i \in 1 .. Len(l), Matches(l[i], ctx),
         \A k \in 1 .. i - 1 : ~Matches(l[k], ctx)
  PROVE  EvaluateRich(l, ctx) = Decides(l[i])
<1> DEFINE I == {k \in 1 .. Len(l) : Matches(l[k], ctx)}
<1>1. i \in I /\ \A k \in I : i <= k
  OBVIOUS
<1>2. Min(I) = i
  BY <1>1 DEF Min
<1>3. I # {}
  BY <1>1
<1> QED BY <1>2, <1>3 DEF EvaluateRich, SelectInSeq

LEMMA NoMatchDenies ==
  ASSUME NEW l, NEW ctx, Len(l) \in Nat, \A k \in 1 .. Len(l) : ~Matches(l[k], ctx)
  PROVE  EvaluateRich(l, ctx) = DefaultDeny
BY DEF EvaluateRich, SelectInSeq

(* A list has a first match or none. *)
LEMMA FirstOrNone ==
  ASSUME NEW l, NEW ctx, Len(l) \in Nat
  PROVE  \/ \A k \in 1 .. Len(l) : ~Matches(l[k], ctx)
         \/ \E i \in 1 .. Len(l) : /\ Matches(l[i], ctx)
                                   /\ \A k \in 1 .. i - 1 : ~Matches(l[k], ctx)
<1> DEFINE I == {k \in 1 .. Len(l) : Matches(l[k], ctx)}
<1>1. CASE I = {}
  BY <1>1
<1>2. CASE I # {}
  <2>1. Min(I) \in I /\ \A k \in I : Min(I) <= k
    BY <1>2, Least
  <2> QED BY <2>1
<1> QED BY <1>1, <1>2

LEMMA RankFacts ==
  ASSUME NEW l, NEW x, Len(l) \in Nat
  PROVE  /\ Rank(l, x) = 0 => \A k \in 1 .. Len(l) : l[k].id # x
         /\ Rank(l, x) # 0 => Rank(l, x) \in 1 .. Len(l) /\ l[Rank(l, x)].id = x
<1> DEFINE I == {k \in 1 .. Len(l) : l[k].id = x}
<1>1. Rank(l, x) = IF I # {} THEN Min(I) ELSE 0
  BY DEF Rank, SelectInSeq
<1>2. I # {} => Min(I) \in I
  BY Least
<1> QED BY <1>1, <1>2

LEMMA RankIs ==
  ASSUME NEW l, Len(l) \in Nat, DOMAIN l = 1 .. Len(l), OneRulePerId(l), NEW k \in 1 .. Len(l)
  PROVE  Rank(l, l[k].id) = k
BY RankFacts DEF OneRulePerId

-----------------------------------------------------------------------------
LEMMA Shape ==
  ASSUME NEW l \in Seq(Known)
  PROVE  Len(l) \in Nat /\ DOMAIN l = 1 .. Len(l) /\ \A k \in 1 .. Len(l) : l[k] \in Known
OBVIOUS

LEMMA FileTypes ==
  ASSUME NEW f \in Files
  PROVE  f \in Seq(Known) /\ OneRulePerId(f) /\ Len(f) <= MaxRules
<1>1. f \in Seq(Range(f)) /\ OneRulePerId(f) /\ Len(f) <= MaxRules
  BY PolicyListAssumption
<1>2. Range(f) \subseteq Known
  BY DEF Known
<1> QED BY <1>1, <1>2

(* RemoveAt spelled out. *)
LEMMA Removed ==
  ASSUME NEW l \in Seq(Known), NEW k \in 1 .. Len(l)
  PROVE  /\ RemoveAt(l, k) \in Seq(Known)
         /\ Len(RemoveAt(l, k)) = Len(l) - 1
         /\ \A j \in 1 .. Len(l) - 1 : RemoveAt(l, k)[j] = IF j < k THEN l[j] ELSE l[j + 1]
<1> DEFINE a == SubSeq(l, 1, k - 1)
           b == SubSeq(l, k + 1, Len(l))
<1>1. a \in Seq(Known) /\ Len(a) = k - 1 /\ \A j \in 1 .. k - 1 : a[j] = l[j]
  OBVIOUS
<1>2. /\ b \in Seq(Known) /\ Len(b) = Len(l) - k
      /\ \A j \in 1 .. Len(l) - k : b[j] = l[k + j]
  OBVIOUS
<1>3. RemoveAt(l, k) = a \o b
  BY DEF RemoveAt
<1> HIDE DEF a, b
<1>4. a \o b \in Seq(Known) /\ Len(a \o b) = Len(l) - 1
  <2>1. a \o b \in Seq(Known) /\ Len(a \o b) = Len(a) + Len(b)
    BY <1>1, <1>2, ConcatProperties
  <2> QED BY <1>1, <1>2, <2>1
<1>5. \A j \in 1 .. Len(l) - 1 : (a \o b)[j] = IF j < k THEN a[j] ELSE b[j - (k - 1)]
  BY <1>1, <1>2
<1>6. \A j \in 1 .. Len(l) - 1 : (a \o b)[j] = IF j < k THEN l[j] ELSE l[j + 1]
  BY <1>1, <1>2, <1>5
<1> QED BY <1>3, <1>4, <1>6

-----------------------------------------------------------------------------
LEMMA TypeInit == Init => TypeOK
<1>1. CASE Init /\ rules = <<>>
  BY <1>1 DEF TypeOK, OneRulePerId
<1>2. CASE Init /\ rules \in Files
  BY <1>2, FileTypes DEF TypeOK, Known
<1> QED BY <1>1, <1>2 DEF Init

LEMMA AddTypes ==
  ASSUME TypeOK, NEW r \in Known, rules' = WithRule(rules, r)
  PROVE  TypeOK'
<1> USE DEF TypeOK, Known, OneRulePerId
<1>1. CASE Rank(rules, r.id) = 0
  <2>1. rules' = Append(rules, r) /\ \A k \in 1 .. Len(rules) : rules[k].id # r.id
    BY <1>1, RankFacts DEF WithRule
  <2> QED BY <2>1
<1>2. CASE Rank(rules, r.id) # 0
  <2>1. PICK k \in 1 .. Len(rules) : rules[k].id = r.id /\ k = Rank(rules, r.id)
    <3>1. Len(rules) \in Nat
      OBVIOUS
    <3> QED BY <1>2, <3>1, RankFacts
  <2>2. rules' = [rules EXCEPT ![k] = r]
    BY <1>2, <2>1 DEF WithRule, ReplaceAt
  <2> QED BY <2>1, <2>2
<1> QED BY <1>1, <1>2

LEMMA RemoveTypes ==
  ASSUME TypeOK, NEW k \in 1 .. Len(rules), rules' = RemoveAt(rules, k)
  PROVE  TypeOK'
<1>1. rules \in Seq(Known) /\ OneRulePerId(rules)
  BY DEF TypeOK, Known
<1>2. OneRulePerId(RemoveAt(rules, k))
  <2> DEFINE m == RemoveAt(rules, k)
  <2>1. /\ m \in Seq(Known) /\ Len(m) = Len(rules) - 1
        /\ \A j \in 1 .. Len(rules) - 1 : m[j] = IF j < k THEN rules[j] ELSE rules[j + 1]
    BY <1>1, Removed
  <2>2. DOMAIN m = 1 .. Len(rules) - 1 /\ DOMAIN rules = 1 .. Len(rules) /\ Len(rules) \in Nat
    BY <1>1, <2>1
  <2> HIDE DEF m
  <2>3. ASSUME NEW i \in DOMAIN m, NEW j \in DOMAIN m, m[i].id = m[j].id PROVE i = j
    BY <1>1, <2>1, <2>2, <2>3 DEF OneRulePerId
  <2> QED BY <2>3 DEF OneRulePerId, m
<1> QED BY <1>1, <1>2, Removed DEF TypeOK, Known

LEMMA TypeNext == TypeOK /\ [Next]_rules => TypeOK'
<1> SUFFICES ASSUME TypeOK, [Next]_rules PROVE TypeOK'
  OBVIOUS
<1>1. CASE LoadRules
  BY <1>1, FileTypes DEF LoadRules, TypeOK, Known
<1>2. CASE AddRule
  BY <1>2, AddTypes DEF AddRule, Known
<1>3. CASE RemoveRule
  <2>1. PICK k \in 1 .. Len(rules) : rules' = RemoveAt(rules, k)
    BY <1>3, RankFacts DEF RemoveRule, WithoutRule, TypeOK
  <2> QED BY <2>1, RemoveTypes
<1>4. CASE UNCHANGED rules
  BY <1>4 DEF TypeOK, OneRulePerId
<1> QED BY <1>1, <1>2, <1>3, <1>4 DEF Next

(* A policy id names one rule of the list, whatever is posted, deleted and *)
(* loaded (engine.go, Add and Remove).                                     *)
THEOREM TypeCorrect == Spec => []TypeOK
BY TypeInit, TypeNext, PTL DEF Spec

-----------------------------------------------------------------------------
(* Lists that differ in rules that do not match decide alike. *)
LEMMA SameDecision ==
  ASSUME NEW l, NEW m, NEW ctx, Len(l) \in Nat, Len(m) = Len(l),
         \A k \in 1 .. Len(l) : l[k] = m[k] \/ (~Matches(l[k], ctx) /\ ~Matches(m[k], ctx))
  PROVE  EvaluateRich(l, ctx) = EvaluateRich(m, ctx)
<1>1. CASE \A k \in 1 .. Len(l) : ~Matches(l[k], ctx)
  BY <1>1, NoMatchDenies
<1>2. ASSUME NEW i \in 1 .. Len(l), Matches(l[i], ctx), \A k \in 1 .. i - 1 : ~Matches(l[k], ctx)
      PROVE  EvaluateRich(l, ctx) = EvaluateRich(m, ctx)
  <2>1. m[i] = l[i] /\ \A k \in 1 .. i - 1 : ~Matches(m[k], ctx)
    BY <1>2
  <2> QED BY <1>2, <2>1, FirstMatch
<1> QED BY <1>1, <1>2, FirstOrNone

LEMMA AppendedDecision ==
  ASSUME NEW l \in Seq(Known), NEW r \in Known, NEW ctx, ~Matches(r, ctx)
  PROVE  EvaluateRich(l, ctx) = EvaluateRich(Append(l, r), ctx)
<1> DEFINE m == Append(l, r)
<1>1. /\ Len(l) \in Nat /\ Len(m) = Len(l) + 1 /\ m[Len(l) + 1] = r
      /\ \A k \in 1 .. Len(l) : m[k] = l[k]
  OBVIOUS
<1> HIDE DEF m
<1>2. CASE \A k \in 1 .. Len(l) : ~Matches(l[k], ctx)
  <2>1. Len(m) \in Nat /\ \A k \in 1 .. Len(m) : ~Matches(m[k], ctx)
    BY <1>1, <1>2
  <2> QED BY <1>1, <1>2, <2>1, NoMatchDenies DEF m
<1>3. ASSUME NEW i \in 1 .. Len(l), Matches(l[i], ctx), \A k \in 1 .. i - 1 : ~Matches(l[k], ctx)
      PROVE  EvaluateRich(l, ctx) = EvaluateRich(m, ctx)
  <2>1. /\ Len(m) \in Nat /\ i \in 1 .. Len(m) /\ m[i] = l[i]
        /\ \A k \in 1 .. i - 1 : ~Matches(m[k], ctx)
    BY <1>1, <1>3
  <2> QED BY <1>1, <1>3, <2>1, FirstMatch
<1> QED BY <1>1, <1>2, <1>3, FirstOrNone DEF m

LEMMA RemovedDecision ==
  ASSUME NEW l \in Seq(Known), NEW k \in 1 .. Len(l), NEW ctx, ~Matches(l[k], ctx)
  PROVE  EvaluateRich(l, ctx) = EvaluateRich(RemoveAt(l, k), ctx)
<1> DEFINE m == RemoveAt(l, k)
<1>1. /\ Len(l) \in Nat /\ Len(m) = Len(l) - 1
      /\ \A j \in 1 .. Len(l) - 1 : m[j] = IF j < k THEN l[j] ELSE l[j + 1]
  <2>1. Len(l) \in Nat
    OBVIOUS
  <2> QED BY <2>1, Removed
<1> HIDE DEF m
<1>2. CASE \A j \in 1 .. Len(l) : ~Matches(l[j], ctx)
  <2>1. Len(m) \in Nat /\ \A j \in 1 .. Len(m) : ~Matches(m[j], ctx)
    BY <1>1, <1>2
  <2> QED BY <1>1, <1>2, <2>1, NoMatchDenies DEF m
<1>3. ASSUME NEW i \in 1 .. Len(l), Matches(l[i], ctx), \A j \in 1 .. i - 1 : ~Matches(l[j], ctx)
      PROVE  EvaluateRich(l, ctx) = EvaluateRich(m, ctx)
  <2>1. PICK n \in 1 .. Len(m) : n = IF i < k THEN i ELSE i - 1
    <3>1. i # k
      BY <1>3
    <3> QED BY <1>1, <3>1
  <2>2. m[n] = l[i] /\ \A j \in 1 .. n - 1 : ~Matches(m[j], ctx)
    <3>1. i # k
      BY <1>3
    <3>2. m[n] = l[i]
      BY <1>1, <2>1, <3>1
    <3>3. ASSUME NEW j \in 1 .. n - 1 PROVE ~Matches(m[j], ctx)
      <4>1. j \in 1 .. Len(l) - 1 /\ j \in 1 .. i - 1
        BY <1>1, <2>1
      <4>2. CASE j < k
        BY <1>1, <1>3, <4>1, <4>2
      <4>3. CASE j >= k
        <5>1. m[j] = l[j + 1] /\ j + 1 \in 1 .. i - 1
          BY <1>1, <2>1, <3>1, <4>1, <4>3
        <5> QED BY <1>3, <5>1
      <4> QED BY <4>1, <4>2, <4>3
    <3> QED BY <3>2, <3>3
  <2>3. Len(m) \in Nat
    BY <1>1
  <2> QED BY <1>1, <1>3, <2>1, <2>2, <2>3, FirstMatch
<1> QED BY <1>1, <1>2, <1>3, FirstOrNone DEF m

(* What an edit wrote or removed is in one of the two lists only. *)
Local(ctx) ==
  EvaluateRich(rules, ctx) # EvaluateRich(rules', ctx) =>
    \E r \in Range(rules) \cup Range(rules') :
      r \notin Range(rules) \cap Range(rules') /\ Matches(r, ctx)

LEMMA AddIsLocal ==
  ASSUME TypeOK, NEW r \in Known, rules' = WithRule(rules, r), NEW ctx
  PROVE  Local(ctx)
<1>1. rules \in Seq(Known) /\ OneRulePerId(rules) /\ Len(rules) \in Nat
      /\ DOMAIN rules = 1 .. Len(rules)
  BY DEF TypeOK, Known
<1>2. CASE Rank(rules, r.id) = 0
  <2>1. rules' = Append(rules, r) /\ \A k \in 1 .. Len(rules) : rules[k].id # r.id
    BY <1>1, <1>2, RankFacts DEF WithRule
  <2>2. r \notin Range(rules)
    BY <1>1, <2>1 DEF Range
  <2>3. r \in Range(rules')
    <3>1. Len(rules) + 1 \in DOMAIN rules' /\ rules'[Len(rules) + 1] = r
      BY <1>1, <2>1
    <3> QED BY <3>1 DEF Range
  <2> QED BY <1>1, <2>1, <2>2, <2>3, AppendedDecision DEF Local
<1>3. CASE Rank(rules, r.id) # 0
  <2>1. PICK k \in 1 .. Len(rules) : rules[k].id = r.id /\ k = Rank(rules, r.id)
    BY <1>1, <1>3, RankFacts
  <2>2. rules' = [rules EXCEPT ![k] = r]
    BY <1>3, <2>1 DEF WithRule, ReplaceAt
  <2>3. /\ DOMAIN rules' = 1 .. Len(rules) /\ Len(rules') = Len(rules) /\ rules'[k] = r
        /\ \A j \in 1 .. Len(rules) \ {k} : rules'[j] = rules[j] /\ rules[j].id # r.id
    BY <1>1, <2>1, <2>2 DEF OneRulePerId
  <2>4. CASE rules[k] = r
    <3>1. \A j \in 1 .. Len(rules) : rules[j] = rules'[j]
      BY <2>3, <2>4
    <3> QED BY <1>1, <2>3, <3>1, SameDecision DEF Local
  <2>5. CASE rules[k] # r
    <3>1. r \notin Range(rules) /\ r \in Range(rules')
      BY <1>1, <2>3, <2>5 DEF Range
    <3>2. rules[k] \in Range(rules) /\ rules[k] \notin Range(rules')
      BY <1>1, <2>1, <2>3, <2>5 DEF Range
    <3>3. CASE Matches(r, ctx) \/ Matches(rules[k], ctx)
      BY <3>1, <3>2, <3>3 DEF Local
    <3>4. CASE ~Matches(r, ctx) /\ ~Matches(rules[k], ctx)
      <4>1. \A j \in 1 .. Len(rules) :
              rules[j] = rules'[j] \/ (~Matches(rules[j], ctx) /\ ~Matches(rules'[j], ctx))
        BY <2>3, <3>4
      <4> QED BY <1>1, <2>3, <4>1, SameDecision DEF Local
    <3> QED BY <3>3, <3>4
  <2> QED BY <2>4, <2>5
<1> QED BY <1>2, <1>3

LEMMA RemoveIsLocal ==
  ASSUME TypeOK, NEW k \in 1 .. Len(rules), rules' = RemoveAt(rules, k), NEW ctx
  PROVE  Local(ctx)
<1>1. rules \in Seq(Known) /\ OneRulePerId(rules) /\ DOMAIN rules = 1 .. Len(rules)
  BY DEF TypeOK, Known
<1>2. /\ rules' \in Seq(Known) /\ Len(rules') = Len(rules) - 1 /\ Len(rules) \in Nat
      /\ \A j \in 1 .. Len(rules) - 1 : rules'[j] = IF j < k THEN rules[j] ELSE rules[j + 1]
  <2>1. Len(rules) \in Nat
    BY <1>1
  <2> QED BY <1>1, <2>1, Removed
<1>3. DOMAIN rules' = 1 .. Len(rules) - 1
  BY <1>2
<1>4. \A j \in DOMAIN rules' : rules'[j] # rules[k]
  BY <1>1, <1>2, <1>3 DEF OneRulePerId
<1>5. rules[k] \in Range(rules) /\ rules[k] \notin Range(rules')
  BY <1>1, <1>4 DEF Range
<1> QED BY <1>1, <1>5, RemovedDecision DEF Local

(* An edit changes the decision only on requests that a rule it wrote,     *)
(* replaced or removed matches (engine.go, Add, Remove, EvaluateRich).     *)
THEOREM EditsAreLocal == Spec => EditsStayLocal
<1>1. TypeOK /\ [Next]_rules => [rules' \notin Files => \A ctx \in Contexts : Local(ctx)]_rules
  <2> SUFFICES ASSUME TypeOK, Next, rules' \notin Files, NEW ctx \in Contexts PROVE Local(ctx)
    OBVIOUS
  <2>1. CASE AddRule
    BY <2>1, AddIsLocal DEF AddRule, Known
  <2>2. CASE RemoveRule
    <3>1. PICK k \in 1 .. Len(rules) : rules' = RemoveAt(rules, k)
      BY <2>2, RankFacts DEF RemoveRule, WithoutRule, TypeOK
    <3> QED BY <3>1, RemoveIsLocal
  <2> QED BY <2>1, <2>2 DEF Next, LoadRules
<1> QED BY <1>1, TypeInit, TypeNext, PTL DEF Spec, EditsStayLocal, Local

-----------------------------------------------------------------------------
(* Patterns and hosts. *)
LEMMA PrefixIs ==
  ASSUME NEW s, NEW t, IsName(s), IsName(t)
  PROVE  /\ Len(s) \in Nat /\ Len(t) \in Nat
         /\ IsPrefix(s, t) <=> Len(s) <= Len(t) /\ \A k \in 1 .. Len(s) : s[k] = t[k]
         /\ s = t <=> Len(s) = Len(t) /\ \A k \in 1 .. Len(s) : s[k] = t[k]
<1>1. s \in Seq(Range(s) \cup Range(t)) /\ t \in Seq(Range(s) \cup Range(t))
  BY DEF IsName
<1>2. Len(s) \in Nat /\ Len(t) \in Nat
  BY <1>1
<1>3. s = t <=> Len(s) = Len(t) /\ \A k \in 1 .. Len(s) : s[k] = t[k]
  BY <1>1
<1>4. IsPrefix(s, t) <=> Len(s) <= Len(t) /\ \A k \in 1 .. Len(s) : s[k] = t[k]
  <2> DEFINE a == SubSeq(s, 1, Len(s))
             b == SubSeq(t, 1, Len(s))
  <2>1. ASSUME Len(s) <= Len(t)
        PROVE  /\ DOMAIN a = 1 .. Len(s) /\ DOMAIN b = 1 .. Len(s)
               /\ \A k \in 1 .. Len(s) : a[k] = s[k] /\ b[k] = t[k]
               /\ a \in Seq(Range(s) \cup Range(t)) /\ b \in Seq(Range(s) \cup Range(t))
               /\ Len(a) = Len(b)
    BY <1>1, <1>2, <2>1
  <2> HIDE DEF a, b
  <2>2. Len(s) <= Len(t) => (a = b <=> \A k \in 1 .. Len(s) : s[k] = t[k])
    BY <2>1
  <2> QED BY <2>2 DEF IsPrefix, a, b
<1> QED BY <1>2, <1>3, <1>4

LEMMA KnownShape ==
  ASSUME NEW r \in Known
  PROVE  /\ r.agent # NoAgent
         /\ \A p \in r.domains : /\ p \in [wild : BOOLEAN, name : {p.name}, caps : BOOLEAN]
                                 /\ IsName(p.name)
<1>1. CASE \E b \in Bodies : r = RuleOf(b)
  <2>1. PICK b \in Bodies : r = RuleOf(b)
    BY <1>1
  <2>2. IsRule(b) /\ AnyAgent # NoAgent
    BY PolicyListAssumption
  <2>3. r.domains = b.domains /\ r.agent = IF b.agent = NoAgent THEN AnyAgent ELSE b.agent
    BY <2>1, <2>2 DEF RuleOf, IsRule
  <2> QED BY <2>2, <2>3 DEF IsRule
<1>2. CASE \E f \in Files : r \in Range(f)
  BY <1>2, PolicyListAssumption DEF IsRule
<1> QED BY <1>1, <1>2 DEF Known

(* The names a pattern adds to the zone are those it matches. *)
LEMMA ZoneOfPattern ==
  ASSUME NEW p, p \in [wild : BOOLEAN, name : {p.name}, caps : BOOLEAN], IsName(p.name),
         NEW host, host \in [name : {host.name}, caps : BOOLEAN], IsName(host.name)
  PROVE  (\E z \in ZoneNames(p) :
            IF z.wild THEN IsStrictPrefix(z.name, host.name) ELSE z.name = host.name)
         <=> ~IsAny(p) /\ MatchDomain(Lower(host), Lower(p))
<1>1. /\ Lower(host).name = host.name /\ ~Lower(host).caps
      /\ Lower(p).name = p.name /\ Lower(p).wild = p.wild
  BY DEF Lower
<1>2. IsPrefix(host.name, host.name)
  BY PrefixIs
<1>3. MatchDomain(Lower(host), Lower(p))
      <=> IsAny(p) \/ (IF p.wild THEN IsPrefix(p.name, host.name) ELSE host.name = p.name)
  BY <1>1 DEF MatchDomain, IsAny
<1>4. CASE IsAny(p)
  BY <1>4 DEF ZoneNames
<1>5. CASE ~IsAny(p) /\ p.wild
  <2>1. ZoneNames(p) = {[wild |-> FALSE, name |-> p.name], [wild |-> TRUE, name |-> p.name]}
    BY <1>5 DEF ZoneNames
  <2> QED BY <1>2, <1>3, <1>5, <2>1 DEF IsStrictPrefix
<1>6. CASE ~IsAny(p) /\ ~p.wild
  <2>1. ZoneNames(p) = {[wild |-> FALSE, name |-> p.name]}
    BY <1>6 DEF ZoneNames
  <2> QED BY <1>3, <1>6, <2>1
<1> QED BY <1>4, <1>5, <1>6

(* The zone withholds a name exactly when some deny rule names it by a     *)
(* pattern other than "*", whatever rules are in the list (rpz.go,         *)
(* GenerateRPZ).                                                           *)
THEOREM ZoneIsTheDenyRules == Spec => []ZoneFollowsDenyRules
<1>1. TypeOK => ZoneFollowsDenyRules
  <2> SUFFICES ASSUME TypeOK, NEW ctx \in Contexts
               PROVE  ~Resolves(GenerateRPZ(rules), ctx.host.name) <=>
                        \E i \in DOMAIN rules : \E p \in rules[i].domains :
                          rules[i].action = "deny" /\ ~IsAny(p)
                          /\ MatchDomain(Lower(ctx.host), Lower(p))
    BY DEF ZoneFollowsDenyRules
  <2> DEFINE host == ctx.host
             Hit(z) == IF z.wild THEN IsStrictPrefix(z.name, host.name) ELSE z.name = host.name
  <2>1. host \in [name : {host.name}, caps : BOOLEAN] /\ IsName(host.name)
    BY PolicyListAssumption
  <2>2. \A i \in DOMAIN rules : rules[i] \in Known
    BY DEF TypeOK
  <2>3. \A i \in DOMAIN rules : \A p \in rules[i].domains :
          (\E z \in ZoneNames(p) : Hit(z)) <=> ~IsAny(p) /\ MatchDomain(Lower(host), Lower(p))
    BY <2>1, <2>2, KnownShape, ZoneOfPattern
  <2>4. ~Resolves(GenerateRPZ(rules), host.name) <=>
          \E i \in DOMAIN rules : \E p \in rules[i].domains :
            rules[i].action = "deny" /\ \E z \in ZoneNames(p) : Hit(z)
    BY DEF Resolves, GenerateRPZ
  <2> QED BY <2>3, <2>4
<1> QED BY <1>1, TypeInit, TypeNext, PTL DEF Spec

-----------------------------------------------------------------------------
(* Patterns of rules that meet. *)
Pattern(p) ==
  p \in [wild : BOOLEAN, name : {p.name}, caps : BOOLEAN] /\ IsName(p.name) /\ ~p.caps

(* A pattern matches a host whose name it starts, or is. *)
Covers(p, n) == IsAny(p) \/ IF p.wild THEN IsPrefix(p.name, n) ELSE n = p.name

LEMMA MatchIsCover ==
  ASSUME NEW p, NEW host, host \in [name : {host.name}, caps : BOOLEAN]
  PROVE  MatchDomain(Lower(host), p) <=> Covers(p, host.name)
BY DEF MatchDomain, Covers, Lower

(* What AsHost makes of a pattern starts with the pattern's name. *)
LEMMA AsHostName ==
  ASSUME NEW p, Pattern(p)
  PROVE  /\ AsHost(p).caps = FALSE
         /\ ~p.wild => AsHost(p).name = p.name
         /\ p.wild => /\ IsName(AsHost(p).name) /\ Len(AsHost(p).name) = Len(p.name) + 1
                      /\ \A k \in 1 .. Len(p.name) : AsHost(p).name[k] = p.name[k]
<1>1. AsHost(p).caps = FALSE /\ AsHost(p).name = IF p.wild THEN Append(p.name, "*") ELSE p.name
  BY DEF AsHost, Pattern
<1> DEFINE a == Append(p.name, "*")
<1>2. /\ a \in Seq(Range(p.name) \cup {"*"}) /\ Len(a) = Len(p.name) + 1
      /\ \A k \in 1 .. Len(p.name) : a[k] = p.name[k]
  <2>1. p.name \in Seq(Range(p.name) \cup {"*"})
    BY DEF Pattern, IsName
  <2> QED BY <2>1
<1>3. IsName(a)
  <2>1. \A k \in 1 .. Len(a) : a[k] \in Range(a)
    BY <1>2 DEF Range
  <2> HIDE DEF a
  <2> QED BY <1>2, <2>1 DEF IsName
<1> QED BY <1>1, <1>2, <1>3

(* Two patterns that match a common name overlap. *)
LEMMA MeetOverlaps ==
  ASSUME NEW p, NEW q, NEW n, Pattern(p), Pattern(q), IsName(n), Covers(p, n), Covers(q, n)
  PROVE  DomainOverlaps(p, q)
<1>1. CASE IsAny(p) \/ IsAny(q)
  BY <1>1 DEF DomainOverlaps
<1>2. CASE ~IsAny(p) /\ ~IsAny(q) /\ ~p.wild
  <2>1. n = p.name /\ AsHost(p).name = n /\ ~AsHost(p).caps
    BY <1>2, AsHostName DEF Covers
  <2> QED BY <1>2, <2>1 DEF DomainOverlaps, MatchDomain, Covers
<1>3. CASE ~IsAny(p) /\ ~IsAny(q) /\ ~q.wild
  <2>1. n = q.name /\ AsHost(q).name = n /\ ~AsHost(q).caps
    BY <1>3, AsHostName DEF Covers
  <2> QED BY <1>3, <2>1 DEF DomainOverlaps, MatchDomain, Covers
<1>4. CASE ~IsAny(p) /\ ~IsAny(q) /\ p.wild /\ q.wild
  <2>1. IsPrefix(p.name, n) /\ IsPrefix(q.name, n)
    BY <1>4 DEF Covers
  <2>2. /\ Len(p.name) \in Nat /\ Len(q.name) \in Nat /\ Len(n) \in Nat
        /\ \A k \in 1 .. Len(p.name) : p.name[k] = n[k]
        /\ \A k \in 1 .. Len(q.name) : q.name[k] = n[k]
    BY <2>1, PrefixIs DEF Pattern
  <2>3. CASE Len(p.name) <= Len(q.name)
    <3>1. IsPrefix(p.name, AsHost(q).name)
      <4>1. /\ IsName(AsHost(q).name) /\ Len(AsHost(q).name) = Len(q.name) + 1
            /\ \A k \in 1 .. Len(q.name) : AsHost(q).name[k] = q.name[k]
        BY <1>4, AsHostName
      <4>2. \A k \in 1 .. Len(p.name) : p.name[k] = AsHost(q).name[k]
        BY <2>2, <2>3, <4>1
      <4>3. Len(p.name) <= Len(AsHost(q).name)
        BY <2>2, <2>3, <4>1
      <4> QED BY <4>1, <4>2, <4>3, PrefixIs DEF Pattern
    <3> QED BY <1>4, <3>1, AsHostName DEF DomainOverlaps, MatchDomain
  <2>4. CASE Len(q.name) <= Len(p.name)
    <3>1. IsPrefix(q.name, AsHost(p).name)
      <4>1. /\ IsName(AsHost(p).name) /\ Len(AsHost(p).name) = Len(p.name) + 1
            /\ \A k \in 1 .. Len(p.name) : AsHost(p).name[k] = p.name[k]
        BY <1>4, AsHostName
      <4>2. \A k \in 1 .. Len(q.name) : q.name[k] = AsHost(p).name[k]
        BY <2>2, <2>4, <4>1
      <4>3. Len(q.name) <= Len(AsHost(p).name)
        BY <2>2, <2>4, <4>1
      <4> QED BY <4>1, <4>2, <4>3, PrefixIs DEF Pattern
    <3> QED BY <1>4, <3>1, AsHostName DEF DomainOverlaps, MatchDomain
  <2> QED BY <2>2, <2>3, <2>4
<1> QED BY <1>1, <1>2, <1>3, <1>4 DEF Pattern

LEMMA CoversItself == ASSUME NEW p, Pattern(p) PROVE Covers(p, p.name)
<1>1. IsPrefix(p.name, p.name)
  BY PrefixIs DEF Pattern
<1> QED BY <1>1 DEF Covers

(* A pattern that matches the other as a host matches a name the other does. *)
LEMMA OneWay ==
  ASSUME NEW p, NEW q, Pattern(p), Pattern(q), ~IsAny(q), MatchDomain(AsHost(p), q)
  PROVE  Covers(q, p.name) \/ Covers(p, q.name)
<1>1. Covers(q, AsHost(p).name)
  BY DEF MatchDomain, Covers
<1>2. CASE ~p.wild
  BY <1>1, <1>2, AsHostName DEF Pattern
<1>3. CASE p.wild
  <2>1. /\ IsName(AsHost(p).name) /\ Len(AsHost(p).name) = Len(p.name) + 1
        /\ \A k \in 1 .. Len(p.name) : AsHost(p).name[k] = p.name[k]
    BY <1>3, AsHostName DEF Pattern
  <2>2. IsPrefix(q.name, AsHost(p).name)
    BY <1>1, <2>1, PrefixIs DEF Covers
  <2>3. /\ Len(p.name) \in Nat /\ Len(q.name) \in Nat /\ Len(q.name) <= Len(p.name) + 1
        /\ \A k \in 1 .. Len(q.name) : q.name[k] = AsHost(p).name[k]
    BY <2>1, <2>2, PrefixIs DEF Pattern
  <2>4. CASE Len(q.name) = Len(p.name) + 1
    <3>1. IsPrefix(p.name, q.name)
      BY <2>1, <2>3, <2>4, PrefixIs DEF Pattern
    <3> QED BY <1>3, <3>1 DEF Covers
  <2>5. CASE Len(q.name) <= Len(p.name)
    <3>1. IsPrefix(q.name, p.name)
      BY <2>1, <2>3, <2>5, PrefixIs DEF Pattern
    <3>2. q.wild
      BY <1>1, <2>1, <2>3, <2>5 DEF Covers, Pattern
    <3> QED BY <3>1, <3>2 DEF Covers
  <2> QED BY <2>3, <2>4, <2>5
<1> QED BY <1>2, <1>3 DEF Pattern

(* Patterns that overlap both match the name one of them spells out.       *)
LEMMA OverlapsMeet ==
  ASSUME NEW p, NEW q, Pattern(p), Pattern(q), DomainOverlaps(p, q)
  PROVE  \E o \in {p, q} : \A n : IsAny(o) \/ n = o.name => Covers(p, n) /\ Covers(q, n)
<1>1. CASE IsAny(p)
  BY <1>1, CoversItself DEF Covers
<1>2. CASE IsAny(q)
  BY <1>2, CoversItself DEF Covers
<1>3. CASE ~IsAny(p) /\ ~IsAny(q)
  <2>1. Covers(q, p.name) \/ Covers(p, q.name)
    BY <1>3, OneWay, CoversItself DEF DomainOverlaps
  <2> QED BY <1>3, <2>1, CoversItself
<1> QED BY <1>1, <1>2, <1>3

(* Of two rules that name lower-case domains and disagree, exactly those   *)
(* pairs are reported that meet on some agent and host, although patterns  *)
(* are compared and not hosts (conflict.go, DetectConflicts).              *)
THEOREM ConflictsAreExact == Spec => []ConflictsExact
<1>1. ASSUME NEW a \in Known, NEW b \in Known, a.action # b.action, a.domains # {}, b.domains # {},
             \A p \in a.domains \cup b.domains : ~p.caps
      PROVE  Conflicting(a, b) <=> Meet(a, b)
  <2>1. /\ a.agent # NoAgent /\ b.agent # NoAgent
        /\ \A p \in a.domains \cup b.domains : Pattern(p)
    BY <1>1, KnownShape DEF Pattern
  <2>2. ASSUME Meet(a, b) PROVE Conflicting(a, b)
    <3>1. PICK ctx \in Contexts : \A r \in {a, b} :
            MatchAgent(r, ctx.agent) /\ MatchDomainList(Lower(ctx.host), r.domains)
      BY <2>2 DEF Meet
    <3>2. ctx.host \in [name : {ctx.host.name}, caps : BOOLEAN] /\ IsName(ctx.host.name)
      BY PolicyListAssumption
    <3>3. AgentOverlaps(a.agent, b.agent)
      BY <2>1, <3>1 DEF MatchAgent, AgentOverlaps
    <3>4. PICK p \in a.domains, q \in b.domains :
            Covers(p, ctx.host.name) /\ Covers(q, ctx.host.name)
      BY <1>1, <3>1, <3>2, MatchIsCover DEF MatchDomainList
    <3>5. DomainOverlaps(p, q)
      BY <2>1, <3>2, <3>4, MeetOverlaps
    <3> QED BY <1>1, <3>3, <3>5 DEF Conflicting
  <2>3. ASSUME Conflicting(a, b) PROVE Meet(a, b)
    <3>1. PICK p \in a.domains, q \in b.domains : DomainOverlaps(p, q)
      BY <2>3 DEF Conflicting
    <3>2. PICK o \in {p, q} : \A n : IsAny(o) \/ n = o.name => Covers(p, n) /\ Covers(q, n)
      BY <2>1, <3>1, OverlapsMeet
    <3>3. PICK r \in {a, b} : \A x : r.agent \in {AnyAgent, x} =>
            MatchAgent(a, x) /\ MatchAgent(b, x)
      BY <2>3 DEF Conflicting, AgentOverlaps, MatchAgent
    <3>4. PICK ctx \in Contexts :
            r.agent \in {AnyAgent, ctx.agent} /\ (IsAny(o) \/ ctx.host.name = o.name)
      BY ContextsAssumption
    <3>5. ctx.host \in [name : {ctx.host.name}, caps : BOOLEAN]
      BY PolicyListAssumption
    <3>6. \A d \in {p, q} : MatchDomain(Lower(ctx.host), d)
      BY <3>2, <3>4, <3>5, MatchIsCover
    <3> QED BY <3>1, <3>3, <3>4, <3>6 DEF Meet, MatchDomainList
  <2> QED BY <2>2, <2>3
<1>2. TypeOK => ConflictsExact
  <2>1. TypeOK => \A i \in DOMAIN rules : rules[i] \in Known
    BY DEF TypeOK
  <2> QED BY <1>1, <2>1 DEF ConflictsExact, DetectConflicts
<1> QED BY <1>2, TypeInit, TypeNext, PTL DEF Spec
=============================================================================
