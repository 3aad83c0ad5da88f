------------------------ MODULE PolicyEngine_proofs ------------------------
(***************************************************************************)
(* What holds of PolicyEngine for every rule, file, request, capacity and  *)
(* number of arrays and evaluations.                                       *)
(***************************************************************************)
EXTENDS PolicyEngine, TLAPS

Lists == INSTANCE PolicyList_proofs WITH rules <- Current

LEMMA ListAssumption == Lists!PolicyListAssumption /\ Lists!ContextsAssumption
<1>1. Lists!PolicyListAssumption
  BY PolicyEngineAssumption DEF Published!PolicyListAssumption, Lists!PolicyListAssumption,
     Published!OneRulePerId, Lists!OneRulePerId, Published!Range, Lists!Range,
     Published!IsRule, Lists!IsRule, Published!IsName, Lists!IsName
<1>2. Lists!ContextsAssumption
  BY PolicyEngineAssumption DEF Published!ContextsAssumption, Lists!ContextsAssumption,
     Published!Known, Lists!Known, Published!RuleOf, Lists!RuleOf, Published!Range, Lists!Range,
     Published!IsAny, Lists!IsAny
<1> QED BY <1>1, <1>2

(* The two modules use the same operators of PolicyEval. *)
LEMMA SameMatches ==
  ASSUME NEW c, NEW ctx
  PROVE  Lists!Matches(c, ctx) <=> Matches(c, ctx)
BY DEF Matches, MatchAgent, MatchDomainList, Lower, MatchDomain, IsAny, IsPrefix, MatchConditions,
   Lists!Matches, Lists!MatchAgent, Lists!MatchDomainList, Lists!Lower, Lists!MatchDomain,
   Lists!IsAny, Lists!IsPrefix, Lists!MatchConditions

LEMMA SameDecides ==
  ASSUME NEW l, NEW ctx
  PROVE  /\ Lists!EvaluateRich(l, ctx) = EvaluateRich(l, ctx)
         /\ \A c : Lists!Decides(c) = Decides(c)
         /\ Lists!DefaultDeny = DefaultDeny
<1> DEFINE I == {k \in 1 .. Len(l) : Matches(l[k], ctx)}
           i == IF I # {} THEN Min(I) ELSE 0
<1>1. I = {k \in 1 .. Len(l) : Lists!Matches(l[k], ctx)}
  BY SameMatches
<1>2. (\A c : Lists!Decides(c) = Decides(c)) /\ Lists!DefaultDeny = DefaultDeny
  BY DEF Decides, DefaultDeny, Lists!Decides, Lists!DefaultDeny
<1>3. EvaluateRich(l, ctx) = IF i = 0 THEN DefaultDeny ELSE Decides(l[i])
  BY DEF EvaluateRich, SelectInSeq
<1>4. Min(I) = Lists!Min(I)
  BY DEF Min, Lists!Min
<1>5. Lists!EvaluateRich(l, ctx) = IF i = 0 THEN Lists!DefaultDeny ELSE Lists!Decides(l[i])
  BY <1>1, <1>4 DEF Lists!EvaluateRich, Lists!SelectInSeq
<1> QED BY <1>2, <1>3, <1>5

Rule == Lists!Known
Cell == Rule \cup {Unwritten}
Decision == {DefaultDeny} \cup {Decides(c) : c \in Cell}

Reader ==
  [pc : {"idle", "loop", "done"}, array : Arrays, len : Nat, i : Nat,
   copied : UNION {[H -> Cell] : H \in SUBSET Halves},
   ctx : Contexts \cup {None}, decision : Decision \cup {None}]

(* The slice lies within its array, and holds rules.                       *)
Slices ==
  /\ heap \in [Arrays -> Seq(Cell)]
  /\ slice \in [array : Arrays, len : Nat]
  /\ slice.len <= Len(heap[slice.array]) /\ slice.len <= MaxRules
  /\ \A k \in 1 .. slice.len : heap[slice.array][k] \in Rule

(* An evaluation is at a rule of its slice, or has passed the last one.    *)
Walks(r) ==
  reader[r].pc = "loop" =>
    /\ reader[r].len <= Len(heap[reader[r].array])
    /\ reader[r].i \in 1 .. reader[r].len + 1
    /\ DOMAIN reader[r].copied # {} => reader[r].i <= reader[r].len

TypeInv ==
  /\ Slices
  /\ reader \in [Readers -> Reader]
  /\ seen \in [Readers -> SUBSET Seq(Rule)]
  /\ \A r \in Readers : Walks(r)

(* While nothing edits its array, an evaluation has passed rules of one    *)
(* list that was in force, none of which matched, and copies the next.     *)
Follows(r, l) ==
  /\ Len(l) = reader[r].len
  /\ \A k \in 1 .. reader[r].len : heap[reader[r].array][k] = l[k]
  /\ \A k \in 1 .. reader[r].i - 1 : ~Matches(l[k], reader[r].ctx)
  /\ \A h \in DOMAIN reader[r].copied : reader[r].copied[h] = l[reader[r].i]

Follow == \A r \in Readers \ edited : reader[r].pc = "loop" => \E l \in seen[r] : Follows(r, l)

Inv == TypeInv /\ Follow /\ DecisionOfSomeList

-----------------------------------------------------------------------------
LEMMA CurrentShape ==
  ASSUME Slices
  PROVE  /\ Current \in Seq(Rule) /\ Len(Current) = slice.len /\ slice.len \in Nat
         /\ DOMAIN Current = 1 .. slice.len
         /\ \A k \in 1 .. slice.len : Current[k] = heap[slice.array][k]
BY DEF Slices, Current, List

LEMMA RoomyShape ==
  ASSUME NEW l \in Seq(Rule), NEW s \in Roomy(l)
  PROVE  /\ s \in Seq(Cell) /\ Len(l) <= Len(s) /\ Len(l) \in Nat
         /\ \A k \in 1 .. Len(l) : s[k] = l[k] /\ s[k] \in Rule
<1>1. PICK n \in Len(l) .. MaxCap : s = l \o [k \in 1 .. n - Len(l) |-> Unwritten]
  BY DEF Roomy
<1>2. MaxCap \in Nat /\ Len(l) \in Nat /\ l \in Seq(Cell)
  BY PolicyEngineAssumption DEF Cell
<1>3. [k \in 1 .. n - Len(l) |-> Unwritten] \in Seq(Cell)
  BY <1>1, <1>2 DEF Cell
<1> QED BY <1>1, <1>2, <1>3

(* Putting a list in leaves the running evaluations their arrays, but for  *)
(* the one that is edited.                                                 *)
LEMMA PutInFacts ==
  ASSUME TypeInv, NEW a \in Arrays, NEW s \in Seq(Cell), NEW n \in Nat, PutIn(a, s, n)
  PROVE  /\ slice' = [array |-> a, len |-> n] /\ reader' = reader
         /\ heap' \in [Arrays -> Seq(Cell)] /\ heap'[a] = s
         /\ \A r \in Readers : reader[r].pc = "loop" /\ reader[r].array # a
              => heap'[reader[r].array] = heap[reader[r].array]
         /\ seen' = [r \in Readers |-> IF r \in Walking THEN seen[r] \cup {SubSeq(s, 1, n)} ELSE seen[r]]
BY DEF TypeInv, Slices, Reader, PutIn, Collected, InUse, Walking

(* Another array, or more lists in force, disturb no evaluation.           *)
LEMMA Undisturbed ==
  ASSUME Inv, NEW r \in Readers, reader'[r] = reader[r], seen[r] \subseteq seen'[r],
         reader[r].pc = "loop" => heap'[reader[r].array] = heap[reader[r].array],
         r \in edited => r \in edited'
  PROVE  /\ Walks(r)'
         /\ r \notin edited' /\ reader'[r].pc = "loop" => \E l \in seen'[r] : Follows(r, l)'
         /\ r \notin edited' /\ reader'[r].pc = "done"
              => reader'[r].decision \in {EvaluateRich(l, reader'[r].ctx) : l \in seen'[r]}
<1>1. Walks(r)'
  BY DEF Inv, TypeInv, Walks
<1>2. ASSUME r \notin edited', reader'[r].pc = "loop"
      PROVE  \E l \in seen'[r] : Follows(r, l)'
  <2>1. PICK l \in seen[r] : Follows(r, l)
    BY <1>2 DEF Inv, Follow
  <2>2. Follows(r, l)'
    BY <1>2, <2>1 DEF Follows
  <2> QED BY <2>2
<1>3. ASSUME r \notin edited', reader'[r].pc = "done"
      PROVE  reader'[r].decision \in {EvaluateRich(l, reader'[r].ctx) : l \in seen'[r]}
  BY <1>3 DEF Inv, DecisionOfSomeList
<1> QED BY <1>1, <1>2, <1>3

LEMMA AllUndisturbed ==
  ASSUME Inv, Slices', reader' \in [Readers -> Reader], seen' \in [Readers -> SUBSET Seq(Rule)],
         \A r \in Readers :
           /\ Walks(r)'
           /\ r \notin edited' /\ reader'[r].pc = "loop" => \E l \in seen'[r] : Follows(r, l)'
           /\ r \notin edited' /\ reader'[r].pc = "done"
                => reader'[r].decision \in {EvaluateRich(l, reader'[r].ctx) : l \in seen'[r]}
  PROVE  Inv'
BY DEF Inv, TypeInv, Follow, DecisionOfSomeList

LEMMA NewArrayKeeps ==
  ASSUME Inv, NEW l \in Seq(Rule), Len(l) <= MaxRules, NewArray(l), edited \subseteq edited'
  PROVE  Inv' /\ Current' = l
<1>1. PICK a \in Arrays \ InUse(slice, reader) : \E s \in Roomy(l) : PutIn(a, s, Len(l))
  BY DEF NewArray
<1>2. PICK s \in Roomy(l) : PutIn(a, s, Len(l))
  BY <1>1
<1>3. /\ s \in Seq(Cell) /\ Len(l) <= Len(s) /\ Len(l) \in Nat
      /\ \A k \in 1 .. Len(l) : s[k] = l[k] /\ s[k] \in Rule
  BY RoomyShape
<1>4. /\ slice' = [array |-> a, len |-> Len(l)] /\ reader' = reader
      /\ heap' \in [Arrays -> Seq(Cell)] /\ heap'[a] = s
      /\ \A r \in Readers : reader[r].pc = "loop" /\ reader[r].array # a
           => heap'[reader[r].array] = heap[reader[r].array]
      /\ seen' = [r \in Readers |->
                    IF r \in Walking THEN seen[r] \cup {SubSeq(s, 1, Len(l))} ELSE seen[r]]
  BY <1>2, <1>3, PutInFacts DEF Inv
<1>5. SubSeq(s, 1, Len(l)) = l
  BY <1>3
<1>6. Slices'
  BY <1>3, <1>4 DEF Slices
<1>7. seen' \in [Readers -> SUBSET Seq(Rule)]
  BY <1>4, <1>5 DEF Inv, TypeInv
<1>8. \A r \in Readers : reader[r].pc = "loop" => reader[r].array # a
  BY <1>1 DEF InUse
<1>9. ASSUME NEW r \in Readers
      PROVE  /\ reader'[r] = reader[r] /\ seen[r] \subseteq seen'[r]
             /\ reader[r].pc = "loop" => heap'[reader[r].array] = heap[reader[r].array]
  BY <1>4, <1>8 DEF Inv, TypeInv
<1>10. Inv'
  BY <1>4, <1>6, <1>7, <1>9, Undisturbed, AllUndisturbed DEF Inv, TypeInv
<1>11. Current' = l
  BY <1>4, <1>5 DEF Current, List
<1> QED BY <1>10, <1>11

LEMMA InPlaceKeeps ==
  ASSUME Inv, NEW s \in Seq(Cell), Len(s) = Len(heap[slice.array]),
         NEW n \in Nat, n <= Len(s), n <= MaxRules, \A k \in 1 .. n : s[k] \in Rule,
         PutIn(slice.array, s, n), edited' = edited \cup Walking
  PROVE  Inv' /\ Current' = SubSeq(s, 1, n)
<1> DEFINE a == slice.array
<1>1. a \in Arrays
  BY DEF Inv, TypeInv, Slices
<1>2. /\ slice' = [array |-> a, len |-> n] /\ reader' = reader
      /\ heap' \in [Arrays -> Seq(Cell)] /\ heap'[a] = s
      /\ \A r \in Readers : reader[r].pc = "loop" /\ reader[r].array # a
           => heap'[reader[r].array] = heap[reader[r].array]
      /\ seen' = [r \in Readers |-> IF r \in Walking THEN seen[r] \cup {SubSeq(s, 1, n)} ELSE seen[r]]
  BY <1>1, PutInFacts DEF Inv
<1>3. SubSeq(s, 1, n) \in Seq(Rule)
  OBVIOUS
<1>4. Slices'
  BY <1>1, <1>2 DEF Slices
<1>5. seen' \in [Readers -> SUBSET Seq(Rule)]
  BY <1>2, <1>3 DEF Inv, TypeInv
<1>6. ASSUME NEW r \in Readers
      PROVE  /\ Walks(r)'
             /\ r \notin edited' /\ reader'[r].pc = "loop" => \E l \in seen'[r] : Follows(r, l)'
             /\ r \notin edited' /\ reader'[r].pc = "done"
                  => reader'[r].decision \in {EvaluateRich(l, reader'[r].ctx) : l \in seen'[r]}
  <2>1. CASE reader[r].pc = "loop"
    <3>1. r \in edited'
      BY <2>1 DEF Walking
    <3>2. Len(heap'[reader[r].array]) = Len(heap[reader[r].array])
      BY <1>2, <2>1
    <3>3. Walks(r)'
      BY <1>2, <3>2 DEF Inv, TypeInv, Walks
    <3> QED BY <3>1, <3>3
  <2>2. CASE reader[r].pc # "loop"
    <3>1. seen'[r] = seen[r]
      BY <1>2, <2>2 DEF Walking
    <3> QED BY <1>2, <2>2, <3>1, Undisturbed
  <2> QED BY <2>1, <2>2
<1>7. Inv'
  BY <1>2, <1>4, <1>5, <1>6, AllUndisturbed DEF Inv, TypeInv
<1>8. Current' = SubSeq(s, 1, n)
  BY <1>2 DEF Current, List
<1> QED BY <1>7, <1>8

-----------------------------------------------------------------------------
(* Load, Add and Remove, and what they make of the list.                   *)
OneRulePerId == Lists!OneRulePerId(Current)

LEMMA PostedRule ==
  ASSUME NEW b \in Bodies
  PROVE  Published!RuleOf(b) = Lists!RuleOf(b) /\ Published!RuleOf(b) \in Rule
BY DEF Published!RuleOf, Lists!RuleOf, Rule, Lists!Known

LEMMA LoadStep ==
  ASSUME Inv, Load
  PROVE  Inv' /\ Lists!LoadRules
<1>1. PICK f \in Files : NewArray(f)
  BY DEF Load, LoadFresh
<1>2. f \in Seq(Rule) /\ Len(f) <= MaxRules
  BY ListAssumption, Lists!FileTypes DEF Rule
<1>3. Inv' /\ Current' = f
  BY <1>1, <1>2, NewArrayKeeps DEF Load
<1> QED BY <1>3 DEF Load, Lists!LoadRules

LEMMA FoundRank ==
  ASSUME Slices, OneRulePerId, NEW x
  PROVE  /\ Found(x) = {} => Lists!Rank(Current, x) = 0
         /\ \A k \in Found(x) : Lists!Rank(Current, x) = k
<1>1. /\ Len(Current) = slice.len /\ slice.len \in Nat /\ DOMAIN Current = 1 .. Len(Current)
      /\ \A k \in 1 .. slice.len : Current[k] = heap[slice.array][k]
  BY CurrentShape DEF Slices
<1>2. ASSUME NEW k \in Found(x) PROVE Lists!Rank(Current, x) = k
  <2>1. k \in 1 .. Len(Current) /\ Current[k].id = x
    BY <1>1 DEF Found
  <2> QED BY <1>1, <2>1, ListAssumption, Lists!RankIs DEF OneRulePerId
<1>3. ASSUME Found(x) = {} PROVE Lists!Rank(Current, x) = 0
  BY <1>1, <1>3, ListAssumption, Lists!RankFacts DEF Found
<1> QED BY <1>2, <1>3

LEMMA AddStep ==
  ASSUME Inv, OneRulePerId, Add
  PROVE  Inv' /\ Lists!AddRule
<1>1. PICK b \in Bodies : LET r == Published!RuleOf(b) IN
        IF Found(r.id) # {} THEN Replace(r) ELSE slice.len < MaxRules /\ AppendRule(r)
  BY DEF Add
<1>2. PICK r : r = Published!RuleOf(b)
  OBVIOUS
<1>3. r \in Rule /\ r = Lists!RuleOf(b) /\ r \in Cell
  BY <1>2, PostedRule DEF Cell
<1>4. /\ Current \in Seq(Rule) /\ Len(Current) = slice.len /\ slice.len \in Nat
      /\ DOMAIN Current = 1 .. slice.len
      /\ \A k \in 1 .. slice.len : Current[k] = heap[slice.array][k]
  BY CurrentShape DEF Inv, TypeInv
<1>5. /\ heap[slice.array] \in Seq(Cell)
      /\ slice.len <= Len(heap[slice.array]) /\ slice.len <= MaxRules
      /\ \A k \in 1 .. slice.len : heap[slice.array][k] \in Rule
  BY DEF Inv, TypeInv, Slices
<1>6. edited' = edited \cup Walking /\ "Add" \in Ops
  BY DEF Add
<1>7. ASSUME NEW k \in Found(r.id),
             PutIn(slice.array, [heap[slice.array] EXCEPT ![k] = r], slice.len)
      PROVE  Inv' /\ Lists!AddRule
  <2>1. k \in 1 .. slice.len /\ Lists!Rank(Current, r.id) = k
    BY <1>7, FoundRank DEF Found, Inv, TypeInv
  <2> DEFINE s == [heap[slice.array] EXCEPT ![k] = r]
  <2>2. /\ s \in Seq(Cell) /\ Len(s) = Len(heap[slice.array])
        /\ \A j \in 1 .. slice.len : s[j] = (IF j = k THEN r ELSE Current[j]) /\ s[j] \in Rule
    BY <1>3, <1>4, <1>5, <2>1
  <2> HIDE DEF s
  <2>3. Inv' /\ Current' = SubSeq(s, 1, slice.len)
    BY <1>4, <1>5, <1>6, <1>7, <2>2, InPlaceKeeps DEF s
  <2>4. SubSeq(s, 1, slice.len) = [Current EXCEPT ![k] = r]
    BY <1>4, <2>1, <2>2
  <2>5. Current' = Lists!WithRule(Current, r)
    BY <2>1, <2>3, <2>4 DEF Lists!WithRule, ReplaceAt, Lists!ReplaceAt
  <2>6. Len(Current') <= MaxRules
    BY <1>4, <1>5, <2>2, <2>3, <2>4
  <2> QED BY <1>3, <1>6, <2>3, <2>5, <2>6 DEF Lists!AddRule
<1>8. ASSUME Found(r.id) = {}, slice.len < Len(heap[slice.array]), slice.len < MaxRules,
             PutIn(slice.array, [heap[slice.array] EXCEPT ![slice.len + 1] = r], slice.len + 1)
      PROVE  Inv' /\ Lists!AddRule
  <2> DEFINE s == [heap[slice.array] EXCEPT ![slice.len + 1] = r]
             n == slice.len + 1
  <2>1. /\ s \in Seq(Cell) /\ Len(s) = Len(heap[slice.array])
        /\ n \in Nat /\ n <= Len(s) /\ n <= MaxRules /\ s[n] = r
        /\ \A j \in 1 .. slice.len : s[j] = Current[j]
        /\ \A j \in 1 .. n : s[j] \in Rule
    <3>1. MaxRules \in Nat
      BY ListAssumption DEF Lists!PolicyListAssumption
    <3> QED BY <1>3, <1>4, <1>5, <1>8, <3>1
  <2> HIDE DEF s
  <2>2. Inv' /\ Current' = SubSeq(s, 1, n)
    BY <1>6, <1>8, <2>1, InPlaceKeeps DEF s
  <2>3. SubSeq(s, 1, n) = Append(Current, r)
    BY <1>3, <1>4, <2>1
  <2>4. Current' = Lists!WithRule(Current, r)
    BY <1>8, <2>2, <2>3, FoundRank DEF Lists!WithRule, Inv, TypeInv
  <2>5. Len(Current') <= MaxRules
    BY <1>3, <1>4, <2>1, <2>2, <2>3
  <2> QED BY <1>3, <1>6, <2>2, <2>4, <2>5 DEF Lists!AddRule
<1>9. ASSUME Found(r.id) = {}, slice.len < MaxRules, NewArray(Append(Current, r))
      PROVE  Inv' /\ Lists!AddRule
  <2>1. Append(Current, r) \in Seq(Rule) /\ Len(Append(Current, r)) <= MaxRules
    <3>1. MaxRules \in Nat
      BY ListAssumption DEF Lists!PolicyListAssumption
    <3> QED BY <1>3, <1>4, <1>9, <3>1
  <2>2. Inv' /\ Current' = Append(Current, r)
    BY <1>6, <1>9, <2>1, NewArrayKeeps
  <2>3. Current' = Lists!WithRule(Current, r)
    BY <1>9, <2>2, FoundRank DEF Lists!WithRule, Inv, TypeInv
  <2> QED BY <1>3, <1>6, <2>1, <2>2, <2>3 DEF Lists!AddRule
<1> QED BY <1>1, <1>2, <1>7, <1>8, <1>9 DEF Replace, AppendRule

LEMMA RemoveStep ==
  ASSUME Inv, OneRulePerId, RemoveId
  PROVE  Inv' /\ Lists!RemoveRule
<1>1. PICK x \in Lists!Ids : \E k \in Found(x) :
        PutIn(slice.array, Closed(heap[slice.array], k), slice.len - 1)
  BY DEF RemoveId, Published!Ids, Lists!Ids
<1> PICK k \in Found(x) : PutIn(slice.array, Closed(heap[slice.array], k), slice.len - 1)
  BY <1>1
<1>2. edited' = edited \cup Walking /\ "Remove" \in Ops
  BY DEF RemoveId
<1>3. /\ Current \in Seq(Rule) /\ Len(Current) = slice.len /\ slice.len \in Nat
      /\ DOMAIN Current = 1 .. slice.len
      /\ \A j \in 1 .. slice.len : Current[j] = heap[slice.array][j]
  BY CurrentShape DEF Inv, TypeInv
<1>4. /\ heap[slice.array] \in Seq(Cell)
      /\ slice.len <= Len(heap[slice.array]) /\ slice.len <= MaxRules
      /\ \A j \in 1 .. slice.len : heap[slice.array][j] \in Rule
  BY DEF Inv, TypeInv, Slices
<1>5. k \in 1 .. slice.len /\ Lists!Rank(Current, x) = k
  BY <1>1, FoundRank DEF Found, Inv, TypeInv
<1>6. MaxRules \in Nat
  BY ListAssumption DEF Lists!PolicyListAssumption
<1> DEFINE s == Closed(heap[slice.array], k)
           n == slice.len - 1
<1>7. /\ s \in Seq(Cell) /\ Len(s) = Len(heap[slice.array])
      /\ \A j \in 1 .. n : s[j] = IF j < k THEN Current[j] ELSE Current[j + 1]
  <2>1. DOMAIN heap[slice.array] = 1 .. Len(heap[slice.array]) /\ Len(heap[slice.array]) \in Nat
    BY <1>4
  <2>2. s = [j \in 1 .. Len(heap[slice.array]) |->
              IF j \in k .. slice.len - 1 THEN heap[slice.array][j + 1] ELSE heap[slice.array][j]]
    BY <2>1 DEF Closed
  <2> HIDE DEF s
  <2>3. \A j \in 1 .. Len(heap[slice.array]) : s[j] \in Cell
    BY <1>3, <1>4, <1>5, <2>1, <2>2
  <2>4. s \in [1 .. Len(heap[slice.array]) -> Cell]
    BY <2>2, <2>3
  <2>5. s \in Seq(Cell) /\ Len(s) = Len(heap[slice.array])
    BY <2>1, <2>4
  <2>6. ASSUME NEW j \in 1 .. n PROVE s[j] = IF j < k THEN Current[j] ELSE Current[j + 1]
    <3>1. j \in 1 .. slice.len /\ j + 1 \in 1 .. slice.len /\ j \in 1 .. Len(heap[slice.array])
      BY <1>3, <1>4, <2>1
    <3>2. j \in k .. slice.len - 1 <=> ~(j < k)
      BY <1>3, <1>5
    <3> QED BY <1>3, <2>2, <3>1, <3>2
  <2> QED BY <2>5, <2>6
<1>8. n \in Nat /\ n <= Len(s) /\ n <= MaxRules /\ \A j \in 1 .. n : s[j] \in Rule
  BY <1>3, <1>4, <1>5, <1>6, <1>7
<1> HIDE DEF s
<1>9. Inv' /\ Current' = SubSeq(s, 1, n)
  BY <1>1, <1>2, <1>7, <1>8, InPlaceKeeps DEF s
<1>10. /\ Lists!RemoveAt(Current, k) \in Seq(Rule) /\ Len(Lists!RemoveAt(Current, k)) = n
       /\ \A j \in 1 .. n :
            Lists!RemoveAt(Current, k)[j] = IF j < k THEN Current[j] ELSE Current[j + 1]
  <2>1. Current \in Seq(Lists!Known) /\ k \in 1 .. Len(Current) /\ Len(Current) = n + 1
    BY <1>3, <1>5 DEF Rule
  <2> QED BY <1>3, <2>1, ListAssumption, Lists!Removed DEF Rule
<1>11. Current' = Lists!RemoveAt(Current, k)
  BY <1>7, <1>8, <1>9, <1>10
<1>12. Current' = Lists!WithoutRule(Current, x)
  BY <1>5, <1>11 DEF Lists!WithoutRule
<1>13. Lists!Rank(Current, x) # 0
  BY <1>3, <1>5
<1> QED BY <1>2, <1>9, <1>12, <1>13 DEF Lists!RemoveRule

-----------------------------------------------------------------------------
(* The steps of an evaluation.                                             *)
LEMMA EmptyCopy == Idle.copied \in UNION {[H -> Cell] : H \in SUBSET Halves} /\ DOMAIN Idle.copied = {}
<1>1. Idle.copied = [h \in {} |-> Unwritten]
  BY DEF Idle
<1>2. [h \in {} |-> Unwritten] \in [{} -> Cell]
  OBVIOUS
<1> QED BY <1>1, <1>2

(* A step of one evaluation is invisible to the other ones. *)
LEMMA OthersUndisturbed ==
  ASSUME Inv, NEW r \in Readers, slice' = slice, heap' = Collected(heap, slice, reader') \/ heap' = heap,
         reader' \in [Readers -> Reader], seen' \in [Readers -> SUBSET Seq(Rule)],
         edited \subseteq edited' \cup {r},
         \A q \in Readers \ {r} : reader'[q] = reader[q] /\ seen'[q] = seen[q],
         reader'[r].pc = "loop" => heap' = heap,
         Slices' /\ heap'[slice.array] = heap[slice.array] =>
           /\ Walks(r)'
           /\ r \notin edited' /\ reader'[r].pc = "loop" => \E l \in seen'[r] : Follows(r, l)'
           /\ r \notin edited' /\ reader'[r].pc = "done"
                => reader'[r].decision \in {EvaluateRich(l, reader'[r].ctx) : l \in seen'[r]}
  PROVE  Inv' /\ Current' = Current
<1>1. /\ heap' \in [Arrays -> Seq(Cell)] /\ heap'[slice.array] = heap[slice.array]
      /\ \A q \in Readers \ {r} : reader[q].pc = "loop"
           => heap'[reader[q].array] = heap[reader[q].array]
  <2>1. slice.array \in Arrays /\ heap \in [Arrays -> Seq(Cell)]
    BY DEF Inv, TypeInv, Slices
  <2>2. \A q \in Readers : reader[q].array \in Arrays
    BY DEF Inv, TypeInv, Reader
  <2>3. CASE heap' = Collected(heap, slice, reader')
    BY <2>1, <2>2, <2>3 DEF Collected, InUse
  <2>4. CASE heap' = heap
    BY <2>1, <2>4
  <2> QED BY <2>3, <2>4
<1>2. Slices'
  BY <1>1 DEF Inv, TypeInv, Slices
<1>3. \A q \in Readers \ {r} :
        /\ Walks(q)'
        /\ q \notin edited' /\ reader'[q].pc = "loop" => \E l \in seen'[q] : Follows(q, l)'
        /\ q \notin edited' /\ reader'[q].pc = "done"
             => reader'[q].decision \in {EvaluateRich(l, reader'[q].ctx) : l \in seen'[q]}
  BY <1>1, Undisturbed
<1>4. Inv'
  BY <1>1, <1>2, <1>3, AllUndisturbed
<1>5. Current' = Current
  BY <1>1 DEF Current, List
<1> QED BY <1>4, <1>5

LEMMA StartStep ==
  ASSUME Inv, NEW r \in Readers, Start(r)
  PROVE  Inv' /\ Current' = Current
<1>1. PICK ctx \in Contexts :
        reader' = [reader EXCEPT ![r] =
          [Idle EXCEPT !.pc = "loop", !.array = slice.array, !.len = slice.len, !.i = 1, !.ctx = ctx]]
  BY DEF Start, Header
<1> DEFINE me == reader'[r]
<1>2. reader \in [Readers -> Reader] /\ Slices
  BY DEF Inv, TypeInv
<1>3. me = [pc |-> "loop", array |-> slice.array, len |-> slice.len, i |-> 1,
            copied |-> Idle.copied, ctx |-> ctx, decision |-> None]
  BY <1>1, <1>2 DEF Idle
<1>4. me \in Reader
  BY <1>2, <1>3, EmptyCopy DEF Reader, Slices
<1>5. reader' \in [Readers -> Reader] /\ \A q \in Readers \ {r} : reader'[q] = reader[q]
  BY <1>1, <1>2, <1>4
<1>6. UNCHANGED <<heap, slice, edited>> /\ seen' = [seen EXCEPT ![r] = {Current}]
  BY DEF Start
<1>7. /\ Current \in Seq(Rule) /\ Len(Current) = slice.len /\ slice.len \in Nat
      /\ \A k \in 1 .. slice.len : Current[k] = heap[slice.array][k]
  BY <1>2, CurrentShape
<1>8. /\ seen' \in [Readers -> SUBSET Seq(Rule)] /\ Current \in seen'[r]
      /\ \A q \in Readers \ {r} : seen'[q] = seen[q]
  BY <1>6, <1>7 DEF Inv, TypeInv
<1> HIDE DEF me
<1>9. Walks(r)'
  BY <1>2, <1>3, <1>6, <1>7, EmptyCopy DEF Walks, Slices, me
<1>10. Follows(r, Current)'
  <2>1. /\ Len(Current') = me.len /\ me.i = 1 /\ DOMAIN me.copied = {} /\ Current' = Current
        /\ \A k \in 1 .. me.len : heap'[me.array][k] = Current'[k]
    BY <1>3, <1>6, <1>7, EmptyCopy DEF Current, List
  <2> QED BY <2>1 DEF Follows, me
<1>11. Current' = Current
  BY <1>6 DEF Current, List
<1>12. \E l \in seen'[r] : Follows(r, l)'
  BY <1>8, <1>10, <1>11
<1>13. me.pc = "loop"
  BY <1>3
<1> QED BY <1>5, <1>6, <1>8, <1>9, <1>12, <1>13, OthersUndisturbed DEF me

(* What an evaluation at a rule holds. *)
LEMMA AtRule ==
  ASSUME Inv, NEW r \in Readers, reader[r].pc = "loop"
  PROVE  /\ reader[r] \in Reader /\ reader[r].i \in Nat /\ reader[r].len \in Nat
         /\ reader[r].i \in 1 .. reader[r].len + 1
         /\ reader[r].len <= Len(heap[reader[r].array])
         /\ heap[reader[r].array] \in Seq(Cell)
         /\ reader[r].i <= reader[r].len => heap[reader[r].array][reader[r].i] \in Cell
BY DEF Inv, TypeInv, Slices, Reader, Walks

LEMMA CopyStep ==
  ASSUME Inv, NEW r \in Readers, Copy(r)
  PROVE  Inv' /\ Current' = Current
<1> DEFINE me == reader[r]
           cell == heap[me.array][me.i]
           now == reader'[r]
<1>1. me.pc = "loop" /\ me.i <= me.len /\ UNCHANGED <<heap, slice, seen, edited>>
  BY DEF Copy
<1>2. PICK h \in Halves \ DOMAIN me.copied :
        reader' = [reader EXCEPT ![r].copied =
          [g \in DOMAIN me.copied \cup {h} |-> IF g = h THEN cell ELSE me.copied[g]]]
  BY DEF Copy
<1> DEFINE half == [g \in DOMAIN me.copied \cup {h} |-> IF g = h THEN cell ELSE me.copied[g]]
<1>3. reader \in [Readers -> Reader] /\ me \in Reader
  BY DEF Inv, TypeInv
<1>4. cell \in Cell /\ me.i \in 1 .. me.len
  BY <1>1, AtRule
<1>5. half \in UNION {[H -> Cell] : H \in SUBSET Halves}
  <2>1. PICK H \in SUBSET Halves : me.copied \in [H -> Cell]
    BY <1>3 DEF Reader
  <2>2. half \in [H \cup {h} -> Cell] /\ H \cup {h} \in SUBSET Halves
    BY <1>4, <2>1
  <2> QED BY <2>2
<1> HIDE DEF half
<1>6. now = [me EXCEPT !.copied = half]
  BY <1>2, <1>3 DEF half
<1>7. /\ now \in Reader /\ now.copied = half /\ now.pc = me.pc /\ now.array = me.array
      /\ now.len = me.len /\ now.i = me.i /\ now.ctx = me.ctx
  BY <1>3, <1>5, <1>6 DEF Reader
<1>8. reader' \in [Readers -> Reader] /\ \A q \in Readers \ {r} : reader'[q] = reader[q]
  BY <1>2, <1>3, <1>7
<1>9. Walks(r)'
  BY <1>1, <1>4, <1>7 DEF Inv, TypeInv, Walks
<1>10. ASSUME r \notin edited PROVE \E l \in seen'[r] : Follows(r, l)'
  <2>1. PICK l \in seen[r] : Follows(r, l)
    BY <1>1, <1>10 DEF Inv, Follow
  <2>2. cell = l[me.i]
    BY <1>4, <2>1 DEF Follows
  <2>3. \A g \in DOMAIN half : half[g] = l[me.i]
    BY <2>1, <2>2 DEF Follows, half
  <2>4. Follows(r, l)'
    BY <1>1, <1>7, <2>1, <2>3 DEF Follows
  <2> QED BY <1>1, <2>1, <2>4
<1>11. now.pc = "loop" /\ seen' \in [Readers -> SUBSET Seq(Rule)]
  BY <1>1, <1>7 DEF Inv, TypeInv
<1> QED BY <1>1, <1>8, <1>9, <1>10, <1>11, OthersUndisturbed

(* A decision is right if it is that of a list the evaluation has followed. *)
LEMMA DecideStep ==
  ASSUME Inv, NEW r \in Readers, NEW d \in Decision, Decide(r, d), reader[r].pc = "loop",
         r \notin edited => \E l \in seen[r] : d = EvaluateRich(l, reader[r].ctx)
  PROVE  Inv' /\ Current' = Current
<1> DEFINE now == reader'[r]
<1>1. /\ reader' = [reader EXCEPT ![r] =
           [Idle EXCEPT !.pc = "done", !.ctx = reader[r].ctx, !.decision = d]]
      /\ heap' = Collected(heap, slice, reader') /\ UNCHANGED <<slice, seen, edited>>
  BY DEF Decide
<1>2. reader \in [Readers -> Reader] /\ Slices /\ seen \in [Readers -> SUBSET Seq(Rule)]
  BY DEF Inv, TypeInv
<1>3. PICK a \in Arrays : a = Idle.array
  <2>1. \E a \in Arrays : TRUE
    BY <1>2 DEF Slices
  <2> QED BY <2>1 DEF Idle
<1>4. now = [pc |-> "done", array |-> a, len |-> 0, i |-> 0, copied |-> Idle.copied,
             ctx |-> reader[r].ctx, decision |-> d]
  BY <1>1, <1>2, <1>3 DEF Idle
<1>5. reader[r].ctx \in Contexts \cup {None}
  BY <1>2 DEF Reader
<1>6. now \in Reader
  BY <1>4, <1>5, EmptyCopy DEF Reader
<1>7. reader' \in [Readers -> Reader] /\ \A q \in Readers \ {r} : reader'[q] = reader[q]
  BY <1>1, <1>2, <1>6
<1>8. now.pc = "done" /\ now.decision = d /\ now.ctx = reader[r].ctx
  BY <1>4
<1>9. Walks(r)'
  BY <1>8 DEF Walks
<1>10. r \notin edited' => now.decision \in {EvaluateRich(l, now.ctx) : l \in seen'[r]}
  BY <1>1, <1>8
<1> QED BY <1>1, <1>2, <1>7, <1>8, <1>9, <1>10, OthersUndisturbed

LEMMA TestStep ==
  ASSUME Inv, NEW r \in Readers, Test(r)
  PROVE  Inv' /\ Current' = Current
<1> DEFINE me == reader[r]
<1>1. me.pc = "loop" /\ DOMAIN me.copied = Halves
  BY DEF Test
<1>2. /\ me \in Reader /\ me.len \in Nat /\ me.i \in 1 .. me.len
      /\ reader \in [Readers -> Reader]
  <2>1. DOMAIN me.copied # {}
    BY <1>1 DEF Halves
  <2>2. me.i <= me.len
    BY <1>1, <2>1 DEF Inv, TypeInv, Walks
  <2> QED BY <1>1, <2>2, AtRule DEF Inv, TypeInv
<1>3. ASSUME NEW l \in seen[r], Follows(r, l)
      PROVE  /\ me.copied["match"] = l[me.i] /\ me.copied["verdict"] = l[me.i]
             /\ Len(l) = me.len /\ \A k \in 1 .. me.i - 1 : ~Matches(l[k], me.ctx)
  BY <1>1, <1>3 DEF Follows, Halves
<1>4. CASE Matches(me.copied["match"], me.ctx)
  <2>1. me.copied["verdict"] \in Cell
    BY <1>1, <1>2 DEF Reader, Halves
  <2>2. Decides(me.copied["verdict"]) \in Decision
    BY <2>1 DEF Decision
  <2>3. ASSUME r \notin edited
        PROVE  \E l \in seen[r] : Decides(me.copied["verdict"]) = EvaluateRich(l, me.ctx)
    <3>1. PICK l \in seen[r] : Follows(r, l)
      BY <1>1, <2>3 DEF Inv, Follow
    <3>2. /\ Len(l) \in Nat /\ me.i \in 1 .. Len(l) /\ Lists!Matches(l[me.i], me.ctx)
          /\ \A k \in 1 .. me.i - 1 : ~Lists!Matches(l[k], me.ctx)
      BY <1>2, <1>3, <1>4, <3>1, SameMatches
    <3>3. Lists!EvaluateRich(l, me.ctx) = Lists!Decides(l[me.i])
      BY <3>2, ListAssumption, Lists!FirstMatch
    <3> QED BY <1>3, <3>1, <3>3, SameDecides
  <2> QED BY <1>1, <1>4, <2>2, <2>3, DecideStep DEF Test
<1>5. CASE ~Matches(me.copied["match"], me.ctx)
  <2> DEFINE now == reader'[r]
  <2>1. /\ reader' = [reader EXCEPT ![r] = [me EXCEPT !.i = me.i + 1, !.copied = Idle.copied]]
        /\ UNCHANGED <<heap, slice, seen, edited>>
    BY <1>5 DEF Test
  <2>2. now = [me EXCEPT !.i = me.i + 1, !.copied = Idle.copied]
    BY <1>2, <2>1
  <2>3. /\ now \in Reader /\ now.copied = Idle.copied /\ now.pc = me.pc /\ now.array = me.array
        /\ now.len = me.len /\ now.i = me.i + 1 /\ now.ctx = me.ctx
    <3>1. me.i + 1 \in Nat
      BY <1>2
    <3> QED BY <1>2, <2>2, <3>1, EmptyCopy DEF Reader
  <2>4. reader' \in [Readers -> Reader] /\ \A q \in Readers \ {r} : reader'[q] = reader[q]
    BY <1>2, <2>1, <2>3
  <2>5. Walks(r)'
    BY <1>1, <1>2, <2>1, <2>3, EmptyCopy DEF Inv, TypeInv, Walks
  <2>6. ASSUME r \notin edited PROVE \E l \in seen'[r] : Follows(r, l)'
    <3>1. PICK l \in seen[r] : Follows(r, l)
      BY <1>1, <2>6 DEF Inv, Follow
    <3>2. \A k \in 1 .. now.i - 1 : ~Matches(l[k], me.ctx)
      BY <1>2, <1>3, <1>5, <2>3, <3>1
    <3>3. Follows(r, l)'
      BY <2>1, <2>3, <3>1, <3>2, EmptyCopy DEF Follows
    <3> QED BY <2>1, <3>1, <3>3
  <2>7. now.pc = "loop" /\ seen' \in [Readers -> SUBSET Seq(Rule)]
    BY <1>1, <2>1, <2>3 DEF Inv, TypeInv
  <2> QED BY <2>1, <2>4, <2>5, <2>6, <2>7, OthersUndisturbed
<1> QED BY <1>4, <1>5

LEMMA NoMatchStep ==
  ASSUME Inv, NEW r \in Readers, NoMatch(r)
  PROVE  Inv' /\ Current' = Current
<1>1. reader[r].pc = "loop" /\ reader[r].i > reader[r].len /\ Decide(r, DefaultDeny)
  BY DEF NoMatch
<1>2. reader[r].i = reader[r].len + 1 /\ reader[r].len \in Nat
  BY <1>1, AtRule
<1>3. ASSUME r \notin edited PROVE \E l \in seen[r] : DefaultDeny = EvaluateRich(l, reader[r].ctx)
  <2>1. PICK l \in seen[r] : Follows(r, l)
    BY <1>1, <1>3 DEF Inv, Follow
  <2>2. Len(l) \in Nat /\ \A k \in 1 .. Len(l) : ~Lists!Matches(l[k], reader[r].ctx)
    BY <1>2, <2>1, SameMatches DEF Follows
  <2>3. Lists!EvaluateRich(l, reader[r].ctx) = Lists!DefaultDeny
    BY <2>2, ListAssumption, Lists!NoMatchDenies
  <2> QED BY <2>1, <2>3, SameDecides
<1> QED BY <1>1, <1>3, DecideStep DEF Decision

LEMMA ReturnStep ==
  ASSUME Inv, NEW r \in Readers, Return(r)
  PROVE  Inv' /\ Current' = Current
<1>1. /\ reader' = [reader EXCEPT ![r] = Idle] /\ seen' = [seen EXCEPT ![r] = {}]
      /\ edited' = edited \ {r} /\ UNCHANGED <<heap, slice>>
  BY DEF Return
<1>2. reader \in [Readers -> Reader] /\ Slices /\ seen \in [Readers -> SUBSET Seq(Rule)]
  BY DEF Inv, TypeInv
<1>3. Idle \in Reader /\ Idle.pc = "idle"
  <2>1. \E a \in Arrays : TRUE
    BY <1>2 DEF Slices
  <2>2. PICK a \in Arrays : a = Idle.array
    BY <2>1 DEF Idle
  <2>3. Idle = [pc |-> "idle", array |-> a, len |-> 0, i |-> 0, copied |-> Idle.copied,
                ctx |-> None, decision |-> None]
    BY <2>2 DEF Idle
  <2> QED BY <2>3, EmptyCopy DEF Reader
<1>4. /\ reader' \in [Readers -> Reader] /\ seen' \in [Readers -> SUBSET Seq(Rule)]
      /\ reader'[r].pc = "idle"
      /\ \A q \in Readers \ {r} : reader'[q] = reader[q] /\ seen'[q] = seen[q]
  BY <1>1, <1>2, <1>3
<1>5. Walks(r)'
  BY <1>4 DEF Walks
<1> QED BY <1>1, <1>4, <1>5, OthersUndisturbed

-----------------------------------------------------------------------------
(* The list that is in force has one rule per id: that is PolicyList's own *)
(* invariant, which the engine's steps, being steps of it, keep.           *)
ListInv == Lists!TypeOK

LEMMA ListInvGivesIds == ListInv => OneRulePerId
BY DEF ListInv, OneRulePerId, Lists!TypeOK

LEMMA Steps ==
  ASSUME Inv, ListInv, [Next]_vars
  PROVE  Inv' /\ [Lists!Next]_Current
<1>1. OneRulePerId
  BY ListInvGivesIds
<1>2. CASE UNCHANGED vars
  BY <1>2 DEF vars, Inv, TypeInv, Slices, Walks, Follow, Follows, DecisionOfSomeList, Current, List
<1> QED
  BY <1>1, <1>2, LoadStep, AddStep, RemoveStep, StartStep, CopyStep, TestStep, NoMatchStep,
     ReturnStep DEF Next, Evaluate, Lists!Next

LEMMA Starts == Init => Inv /\ Lists!Init
<1> SUFFICES ASSUME Init PROVE Inv /\ Lists!Init
  OBVIOUS
<1>1. PICK a \in Arrays, f \in Files \cup {<<>>} : \E s \in Roomy(f) :
        /\ heap = [b \in Arrays |-> IF b = a THEN s ELSE <<>>]
        /\ slice = [array |-> a, len |-> Len(f)]
        /\ reader = [r \in Readers |-> Idle] /\ seen = [r \in Readers |-> {}] /\ edited = {}
  BY DEF Init
<1>2. PICK s \in Roomy(f) :
        /\ heap = [b \in Arrays |-> IF b = a THEN s ELSE <<>>]
        /\ slice = [array |-> a, len |-> Len(f)]
        /\ reader = [r \in Readers |-> Idle] /\ seen = [r \in Readers |-> {}] /\ edited = {}
  BY <1>1
<1>3. f \in Seq(Rule) /\ Len(f) <= MaxRules
  <2>1. CASE f = <<>>
    BY <2>1, ListAssumption DEF Lists!PolicyListAssumption
  <2>2. CASE f \in Files
    BY <2>2, ListAssumption, Lists!FileTypes DEF Rule
  <2> QED BY <2>1, <2>2
<1>4. /\ s \in Seq(Cell) /\ Len(f) <= Len(s) /\ Len(f) \in Nat
      /\ \A k \in 1 .. Len(f) : s[k] = f[k] /\ s[k] \in Rule
  BY <1>3, RoomyShape
<1>5. Slices
  BY <1>2, <1>3, <1>4 DEF Slices
<1>6. Idle \in Reader /\ Idle.pc = "idle"
  <2>1. PICK b \in Arrays : b = Idle.array
    BY DEF Idle
  <2>2. Idle = [pc |-> "idle", array |-> b, len |-> 0, i |-> 0, copied |-> Idle.copied,
                ctx |-> None, decision |-> None]
    BY <2>1 DEF Idle
  <2> QED BY <2>2, EmptyCopy DEF Reader
<1>7. Inv
  BY <1>2, <1>5, <1>6 DEF Inv, TypeInv, Walks, Follow, DecisionOfSomeList
<1>8. Current = f
  BY <1>2, <1>3, <1>4, CurrentShape, <1>5 DEF Current, List
<1> QED BY <1>7, <1>8 DEF Lists!Init

LEMMA Invariant == Spec => [](Inv /\ ListInv)
<1>1. Init => Inv /\ ListInv
  BY Starts, ListAssumption, Lists!TypeInit DEF ListInv
<1>2. Inv /\ ListInv /\ [Next]_vars => (Inv /\ ListInv)'
  BY Steps, ListAssumption, Lists!TypeNext DEF ListInv
<1> QED BY <1>1, <1>2, PTL DEF Spec

(* Every decision is that of one list which was in force while the request *)
(* was evaluated, however often the tables are reloaded in the meantime    *)
(* (engine.go, EvaluateRich and Load).                                     *)
THEOREM OneListDecides == Spec => []DecisionOfSomeList
BY Invariant, PTL DEF Inv

(* The slices implement PolicyList: editing an array in place, with room   *)
(* to spare or without, loses and repeats no rule (engine.go, Load, Add,   *)
(* Remove).                                                                *)
THEOREM ImplementsList == Spec => ListSpec
<1>1. Init => Published!Init
  BY Starts DEF Lists!Init, Published!Init
<1>2. Inv /\ ListInv /\ [Next]_vars => [Published!Next]_Current
  <2>1. Lists!Next <=> Published!Next
    BY DEF Lists!Next, Published!Next, Lists!LoadRules, Published!LoadRules, Lists!AddRule,
       Published!AddRule, Lists!RemoveRule, Published!RemoveRule, Lists!RuleOf, Published!RuleOf,
       Lists!WithRule, Published!WithRule, Lists!WithoutRule, Published!WithoutRule,
       Lists!Rank, Published!Rank, Lists!Ids, Published!Ids,
       Lists!RemoveAt, Published!RemoveAt, Lists!ReplaceAt, Published!ReplaceAt,
       Lists!SelectInSeq, Published!SelectInSeq, Lists!Min, Published!Min
  <2> QED BY <2>1, Steps
<1> QED BY <1>1, <1>2, Invariant, PTL DEF Spec, ListSpec, Published!Spec
=============================================================================
