---------------------------- MODULE PolicyEngine ----------------------------
(***************************************************************************)
(* policy.Engine as Go runs it.  e.rules is a slice: a backing array, and  *)
(* a length within its capacity.  Add and Remove edit the array in place   *)
(* under the lock; EvaluateRich copies the slice header under the lock and *)
(* walks the array after it has let the lock go.                           *)
(*                                                                         *)
(* Walking copies one rule after another out of the array.  A copy made    *)
(* while the rule is overwritten is a data race: here it is made in two    *)
(* halves, the fields that are matched and the id with the action, in      *)
(* either order, so that a half old and half new rule can come out.        *)
(* Writers move whole rules in one step; interleavings within a move would *)
(* add outcomes of the race and take none away.                            *)
(***************************************************************************)
EXTENDS PolicyEval, FiniteSets

CONSTANTS
  Bodies, Files, Contexts, MaxRules, Ops,  \* as in PolicyList
  Readers,    \* requests being evaluated
  Arrays,     \* bound: backing arrays alive at once
  MaxCap,     \* bound: capacity of an array
  MaxSeen,    \* bound: lists in force during one evaluation
  Unwritten   \* what an array holds where no rule was put yet

VARIABLES
  heap,    \* the backing arrays
  slice,   \* e.rules: [array, len]
  reader,  \* the evaluations
  (* history *)
  seen,    \* the lists that were in force since the evaluation began
  edited   \* evaluations during which the array was edited in place

vars == <<heap, slice, reader, seen, edited>>

List(h, s) == SubSeq(h[s.array], 1, s.len)

Current == List(heap, slice)

Published == INSTANCE PolicyList WITH rules <- Current

ASSUME PolicyEngineAssumption ==
  /\ Published!PolicyListAssumption /\ Published!ContextsAssumption
  /\ MaxCap \in Nat /\ MaxRules <= MaxCap

Halves == {"match", "verdict"}

Idle == [pc |-> "idle", array |-> CHOOSE a \in Arrays : TRUE, len |-> 0, i |-> 0,
         copied |-> [h \in {} |-> Unwritten], ctx |-> None, decision |-> None]

(* The arrays somebody has a slice of; the collector takes the others.     *)
InUse(s, rd) == {s.array} \cup {rd[r].array : r \in {q \in Readers : rd[q].pc = "loop"}}

Collected(h, s, rd) == [a \in Arrays |-> IF a \in InUse(s, rd) THEN h[a] ELSE <<>>]

(* The array s, with room to spare up to some capacity.                    *)
Roomy(s) ==
  {s \o [k \in 1 .. n - Len(s) |-> Unwritten] : n \in Len(s) .. MaxCap}

Init ==
  \E a \in Arrays, f \in Files \cup {<<>>} : \E s \in Roomy(f) :
    /\ heap = [b \in Arrays |-> IF b = a THEN s ELSE <<>>]
    /\ slice = [array |-> a, len |-> Len(f)]
    /\ reader = [r \in Readers |-> Idle]
    /\ seen = [r \in Readers |-> {}]
    /\ edited = {}

Walking == {r \in Readers : reader[r].pc = "loop"}

(* The engine's slice becomes the first n rules of the array a, which now  *)
(* holds s; running evaluations see that list in force.                    *)
PutIn(a, s, n) ==
  /\ slice' = [array |-> a, len |-> n]
  /\ heap' = Collected([heap EXCEPT ![a] = s], slice', reader)
  /\ seen' = [r \in Readers |->
       IF r \in Walking THEN seen[r] \cup {SubSeq(s, 1, n)} ELSE seen[r]]
  /\ \A r \in Readers : Cardinality(seen'[r]) <= MaxSeen
  /\ UNCHANGED reader

NewArray(list) ==
  \E a \in Arrays \ InUse(slice, reader) :
    \E s \in Roomy(list) : PutIn(a, s, Len(list))

(* Mutant: the file is decoded into e.rules instead of a fresh variable. *)
LoadInPlace(f) ==
  IF Len(f) <= Len(heap[slice.array])
  THEN PutIn(slice.array, f \o SubSeq(heap[slice.array], Len(f) + 1, Len(heap[slice.array])), Len(f))
  ELSE NewArray(f)

(* Unmarshal builds a new array. *)
LoadFresh(f) == NewArray(f)

Load ==
  /\ "Load" \in Ops
  /\ \E f \in Files : LoadFresh(f)
  /\ UNCHANGED edited

Found(i) == {k \in 1 .. slice.len : heap[slice.array][k].id = i}

Replace(r) ==
  \E k \in Found(r.id) : PutIn(slice.array, [heap[slice.array] EXCEPT ![k] = r], slice.len)

(* append: in place while the array has room, else in a larger copy.       *)
AppendRule(r) ==
  IF slice.len < Len(heap[slice.array])
  THEN PutIn(slice.array, [heap[slice.array] EXCEPT ![slice.len + 1] = r], slice.len + 1)
  ELSE NewArray(Append(Current, r))

Add ==
  /\ "Add" \in Ops
  /\ \E b \in Bodies :
       LET r == Published!RuleOf(b) IN
       IF Found(r.id) # {} THEN Replace(r)
       ELSE slice.len < MaxRules /\ AppendRule(r)
  /\ edited' = edited \cup Walking

(* Mutant: the last rule takes the place of the removed one. *)
ClosedBySwap(s, k) == [s EXCEPT ![k] = s[slice.len]]

(* append(rules[:k], rules[k+1:]...) moves the rules behind k up within    *)
(* the array; the last of them stays behind as well.                       *)
Closed(s, k) ==
  [j \in DOMAIN s |-> IF j \in k .. slice.len - 1 THEN s[j + 1] ELSE s[j]]

RemoveId ==
  /\ "Remove" \in Ops
  /\ \E i \in Published!Ids : \E k \in Found(i) :
       PutIn(slice.array, Closed(heap[slice.array], k), slice.len - 1)
  /\ edited' = edited \cup Walking

-----------------------------------------------------------------------------
(* rules := e.rules copies the slice header and not the rules.             *)
Header == slice

(* The read-locked part of EvaluateRich.                                   *)
Start(r) ==
  /\ reader[r].pc = "idle"
  /\ \E ctx \in Contexts :
       reader' = [reader EXCEPT ![r] =
         [Idle EXCEPT !.pc = "loop", !.array = Header.array, !.len = Header.len, !.i = 1, !.ctx = ctx]]
  /\ seen' = [seen EXCEPT ![r] = {Current}]
  /\ UNCHANGED <<heap, slice, edited>>

(* Half of the rule at i is copied into the loop variable.                 *)
Copy(r) ==
  LET me == reader[r] IN
  /\ me.pc = "loop" /\ me.i <= me.len
  /\ \E h \in Halves \ DOMAIN me.copied :
       reader' = [reader EXCEPT ![r].copied =
         [g \in DOMAIN me.copied \cup {h} |->
            IF g = h THEN heap[me.array][me.i] ELSE me.copied[g]]]
  /\ UNCHANGED <<heap, slice, seen, edited>>

(* The evaluation lets go of the array. *)
Decide(r, d) ==
  /\ reader' = [reader EXCEPT ![r] =
       [Idle EXCEPT !.pc = "done", !.ctx = reader[r].ctx, !.decision = d]]
  /\ heap' = Collected(heap, slice, reader')
  /\ UNCHANGED <<slice, seen, edited>>

(* The rule copied decides, or the loop goes on.                           *)
Test(r) ==
  LET me == reader[r] IN
  /\ me.pc = "loop" /\ DOMAIN me.copied = Halves
  /\ IF Matches(me.copied["match"], me.ctx)
     THEN Decide(r, Decides(me.copied["verdict"]))
     ELSE /\ reader' = [reader EXCEPT ![r] = [me EXCEPT !.i = me.i + 1, !.copied = Idle.copied]]
          /\ UNCHANGED <<heap, slice, seen, edited>>

NoMatch(r) ==
  /\ reader[r].pc = "loop" /\ reader[r].i > reader[r].len
  /\ Decide(r, DefaultDeny)

Return(r) ==
  /\ reader[r].pc = "done"
  /\ reader' = [reader EXCEPT ![r] = Idle]
  /\ seen' = [seen EXCEPT ![r] = {}]
  /\ edited' = edited \ {r}
  /\ UNCHANGED <<heap, slice>>

Evaluate(r) == Start(r) \/ Copy(r) \/ Test(r) \/ NoMatch(r) \/ Return(r)

Next == Load \/ Add \/ RemoveId \/ \E r \in Readers : Evaluate(r)

Spec == Init /\ [][Next]_vars

-----------------------------------------------------------------------------
(* Every decision is the one some rule list gives that was in force        *)
(* between the start and the end of the evaluation: a reload in the middle *)
(* of the loop never mixes two lists ("All methods are safe for concurrent *)
(* use", engine.go:43), also when the array was edited in place before and *)
(* has room that is used again.  Evaluations that overlap an Add or a      *)
(* Remove are left out: they race with it, and the gateway calls neither.  *)
DecisionOfSomeList ==
  \A r \in Readers \ edited : reader[r].pc = "done" =>
    reader[r].decision \in {EvaluateRich(l, reader[r].ctx) : l \in seen[r]}

(* The slices in place show, to whoever holds the lock, the list that      *)
(* PolicyList describes: replacing, appending and closing a gap within an  *)
(* array that still holds old rules loses and repeats none.                *)
ListSpec == Published!Spec
=============================================================================
