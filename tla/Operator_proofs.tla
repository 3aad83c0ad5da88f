--------------------------- MODULE Operator_proofs ---------------------------
(***************************************************************************)
(* Proofs about Operator, for any number of shells, any commands and any   *)
(* schema that keeps its settings apart, with every interleaving and every *)
(* death of a client: candidates are trees and are what their commands     *)
(* make, sets that do not overlap are kept, the commit of a shell puts in  *)
(* force what its candidate held, a plan that is carried out alone leaves  *)
(* no file unread, the rules, the plan and the printed commands follow     *)
(* what was typed.                                                         *)
(***************************************************************************)
EXTENDS Operator, FiniteSetTheorems, SequenceTheorems, TLAPS

-----------------------------------------------------------------------------
(* Sequences *)

(* Numbers have a least one. *)
LEMMA Least ==
  ASSUME NEW n \in Nat, NEW T \in SUBSET (1 .. n), T # {}
  PROVE  \E m \in T : \A k \in T : m <= k
<1> DEFINE F == {1 .. m : m \in T}
<1>1. F \subseteq FiniteSubsetsOf(1 .. n) /\ F # {}
  <2>1. ASSUME NEW m \in T PROVE IsFiniteSet(1 .. m) /\ 1 .. m \subseteq 1 .. n
    <3>1. m \in Int /\ m <= n
      OBVIOUS
    <3> QED BY <3>1, FS_Interval
  <2> QED BY <2>1 DEF FiniteSubsetsOf
<1>2. PICK x \in F : \A y \in F : ~(<<y, x>> \in StrictSubsetOrdering(1 .. n))
  BY <1>1, FS_StrictSubsetOrderingWellFounded, WFMin
<1>3. PICK m \in T : x = 1 .. m
  OBVIOUS
<1>4. ASSUME NEW k \in T, k < m PROVE FALSE
  <2>1. <<1 .. k, x>> \in StrictSubsetOrdering(1 .. n)
    BY <1>3, <1>4 DEF StrictSubsetOrdering
  <2> QED BY <1>2, <2>1
<1> QED BY <1>4

(* Induction up to n, over a set of numbers. *)
LEMMA Climb ==
  ASSUME NEW n \in Nat, NEW T, 0 \in T, \A k \in 0 .. (n - 1) : k \in T => k + 1 \in T
  PROVE  \A k \in 0 .. n : k \in T
<1> DEFINE U == {k \in 1 .. n : k \notin T}
<1> SUFFICES ASSUME U # {} PROVE FALSE
  OBVIOUS
<1>1. PICK m \in U : \A k \in U : m <= k
  BY Least
<1>2. m - 1 \in T
  <2>1. m - 1 \in 0 .. (n - 1) /\ m - 1 \notin U
    BY <1>1
  <2> QED BY <2>1
<1> QED BY <1>1, <1>2

(* What FlattenSeq unfolds to. *)
Upto(seqs) ==
  CHOOSE f : f = [i \in 1 .. Len(seqs) |-> IF i = 1 THEN seqs[i] ELSE f[i - 1] \o seqs[i]]

LEMMA UptoIs ==
  ASSUME NEW seqs, Len(seqs) \in Nat
  PROVE  Upto(seqs) = [i \in 1 .. Len(seqs) |->
                         IF i = 1 THEN seqs[i] ELSE Upto(seqs)[i - 1] \o seqs[i]]
<1> DEFINE Sum(f, k) == f = [i \in 1 .. k |-> IF i = 1 THEN seqs[i] ELSE f[i - 1] \o seqs[i]]
           T == {k \in 0 .. Len(seqs) : \E f : Sum(f, k)}
<1>1. 0 \in T
  <2>1. Sum(<<>>, 0) /\ 0 \in 0 .. Len(seqs)
    OBVIOUS
  <2> HIDE DEF Sum
  <2> QED BY <2>1
<1>2. ASSUME NEW k \in 0 .. (Len(seqs) - 1), k \in T
      PROVE  k + 1 \in T
  <2> PICK f : Sum(f, k)
    BY <1>2
  <2> DEFINE g == [i \in 1 .. (k + 1) |->
                     IF i = k + 1 THEN IF i = 1 THEN seqs[i] ELSE f[i - 1] \o seqs[i]
                     ELSE f[i]]
  <2>1. DOMAIN f = 1 .. k /\ \A i \in 1 .. k : f[i] = IF i = 1 THEN seqs[i] ELSE f[i - 1] \o seqs[i]
    OBVIOUS
  <2>2. \A i \in 1 .. k : g[i] = f[i]
    OBVIOUS
  <2>3. \A i \in 1 .. (k + 1) : g[i] = IF i = 1 THEN seqs[i] ELSE g[i - 1] \o seqs[i]
    <3>1. ASSUME NEW i \in 1 .. k
          PROVE  g[i] = IF i = 1 THEN seqs[i] ELSE g[i - 1] \o seqs[i]
      <4>1. i # 1 => i - 1 \in 1 .. k
        OBVIOUS
      <4> HIDE DEF g
      <4> QED BY <4>1, <2>1, <2>2
    <3>2. g[k + 1] = IF k + 1 = 1 THEN seqs[k + 1] ELSE g[k] \o seqs[k + 1]
      <4>1. k # 0 => k \in 1 .. k
        OBVIOUS
      <4>2. g[k + 1] = IF k + 1 = 1 THEN seqs[k + 1] ELSE f[k] \o seqs[k + 1]
        OBVIOUS
      <4> QED BY <4>1, <4>2, <2>2
    <3>3. \A i \in 1 .. (k + 1) : i \in 1 .. k \/ i = k + 1
      OBVIOUS
    <3> HIDE DEF g
    <3> QED BY <3>1, <3>2, <3>3
  <2>4. g = [i \in 1 .. (k + 1) |-> g[i]]
    OBVIOUS
  <2> HIDE DEF g
  <2>5. g = [i \in 1 .. (k + 1) |-> IF i = 1 THEN seqs[i] ELSE g[i - 1] \o seqs[i]]
    <3>1. DOMAIN g = 1 .. (k + 1)
      BY DEF g
    <3> QED BY <2>3, <2>4, <3>1
  <2>6. Sum(g, k + 1)
    BY <2>5, Zenon
  <2>7. k + 1 \in 0 .. Len(seqs)
    OBVIOUS
  <2> HIDE DEF Sum
  <2> QED BY <2>6, <2>7
<1>3. Len(seqs) \in T
  <2>1. \A k \in 0 .. (Len(seqs) - 1) : k \in T => k + 1 \in T
    BY <1>2
  <2> HIDE DEF T
  <2>2. \A k \in 0 .. Len(seqs) : k \in T
    BY <1>1, <2>1, Climb
  <2> QED BY <2>2
<1>4. \E f : Sum(f, Len(seqs))
  BY <1>3
<1> QED BY <1>4, Zenon DEF Upto

(* What holds of sequences, and of any two of them put together, holds of  *)
(* all of them flattened.                                                  *)
LEMMA FlattenKeeps ==
  ASSUME NEW Good, <<>> \in Good, \A a, b \in Good : a \o b \in Good,
         NEW seqs \in Seq(Good)
  PROVE  FlattenSeq(seqs) \in Good
<1>1. CASE seqs = <<>>
  BY <1>1 DEF FlattenSeq
<1>2. CASE seqs # <<>>
  <2> DEFINE f == Upto(seqs)
             n == Len(seqs)
             T == {k \in 0 .. n : k # 0 => f[k] \in Good}
  <2>1. n \in Nat /\ n # 0 /\ \A i \in 1 .. n : seqs[i] \in Good
    BY <1>2
  <2>2. \A i \in 1 .. n : f[i] = IF i = 1 THEN seqs[i] ELSE f[i - 1] \o seqs[i]
    <3>1. f = [i \in 1 .. n |-> IF i = 1 THEN seqs[i] ELSE f[i - 1] \o seqs[i]]
      BY <2>1, UptoIs
    <3> HIDE DEF f, n
    <3> QED BY <3>1
  <2> HIDE DEF f
  <2>3. 0 \in T
    BY <2>1
  <2>4. ASSUME NEW k \in 0 .. (n - 1), k \in T PROVE k + 1 \in T
    <3>1. k + 1 \in 1 .. n /\ (k # 0 => k + 1 # 1 /\ (k + 1) - 1 = k /\ f[k] \in Good)
      BY <2>1, <2>4
    <3>2. f[k + 1] \in Good
      BY <2>1, <2>2, <3>1
    <3> QED BY <3>1, <3>2
  <2>5. n \in T
    <3>1. \A k \in 0 .. (n - 1) : k \in T => k + 1 \in T
      BY <2>4
    <3> HIDE DEF T, n
    <3>2. \A k \in 0 .. n : k \in T
      BY <2>1, <2>3, <3>1, Climb
    <3> QED BY <2>1, <3>2
  <2>6. f[n] \in Good
    BY <2>1, <2>5
  <2>7. FlattenSeq(seqs) = Upto(seqs)[Len(seqs)]
    BY <2>1, Zenon DEF FlattenSeq, Upto
  <2> QED BY <2>6, <2>7 DEF f
<1> QED BY <1>1, <1>2

(* A sequence that is picked from another one. *)
LEMMA AmongIn ==
  ASSUME NEW D, NEW seq \in Seq(D), NEW S
  PROVE  Among(seq, S) \in Seq(D \cap S)
<1> DEFINE parts == [i \in DOMAIN seq |-> IF seq[i] \in S THEN <<seq[i]>> ELSE <<>>]
<1>1. parts \in Seq(Seq(D \cap S))
  <2>1. DOMAIN seq = 1 .. Len(seq) /\ Len(seq) \in Nat /\ \A i \in 1 .. Len(seq) : seq[i] \in D
    OBVIOUS
  <2>2. ASSUME NEW i \in 1 .. Len(seq) PROVE parts[i] \in Seq(D \cap S)
    <3>1. CASE seq[i] \in S
      BY <2>1, <3>1
    <3>2. CASE seq[i] \notin S
      BY <2>1, <3>2
    <3> QED BY <3>1, <3>2
  <2>3. parts = [i \in 1 .. Len(seq) |-> parts[i]]
    BY <2>1
  <2> HIDE DEF parts
  <2> QED BY <2>1, <2>2, <2>3, IsASeq
<1>2. \A a, b \in Seq(D \cap S) : a \o b \in Seq(D \cap S)
  BY ConcatProperties
<1>3. FlattenSeq(parts) \in Seq(D \cap S)
  <2> HIDE DEF parts
  <2>1. <<>> \in Seq(D \cap S)
    OBVIOUS
  <2> DEFINE Good == Seq(D \cap S)
  <2>2. <<>> \in Good /\ parts \in Seq(Good) /\ \A a, b \in Good : a \o b \in Good
    BY <1>1, <1>2, <2>1
  <2> HIDE DEF Good
  <2>3. FlattenSeq(parts) \in Good
    BY <2>2, FlattenKeeps
  <2> QED BY <2>3 DEF Good
<1> QED BY <1>3 DEF Among

-----------------------------------------------------------------------------
(* What FoldLeft unfolds to: the trees after the commands of a set of      *)
(* places, in order.                                                       *)
Made(cmds) ==
  CHOOSE f : f = [s \in SUBSET (DOMAIN cmds) |->
                    IF s = {} THEN EmptyTree ELSE Entered(f[s \ {Max(s)}], cmds[Max(s)])]

LEMMA MaxIs ==
  ASSUME NEW k \in Nat, NEW s \in SUBSET (1 .. k), k \in s
  PROVE  Max(s) = k
<1>1. k \in s /\ \A y \in s : k >= y
  OBVIOUS
<1>2. Max(s) \in s /\ \A y \in s : Max(s) >= y
  BY <1>1, Zenon DEF Max
<1>3. Max(s) \in 1 .. k /\ Max(s) >= k
  BY <1>2
<1> QED BY <1>3

LEMMA MadeIs ==
  ASSUME NEW cmds, Len(cmds) \in Nat, DOMAIN cmds = 1 .. Len(cmds)
  PROVE  Made(cmds) = [s \in SUBSET (DOMAIN cmds) |->
                         IF s = {} THEN EmptyTree
                         ELSE Entered(Made(cmds)[s \ {Max(s)}], cmds[Max(s)])]
<1> DEFINE n == Len(cmds)
           Step(f, s) == IF s = {} THEN EmptyTree ELSE Entered(f[s \ {Max(s)}], cmds[Max(s)])
           Makes(f, k) == f = [s \in SUBSET (1 .. k) |-> Step(f, s)]
           T == {k \in 0 .. n : \E f : Makes(f, k)}
<1>1. 0 \in T
  <2> DEFINE f == [s \in SUBSET (1 .. 0) |-> EmptyTree]
  <2>1. \A s \in SUBSET (1 .. 0) : f[s] = Step(f, s)
    OBVIOUS
  <2> HIDE DEF Step
  <2>2. f = [s \in SUBSET (1 .. 0) |-> Step(f, s)]
    BY <2>1
  <2> HIDE DEF f
  <2>3. Makes(f, 0)
    BY <2>2
  <2>4. 0 \in 0 .. n
    OBVIOUS
  <2> HIDE DEF Makes
  <2> QED BY <2>3, <2>4
<1>2. ASSUME NEW k \in 0 .. (n - 1), k \in T
      PROVE  k + 1 \in T
  <2> PICK f : Makes(f, k)
    BY <1>2
  <2> DEFINE m == k + 1
             g == [s \in SUBSET (1 .. m) |->
                     IF m \in s THEN Entered(f[s \ {m}], cmds[m]) ELSE f[s]]
  <2>1. m \in Nat /\ m \in 0 .. n /\ 1 .. k \subseteq 1 .. m /\ \A s \in SUBSET (1 .. m) :
          /\ s \ {m} \in SUBSET (1 .. k)
          /\ m \notin s => s \in SUBSET (1 .. k)
    OBVIOUS
  <2>2. \A s \in SUBSET (1 .. k) : m \notin s /\ f[s] = Step(f, s)
    <3> HIDE DEF Step
    <3> QED OBVIOUS
  <2>3. \A s \in SUBSET (1 .. k) : s \in SUBSET (1 .. m) /\ g[s] = f[s]
    BY <2>1, <2>2
  <2>4. ASSUME NEW s \in SUBSET (1 .. m)
        PROVE  g[s] = Step(g, s)
    <3>1. CASE m \in s
      <4>1. Max(s) = m /\ s # {}
        BY <2>1, <3>1, MaxIs
      <4>2. g[s] = Entered(f[s \ {m}], cmds[m]) /\ g[s \ {m}] = f[s \ {m}]
        BY <2>1, <2>3, <3>1
      <4> HIDE DEF g, m
      <4> QED BY <4>1, <4>2
    <3>2. CASE m \notin s
      <4>1. s \in SUBSET (1 .. k)
        BY <2>1, <3>2
      <4>2. g[s] = f[s] /\ g[s \ {Max(s)}] = f[s \ {Max(s)}] /\ f[s] = Step(f, s)
        <5>1. s \ {Max(s)} \in SUBSET (1 .. k)
          BY <4>1
        <5> HIDE DEF g, Step
        <5> QED BY <2>2, <2>3, <4>1, <5>1
      <4> HIDE DEF g, m
      <4> QED BY <4>2
    <3> QED BY <3>1, <3>2
  <2> HIDE DEF Step
  <2>5. g = [s \in SUBSET (1 .. m) |-> g[s]]
    OBVIOUS
  <2>6. g = [s \in SUBSET (1 .. m) |-> Step(g, s)]
    <3> HIDE DEF g, m
    <3> QED BY <2>4, <2>5
  <2>7. Makes(g, m)
    BY <2>6, Zenon
  <2> HIDE DEF Makes, g
  <2> QED BY <2>1, <2>7
<1>3. n \in T
  <2>1. \A k \in 0 .. (n - 1) : k \in T => k + 1 \in T
    BY <1>2
  <2> HIDE DEF T
  <2>2. \A k \in 0 .. n : k \in T
    BY <1>1, <2>1, Climb
  <2> QED BY <2>2
<1>4. \E f : Makes(f, n)
  BY <1>3
<1>5. \E f : f = [s \in SUBSET (DOMAIN cmds) |->
                    IF s = {} THEN EmptyTree ELSE Entered(f[s \ {Max(s)}], cmds[Max(s)])]
  BY <1>4
<1> QED BY <1>5, Zenon DEF Made

LEMMA TreeOfIsMade ==
  ASSUME NEW cmds
  PROVE  TreeOf(cmds) = Made(cmds)[DOMAIN cmds]
BY Zenon DEF TreeOf, FoldLeft, MapThenFoldSet, Made

(* The tree of the first k commands, place by place. *)
LEMMA MadeSteps ==
  ASSUME NEW cmds, Len(cmds) \in Nat, DOMAIN cmds = 1 .. Len(cmds)
  PROVE  /\ Made(cmds)[{}] = EmptyTree
         /\ \A k \in 1 .. Len(cmds) : Made(cmds)[1 .. k] = Entered(Made(cmds)[1 .. (k - 1)], cmds[k])
<1> DEFINE f == Made(cmds)
<1>1. \A s \in SUBSET (1 .. Len(cmds)) :
        f[s] = IF s = {} THEN EmptyTree ELSE Entered(f[s \ {Max(s)}], cmds[Max(s)])
  <2>1. f = [s \in SUBSET (1 .. Len(cmds)) |->
               IF s = {} THEN EmptyTree ELSE Entered(f[s \ {Max(s)}], cmds[Max(s)])]
    BY MadeIs
  <2> HIDE DEF f
  <2> QED BY <2>1
<1> HIDE DEF f
<1>2. f[{}] = EmptyTree
  BY <1>1
<1>3. ASSUME NEW k \in 1 .. Len(cmds)
      PROVE  f[1 .. k] = Entered(f[1 .. (k - 1)], cmds[k])
  <2>1. 1 .. k \in SUBSET (1 .. Len(cmds)) /\ k \in 1 .. k
    OBVIOUS
  <2>2. (1 .. k) \ {k} = 1 .. (k - 1)
    <3>1. \A x : x \in (1 .. k) \ {k} <=> x \in 1 .. (k - 1)
      OBVIOUS
    <3> QED BY <3>1, Zenon
  <2>3. Max(1 .. k) = k
    BY MaxIs
  <2> QED BY <1>1, <2>1, <2>2, <2>3
<1> QED BY <1>2, <1>3 DEF f

LEMMA NothingTyped == TreeOf(<<>>) = EmptyTree
<1>1. Len(<<>>) = 0 /\ DOMAIN <<>> = 1 .. 0 /\ 1 .. 0 = {}
  OBVIOUS
<1> QED BY <1>1, TreeOfIsMade, MadeSteps

(* A tree is made command by command. *)
LEMMA OneMoreTyped ==
  ASSUME NEW C, NEW cmds \in Seq(C), NEW c \in C
  PROVE  TreeOf(Append(cmds, c)) = Entered(TreeOf(cmds), c)
<1> DEFINE n == Len(cmds)
           more == Append(cmds, c)
           T == {k \in 0 .. n : Made(more)[1 .. k] = Made(cmds)[1 .. k]}
<1>1. /\ n \in Nat /\ DOMAIN cmds = 1 .. n /\ DOMAIN more = 1 .. (n + 1) /\ Len(more) = n + 1
      /\ more[n + 1] = c /\ \A k \in 1 .. n : more[k] = cmds[k]
  OBVIOUS
<1> HIDE DEF more
<1>2. /\ Made(cmds)[{}] = EmptyTree /\ Made(more)[{}] = EmptyTree
      /\ \A k \in 1 .. n : Made(cmds)[1 .. k] = Entered(Made(cmds)[1 .. (k - 1)], cmds[k])
      /\ \A k \in 1 .. (n + 1) : Made(more)[1 .. k] = Entered(Made(more)[1 .. (k - 1)], more[k])
  <2>1. Len(more) \in Nat /\ DOMAIN more = 1 .. Len(more) /\ Len(cmds) \in Nat /\ DOMAIN cmds = 1 .. Len(cmds)
    BY <1>1
  <2>2. \A k \in 1 .. Len(more) : Made(more)[1 .. k] = Entered(Made(more)[1 .. (k - 1)], more[k])
    BY <2>1, MadeSteps
  <2>3. \A k \in 1 .. n : Made(cmds)[1 .. k] = Entered(Made(cmds)[1 .. (k - 1)], cmds[k])
    BY <2>1, MadeSteps
  <2>4. Made(cmds)[{}] = EmptyTree /\ Made(more)[{}] = EmptyTree
    BY <2>1, MadeSteps
  <2> QED BY <1>1, <2>2, <2>3, <2>4
<1>3. 0 \in T
  <2>1. 1 .. 0 = {} /\ 0 \in 0 .. n
    BY <1>1
  <2> QED BY <1>2, <2>1
<1>4. ASSUME NEW k \in 0 .. (n - 1), k \in T PROVE k + 1 \in T
  <2>1. k + 1 \in 1 .. n /\ k + 1 \in 1 .. (n + 1) /\ (k + 1) - 1 = k /\ k + 1 \in 0 .. n
    BY <1>1
  <2>2. Made(more)[1 .. (k + 1)] = Entered(Made(more)[1 .. k], cmds[k + 1])
    BY <1>1, <1>2, <2>1
  <2>3. Made(cmds)[1 .. (k + 1)] = Entered(Made(cmds)[1 .. k], cmds[k + 1])
    BY <1>2, <2>1
  <2> QED BY <1>4, <2>1, <2>2, <2>3
<1>5. n \in T
  <2>1. \A k \in 0 .. (n - 1) : k \in T => k + 1 \in T
    BY <1>4
  <2> HIDE DEF T
  <2>2. \A k \in 0 .. n : k \in T
    BY <1>1, <1>3, <2>1, Climb
  <2> QED BY <1>1, <2>2
<1>6. Made(more)[1 .. (n + 1)] = Entered(Made(more)[1 .. n], c)
  <2>1. n + 1 \in 1 .. (n + 1) /\ (n + 1) - 1 = n
    BY <1>1
  <2> QED BY <1>1, <1>2, <2>1
<1>7. TreeOf(more) = Made(more)[1 .. (n + 1)] /\ TreeOf(cmds) = Made(cmds)[1 .. n]
  BY <1>1, TreeOfIsMade
<1> QED BY <1>5, <1>6, <1>7 DEF more

-----------------------------------------------------------------------------
LEMMA Constants ==
  /\ None \notin Nat /\ None \notin Shells
  /\ Commands \subseteq SetCommands
  /\ FirstTyped \cup Read \subseteq Seq(SetCommands)
BY OperatorAssumption

(* The parts of a shell's state that steps pass on. *)
Shape ==
  /\ DOMAIN hand = Shells
  /\ pc \in [Shells -> Steps]
  /\ rev \in [Shells -> Nat]

-----------------------------------------------------------------------------
(* What a shell commits *)

(* A shell that waits to commit knows its revision, and the revision is    *)
(* what the shell holds.                                                   *)
Owned ==
  /\ \E D : docs \in Seq(D)
  /\ \A s \in Shells : pc[s] = "commit" => rev[s] \in 1 .. Len(docs) /\ docs[rev[s]] = hand[s]

OwnInv == Shape /\ Owned

(* Ending a command, and moving on to another step than a commit, leave    *)
(* the others' commits alone.                                              *)
LEMMA EndKeepsOwned ==
  ASSUME OwnInv, NEW s \in Shells, End(s), UNCHANGED docs
  PROVE  OwnInv'
<1>1. Shape'
  BY DEF OwnInv, Shape, End, Goto, Steps, EmptyDoc
<1>2. ASSUME NEW o \in Shells, pc'[o] = "commit"
      PROVE  rev'[o] \in 1 .. Len(docs') /\ docs'[rev'[o]] = hand'[o]
  <2>1. o # s
    BY <1>2 DEF OwnInv, Shape, End, Goto
  <2>2. pc'[o] = pc[o] /\ rev'[o] = rev[o] /\ hand'[o] = hand[o]
    BY <2>1 DEF OwnInv, Shape, End, Goto
  <2> QED BY <1>2, <2>2 DEF OwnInv, Owned
<1> QED BY <1>1, <1>2 DEF OwnInv, Owned

LEMMA StepKeepsOwned ==
  ASSUME OwnInv, NEW s \in Shells, NEW step \in Steps, step # "commit", Goto(s, step),
         UNCHANGED <<docs, rev>>, DOMAIN hand' = Shells,
         \A o \in Shells : o # s => hand'[o] = hand[o]
  PROVE  OwnInv'
<1>1. Shape'
  BY DEF OwnInv, Shape, Goto
<1>2. ASSUME NEW o \in Shells, pc'[o] = "commit"
      PROVE  rev'[o] \in 1 .. Len(docs') /\ docs'[rev'[o]] = hand'[o]
  <2>1. o # s
    BY <1>2 DEF OwnInv, Shape, Goto
  <2>2. pc'[o] = pc[o]
    BY <2>1 DEF OwnInv, Shape, Goto
  <2> QED BY <1>2, <2>1, <2>2 DEF OwnInv, Owned
<1> QED BY <1>1, <1>2 DEF OwnInv, Owned

LEMMA OwnInit == Init => OwnInv
<1> SUFFICES ASSUME Init PROVE OwnInv
  OBVIOUS
<1>1. docs \in Seq({})
  BY DEF Init
<1>2. Shape
  BY DEF Init, Shape, Steps
<1> QED BY <1>1, <1>2 DEF Init, OwnInv, Owned, Shape

LEMMA StageKeepsOwned ==
  ASSUME OwnInv, NEW s \in Shells, Stage(s)
  PROVE  OwnInv'
<1> PICK D : docs \in Seq(D)
  BY DEF OwnInv, Owned
<1> DEFINE E == D \cup {hand[s]}
<1>1. docs \in Seq(E) /\ hand[s] \in E /\ Len(docs) \in Nat
  OBVIOUS
<1>2. docs' = Append(docs, hand[s])
  BY DEF Stage
<1> HIDE DEF E
<1>3. docs' \in Seq(E) /\ Len(docs') = Len(docs) + 1 /\ docs'[Len(docs) + 1] = hand[s]
  BY <1>1, <1>2
<1>4. \A i \in 1 .. Len(docs) : docs'[i] = docs[i]
  BY <1>1, <1>2
<1>5. Shape'
  <2>1. CASE pc[s] = "save"
    <3>1. End(s)
      BY <2>1 DEF Stage
    <3> QED BY <3>1 DEF OwnInv, Shape, End, Goto, Steps, EmptyDoc
  <2>2. CASE pc[s] # "save"
    <3>1. hand' = hand /\ rev' = [rev EXCEPT ![s] = Len(docs) + 1] /\ Goto(s, "commit")
      BY <2>2 DEF Stage
    <3> QED BY <3>1, <1>1 DEF OwnInv, Shape, Goto, Steps
  <2> QED BY <2>1, <2>2
<1>6. ASSUME NEW o \in Shells, pc'[o] = "commit"
      PROVE  rev'[o] \in 1 .. Len(docs') /\ docs'[rev'[o]] = hand'[o]
  <2>1. CASE o = s
    <3>1. pc[s] # "save"
      BY <1>6, <2>1 DEF OwnInv, Shape, Stage, End, Goto
    <3>2. rev'[s] = Len(docs) + 1 /\ hand'[s] = hand[s]
      BY <3>1, <1>1 DEF OwnInv, Shape, Stage
    <3> QED BY <2>1, <3>2, <1>1, <1>3
  <2>2. CASE o # s
    <3>1. pc'[o] = pc[o] /\ rev'[o] = rev[o] /\ hand'[o] = hand[o]
      BY <2>2 DEF OwnInv, Shape, Stage, End, Goto
    <3>2. rev[o] \in 1 .. Len(docs) /\ docs[rev[o]] = hand[o]
      BY <1>6, <3>1 DEF OwnInv, Owned
    <3> QED BY <3>1, <3>2, <1>1, <1>3, <1>4
  <2> QED BY <2>1, <2>2
<1> QED BY <1>3, <1>5, <1>6 DEF OwnInv, Owned

LEMMA OwnNext == OwnInv /\ [Next]_vars => OwnInv'
<1> SUFFICES ASSUME OwnInv, [Next]_vars PROVE OwnInv'
  OBVIOUS
<1>1. CASE UNCHANGED vars
  BY <1>1 DEF vars, OwnInv, Shape, Owned
<1>2. CASE Next
  <2> PICK s \in Shells :
        \/ \E c \in Commands : Set(s, c)
        \/ \E for \in {"save", "stage"} : ReadCandidate(s, for)
        \/ Truncate(s) \/ WriteBack(s) \/ Discard(s)
        \/ Stage(s) \/ Commit(s) \/ CommitApply(s)
        \/ ReadState(s) \/ RunAction(s) \/ ActionFails(s) \/ Finish(s)
        \/ Die(s)
    BY <1>2 DEF Next
  <2>1. ASSUME NEW c \in Commands, Set(s, c) PROVE OwnInv'
    <3>1. Goto(s, "truncate") /\ UNCHANGED <<docs, rev>>
      BY <2>1 DEF Set, storeVars
    <3>2. DOMAIN hand' = Shells /\ \A o \in Shells : o # s => hand'[o] = hand[o]
      BY <2>1 DEF Set, OwnInv, Shape
    <3> QED BY <3>1, <3>2, StepKeepsOwned DEF Steps
  <2>2. ASSUME NEW for \in {"save", "stage"}, ReadCandidate(s, for) PROVE OwnInv'
    <3>1. Goto(s, for) /\ UNCHANGED <<docs, rev>>
      BY <2>2 DEF ReadCandidate, storeVars
    <3>2. DOMAIN hand' = Shells /\ \A o \in Shells : o # s => hand'[o] = hand[o]
      BY <2>2 DEF ReadCandidate, OwnInv, Shape
    <3> QED BY <3>1, <3>2, StepKeepsOwned DEF Steps
  <2>3. CASE Truncate(s)
    <3>1. Goto(s, "write") /\ UNCHANGED <<docs, rev, hand>>
      BY <2>3 DEF Truncate, storeVars
    <3> QED BY <3>1, StepKeepsOwned DEF Steps, OwnInv, Shape
  <2>4. CASE WriteBack(s)
    BY <2>4, EndKeepsOwned DEF WriteBack, storeVars
  <2>5. CASE Discard(s)
    BY <2>5 DEF Discard, storeVars, OwnInv, Shape, Owned
  <2>6. CASE Stage(s)
    BY <2>6, StageKeepsOwned
  <2>7. CASE Commit(s)
    BY <2>7, EndKeepsOwned DEF Commit
  <2>8. CASE CommitApply(s)
    <3>1. Goto(s, "state") /\ UNCHANGED <<docs, rev, hand>>
      BY <2>8 DEF CommitApply
    <3> QED BY <3>1, StepKeepsOwned DEF Steps, OwnInv, Shape
  <2>9. CASE ReadState(s)
    <3>1. Goto(s, "ops") /\ UNCHANGED <<docs, rev, hand>>
      BY <2>9 DEF ReadState, storeVars
    <3> QED BY <3>1, StepKeepsOwned DEF Steps, OwnInv, Shape
  <2>10. CASE RunAction(s)
    BY <2>10 DEF RunAction, storeVars, OwnInv, Shape, Owned
  <2>11. CASE ActionFails(s)
    BY <2>11, EndKeepsOwned DEF ActionFails, storeVars
  <2>12. CASE Finish(s)
    BY <2>12, EndKeepsOwned DEF Finish, storeVars
  <2>13. CASE Die(s)
    BY <2>13, EndKeepsOwned DEF Die, storeVars
  <2> QED BY <2>1, <2>2, <2>3, <2>4, <2>5, <2>6, <2>7, <2>8, <2>9, <2>10, <2>11, <2>12, <2>13
<1> QED BY <1>1, <1>2

(* What the commit of a shell puts in force is the candidate it read when  *)
(* commit was typed.                                                       *)
LEMMA OwnStep ==
  ASSUME OwnInv, [Next]_vars, NEW s \in Shells,
         pc[s] = "commit", pc'[s] = "idle", inForce' # inForce
  PROVE  docs[inForce'] = hand[s] /\ inForce' \in 1 .. Len(docs) /\ docs' = docs
<1>1. Next
  BY DEF vars
<1> PICK o \in Shells :
      \/ \E c \in Commands : Set(o, c)
      \/ \E for \in {"save", "stage"} : ReadCandidate(o, for)
      \/ Truncate(o) \/ WriteBack(o) \/ Discard(o)
      \/ Stage(o) \/ Commit(o) \/ CommitApply(o)
      \/ ReadState(o) \/ RunAction(o) \/ ActionFails(o) \/ Finish(o)
      \/ Die(o)
  BY <1>1 DEF Next
<1>2. Commit(o) \/ CommitApply(o)
  BY DEF Set, ReadCandidate, Truncate, WriteBack, Discard, Stage, Store!Stage, ReadState,
         RunAction, ActionFails, Finish, Die, storeVars, fileVars
<1>3. o = s
  <2>1. CASE Commit(o)
    BY <2>1 DEF Commit, End, Goto, OwnInv, Shape
  <2>2. CASE CommitApply(o)
    BY <2>2 DEF CommitApply, Goto, OwnInv, Shape
  <2> QED BY <1>2, <2>1, <2>2
<1>4. Commit(s)
  BY <1>2, <1>3 DEF CommitApply
<1>5. inForce' = rev[s] /\ docs' = docs
  BY <1>4 DEF Commit, Expected, Store!Activate
<1>6. rev[s] \in 1 .. Len(docs) /\ docs[rev[s]] = hand[s]
  BY DEF OwnInv, Owned
<1> QED BY <1>5, <1>6

(* What the commit of a shell puts in force is the candidate it read when  *)
(* commit was typed, whatever others do (clawgressctl main.go, commit).    *)
THEOREM CommitsTheirOwn == Spec => CommitIsOwn
<1>1. ASSUME OwnInv, [Next]_vars
      PROVE  [\A s \in Shells : pc[s] = "commit" /\ pc'[s] = "idle" /\ inForce' # inForce
                              => docs[inForce'] = hand[s]]_vars
  <2>1. ASSUME NEW s \in Shells, pc[s] = "commit", pc'[s] = "idle", inForce' # inForce
        PROVE  docs[inForce'] = hand[s]
    BY <1>1, <2>1, OwnStep
  <2> QED BY <2>1
<1>2. Spec => []OwnInv
  <2> QED BY OwnInit, OwnNext, PTL DEF Spec
<1> QED BY <1>1, <1>2, PTL DEF Spec, CommitIsOwn

-----------------------------------------------------------------------------
(* What set does to the candidate *)

(* The commands behind a candidate are commands. *)
Typed ==
  /\ acked \in Seq(SetCommands) /\ file.doc.typed \in Seq(SetCommands)
  /\ \A s \in Shells : /\ hand[s].typed \in Seq(SetCommands)
                       /\ InSet(s) => hand[s].typed # <<>>

(* One set at a time is under way; it holds the answered commands and its  *)
(* own, and the file those alone, or nothing while it is rewritten.        *)
Alone == \A s, o \in Shells : InSet(s) /\ InSet(o) => s = o

Builds ==
  \A s \in Shells : InSet(s) => hand[s].typed = Append(acked, Last(hand[s].typed))

Emptied == \A s \in Shells : pc[s] = "write" => file = Truncated

Kept ==
  (\A s \in Shells : pc[s] # "write")
  => file.doc.typed = acked /\ (acked # <<>> => file.is = "doc")

LoneInv == Shape /\ Typed /\ (~disturbed => Alone /\ Builds /\ Emptied /\ Kept)

LEMMA DocTyped ==
  ASSUME NEW typed
  PROVE  DocOf(typed).typed = typed
BY DEF DocOf

LEMMA EmptyTyped == EmptyDoc.typed = <<>> /\ EmptyDoc.typed \in Seq(SetCommands)
BY DEF EmptyDoc

LEMMA LoneInit == Init => LoneInv
<1> SUFFICES ASSUME Init PROVE LoneInv
  OBVIOUS
<1> PICK typed \in FirstTyped \cup Read :
      /\ file = IF typed = <<>> THEN Missing ELSE Holding(DocOf(typed))
      /\ acked = typed
  BY DEF Init
<1>1. Shape
  BY DEF Init, Shape, Steps
<1>2. typed \in Seq(SetCommands)
  BY Constants
<1>3. file.doc.typed = typed /\ (typed # <<>> => file.is = "doc")
  <2>1. CASE typed = <<>>
    BY <2>1, EmptyTyped DEF Missing
  <2>2. CASE typed # <<>>
    <3>1. file = [is |-> "doc", doc |-> DocOf(typed)]
      BY <2>2 DEF Holding
    <3>2. file.doc = DocOf(typed) /\ file.is = "doc"
      BY <3>1
    <3> QED BY <3>2, DocTyped
  <2> QED BY <2>1, <2>2
<1>4. \A s \in Shells : pc[s] = "idle" /\ hand[s] = EmptyDoc
  BY DEF Init
<1>5. Typed
  BY <1>2, <1>3, <1>4, EmptyTyped DEF Typed, InSet
<1>6. Alone /\ Builds /\ Emptied /\ Kept
  BY <1>3, <1>4 DEF Alone, Builds, Emptied, Kept, InSet
<1> QED BY <1>1, <1>5, <1>6 DEF LoneInv

(* A step of a shell that is in no set, to a step that is in none, leaves  *)
(* the rest as it is.                                                      *)
LEMMA OutsideKeepsLone ==
  ASSUME LoneInv, NEW s \in Shells, Shape', ~InSet(s), ~InSet(s)',
         UNCHANGED <<file, acked, disturbed>>,
         hand'[s].typed \in Seq(SetCommands),
         \A o \in Shells : o # s => pc'[o] = pc[o] /\ hand'[o] = hand[o]
  PROVE  LoneInv'
<1>1. Typed'
  BY DEF LoneInv, Typed, InSet
<1>2. \A o \in Shells : InSet(o)' => o # s /\ InSet(o) /\ pc'[o] = pc[o] /\ hand'[o] = hand[o]
  BY DEF InSet
<1>3. \A o \in Shells : pc'[o] = "write" <=> pc[o] = "write"
  BY DEF InSet
<1>4. ASSUME Alone, Builds, Emptied, Kept
      PROVE  (Alone /\ Builds /\ Emptied /\ Kept)'
  <2>1. Alone'
    BY <1>2, <1>4 DEF Alone
  <2>2. Builds'
    BY <1>2, <1>4 DEF Builds
  <2>3. Emptied' /\ Kept'
    BY <1>3, <1>4 DEF Emptied, Kept
  <2> QED BY <2>1, <2>2, <2>3
<1> QED BY <1>1, <1>4 DEF LoneInv

LEMMA EndParts ==
  ASSUME LoneInv, NEW s \in Shells, End(s)
  PROVE  /\ Shape' /\ ~InSet(s)' /\ hand'[s] = EmptyDoc
         /\ \A o \in Shells : o # s => pc'[o] = pc[o] /\ hand'[o] = hand[o]
<1>1. Shape'
  BY DEF LoneInv, Shape, End, Goto, Steps, EmptyDoc
<1>2. pc'[s] = "idle" /\ hand'[s] = EmptyDoc
  BY DEF LoneInv, Shape, End, Goto
<1>3. \A o \in Shells : o # s => pc'[o] = pc[o] /\ hand'[o] = hand[o]
  BY DEF LoneInv, Shape, End, Goto
<1> QED BY <1>1, <1>2, <1>3 DEF InSet

LEMMA GotoParts ==
  ASSUME LoneInv, NEW s \in Shells, NEW step \in Steps, Goto(s, step),
         UNCHANGED hand, rev' \in [Shells -> Nat]
  PROVE  /\ Shape' /\ pc'[s] = step
         /\ \A o \in Shells : o # s => pc'[o] = pc[o] /\ hand'[o] = hand[o]
BY DEF LoneInv, Shape, Goto

LEMMA EndOutsideKeepsLone ==
  ASSUME LoneInv, NEW s \in Shells, ~InSet(s), End(s), UNCHANGED <<file, acked, disturbed>>
  PROVE  LoneInv'
BY EndParts, EmptyTyped, OutsideKeepsLone

LEMMA GotoOutsideKeepsLone ==
  ASSUME LoneInv, NEW s \in Shells, NEW step \in Steps, ~InSet(s),
         step \notin {"truncate", "write"}, Goto(s, step),
         rev' \in [Shells -> Nat], UNCHANGED <<hand, file, acked, disturbed>>
  PROVE  LoneInv'
<1>1. ~InSet(s)' /\ Shape' /\ \A o \in Shells : o # s => pc'[o] = pc[o] /\ hand'[o] = hand[o]
  BY GotoParts DEF InSet
<1>2. hand'[s].typed \in Seq(SetCommands)
  BY DEF LoneInv, Typed
<1> QED BY <1>1, <1>2, OutsideKeepsLone

LEMMA SetKeepsLone ==
  ASSUME LoneInv, NEW s \in Shells, NEW c \in Commands, Set(s, c)
  PROVE  LoneInv'
<1> DEFINE d == AfterCommand(LoadOrInit, c)
<1>1. d.typed = Append(file.doc.typed, c) /\ c \in SetCommands
  BY Constants DEF AfterCommand, LoadOrInit
<1>2. hand'[s] = d /\ \A o \in Shells : o # s => hand'[o] = hand[o]
  BY DEF Set, LoneInv, Shape
<1> HIDE DEF d
<1>3. pc'[s] = "truncate" /\ \A o \in Shells : o # s => pc'[o] = pc[o]
  BY DEF Set, LoneInv, Shape, Goto
<1>4. UNCHANGED <<file, acked>>
  BY DEF Set
<1>5. Shape'
  BY DEF Set, LoneInv, Shape, Goto, Steps
<1>6. d.typed \in Seq(SetCommands) /\ d.typed # <<>> /\ Last(d.typed) = c
  BY <1>1 DEF LoneInv, Typed, Last
<1>7. Typed'
  BY <1>2, <1>3, <1>4, <1>6 DEF LoneInv, Typed, InSet
<1>8. ASSUME ~disturbed'
      PROVE  (Alone /\ Builds /\ Emptied /\ Kept)'
  <2>1. ~disturbed /\ \A o \in Shells : ~InSet(o)
    BY <1>8 DEF Set
  <2>2. Kept /\ pc[s] # "write" /\ \A o \in Shells : pc[o] # "write"
    BY <2>1 DEF LoneInv, InSet
  <2>3. \A o \in Shells : InSet(o)' => o = s
    BY <1>3, <2>1 DEF InSet
  <2>4. \A o \in Shells : pc'[o] # "write"
    BY <1>3, <2>2
  <2>5. Builds'
    BY <1>1, <1>2, <1>4, <1>6, <2>2, <2>3 DEF Builds, Kept
  <2> QED BY <1>4, <2>2, <2>3, <2>4, <2>5 DEF Alone, Emptied, Kept
<1> QED BY <1>5, <1>7, <1>8 DEF LoneInv

LEMMA TruncateKeepsLone ==
  ASSUME LoneInv, NEW s \in Shells, Truncate(s)
  PROVE  LoneInv'
<1>1. Goto(s, "write") /\ hand' = hand /\ rev' = rev /\ file' = Truncated
      /\ UNCHANGED <<acked, disturbed>> /\ InSet(s)
  BY DEF Truncate, InSet
<1>2. Shape' /\ pc'[s] = "write" /\ \A o \in Shells : o # s => pc'[o] = pc[o]
  BY <1>1, GotoParts DEF Steps, LoneInv, Shape
<1>3. Typed'
  <2>1. file'.doc = EmptyDoc
    BY <1>1 DEF Truncated
  <2>2. \A o \in Shells : InSet(o)' => InSet(o)
    BY <1>1, <1>2 DEF InSet
  <2> QED BY <1>1, <2>1, <2>2, EmptyTyped DEF LoneInv, Typed
<1>4. ASSUME Alone, Builds
      PROVE  (Alone /\ Builds /\ Emptied /\ Kept)'
  <2>1. \A o \in Shells : InSet(o)' <=> InSet(o)
    BY <1>1, <1>2 DEF InSet
  <2>2. Alone' /\ Builds'
    BY <1>1, <1>4, <2>1 DEF Alone, Builds
  <2> QED BY <1>1, <1>2, <2>2 DEF Emptied, Kept
<1> QED BY <1>1, <1>2, <1>3, <1>4 DEF LoneInv

LEMMA WriteBackKeepsLone ==
  ASSUME LoneInv, NEW s \in Shells, WriteBack(s)
  PROVE  LoneInv'
<1>1. /\ End(s) /\ acked' = Append(acked, Last(hand[s].typed)) /\ disturbed' = disturbed
      /\ file' = Holding(hand[s]) \/ (file.is \in {"doc", "garbled"} /\ file' = Garbled)
      /\ pc[s] = "write" /\ InSet(s)
  BY DEF WriteBack, InSet
<1>2. /\ Shape' /\ ~InSet(s)' /\ hand'[s] = EmptyDoc
      /\ \A o \in Shells : o # s => pc'[o] = pc[o] /\ hand'[o] = hand[o]
  BY <1>1, EndParts
<1>3. hand[s].typed \in Seq(SetCommands) /\ acked \in Seq(SetCommands)
  BY DEF LoneInv, Typed
<1>4. Holding(hand[s]).doc = hand[s] /\ Holding(hand[s]).is = "doc"
  BY DEF Holding
<1>5. file'.doc.typed \in Seq(SetCommands)
  <2>1. CASE file' = Holding(hand[s])
    <3>1. file'.doc = hand[s]
      BY <2>1, <1>4
    <3> QED BY <3>1, <1>3
  <2>2. CASE file' = Garbled
    <3>1. file'.doc = EmptyDoc
      BY <2>2 DEF Garbled
    <3> QED BY <3>1, EmptyTyped
  <2> QED BY <1>1, <2>1, <2>2
<1>6. \A o \in Shells : hand'[o].typed \in Seq(SetCommands)
  BY <1>2, EmptyTyped DEF LoneInv, Typed
<1>7. hand[s].typed # <<>>
  BY <1>1 DEF LoneInv, Typed
<1>8. acked' \in Seq(SetCommands)
  <2>1. Last(hand[s].typed) \in SetCommands
    BY <1>3, <1>7 DEF Last
  <2> QED BY <1>1, <1>3, <2>1
<1>9. Typed'
  BY <1>2, <1>5, <1>6, <1>8 DEF Typed, LoneInv, InSet
<1>10. ASSUME ~disturbed
       PROVE  (Alone /\ Builds /\ Emptied /\ Kept)'
  <2>1. Alone /\ Builds /\ Emptied
    BY <1>10 DEF LoneInv
  <2>2. hand[s].typed = Append(acked, Last(hand[s].typed)) /\ file = Truncated
    BY <1>1, <2>1 DEF Builds, Emptied
  <2>3. file' = Holding(hand[s]) /\ acked' = hand[s].typed
    BY <1>1, <2>2 DEF Truncated
  <2>4. \A o \in Shells : ~InSet(o)'
    BY <1>1, <1>2, <2>1 DEF Alone, InSet
  <2> QED BY <1>4, <2>3, <2>4 DEF Alone, Builds, Emptied, Kept, InSet
<1> QED BY <1>1, <1>2, <1>9, <1>10 DEF LoneInv

LEMMA DiscardKeepsLone ==
  ASSUME LoneInv, NEW s \in Shells, Discard(s)
  PROVE  LoneInv'
<1>1. /\ UNCHANGED <<pc, hand, rev>> /\ file' = Missing /\ acked' = <<>>
      /\ disturbed' = \E o \in Shells : InSet(o)
  BY DEF Discard
<1>2. Shape' /\ \A o \in Shells : InSet(o)' <=> InSet(o)
  BY <1>1 DEF LoneInv, Shape, InSet
<1>3. file'.doc.typed = <<>>
  BY <1>1, EmptyTyped DEF Missing
<1>4. Typed'
  BY <1>1, <1>2, <1>3, EmptyTyped DEF LoneInv, Typed
<1>5. ASSUME ~disturbed'
      PROVE  (Alone /\ Builds /\ Emptied /\ Kept)'
  <2>1. \A o \in Shells : ~InSet(o)'
    BY <1>1, <1>2, <1>5
  <2> QED BY <1>1, <1>3, <2>1 DEF Alone, Builds, Emptied, Kept, InSet
<1> QED BY <1>2, <1>4, <1>5 DEF LoneInv

LEMMA DieKeepsLone ==
  ASSUME LoneInv, NEW s \in Shells, Die(s)
  PROVE  LoneInv'
<1>1. /\ End(s) /\ UNCHANGED <<file, acked>>
      /\ disturbed' = (disturbed \/ pc[s] = "write")
  BY DEF Die
<1>2. /\ Shape' /\ ~InSet(s)' /\ hand'[s] = EmptyDoc
      /\ \A o \in Shells : o # s => pc'[o] = pc[o] /\ hand'[o] = hand[o]
  BY <1>1, EndParts
<1>3. \A o \in Shells : InSet(o)' => o # s /\ InSet(o)
  BY <1>2 DEF InSet
<1>4. Typed'
  BY <1>1, <1>2, <1>3, EmptyTyped DEF LoneInv, Typed
<1>5. ASSUME ~disturbed'
      PROVE  (Alone /\ Builds /\ Emptied /\ Kept)'
  <2>1. Alone /\ Builds /\ Emptied /\ Kept /\ pc[s] # "write"
    BY <1>1, <1>5 DEF LoneInv
  <2>2. \A o \in Shells : pc'[o] = "write" <=> pc[o] = "write"
    BY <1>2, <2>1 DEF InSet
  <2>3. Alone' /\ Builds'
    BY <1>1, <1>2, <1>3, <2>1 DEF Alone, Builds
  <2> QED BY <1>1, <2>1, <2>2, <2>3 DEF Emptied, Kept
<1> QED BY <1>2, <1>4, <1>5 DEF LoneInv

LEMMA LoneNext == OwnInv /\ LoneInv /\ [Next]_vars => LoneInv'
<1> SUFFICES ASSUME OwnInv, LoneInv, [Next]_vars PROVE LoneInv'
  OBVIOUS
<1>1. CASE UNCHANGED vars
  BY <1>1 DEF vars, LoneInv, Shape, Typed, Alone, Builds, Emptied, Kept, InSet
<1>2. CASE Next
  <2> PICK s \in Shells :
        \/ \E c \in Commands : Set(s, c)
        \/ \E for \in {"save", "stage"} : ReadCandidate(s, for)
        \/ Truncate(s) \/ WriteBack(s) \/ Discard(s)
        \/ Stage(s) \/ Commit(s) \/ CommitApply(s)
        \/ ReadState(s) \/ RunAction(s) \/ ActionFails(s) \/ Finish(s)
        \/ Die(s)
    BY <1>2 DEF Next
  <2>1. ASSUME NEW c \in Commands, Set(s, c) PROVE LoneInv'
    BY <2>1, SetKeepsLone
  <2>2. ASSUME NEW for \in {"save", "stage"}, ReadCandidate(s, for) PROVE LoneInv'
    <3>1. /\ hand' = [hand EXCEPT ![s] = file.doc] /\ Goto(s, for) /\ ~InSet(s)
          /\ UNCHANGED <<rev, file, acked, disturbed>>
      BY <2>2 DEF ReadCandidate, InSet, fileVars
    <3>2. Shape' /\ pc'[s] = for /\ hand'[s] = file.doc
          /\ \A o \in Shells : o # s => pc'[o] = pc[o] /\ hand'[o] = hand[o]
      BY <3>1 DEF LoneInv, Shape, Goto, Steps
    <3>3. ~InSet(s)' /\ hand'[s].typed \in Seq(SetCommands)
      BY <3>2 DEF LoneInv, Typed, InSet
    <3> QED BY <3>1, <3>2, <3>3, OutsideKeepsLone
  <2>3. CASE Truncate(s)
    BY <2>3, TruncateKeepsLone
  <2>4. CASE WriteBack(s)
    BY <2>4, WriteBackKeepsLone
  <2>5. CASE Discard(s)
    BY <2>5, DiscardKeepsLone
  <2>6. CASE Stage(s)
    <3>1. ~InSet(s) /\ UNCHANGED <<file, acked, disturbed>>
      BY <2>6 DEF Stage, InSet, fileVars
    <3>2. CASE pc[s] = "save"
      BY <2>6, <3>1, <3>2, EndOutsideKeepsLone DEF Stage
    <3>3. CASE pc[s] # "save"
      <4>1. Goto(s, "commit") /\ UNCHANGED hand
        BY <2>6, <3>3 DEF Stage
      <4>2. rev' \in [Shells -> Nat]
        <5>1. Len(docs) + 1 \in Nat
          BY DEF OwnInv, Owned
        <5> QED BY <2>6, <3>3, <5>1 DEF Stage, LoneInv, Shape
      <4> QED BY <3>1, <4>1, <4>2, GotoOutsideKeepsLone DEF Steps
    <3> QED BY <3>2, <3>3
  <2>7. CASE Commit(s)
    BY <2>7, EndOutsideKeepsLone DEF Commit, InSet, fileVars
  <2>8. CASE CommitApply(s)
    <3>1. ~InSet(s) /\ Goto(s, "state") /\ UNCHANGED <<rev, hand, file, acked, disturbed>>
      BY <2>8 DEF CommitApply, InSet, fileVars
    <3> QED BY <3>1, GotoOutsideKeepsLone DEF Steps, LoneInv, Shape
  <2>9. CASE ReadState(s)
    <3>1. ~InSet(s) /\ Goto(s, "ops") /\ UNCHANGED <<rev, hand, file, acked, disturbed>>
      BY <2>9 DEF ReadState, InSet, fileVars
    <3> QED BY <3>1, GotoOutsideKeepsLone DEF Steps, LoneInv, Shape
  <2>10. CASE RunAction(s)
    BY <2>10 DEF RunAction, fileVars, LoneInv, Shape, Typed, Alone, Builds, Emptied, Kept, InSet
  <2>11. CASE ActionFails(s)
    BY <2>11, EndOutsideKeepsLone DEF ActionFails, InSet, fileVars
  <2>12. CASE Finish(s)
    BY <2>12, EndOutsideKeepsLone DEF Finish, InSet, fileVars
  <2>13. CASE Die(s)
    BY <2>13, DieKeepsLone
  <2> QED BY <2>1, <2>2, <2>3, <2>4, <2>5, <2>6, <2>7, <2>8, <2>9, <2>10, <2>11, <2>12, <2>13
<1> QED BY <1>1, <1>2

(* Sets that are answered stay in the candidate, in order, as long as no   *)
(* two of them overlap and no client dies while it rewrites the file       *)
(* (clawgressctl main.go, applySetToFile and writeJSONFile).               *)
THEOREM LoneSetsStay == Spec => []LoneSetsKept
<1>1. LoneInv => LoneSetsKept
  BY DEF LoneInv, Kept, LoneSetsKept
<1> QED BY <1>1, OwnInit, OwnNext, LoneInit, LoneNext, PTL DEF Spec

-----------------------------------------------------------------------------
(* Trees *)

(* The tree of any commands is a tree: every leaf holds a value, and no    *)
(* leaf is above another one.                                              *)
Leaf(v) == (\E D : v.items \in Seq(D)) /\ v.items # <<>> /\ (~v.list => Len(v.items) = 1)

Grown(t) ==
  \A keys \in DOMAIN t : Leaf(t[keys]) /\ \A p \in DOMAIN t : ~IsStrictPrefix(p, keys)

LEMMA OneIsLeaf ==
  ASSUME NEW x
  PROVE  Leaf(One(x))
<1>1. <<x>> \in Seq({x}) /\ <<x>> # <<>> /\ Len(<<x>>) = 1
  OBVIOUS
<1> QED BY <1>1 DEF Leaf, One

LEMMA ListIsLeaf ==
  ASSUME NEW D, NEW items \in Seq(D), items # <<>>
  PROVE  Leaf(List(items))
BY DEF Leaf, List

LEMMA PutGrows ==
  ASSUME NEW t, Grown(t), NEW keys, NEW v, Leaf(v)
  PROVE  Grown(Put(t, keys, v))
<1> DEFINE u == Put(t, keys, v)
           rest == DOMAIN t \ (Above(t, keys) \cup Below(t, keys))
<1>1. /\ DOMAIN u = rest \cup {keys} /\ u[keys] = v
      /\ \A p \in rest : p # keys => u[p] = t[p]
  BY DEF Put
<1>2. \A p \in rest : p \in DOMAIN t /\ ~IsStrictPrefix(p, keys) /\ ~IsStrictPrefix(keys, p)
  BY DEF Above, Below
<1>3. ~IsStrictPrefix(keys, keys)
  BY DEF IsStrictPrefix
<1> HIDE DEF u, rest
<1> QED BY <1>1, <1>2, <1>3 DEF Grown, u

LEMMA SetGrows ==
  ASSUME NEW t, Grown(t), NEW keys, NEW x
  PROVE  Grown(SetByPath(t, keys, x))
<1>1. CASE ~Appends(keys)
  BY <1>1, OneIsLeaf, PutGrows DEF SetByPath
<1>2. CASE Appends(keys) /\ Below(t, keys) # {}
  <2>1. <<MapItem, x>> \in Seq({MapItem, x}) /\ <<MapItem, x>> # <<>>
    OBVIOUS
  <2>2. Leaf(List(<<MapItem, x>>))
    BY <2>1, ListIsLeaf
  <2> QED BY <1>2, <2>2, PutGrows DEF SetByPath
<1>3. CASE Appends(keys) /\ Below(t, keys) = {} /\ keys \notin DOMAIN t
  <2>1. <<x>> \in Seq({x}) /\ <<x>> # <<>>
    OBVIOUS
  <2>2. Leaf(List(<<x>>))
    BY <2>1, ListIsLeaf
  <2> QED BY <1>3, <2>2, PutGrows DEF SetByPath
<1>4. CASE Appends(keys) /\ Below(t, keys) = {} /\ keys \in DOMAIN t
  <2> DEFINE items == t[keys].items
  <2>1. PICK D : items \in Seq(D)
    BY <1>4 DEF Grown, Leaf
  <2> HIDE DEF items
  <2>2. Append(items, x) \in Seq(D \cup {x}) /\ Append(items, x) # <<>>
    <3>1. items \in Seq(D \cup {x}) /\ x \in D \cup {x}
      BY <2>1
    <3> QED BY <3>1, AppendProperties
  <2>3. Leaf(List(Append(items, x)))
    BY <2>2, ListIsLeaf
  <2>4. Grown(Put(t, keys, List(Append(items, x))))
    BY <2>3, PutGrows
  <2> QED BY <1>4, <2>4 DEF SetByPath, items
<1> QED BY <1>1, <1>2, <1>3, <1>4

LEMMA EnteredGrows ==
  ASSUME NEW t, Grown(t), NEW c
  PROVE  Grown(Entered(t, c))
BY SetGrows DEF Entered, AfterSet

LEMMA NothingGrown == Grown(EmptyTree)
<1>1. DOMAIN EmptyTree = {}
  BY DEF EmptyTree
<1> QED BY <1>1 DEF Grown

LEMMA TreeOfGrown ==
  ASSUME NEW C, NEW cmds \in Seq(C)
  PROVE  Grown(TreeOf(cmds))
<1> DEFINE n == Len(cmds)
           T == {k \in 0 .. n : Grown(Made(cmds)[1 .. k])}
<1>1. /\ n \in Nat /\ DOMAIN cmds = 1 .. n
  OBVIOUS
<1>2. /\ Made(cmds)[{}] = EmptyTree
      /\ \A k \in 1 .. n : Made(cmds)[1 .. k] = Entered(Made(cmds)[1 .. (k - 1)], cmds[k])
  BY <1>1, MadeSteps
<1>3. 0 \in T
  <2>1. 1 .. 0 = {} /\ 0 \in 0 .. n
    BY <1>1
  <2> QED BY <1>2, <2>1, NothingGrown
<1>4. ASSUME NEW k \in 0 .. (n - 1), k \in T PROVE k + 1 \in T
  <2>1. k + 1 \in 1 .. n /\ (k + 1) - 1 = k /\ k + 1 \in 0 .. n
    BY <1>1
  <2>2. Made(cmds)[1 .. (k + 1)] = Entered(Made(cmds)[1 .. k], cmds[k + 1])
    BY <1>2, <2>1
  <2> QED BY <1>4, <2>1, <2>2, EnteredGrows
<1>5. n \in T
  <2>1. \A k \in 0 .. (n - 1) : k \in T => k + 1 \in T
    BY <1>4
  <2> HIDE DEF T
  <2>2. \A k \in 0 .. n : k \in T
    BY <1>1, <1>3, <2>1, Climb
  <2> QED BY <1>1, <2>2
<1> QED BY <1>1, <1>5, TreeOfIsMade

LEMMA GrownIsTree ==
  ASSUME NEW t, Grown(t)
  PROVE  IsTree(t)
BY DEF Grown, Leaf, IsTree

-----------------------------------------------------------------------------
(* Types *)

(* Commands that set lets through. *)
Passed == {c \in SetCommands : Accepted(c)}

(* Every candidate, wherever it is, is what its commands make, and all of  *)
(* them went through.                                                      *)
Whole(d) == d.typed \in Seq(Passed) /\ d.tree = TreeOf(d.typed)

Candidates ==
  /\ Whole(file.doc)
  /\ DOMAIN hand = Shells /\ \A s \in Shells : Whole(hand[s])
  /\ (\E D : docs \in Seq(D)) /\ \A i \in DOMAIN docs : Whole(docs[i])

Rest ==
  /\ file.is \in {"missing", "empty", "garbled", "doc"}
  /\ waiting \in DOMAIN docs \cup {None} /\ inForce \in DOMAIN docs \cup {None}
  /\ pc \in [Shells -> Steps]
  /\ rev \in [Shells -> {0} \cup DOMAIN docs]
  /\ DOMAIN todo = Shells /\ \A s \in Shells : todo[s] # <<>> => pc[s] = "ops"
  /\ solo \in Shells \cup {None}
  /\ disturbed \in BOOLEAN /\ sets \in 0 .. MaxSets /\ calls \in 0 .. MaxRev /\ faults \in 0 .. MaxFaults

TypeInv == Candidates /\ Rest

LEMMA WholeIsTree ==
  ASSUME NEW d, Whole(d)
  PROVE  IsTree(d.tree)
BY TreeOfGrown, GrownIsTree DEF Whole

LEMMA TypeInvIsTypeOK == TypeInv => TypeOK
BY WholeIsTree DEF TypeInv, Candidates, Rest, TypeOK

LEMMA WholeDoc ==
  ASSUME NEW typed \in Seq(Passed)
  PROVE  Whole(DocOf(typed))
BY DEF Whole, DocOf

LEMMA EmptyWhole == Whole(EmptyDoc)
<1>1. <<>> \in Seq(Passed)
  OBVIOUS
<1> QED BY <1>1, NothingTyped DEF Whole, EmptyDoc

LEMMA AfterWhole ==
  ASSUME NEW d, Whole(d), NEW c \in Passed
  PROVE  Whole(AfterCommand(d, c))
<1>1. AfterCommand(d, c).tree = Entered(TreeOf(d.typed), c) /\ AfterCommand(d, c).typed = Append(d.typed, c)
  BY DEF AfterCommand, Whole
<1>2. d.typed \in Seq(Passed)
  BY DEF Whole
<1>3. Append(d.typed, c) \in Seq(Passed)
  BY <1>2, AppendProperties
<1> QED BY <1>1, <1>2, <1>3, OneMoreTyped DEF Whole

LEMMA TypeInit == Init => TypeInv
<1> SUFFICES ASSUME Init PROVE TypeInv
  OBVIOUS
<1> PICK typed \in FirstTyped \cup Read :
      /\ file = IF typed = <<>> THEN Missing ELSE Holding(DocOf(typed))
      /\ sets = IF typed \in FirstTyped THEN 0 ELSE MaxSets
      /\ calls = IF typed \in FirstTyped THEN 0 ELSE MaxRev
  BY DEF Init
<1>1. Whole(file.doc) /\ file.is \in {"missing", "doc"}
  <2>1. typed \in Seq(Passed)
    <3>1. typed \in Seq(SetCommands) /\ \A i \in DOMAIN typed : Accepted(typed[i])
      BY Constants, SchemaAssumption
    <3>2. \A i \in 1 .. Len(typed) : typed[i] \in Passed
      BY <3>1 DEF Passed
    <3> QED BY <3>1, <3>2
  <2>2. Whole(DocOf(typed))
    BY <2>1, WholeDoc
  <2>3. /\ Holding(DocOf(typed)).doc = DocOf(typed) /\ Holding(DocOf(typed)).is = "doc"
        /\ Missing.doc = EmptyDoc /\ Missing.is = "missing"
    BY DEF Holding, Missing
  <2> QED BY <2>2, <2>3, EmptyWhole
<1>2. docs = <<>> /\ docs \in Seq({}) /\ DOMAIN docs = {}
  BY DEF Init
<1>3. Candidates
  BY <1>1, <1>2, EmptyWhole DEF Init, Candidates
<1>4. sets \in 0 .. MaxSets /\ calls \in 0 .. MaxRev /\ faults \in 0 .. MaxFaults
  BY OperatorAssumption DEF Init
<1>5. Rest
  BY <1>1, <1>2, <1>4 DEF Init, Store!Init, Rest, Steps
<1> QED BY <1>3, <1>5 DEF TypeInv

LEMMA EndKeepsCandidates ==
  ASSUME Candidates, NEW s \in Shells, End(s), UNCHANGED docs, Whole(file'.doc)
  PROVE  Candidates'
BY EmptyWhole DEF Candidates, End, Whole

LEMMA SetKeepsTypes ==
  ASSUME TypeInv, NEW s \in Shells, NEW c \in Commands, Set(s, c)
  PROVE  TypeInv'
<1> DEFINE d == AfterCommand(LoadOrInit, c)
<1>1. Whole(d)
  <2>1. c \in Passed
    BY Constants DEF Set, Passed
  <2> QED BY <2>1, AfterWhole DEF LoadOrInit, TypeInv, Candidates
<1>2. /\ hand' = [hand EXCEPT ![s] = d] /\ UNCHANGED <<file, docs, waiting, inForce, rev, todo, calls, faults, solo>>
      /\ pc[s] = "idle" /\ pc' = [pc EXCEPT ![s] = "truncate"] /\ sets < MaxSets /\ sets' = sets + 1
      /\ disturbed' \in BOOLEAN
  BY DEF Set, storeVars, hostVars, Goto, TypeInv, Rest
<1> HIDE DEF d
<1>3. Candidates'
  BY <1>1, <1>2 DEF TypeInv, Candidates, Whole
<1>4. sets' \in 0 .. MaxSets
  BY <1>2, OperatorAssumption DEF TypeInv, Rest
<1>5. \A o \in Shells : todo'[o] # <<>> => pc'[o] = "ops"
  BY <1>2 DEF TypeInv, Rest
<1>6. Rest'
  BY <1>2, <1>4, <1>5 DEF TypeInv, Rest, Steps
<1> QED BY <1>3, <1>6 DEF TypeInv

(* A step that keeps the store and the counters, of a shell whose plan is  *)
(* done or goes on.                                                        *)
LEMMA QuietKeepsRest ==
  ASSUME Rest, NEW s \in Shells, NEW step \in Steps, pc' = [pc EXCEPT ![s] = step],
         step = "ops" \/ todo'[s] = <<>>, DOMAIN todo' = Shells,
         \A o \in Shells : o # s => todo'[o] = todo[o],
         rev' = rev \/ rev' = [rev EXCEPT ![s] = 0],
         file'.is \in {"missing", "empty", "garbled", "doc"}, disturbed' \in BOOLEAN,
         solo' \in Shells \cup {None},
         UNCHANGED <<docs, waiting, inForce, sets>>, calls' \in 0 .. MaxRev, faults' \in 0 .. MaxFaults
  PROVE  Rest'
<1>1. rev' \in [Shells -> {0} \cup DOMAIN docs']
  BY DEF Rest
<1>2. pc' \in [Shells -> Steps] /\ \A o \in Shells : todo'[o] # <<>> => pc'[o] = "ops"
  BY DEF Rest
<1> QED BY <1>1, <1>2 DEF Rest

LEMMA StageKeepsTypes ==
  ASSUME TypeInv, NEW s \in Shells, Stage(s)
  PROVE  TypeInv'
<1> DEFINE n == Len(docs) + 1
<1> PICK D : docs \in Seq(D)
  BY DEF TypeInv, Candidates
<1>1. /\ docs' = Append(docs, hand[s]) /\ docs' \in Seq(D \cup {hand[s]})
      /\ DOMAIN docs = 1 .. Len(docs) /\ Len(docs) \in Nat /\ DOMAIN docs' = 1 .. n
      /\ \A i \in DOMAIN docs : docs'[i] = docs[i]
      /\ docs'[n] = hand[s]
  <2>1. docs \in Seq(D \cup {hand[s]}) /\ hand[s] \in D \cup {hand[s]}
    OBVIOUS
  <2>2. docs' = Append(docs, hand[s])
    BY DEF Stage
  <2> QED BY <2>1, <2>2, AppendProperties
<1>2. /\ waiting' = n /\ UNCHANGED <<inForce, file, disturbed, todo, solo, sets, calls, faults>>
      /\ pc[s] \in {"save", "stage"}
  BY DEF Stage, Store!Stage, fileVars, hostVars, counters
<1>3. \/ hand' = [hand EXCEPT ![s] = EmptyDoc] /\ rev' = [rev EXCEPT ![s] = 0]
         /\ pc' = [pc EXCEPT ![s] = "idle"]
      \/ hand' = hand /\ rev' = [rev EXCEPT ![s] = n] /\ pc' = [pc EXCEPT ![s] = "commit"]
  BY DEF Stage, End, Goto
<1>4. n \in DOMAIN docs' /\ DOMAIN docs \subseteq DOMAIN docs' /\ \A i \in DOMAIN docs' : i = n \/ i \in DOMAIN docs
  BY <1>1
<1> HIDE DEF n
<1>5. Candidates'
  <2>1. \A i \in DOMAIN docs' : Whole(docs'[i])
    BY <1>1, <1>4 DEF TypeInv, Candidates
  <2>2. DOMAIN hand' = Shells /\ \A o \in Shells : Whole(hand'[o])
    BY <1>3, EmptyWhole DEF TypeInv, Candidates
  <2> QED BY <1>1, <1>2, <2>1, <2>2 DEF TypeInv, Candidates, Whole
<1>6. rev' \in [Shells -> {0} \cup DOMAIN docs']
  BY <1>3, <1>4 DEF TypeInv, Rest
<1>7. pc' \in [Shells -> Steps] /\ \A o \in Shells : todo'[o] # <<>> => pc'[o] = "ops"
  BY <1>2, <1>3 DEF TypeInv, Rest, Steps
<1>8. waiting' \in DOMAIN docs' \cup {None} /\ inForce' \in DOMAIN docs' \cup {None}
  BY <1>2, <1>4 DEF TypeInv, Rest
<1>9. Rest'
  BY <1>2, <1>6, <1>7, <1>8 DEF TypeInv, Rest
<1> QED BY <1>5, <1>9 DEF TypeInv

LEMMA TypeNext == TypeInv /\ [Next]_vars => TypeInv'
<1> SUFFICES ASSUME TypeInv, [Next]_vars PROVE TypeInv'
  OBVIOUS
<1>1. CASE UNCHANGED vars
  BY <1>1 DEF vars, TypeInv, Candidates, Rest, Whole
<1>2. CASE Next
  <2> PICK s \in Shells :
        \/ \E c \in Commands : Set(s, c)
        \/ \E for \in {"save", "stage"} : ReadCandidate(s, for)
        \/ Truncate(s) \/ WriteBack(s) \/ Discard(s)
        \/ Stage(s) \/ Commit(s) \/ CommitApply(s)
        \/ ReadState(s) \/ RunAction(s) \/ ActionFails(s) \/ Finish(s)
        \/ Die(s)
    BY <1>2 DEF Next
  <2>0. pc[s] # "ops" => todo[s] = <<>>
    BY DEF TypeInv, Rest
  <2>1. ASSUME NEW c \in Commands, Set(s, c) PROVE TypeInv'
    BY <2>1, SetKeepsTypes
  <2>2. ASSUME NEW for \in {"save", "stage"}, ReadCandidate(s, for) PROVE TypeInv'
    <3>1. /\ hand' = [hand EXCEPT ![s] = file.doc] /\ pc' = [pc EXCEPT ![s] = for] /\ pc[s] = "idle"
          /\ calls < MaxRev /\ calls' = calls + 1
          /\ UNCHANGED <<rev, todo, sets, faults, file, disturbed, docs, waiting, inForce, solo>>
      BY <2>2 DEF ReadCandidate, Goto, fileVars, storeVars, hostVars
    <3>2. Candidates'
      BY <3>1 DEF TypeInv, Candidates, Whole
    <3>3. calls' \in 0 .. MaxRev /\ for \in Steps
      BY <3>1, OperatorAssumption DEF TypeInv, Rest, Steps
    <3> QED BY <2>0, <3>1, <3>2, <3>3, QuietKeepsRest DEF TypeInv, Rest
  <2>3. CASE Truncate(s)
    <3>1. /\ file' = Truncated /\ pc' = [pc EXCEPT ![s] = "write"] /\ pc[s] = "truncate"
          /\ UNCHANGED <<disturbed, hand, rev, todo, sets, calls, faults, docs, waiting, inForce, solo>>
      BY <2>3 DEF Truncate, Goto, counters, storeVars, hostVars
    <3>2. file'.doc = EmptyDoc /\ file'.is = "empty"
      BY <3>1 DEF Truncated
    <3>3. Candidates'
      BY <3>1, <3>2, EmptyWhole DEF TypeInv, Candidates, Whole
    <3>4. "write" \in Steps
      BY DEF Steps
    <3> QED BY <2>0, <3>1, <3>2, <3>3, <3>4, QuietKeepsRest DEF TypeInv, Rest
  <2>4. CASE WriteBack(s)
    <3>1. /\ End(s) /\ pc[s] = "write"
          /\ file' = Holding(hand[s]) \/ file' = Garbled
          /\ UNCHANGED <<disturbed, todo, sets, calls, faults, docs, waiting, inForce, solo>>
      BY <2>4 DEF WriteBack, counters, storeVars, hostVars
    <3>2. Whole(file'.doc) /\ file'.is \in {"doc", "garbled"}
      <4>1. /\ Holding(hand[s]).doc = hand[s] /\ Holding(hand[s]).is = "doc"
            /\ Garbled.doc = EmptyDoc /\ Garbled.is = "garbled" /\ Whole(hand[s])
        BY DEF Holding, Garbled, TypeInv, Candidates
      <4> QED BY <3>1, <4>1, EmptyWhole
    <3>3. Candidates'
      BY <3>1, <3>2, EndKeepsCandidates DEF TypeInv
    <3>4. "idle" \in Steps
      BY DEF Steps
    <3> QED BY <2>0, <3>1, <3>2, <3>3, <3>4, QuietKeepsRest DEF TypeInv, Rest, End, Goto
  <2>5. CASE Discard(s)
    <3>1. /\ file' = Missing /\ disturbed' \in BOOLEAN
          /\ UNCHANGED <<pc, hand, rev, todo, sets, calls, faults, docs, waiting, inForce, solo>>
      BY <2>5 DEF Discard, counters, storeVars, hostVars
    <3>2. file'.doc = EmptyDoc /\ file'.is = "missing"
      BY <3>1 DEF Missing
    <3> QED BY <3>1, <3>2, EmptyWhole DEF TypeInv, Candidates, Rest, Whole
  <2>6. CASE Stage(s)
    BY <2>6, StageKeepsTypes
  <2>7. CASE Commit(s)
    <3>1. /\ End(s) /\ pc[s] = "commit"
          /\ UNCHANGED <<docs, todo, sets, calls, faults, file, disturbed, solo>>
          /\ waiting' \in {waiting, None} /\ inForce' \in {waiting, inForce}
      BY <2>7 DEF Commit, Store!Activate, counters, fileVars, hostVars
    <3>2. Candidates'
      BY <3>1, EndKeepsCandidates DEF TypeInv, Candidates
    <3>3. rev' \in [Shells -> {0} \cup DOMAIN docs] /\ pc' \in [Shells -> Steps]
      BY <3>1 DEF TypeInv, Rest, End, Goto, Steps
    <3>4. \A o \in Shells : todo'[o] # <<>> => pc'[o] = "ops"
      BY <2>0, <3>1 DEF TypeInv, Rest, End, Goto
    <3> QED BY <3>1, <3>2, <3>3, <3>4 DEF TypeInv, Rest
  <2>8. CASE CommitApply(s)
    <3>1. /\ pc[s] = "idle" /\ pc' = [pc EXCEPT ![s] = "state"]
          /\ UNCHANGED <<docs, rev, hand, todo, sets, calls, faults, file, disturbed, solo>>
          /\ waiting' = None /\ inForce' = waiting
      BY <2>8 DEF CommitApply, Store!Activate, Goto, counters, fileVars, hostVars
    <3>2. Candidates'
      BY <3>1 DEF TypeInv, Candidates, Whole
    <3>3. pc' \in [Shells -> Steps]
      BY <3>1 DEF TypeInv, Rest, Steps
    <3>4. \A o \in Shells : todo'[o] # <<>> => pc'[o] = "ops"
      BY <2>0, <3>1 DEF TypeInv, Rest
    <3> QED BY <3>1, <3>2, <3>3, <3>4 DEF TypeInv, Rest
  <2>9. CASE ReadState(s)
    <3> DEFINE plan == Plan(docs[inForce].tree)
    <3>1. /\ pc' = [pc EXCEPT ![s] = "ops"] /\ todo' = [todo EXCEPT ![s] = plan]
          /\ solo' \in {None, s}
          /\ UNCHANGED <<docs, waiting, inForce, rev, hand, sets, calls, faults, file, disturbed>>
      BY <2>9 DEF ReadState, Goto, counters, fileVars, storeVars
    <3> HIDE DEF plan
    <3>2. Candidates'
      BY <3>1 DEF TypeInv, Candidates, Whole
    <3>3. DOMAIN todo' = Shells /\ \A o \in Shells : o # s => todo'[o] = todo[o]
      BY <3>1 DEF TypeInv, Rest
    <3>4. "ops" \in Steps
      BY DEF Steps
    <3> QED BY <3>1, <3>2, <3>3, <3>4, QuietKeepsRest DEF TypeInv, Rest
  <2>10. CASE RunAction(s)
    <3>1. /\ pc[s] = "ops" /\ todo' = [todo EXCEPT ![s] = Tail(todo[s])]
          /\ UNCHANGED <<solo, pc, hand, rev, sets, calls, faults, file, disturbed, docs, waiting, inForce>>
      BY <2>10 DEF RunAction, counters, fileVars, storeVars
    <3>2. DOMAIN todo' = Shells /\ \A o \in Shells : todo'[o] # <<>> => pc'[o] = "ops"
      BY <3>1 DEF TypeInv, Rest
    <3>3. Candidates'
      BY <3>1 DEF TypeInv, Candidates, Whole
    <3> QED BY <3>1, <3>2, <3>3 DEF TypeInv, Rest
  <2>11. CASE ActionFails(s)
    <3>1. /\ End(s) /\ todo' = [todo EXCEPT ![s] = <<>>] /\ solo' \in {None, solo}
          /\ UNCHANGED <<sets, calls, file, disturbed, docs, waiting, inForce>>
          /\ faults' = faults \/ (faults < MaxFaults /\ faults' = faults + 1)
      BY <2>11 DEF ActionFails, fileVars, storeVars
    <3>2. Candidates'
      BY <3>1, EndKeepsCandidates DEF TypeInv, Candidates
    <3>3. /\ DOMAIN todo' = Shells /\ todo'[s] = <<>> /\ \A o \in Shells : o # s => todo'[o] = todo[o]
          /\ "idle" \in Steps
      BY <3>1 DEF TypeInv, Rest, Steps
    <3>4. faults' \in 0 .. MaxFaults
      BY <3>1, OperatorAssumption DEF TypeInv, Rest
    <3> QED BY <3>1, <3>2, <3>3, <3>4, QuietKeepsRest DEF TypeInv, Rest, End, Goto
  <2>12. CASE Finish(s)
    <3>1. /\ End(s) /\ todo[s] = <<>>
          /\ UNCHANGED <<todo, solo, sets, calls, faults, file, disturbed, docs, waiting, inForce>>
      BY <2>12 DEF Finish, counters, fileVars, storeVars, hostVars
    <3>2. Candidates'
      BY <3>1, EndKeepsCandidates DEF TypeInv, Candidates
    <3>3. "idle" \in Steps
      BY DEF Steps
    <3> QED BY <3>1, <3>2, <3>3, QuietKeepsRest DEF TypeInv, Rest, End, Goto
  <2>13. CASE Die(s)
    <3>1. /\ End(s) /\ pc[s] # "ops" /\ faults < MaxFaults /\ faults' = faults + 1 /\ disturbed' \in BOOLEAN
          /\ UNCHANGED <<todo, solo, sets, calls, file, docs, waiting, inForce>>
      BY <2>13 DEF Die, storeVars, hostVars, TypeInv, Rest
    <3>2. Candidates'
      BY <3>1, EndKeepsCandidates DEF TypeInv, Candidates
    <3>3. faults' \in 0 .. MaxFaults /\ "idle" \in Steps
      BY <3>1, OperatorAssumption DEF TypeInv, Rest, Steps
    <3> QED BY <2>0, <3>1, <3>2, <3>3, QuietKeepsRest DEF TypeInv, Rest, End, Goto
  <2> QED BY <2>1, <2>2, <2>3, <2>4, <2>5, <2>6, <2>7, <2>8, <2>9, <2>10, <2>11, <2>12, <2>13
<1> QED BY <1>1, <1>2

LEMMA AlwaysTyped == Spec => []TypeInv
<1> QED BY TypeInit, TypeNext, PTL DEF Spec

(* The types of Operator: every candidate on disk, in a shell and in a     *)
(* revision is a tree in which no setting is above another one             *)
(* (clawgressctl main.go, setByPath).                                      *)
THEOREM TypeCorrect == Spec => []TypeOK
BY AlwaysTyped, TypeInvIsTypeOK, PTL

-----------------------------------------------------------------------------
(* What a plan writes, it makes read *)

FileOf(a) == [dir |-> a.dir, name |-> a.name]

(* Something after the write of a file makes its reader read. *)
ReadAfter(actions, i) ==
  \/ Reader(FileOf(actions[i])) = <<"nothing">>
  \/ \E j \in (i + 1) .. Len(actions) :
       actions[j].do # "write" /\ MakesRead(actions[j]) = Reader(FileOf(actions[i]))

Follows(actions) ==
  \A i \in 1 .. Len(actions) : actions[i].do = "write" => ReadAfter(actions, i)

Served(actions) == (\E D : actions \in Seq(D)) /\ Follows(actions)

LEMMA ServedJoin ==
  ASSUME NEW a, NEW b, Served(a), Served(b)
  PROVE  Served(a \o b)
<1> DEFINE c == a \o b
<1> PICK A : a \in Seq(A)
  BY DEF Served
<1> PICK B : b \in Seq(B)
  BY DEF Served
<1> DEFINE D == A \cup B
<1>1. a \in Seq(D) /\ b \in Seq(D)
  OBVIOUS
<1> HIDE DEF D
<1>2. /\ c \in Seq(D) /\ Len(c) = Len(a) + Len(b) /\ Len(a) \in Nat /\ Len(b) \in Nat
      /\ \A i \in 1 .. Len(a) : c[i] = a[i]
      /\ \A i \in 1 .. Len(b) : c[Len(a) + i] = b[i]
  <2>1. \A i \in 1 .. Len(c) : c[i] = IF i <= Len(a) THEN a[i] ELSE b[i - Len(a)]
    BY <1>1, ConcatProperties
  <2>2. c \in Seq(D) /\ Len(c) = Len(a) + Len(b) /\ Len(a) \in Nat /\ Len(b) \in Nat
    BY <1>1, ConcatProperties
  <2> HIDE DEF c
  <2>3. \A i \in 1 .. Len(b) :
          Len(a) + i \in 1 .. Len(c) /\ ~(Len(a) + i <= Len(a)) /\ (Len(a) + i) - Len(a) = i
    BY <2>2
  <2>4. \A i \in 1 .. Len(a) : i \in 1 .. Len(c) /\ i <= Len(a)
    BY <2>2
  <2> QED BY <2>1, <2>2, <2>3, <2>4
<1> HIDE DEF c
<1>3. ASSUME NEW i \in 1 .. Len(c), c[i].do = "write"
      PROVE  ReadAfter(c, i)
  <2>1. CASE i <= Len(a)
    <3>1. i \in 1 .. Len(a) /\ c[i] = a[i] /\ ReadAfter(a, i)
      BY <1>2, <1>3, <2>1 DEF Served, Follows
    <3>2. \A j \in (i + 1) .. Len(a) : j \in 1 .. Len(a) /\ c[j] = a[j] /\ j \in (i + 1) .. Len(c)
      BY <1>2, <3>1
    <3> QED BY <3>1, <3>2 DEF ReadAfter
  <2>2. CASE ~(i <= Len(a))
    <3> DEFINE k == i - Len(a)
    <3>1. k \in 1 .. Len(b) /\ c[i] = b[k]
      <4>1. k \in 1 .. Len(b) /\ Len(a) + k = i
        BY <1>2, <2>2
      <4> QED BY <1>2, <4>1
    <3>2. ReadAfter(b, k)
      BY <1>3, <3>1 DEF Served, Follows
    <3>3. ASSUME NEW j \in (k + 1) .. Len(b)
          PROVE  Len(a) + j \in (i + 1) .. Len(c) /\ c[Len(a) + j] = b[j]
      BY <1>2, <3>1
    <3> HIDE DEF k
    <3> QED BY <3>1, <3>2, <3>3 DEF ReadAfter
  <2> QED BY <2>1, <2>2
<1>4. Follows(c)
  BY <1>3 DEF Follows
<1> QED BY <1>2, <1>4 DEF Served, c

LEMMA ServedFlatten ==
  ASSUME NEW n \in Nat, NEW seqs, seqs = [i \in 1 .. n |-> seqs[i]],
         \A i \in 1 .. n : Served(seqs[i])
  PROVE  Served(FlattenSeq(seqs))
<1> DEFINE D == UNION {Range(seqs[i]) : i \in 1 .. n}
           Good == {a \in Seq(D) : Follows(a)}
<1>1. <<>> \in Good
  <2>1. <<>> \in Seq(D) /\ Len(<<>>) = 0
    OBVIOUS
  <2> HIDE DEF D
  <2> QED BY <2>1 DEF Follows
<1>2. ASSUME NEW a \in Good, NEW b \in Good
      PROVE  a \o b \in Good
  <2> HIDE DEF D
  <2>1. a \in Seq(D) /\ b \in Seq(D) /\ Served(a) /\ Served(b)
    BY DEF Served
  <2>2. a \o b \in Seq(D) /\ Served(a \o b)
    BY <2>1, ServedJoin, ConcatProperties
  <2> QED BY <2>2 DEF Served
<1>3. ASSUME NEW i \in 1 .. n
      PROVE  seqs[i] \in Good
  <2>1. PICK E : seqs[i] \in Seq(E)
    BY DEF Served
  <2>2. Range(seqs[i]) \subseteq D
    OBVIOUS
  <2>3. \A k \in 1 .. Len(seqs[i]) : seqs[i][k] \in D
    BY <2>1, <2>2 DEF Range
  <2> HIDE DEF D
  <2>4. seqs[i] \in Seq(D)
    BY <2>1, <2>3
  <2> QED BY <2>4 DEF Served
<1>4. FlattenSeq(seqs) \in Good
  <2> HIDE DEF Good
  <2>1. seqs \in Seq(Good)
    BY <1>3
  <2> QED BY <1>1, <1>2, <2>1, FlattenKeeps
<1> QED BY <1>4 DEF Served

LEMMA NothingServed == Served(<<>>)
<1>1. <<>> \in Seq({}) /\ Len(<<>>) = 0
  OBVIOUS
<1> QED BY <1>1 DEF Served, Follows

(* An action that writes nothing, a write that nothing reads, and a write  *)
(* that is read at once.                                                   *)
LEMMA IfServed ==
  ASSUME NEW cond, NEW a, a.do = "write" => Reader(FileOf(a)) = <<"nothing">>
  PROVE  Served(If(cond, a))
<1>1. <<a>> \in Seq({a}) /\ Len(<<a>>) = 1 /\ <<a>>[1] = a
  OBVIOUS
<1>2. Follows(<<a>>)
  <2>1. \A i \in 1 .. Len(<<a>>) : <<a>>[i] = a
    BY <1>1
  <2> QED BY <2>1 DEF Follows, ReadAfter
<1>3. Served(<<a>>)
  BY <1>1, <1>2 DEF Served
<1> QED BY <1>3, NothingServed DEF If

LEMMA PairServed ==
  ASSUME NEW w, NEW a, a.do # "write", MakesRead(a) = Reader(FileOf(w))
  PROVE  Served(<<w, a>>)
<1>1. <<w, a>> \in Seq({w, a}) /\ Len(<<w, a>>) = 2 /\ <<w, a>>[1] = w /\ <<w, a>>[2] = a
  OBVIOUS
<1>2. ASSUME NEW i \in 1 .. 2, <<w, a>>[i].do = "write"
      PROVE  ReadAfter(<<w, a>>, i)
  <2>1. i = 1 /\ 2 \in (i + 1) .. 2
    BY <1>1, <1>2
  <2> QED BY <1>1, <2>1 DEF ReadAfter
<1> QED BY <1>1, <1>2 DEF Served, Follows

LEMMA WriteIs ==
  ASSUME NEW dir, NEW name, NEW what
  PROVE  /\ Write(dir, name, what).do = "write"
         /\ FileOf(Write(dir, name, what)) = [dir |-> dir, name |-> name]
BY DEF Write, FileOf

LEMMA SystemctlIs ==
  ASSUME NEW verb, NEW unit
  PROVE  /\ Systemctl(verb, unit).do # "write"
         /\ MakesRead(Systemctl(verb, unit)) = unit
BY DEF Systemctl, MakesRead

LEMMA ServiceServed ==
  ASSUME NEW reason, NEW dir, NEW name, NEW what, NEW verb, NEW unit,
         Reader([dir |-> dir, name |-> name]) = unit
  PROVE  Served(Service(reason, dir, name, what, verb, unit))
<1>1. Served(<<Write(dir, name, what), Systemctl(verb, unit)>>)
  BY WriteIs, SystemctlIs, PairServed
<1> QED BY <1>1, NothingServed DEF Service

LEMMA InterfaceStateServed ==
  ASSUME NEW tree, NEW n
  PROVE  Served(InterfaceStateActions(tree, n))
<1> DEFINE at == Append(Ethernet, n)
           mtu == Append(at, "mtu")
           desc == GetString(tree, Append(at, "description"))
           role == GetString(tree, Append(at, "role"))
           link == Write("/run/systemd/", <<"network", n, "link">>, <<desc>>)
           down == IpLink(n, <<"down">>)
           size == IpLink(n, <<"mtu", tree[mtu].items[1].v>>)
           note == Write("/etc/clawgress/", <<"interface-role.d", n>>, <<role>>)
           p1 == If(desc # "", link)
           p2 == If(Scalar(tree, mtu, "number") \/ GetString(tree, mtu) # "", size)
           p3 == If(role # "", note)
           p4 == If(GetBool(tree, Append(at, "disable")), down)
<1>1. Reader(FileOf(link)) = <<"nothing">>
  <2>1. <<"network", n, "link">>[1] = "network"
    OBVIOUS
  <2>2. Reader([dir |-> "/run/systemd/", name |-> <<"network", n, "link">>]) = <<"nothing">>
    BY <2>1 DEF Reader
  <2> QED BY <2>2, WriteIs
<1>2. Reader(FileOf(note)) = <<"nothing">>
  <2>1. <<"interface-role.d", n>>[1] = "interface-role.d"
    OBVIOUS
  <2>2. Reader([dir |-> "/etc/clawgress/", name |-> <<"interface-role.d", n>>]) = <<"nothing">>
    BY <2>1 DEF Reader
  <2> QED BY <2>2, WriteIs
<1>3. down.do # "write" /\ size.do # "write"
  BY DEF IpLink
<1> HIDE DEF link, note, down, size
<1>4. Served(p1) /\ Served(p2) /\ Served(p3) /\ Served(p4)
  BY <1>1, <1>2, <1>3, IfServed
<1> HIDE DEF p1, p2, p3, p4
<1>5. Served(p1 \o p2 \o p3 \o p4)
  BY <1>4, ServedJoin
<1>6. InterfaceStateActions(tree, n) = p1 \o p2 \o p3 \o p4
  BY Zenon DEF InterfaceStateActions, p1, p2, p3, p4, link, note, down, size
<1> QED BY <1>5, <1>6

LEMMA NamesAreASequence == Names \in Seq(Range(Names))
BY OpsPlanAssumption DEF Range

LEMMA SubMapsIn ==
  ASSUME NEW tree, NEW keys
  PROVE  SubMaps(tree, keys) \in Seq(Range(Names))
<1>1. Among(Names, {n \in Children(tree, keys) : HasMap(tree, Append(keys, n))})
        \in Seq(Range(Names) \cap {n \in Children(tree, keys) : HasMap(tree, Append(keys, n))})
  BY NamesAreASequence, AmongIn
<1> QED BY <1>1 DEF SubMaps

LEMMA DhclientServed ==
  ASSUME NEW tree, NEW n
  PROVE  Served(DhclientActions(tree, n))
<1> DEFINE w1 == Write("/run/dhclient/", <<"conf", n>>, <<>>)
           w2 == Write("/run/systemd/", <<"dhclient", n>>, <<>>)
           a1 == Systemctl("daemon-reload", <<"systemd">>)
           a2 == Systemctl("restart", <<"dhclient", n>>)
           acts == <<w1, w2, a1, a2>>
<1>1. w1.do = "write" /\ w2.do = "write" /\ a1.do # "write" /\ a2.do # "write"
      /\ MakesRead(a1) = <<"systemd">> /\ MakesRead(a2) = <<"dhclient", n>>
      /\ FileOf(w1) = [dir |-> "/run/dhclient/", name |-> <<"conf", n>>]
      /\ FileOf(w2) = [dir |-> "/run/systemd/", name |-> <<"dhclient", n>>]
  BY WriteIs, SystemctlIs
<1>2. Reader(FileOf(w1)) = <<"dhclient", n>>
  <2>1. <<"conf", n>>[2] = n
    OBVIOUS
  <2> QED BY <1>1, <2>1 DEF Reader
<1>3. Reader(FileOf(w2)) = <<"systemd">>
  <2>1. <<"dhclient", n>>[1] = "dhclient"
    OBVIOUS
  <2> QED BY <1>1, <2>1 DEF Reader
<1> HIDE DEF w1, w2, a1, a2
<1>4. acts \in Seq({w1, w2, a1, a2}) /\ Len(acts) = 4
      /\ acts[1] = w1 /\ acts[2] = w2 /\ acts[3] = a1 /\ acts[4] = a2
  OBVIOUS
<1> HIDE DEF acts
<1>5. ReadAfter(acts, 1) /\ ReadAfter(acts, 2)
  <2>1. 4 \in (1 + 1) .. 4 /\ 3 \in (2 + 1) .. 4
    OBVIOUS
  <2> QED BY <1>1, <1>2, <1>3, <1>4, <2>1 DEF ReadAfter
<1>6. Served(acts)
  <2>1. \A i \in 1 .. Len(acts) : acts[i].do = "write" => i \in {1, 2}
    BY <1>1, <1>4
  <2> QED BY <1>4, <1>5, <2>1 DEF Served, Follows
<1>7. Served(acts \o InterfaceStateActions(tree, n))
  BY <1>6, InterfaceStateServed, ServedJoin
<1>8. DhclientActions(tree, n) = <<>> \/ DhclientActions(tree, n) = acts \o InterfaceStateActions(tree, n)
  BY Zenon DEF DhclientActions, acts, w1, w2, a1, a2
<1> QED BY <1>7, <1>8, NothingServed

LEMMA NetworkdServed ==
  ASSUME NEW tree, NEW n
  PROVE  Served(NetworkdActions(tree, n))
<1> DEFINE net == IF Addresses(tree, n) = <<>> THEN <<>>
                  ELSE <<Write("/etc/systemd/", <<"network", n>>, Addresses(tree, n)),
                         Systemctl("restart", <<"systemd-networkd">>)>>
<1>1. Reader([dir |-> "/etc/systemd/", name |-> <<"network", n>>]) = <<"systemd-networkd">>
  <2>1. <<"network", n>>[1] = "network"
    OBVIOUS
  <2> QED BY <2>1 DEF Reader
<1>2. Served(<<Write("/etc/systemd/", <<"network", n>>, Addresses(tree, n)),
               Systemctl("restart", <<"systemd-networkd">>)>>)
  BY <1>1, WriteIs, SystemctlIs, PairServed
<1>3. Served(net)
  BY <1>2, NothingServed
<1> HIDE DEF net
<1>4. Served(net \o InterfaceStateActions(tree, n))
  BY <1>3, InterfaceStateServed, ServedJoin
<1>5. NetworkdActions(tree, n) = <<>> \/ NetworkdActions(tree, n) = net \o InterfaceStateActions(tree, n)
  BY Zenon DEF NetworkdActions, net
<1> QED BY <1>4, <1>5, NothingServed

LEMMA PerInterfaceServed ==
  ASSUME NEW tree, NEW actions, \A n \in Range(Names) : Served(actions[n])
  PROVE  Served(PerInterface(tree, actions))
<1> DEFINE names == SubMaps(tree, Ethernet)
           seqs == [i \in DOMAIN names |-> actions[names[i]]]
<1>1. DOMAIN names = 1 .. Len(names) /\ Len(names) \in Nat /\ \A i \in 1 .. Len(names) : names[i] \in Range(Names)
  BY SubMapsIn
<1> HIDE DEF names
<1>2. seqs = [i \in 1 .. Len(names) |-> seqs[i]] /\ \A i \in 1 .. Len(names) : Served(seqs[i])
  BY <1>1
<1> HIDE DEF seqs
<1>3. Served(FlattenSeq(seqs))
  BY <1>1, <1>2, ServedFlatten
<1> QED BY <1>3 DEF PerInterface, seqs, names

LEMMA UnitsServed ==
  ASSUME NEW tree
  PROVE  Served(UnitActions(tree))
<1> DEFINE names == Among(SubMaps(tree, <<"service">>), Range(Names) \ {"dns", "haproxy", "ssh"})
           Both(n) == <<Write("/etc/clawgress/", <<"services", n>>, <<>>),
                        Systemctl("reload-or-restart", <<n>>)>>
           seqs == [i \in DOMAIN names |-> Both(names[i])]
<1>1. DOMAIN names = 1 .. Len(names) /\ Len(names) \in Nat
  <2>1. names \in Seq(Range(Names) \cap (Range(Names) \ {"dns", "haproxy", "ssh"}))
    BY SubMapsIn, AmongIn
  <2> HIDE DEF names
  <2> QED BY <2>1
<1>2. ASSUME NEW n PROVE Served(Both(n))
  <2>1. Reader([dir |-> "/etc/clawgress/", name |-> <<"services", n>>]) = <<n>>
    <3>1. <<"services", n>>[1] = "services" /\ <<"services", n>>[2] = n
      OBVIOUS
    <3> QED BY <3>1 DEF Reader
  <2> QED BY <2>1, WriteIs, SystemctlIs, PairServed
<1> HIDE DEF names, Both
<1>3. seqs = [i \in 1 .. Len(names) |-> seqs[i]] /\ \A i \in 1 .. Len(names) : Served(seqs[i])
  BY <1>1, <1>2
<1> HIDE DEF seqs
<1>4. Served(FlattenSeq(seqs))
  BY <1>1, <1>3, ServedFlatten
<1> QED BY <1>4 DEF UnitActions, seqs, names, Both

LEMMA FallbackServed ==
  ASSUME NEW tree
  PROVE  Served(FallbackActions(tree))
<1> DEFINE roots == <<"firewall", "interfaces", "nat", "policy", "service", "system">>
           Of(root) == Service(HasMap(tree, <<root>>),
                               "/etc/clawgress/", <<"rendered", root>>, <<>>,
                               "reload-or-restart", <<"clawgress-configd">>)
           seqs == [i \in DOMAIN roots |-> Of(roots[i])]
<1>1. DOMAIN roots = 1 .. 6
  OBVIOUS
<1>2. ASSUME NEW root PROVE Served(Of(root))
  <2>1. Reader([dir |-> "/etc/clawgress/", name |-> <<"rendered", root>>]) = <<"clawgress-configd">>
    <3>1. <<"rendered", root>>[1] = "rendered"
      OBVIOUS
    <3> QED BY <3>1 DEF Reader
  <2> QED BY <2>1, ServiceServed
<1> HIDE DEF roots, Of
<1>3. seqs = [i \in 1 .. 6 |-> seqs[i]] /\ \A i \in 1 .. 6 : Served(seqs[i])
  BY <1>1, <1>2
<1> HIDE DEF seqs
<1>4. Served(FlattenSeq(seqs))
  BY <1>3, ServedFlatten
<1> QED BY <1>4 DEF FallbackActions, seqs, roots, Of

LEMMA NftServed ==
  ASSUME NEW tree, NEW root, NEW name
  PROVE  Served(NftActions(tree, root, name))
<1> DEFINE w == Write("/etc/nftables.d/", <<name>>, <<>>)
           a == Nft(TRUE, name)
           b == Nft(FALSE, name)
           acts == <<w, a, b>>
<1>1. a.do # "write" /\ b.do # "write" /\ MakesRead(b) = <<"nft", name>>
  BY DEF Nft, MakesRead
<1>2. Reader(FileOf(w)) = <<"nft", name>>
  <2>1. <<name>>[1] = name
    OBVIOUS
  <2>2. FileOf(w) = [dir |-> "/etc/nftables.d/", name |-> <<name>>]
    BY WriteIs
  <2> HIDE DEF w
  <2> QED BY <2>1, <2>2 DEF Reader
<1> HIDE DEF w, a, b
<1>3. acts \in Seq({w, a, b}) /\ Len(acts) = 3 /\ acts[1] = w /\ acts[2] = a /\ acts[3] = b
  OBVIOUS
<1> HIDE DEF acts
<1>4. ReadAfter(acts, 1)
  <2>1. 3 \in (1 + 1) .. 3
    OBVIOUS
  <2> QED BY <1>1, <1>2, <1>3, <2>1 DEF ReadAfter
<1>5. Served(acts)
  <2>1. \A i \in 1 .. Len(acts) : acts[i].do = "write" => i = 1
    BY <1>1, <1>3
  <2> QED BY <1>3, <1>4, <2>1 DEF Served, Follows
<1>6. NftActions(tree, root, name) = <<>> \/ NftActions(tree, root, name) = acts
  BY Zenon DEF NftActions, acts, w, a, b
<1> QED BY <1>5, <1>6, NothingServed

(* Whatever the configuration, a plan makes read what it writes. *)
LEMMA PlanServed ==
  ASSUME NEW tree
  PROVE  Served(Plan(tree))
<1> DEFINE host == GetString(tree, <<"system", "host_name">>)
           dns == Strings(tree, <<"system", "name_server">>)
           ntp == Strings(tree, <<"system", "ntp", "server">>)
           p1 == Service(HasService(tree, <<"dns", "forwarding">>), "/etc/bind/",
                         <<"named.conf.options">>, <<>>, "restart", <<"bind9">>)
           p2 == Service(ntp # <<>>, "/etc/chrony/", <<"clawgress.sources">>, ntp,
                         "restart", <<"chrony">>)
           p3 == Service(HasMap(tree, <<"policy">>), "/etc/clawgress/", <<"policy.json">>, <<>>,
                         "reload-or-restart", <<"clawgress-policyd">>)
           p4 == FallbackActions(tree)
           p5 == PerInterface(tree, [n \in Range(Names) |-> DhclientActions(tree, n)])
           p6 == Service(HasService(tree, <<"haproxy">>), "/etc/haproxy/", <<"haproxy.cfg">>, <<>>,
                         "restart", <<"haproxy">>)
           p7 == If(host # "", Hostnamectl(host))
           p8 == NftActions(tree, "firewall", "40-clawgress-firewall.nft")
           p9 == NftActions(tree, "nat", "50-clawgress-nat.nft")
           p10 == Service(HasService(tree, <<"ssh">>), "/etc/ssh/", <<"90-clawgress.conf">>, <<>>,
                          "restart", <<"ssh">>)
           p11 == PerInterface(tree, [n \in Range(Names) |-> NetworkdActions(tree, n)])
           p12 == Service(dns # <<>>, "/etc/systemd/", <<"90-clawgress.conf">>, dns,
                          "restart", <<"systemd-resolved">>)
           p13 == UnitActions(tree)
<1>1. /\ Reader([dir |-> "/etc/bind/", name |-> <<"named.conf.options">>]) = <<"bind9">>
      /\ Reader([dir |-> "/etc/chrony/", name |-> <<"clawgress.sources">>]) = <<"chrony">>
      /\ Reader([dir |-> "/etc/haproxy/", name |-> <<"haproxy.cfg">>]) = <<"haproxy">>
      /\ Reader([dir |-> "/etc/ssh/", name |-> <<"90-clawgress.conf">>]) = <<"ssh">>
  BY DEF Reader
<1>2. Reader([dir |-> "/etc/clawgress/", name |-> <<"policy.json">>]) = <<"clawgress-policyd">>
  <2>1. <<"policy.json">>[1] = "policy.json"
    OBVIOUS
  <2> QED BY <2>1 DEF Reader
<1>3. Reader([dir |-> "/etc/systemd/", name |-> <<"90-clawgress.conf">>]) = <<"systemd-resolved">>
  <2>1. <<"90-clawgress.conf">>[1] = "90-clawgress.conf"
    OBVIOUS
  <2> QED BY <2>1 DEF Reader
<1>4. Served(p1) /\ Served(p2) /\ Served(p3) /\ Served(p6) /\ Served(p10) /\ Served(p12)
  BY <1>1, <1>2, <1>3, ServiceServed
<1>5. Served(p4) /\ Served(p8) /\ Served(p9) /\ Served(p13)
  BY FallbackServed, NftServed, UnitsServed
<1>6. Served(p5) /\ Served(p11)
  BY DhclientServed, NetworkdServed, PerInterfaceServed
<1>7. Served(p7)
  BY IfServed DEF Hostnamectl
<1> HIDE DEF p1, p2, p3, p4, p5, p6, p7, p8, p9, p10, p11, p12, p13
<1>8. Served(p1 \o p2 \o p3 \o p4 \o p5 \o p6 \o p7)
  BY <1>4, <1>5, <1>6, <1>7, ServedJoin
<1>9. Served(p1 \o p2 \o p3 \o p4 \o p5 \o p6 \o p7 \o p8 \o p9 \o p10 \o p11 \o p12 \o p13)
  BY <1>4, <1>5, <1>6, <1>8, ServedJoin
<1>10. Plan(tree)
       = p1 \o p2 \o p3 \o p4 \o p5 \o p6 \o p7 \o p8 \o p9 \o p10 \o p11 \o p12 \o p13
  BY Zenon DEF Plan, p1, p2, p3, p4, p5, p6, p7, p8, p9, p10, p11, p12, p13
<1> QED BY <1>9, <1>10

(* What comes after an action of a plan is as well planned. *)
LEMMA TailServed ==
  ASSUME NEW a, Served(a), a # <<>>
  PROVE  /\ Served(Tail(a))
         /\ \A i \in 2 .. Len(a) : i - 1 \in 1 .. Len(Tail(a)) /\ Tail(a)[i - 1] = a[i]
<1> PICK D : a \in Seq(D)
  BY DEF Served
<1> DEFINE t == Tail(a)
<1>1. /\ t \in Seq(D) /\ Len(t) = Len(a) - 1 /\ Len(t) \in Nat /\ Len(a) \in Nat
      /\ \A i \in 1 .. Len(t) : t[i] = a[i + 1]
  OBVIOUS
<1> HIDE DEF t
<1>2. \A i \in 2 .. Len(a) : i - 1 \in 1 .. Len(t) /\ t[i - 1] = a[i]
  <2>1. \A i \in 2 .. Len(a) : i - 1 \in 1 .. Len(t) /\ (i - 1) + 1 = i
    BY <1>1
  <2> QED BY <1>1, <2>1
<1>3. ASSUME NEW i \in 1 .. Len(t), t[i].do = "write"
      PROVE  ReadAfter(t, i)
  <2>1. i + 1 \in 1 .. Len(a) /\ t[i] = a[i + 1]
    BY <1>1
  <2>2. ReadAfter(a, i + 1)
    BY <1>3, <2>1 DEF Served, Follows
  <2>3. ASSUME NEW j \in ((i + 1) + 1) .. Len(a)
        PROVE  j - 1 \in (i + 1) .. Len(t) /\ t[j - 1] = a[j]
    <3>1. j \in 2 .. Len(a) /\ j - 1 \in (i + 1) .. Len(t)
      BY <1>1
    <3> QED BY <1>2, <3>1
  <2> QED BY <2>1, <2>2, <2>3 DEF ReadAfter
<1>4. Served(t)
  BY <1>1, <1>3 DEF Served, Follows
<1> QED BY <1>2, <1>4 DEF t

-----------------------------------------------------------------------------
(* A plan that was carried out is live *)

(* The sole handler works alone, and what it has yet to do makes every     *)
(* file of its plan read that was written since its reader looked last.    *)
Sole ==
  solo # None => solo \in Shells /\ \A o \in Shells : pc[o] = "ops" => o = solo

Covered ==
  solo # None =>
    /\ Served(todo[solo])
    /\ \A f \in settled \cap dirty :
         \/ Reader(f) = <<"nothing">>
         \/ \E i \in 1 .. Len(todo[solo]) :
              todo[solo][i].do # "write" /\ MakesRead(todo[solo][i]) = Reader(f)

Hosts == pc \in [Shells -> Steps] /\ DOMAIN todo = Shells

ServedInv == Hosts /\ Sole /\ Covered

LEMMA ServedInit == Init => ServedInv
BY DEF Init, ServedInv, Hosts, Sole, Covered, Steps

(* A step of a shell outside its plan changes nothing of this. *)
LEMMA OutsideKeepsServed ==
  ASSUME ServedInv, NEW s \in Shells, NEW step \in Steps, step # "ops" \/ pc[s] = "ops",
         Goto(s, step), UNCHANGED <<todo, hostVars>>
  PROVE  ServedInv'
<1>1. Hosts' /\ \A o \in Shells : pc'[o] = "ops" => pc[o] = "ops"
  BY DEF ServedInv, Hosts, Goto
<1>2. Sole' /\ Covered'
  BY <1>1 DEF ServedInv, Sole, Covered, hostVars
<1> QED BY <1>1, <1>2 DEF ServedInv

LEMMA ReadStateKeepsServed ==
  ASSUME ServedInv, NEW s \in Shells, ReadState(s)
  PROVE  ServedInv'
<1> DEFINE plan == Plan(docs[inForce].tree)
<1>1. /\ todo' = [todo EXCEPT ![s] = plan]
      /\ solo' = IF \E o \in Shells : pc[o] = "ops" THEN None ELSE s
      /\ settled' = {} /\ pc' = [pc EXCEPT ![s] = "ops"]
  BY DEF ReadState, Goto
<1>2. Served(plan)
  BY PlanServed
<1> HIDE DEF plan
<1>3. Hosts'
  BY <1>1 DEF ServedInv, Hosts, Steps
<1>4. Sole'
  BY <1>1 DEF ServedInv, Hosts, Sole
<1>5. Covered'
  <2>1. solo' # None => solo' = s /\ todo'[solo'] = plan
    BY <1>1 DEF ServedInv, Hosts
  <2> QED BY <1>1, <1>2, <2>1 DEF Covered
<1> QED BY <1>3, <1>4, <1>5 DEF ServedInv

LEMMA RunActionKeepsServed ==
  ASSUME ServedInv, NEW s \in Shells, RunAction(s)
  PROVE  ServedInv'
<1> DEFINE a == Head(todo[s])
           f == FileOf(a)
<1>1. /\ pc[s] = "ops" /\ todo[s] # <<>>
      /\ a.do = "write" => dirty' = dirty \cup {f}
                           /\ settled' = IF solo = s THEN settled \cup {f} ELSE settled
      /\ a.do # "write" => dirty' = {d \in dirty : Reader(d) # MakesRead(a)} /\ settled' = settled
      /\ todo' = [todo EXCEPT ![s] = Tail(todo[s])]
      /\ UNCHANGED <<solo, pc>>
  BY DEF RunAction, FileOf
<1>2. Hosts' /\ Sole'
  BY <1>1 DEF ServedInv, Hosts, Sole
<1>3. ASSUME solo # None PROVE Covered'
  <2>1. solo = s /\ todo'[solo'] = Tail(todo[s])
    BY <1>1, <1>3 DEF ServedInv, Hosts, Sole
  <2> DEFINE l == todo[s]
             t == Tail(l)
  <2>2. /\ Served(l) /\ \A d \in settled \cap dirty :
             \/ Reader(d) = <<"nothing">>
             \/ \E i \in 1 .. Len(l) : l[i].do # "write" /\ MakesRead(l[i]) = Reader(d)
    BY <1>3, <2>1 DEF ServedInv, Covered
  <2>3. /\ Served(t) /\ \A i \in 2 .. Len(l) : i - 1 \in 1 .. Len(t) /\ t[i - 1] = l[i]
    BY <1>1, <2>2, TailServed
  <2>4. /\ a = l[1] /\ 1 \in 1 .. Len(l) /\ Len(l) \in Nat
        /\ \A i \in 1 .. Len(l) : i = 1 \/ i \in 2 .. Len(l)
    <3>1. PICK D : l \in Seq(D)
      BY <2>2 DEF Served
    <3>2. l # <<>>
      BY <1>1
    <3>3. a = Head(l)
      OBVIOUS
    <3> HIDE DEF l, a
    <3> QED BY <3>1, <3>2, <3>3
  <2> HIDE DEF l, t, a, f
  <2>5. ASSUME NEW d \in settled' \cap dirty'
        PROVE  \/ Reader(d) = <<"nothing">>
               \/ \E i \in 1 .. Len(t) : t[i].do # "write" /\ MakesRead(t[i]) = Reader(d)
    <3>1. CASE a.do = "write" /\ d = f
      <4>1. ReadAfter(l, 1)
        BY <2>2, <2>4, <3>1 DEF Served, Follows
      <4>2. \/ Reader(d) = <<"nothing">>
            \/ \E j \in 2 .. Len(l) : l[j].do # "write" /\ MakesRead(l[j]) = Reader(d)
        BY <2>4, <3>1, <4>1 DEF ReadAfter, f
      <4> QED BY <2>3, <4>2
    <3>2. CASE ~(a.do = "write" /\ d = f)
      <4>1. d \in settled \cap dirty /\ (a.do # "write" => Reader(d) # MakesRead(a))
        BY <1>1, <2>1, <2>5, <3>2
      <4>2. CASE Reader(d) = <<"nothing">>
        BY <4>2
      <4>3. CASE Reader(d) # <<"nothing">>
        <5>1. PICK i \in 1 .. Len(l) : l[i].do # "write" /\ MakesRead(l[i]) = Reader(d)
          BY <2>2, <4>1, <4>3
        <5>2. i # 1
          BY <2>4, <4>1, <5>1
        <5> QED BY <2>3, <2>4, <5>1, <5>2
      <4> QED BY <4>2, <4>3
    <3> QED BY <3>1, <3>2
  <2>6. todo'[solo'] = t
    BY <2>1 DEF t, l
  <2> QED BY <2>3, <2>5, <2>6 DEF Covered
<1>4. solo = None => Covered'
  BY <1>1 DEF Covered
<1> QED BY <1>2, <1>3, <1>4 DEF ServedInv

LEMMA ActionFailsKeepsServed ==
  ASSUME ServedInv, NEW s \in Shells, ActionFails(s)
  PROVE  ServedInv'
<1>1. /\ pc[s] = "ops" /\ pc' = [pc EXCEPT ![s] = "idle"] /\ todo' = [todo EXCEPT ![s] = <<>>]
      /\ solo' = IF solo = s THEN None ELSE solo
  BY DEF ActionFails, End, Goto
<1>2. solo' = None
  BY <1>1 DEF ServedInv, Sole
<1> QED BY <1>1, <1>2 DEF ServedInv, Hosts, Sole, Covered, Steps

LEMMA ServedNext == ServedInv /\ [Next]_vars => ServedInv'
<1> SUFFICES ASSUME ServedInv, [Next]_vars PROVE ServedInv'
  OBVIOUS
<1>1. CASE UNCHANGED vars
  BY <1>1 DEF vars, ServedInv, Hosts, Sole, Covered
<1>2. CASE Next
  <2> PICK s \in Shells :
        \/ \E c \in Commands : Set(s, c)
        \/ \E for \in {"save", "stage"} : ReadCandidate(s, for)
        \/ Truncate(s) \/ WriteBack(s) \/ Discard(s)
        \/ Stage(s) \/ Commit(s) \/ CommitApply(s)
        \/ ReadState(s) \/ RunAction(s) \/ ActionFails(s) \/ Finish(s)
        \/ Die(s)
    BY <1>2 DEF Next
  <2>1. ASSUME NEW c \in Commands, Set(s, c) PROVE ServedInv'
    BY <2>1, OutsideKeepsServed DEF Set, Steps
  <2>2. ASSUME NEW for \in {"save", "stage"}, ReadCandidate(s, for) PROVE ServedInv'
    <3>1. for \in Steps /\ for # "ops"
      BY DEF Steps
    <3> QED BY <2>2, <3>1, OutsideKeepsServed DEF ReadCandidate
  <2>3. CASE Truncate(s)
    BY <2>3, OutsideKeepsServed DEF Truncate, Steps
  <2>4. CASE WriteBack(s)
    BY <2>4, OutsideKeepsServed DEF WriteBack, End, Steps
  <2>5. CASE Discard(s)
    BY <2>5 DEF Discard, hostVars, ServedInv, Hosts, Sole, Covered
  <2>6. CASE Stage(s)
    <3>1. Goto(s, "idle") \/ Goto(s, "commit")
      BY <2>6 DEF Stage, End
    <3> QED BY <2>6, <3>1, OutsideKeepsServed DEF Stage, Steps
  <2>7. CASE Commit(s)
    BY <2>7, OutsideKeepsServed DEF Commit, End, Steps
  <2>8. CASE CommitApply(s)
    BY <2>8, OutsideKeepsServed DEF CommitApply, Steps
  <2>9. CASE ReadState(s)
    BY <2>9, ReadStateKeepsServed
  <2>10. CASE RunAction(s)
    BY <2>10, RunActionKeepsServed
  <2>11. CASE ActionFails(s)
    BY <2>11, ActionFailsKeepsServed
  <2>12. CASE Finish(s)
    BY <2>12, OutsideKeepsServed DEF Finish, End, Steps
  <2>13. CASE Die(s)
    BY <2>13, OutsideKeepsServed DEF Die, End, Steps
  <2> QED BY <2>1, <2>2, <2>3, <2>4, <2>5, <2>6, <2>7, <2>8, <2>9, <2>10, <2>11, <2>12, <2>13
<1> QED BY <1>1, <1>2

(* A handler that got through its plan alone leaves no file behind that    *)
(* the service it is for has not read since (ops_exec.go, ExecuteOpsPlan;  *)
(* opsplan.go, BuildOpsPlan), whatever the configuration.                  *)
THEOREM PlansAreServed == Spec => []AppliedIsLive
<1>1. ServedInv => AppliedIsLive
  BY DEF ServedInv, Covered, AppliedIsLive
<1> QED BY <1>1, ServedInit, ServedNext, PTL DEF Spec

-----------------------------------------------------------------------------
(* More about sequences *)

LEMMA Joined ==
  ASSUME NEW D, NEW a \in Seq(D), NEW b \in Seq(D)
  PROVE  /\ a \o b \in Seq(D) /\ Len(a) \in Nat /\ Len(b) \in Nat
         /\ Len(a \o b) = Len(a) + Len(b) /\ Len(a) <= Len(a \o b)
         /\ \A j \in 1 .. Len(a) : (a \o b)[j] = a[j]
         /\ \A j \in 1 .. Len(b) : (a \o b)[Len(a) + j] = b[j]
<1>1. a \o b \in Seq(D) /\ Len(a \o b) = Len(a) + Len(b) /\ Len(a) \in Nat /\ Len(b) \in Nat
  BY ConcatProperties
<1>2. \A i \in 1 .. Len(a) + Len(b) : (a \o b)[i] = IF i <= Len(a) THEN a[i] ELSE b[i - Len(a)]
  BY ConcatProperties
<1>3. ASSUME NEW j \in 1 .. Len(a) PROVE (a \o b)[j] = a[j]
  <2>1. j \in 1 .. Len(a) + Len(b) /\ j <= Len(a)
    BY <1>1
  <2> QED BY <1>2, <2>1
<1>4. ASSUME NEW j \in 1 .. Len(b) PROVE (a \o b)[Len(a) + j] = b[j]
  <2>1. Len(a) + j \in 1 .. Len(a) + Len(b) /\ ~(Len(a) + j <= Len(a)) /\ (Len(a) + j) - Len(a) = j
    BY <1>1
  <2> QED BY <1>2, <2>1
<1>5. Len(a) <= Len(a \o b)
  BY <1>1
<1> QED BY <1>1, <1>3, <1>4, <1>5

LEMMA JoinedOne ==
  ASSUME NEW D, NEW a \in Seq(D), NEW b \in Seq(D), Len(b) = 1
  PROVE  (a \o b)[Len(a) + 1] = b[1]
<1>1. 1 \in 1 .. Len(b)
  OBVIOUS
<1>2. \A j \in 1 .. Len(b) : (a \o b)[Len(a) + j] = b[j]
  BY Joined
<1> QED BY <1>1, <1>2

LEMMA Flattened ==
  ASSUME NEW D, NEW seqs \in Seq(Seq(D))
  PROVE  /\ seqs = <<>> => FlattenSeq(seqs) = <<>>
         /\ seqs # <<>> => FlattenSeq(seqs) = Upto(seqs)[Len(seqs)]
<1>1. Len(seqs) \in Nat /\ (seqs # <<>> => Len(seqs) # 0)
  OBVIOUS
<1>2. CASE seqs = <<>>
  BY <1>2 DEF FlattenSeq
<1>3. CASE seqs # <<>>
  BY <1>1, <1>3, Zenon DEF FlattenSeq, Upto
<1> QED BY <1>2, <1>3

LEMMA UptoSteps ==
  ASSUME NEW D, NEW seqs \in Seq(Seq(D))
  PROVE  \A k \in 1 .. Len(seqs) :
           /\ Upto(seqs)[k] \in Seq(D)
           /\ k = 1 => Upto(seqs)[k] = seqs[1]
           /\ k # 1 => k - 1 \in 1 .. Len(seqs) /\ Upto(seqs)[k] = Upto(seqs)[k - 1] \o seqs[k]
<1> DEFINE f == Upto(seqs)
           n == Len(seqs)
           T == {k \in 0 .. n : k # 0 => f[k] \in Seq(D)}
<1>1. n \in Nat /\ \A i \in 1 .. n : seqs[i] \in Seq(D)
  OBVIOUS
<1>2. \A i \in 1 .. n : f[i] = IF i = 1 THEN seqs[i] ELSE f[i - 1] \o seqs[i]
  <2>1. f = [i \in 1 .. n |-> IF i = 1 THEN seqs[i] ELSE f[i - 1] \o seqs[i]]
    BY <1>1, UptoIs
  <2> HIDE DEF f, n
  <2> QED BY <2>1
<1> HIDE DEF f
<1>3. 0 \in T
  BY <1>1
<1>4. ASSUME NEW k \in 0 .. (n - 1), k \in T PROVE k + 1 \in T
  <2>1. k + 1 \in 1 .. n /\ (k # 0 => k + 1 # 1 /\ (k + 1) - 1 = k /\ f[k] \in Seq(D))
    BY <1>1, <1>4
  <2>2. seqs[k + 1] \in Seq(D)
    BY <1>1, <2>1
  <2>3. CASE k = 0
    BY <1>2, <2>1, <2>2, <2>3
  <2>4. CASE k # 0
    <3>1. f[k + 1] = f[k] \o seqs[k + 1] /\ f[k] \in Seq(D)
      BY <1>2, <2>1, <2>4
    <3>2. f[k + 1] \in Seq(D)
      BY <2>2, <3>1, Joined
    <3> QED BY <2>1, <3>2
  <2> QED BY <2>3, <2>4
<1>5. \A k \in 0 .. n : k \in T
  <2>1. \A k \in 0 .. (n - 1) : k \in T => k + 1 \in T
    BY <1>4
  <2> HIDE DEF T
  <2> QED BY <1>1, <1>3, <2>1, Climb
<1>6. ASSUME NEW k \in 1 .. n
      PROVE  /\ f[k] \in Seq(D)
             /\ k = 1 => f[k] = seqs[1]
             /\ k # 1 => k - 1 \in 1 .. n /\ f[k] = f[k - 1] \o seqs[k]
  <2>1. k \in 0 .. n /\ k # 0 /\ (k # 1 => k - 1 \in 1 .. n)
    BY <1>1
  <2>2. f[k] \in Seq(D)
    BY <1>5, <2>1
  <2> QED BY <1>2, <2>1, <2>2
<1> QED BY <1>6 DEF f

(* What was put together stays when more is added. *)
LEMMA UptoStarts ==
  ASSUME NEW D, NEW seqs \in Seq(Seq(D)), NEW k \in 1 .. Len(seqs)
  PROVE  /\ Len(Upto(seqs)[k]) <= Len(FlattenSeq(seqs))
         /\ \A j \in 1 .. Len(Upto(seqs)[k]) : FlattenSeq(seqs)[j] = Upto(seqs)[k][j]
<1> DEFINE f == Upto(seqs)
           n == Len(seqs)
           Starts(m) == Len(f[k]) <= Len(f[m]) /\ \A j \in 1 .. Len(f[k]) : f[m][j] = f[k][j]
           T == {m \in 0 .. n : m >= k => Starts(m)}
<1>1. n \in Nat /\ n # 0 /\ k \in 1 .. n /\ k \in Nat /\ \A i \in 1 .. n : seqs[i] \in Seq(D)
  OBVIOUS
<1>2. \A m \in 1 .. n : f[m] \in Seq(D) /\ (m # 1 => m - 1 \in 1 .. n /\ f[m] = f[m - 1] \o seqs[m])
  BY UptoSteps
<1> HIDE DEF f
<1>3. 0 \in T
  BY <1>1
<1>4. ASSUME NEW m \in 0 .. (n - 1), m \in T PROVE m + 1 \in T
  <2>1. m + 1 \in 1 .. n /\ m + 1 \in 0 .. n /\ (m + 1) - 1 = m /\ m \in Nat
    BY <1>1
  <2>2. CASE m + 1 < k
    BY <1>1, <2>1, <2>2
  <2>3. CASE m + 1 = k
    <3>1. Starts(m + 1)
      BY <1>2, <2>1, <2>3
    <3> HIDE DEF Starts
    <3> QED BY <2>1, <3>1
  <2>4. CASE m >= k
    <3>1. m + 1 # 1 /\ m \in 1 .. n
      BY <1>1, <2>1, <2>4
    <3>2. f[m + 1] = f[m] \o seqs[m + 1] /\ f[m] \in Seq(D) /\ f[k] \in Seq(D) /\ seqs[m + 1] \in Seq(D)
      BY <1>1, <1>2, <2>1, <3>1
    <3>3. Len(f[k]) <= Len(f[m]) /\ \A j \in 1 .. Len(f[k]) : f[m][j] = f[k][j]
      BY <1>4, <2>4
    <3>4. Len(f[k]) <= Len(f[m + 1]) /\ \A j \in 1 .. Len(f[k]) : f[m + 1][j] = f[k][j]
      <4>1. Len(f[k]) \in Nat /\ Len(f[m]) \in Nat /\ Len(f[m + 1]) \in Nat
        BY <3>2, Joined
      <4>2. Len(f[m]) <= Len(f[m + 1]) /\ \A j \in 1 .. Len(f[m]) : f[m + 1][j] = f[m][j]
        <5>1. f[m] \in Seq(D) /\ seqs[m + 1] \in Seq(D) /\ f[m + 1] = f[m] \o seqs[m + 1]
          BY <3>2
        <5>2. /\ Len(f[m]) <= Len(f[m] \o seqs[m + 1])
              /\ \A j \in 1 .. Len(f[m]) : (f[m] \o seqs[m + 1])[j] = f[m][j]
          BY <5>1, Joined
        <5> QED BY <5>1, <5>2
      <4>3. \A j \in 1 .. Len(f[k]) : j \in 1 .. Len(f[m])
        BY <3>3, <4>1
      <4>4. Len(f[k]) <= Len(f[m + 1])
        BY <3>3, <4>1, <4>2
      <4> QED BY <3>3, <4>2, <4>3, <4>4
    <3>5. Starts(m + 1)
      BY <3>4
    <3> HIDE DEF Starts
    <3> QED BY <2>1, <3>5
  <2>5. m + 1 < k \/ m + 1 = k \/ m >= k
    BY <1>1, <2>1
  <2> HIDE DEF T
  <2> QED BY <2>2, <2>3, <2>4, <2>5
<1>5. n \in T
  <2>1. \A m \in 0 .. (n - 1) : m \in T => m + 1 \in T
    BY <1>4
  <2> HIDE DEF T, n
  <2>2. \A m \in 0 .. n : m \in T
    BY <1>1, <1>3, <2>1, Climb
  <2> QED BY <1>1, <2>2
<1>6. FlattenSeq(seqs) = f[n]
  <2>1. seqs # <<>>
    BY <1>1
  <2> QED BY <2>1, Flattened DEF f
<1> QED BY <1>1, <1>5, <1>6 DEF f

(* Pieces of one item each are the items. *)
Singles(seqs, k, x) == \A j \in 1 .. k : seqs[j] = <<x[j]>>

LEMMA UptoSingles ==
  ASSUME NEW D, NEW seqs \in Seq(Seq(D)), NEW x \in Seq(D), NEW k \in 1 .. Len(seqs), Singles(seqs, k, x)
  PROVE  Len(Upto(seqs)[k]) = k /\ \A j \in 1 .. k : Upto(seqs)[k][j] = x[j]
<1>0. \A j \in 1 .. k : seqs[j] = <<x[j]>>
  BY DEF Singles
<1> DEFINE f == Upto(seqs)
           T == {m \in 0 .. k : m # 0 => Len(f[m]) = m /\ \A j \in 1 .. m : f[m][j] = x[j]}
<1>1. k \in Nat /\ \A i \in 1 .. k : i \in 1 .. Len(seqs) /\ seqs[i] \in Seq(D)
  OBVIOUS
<1>2. \A m \in 1 .. k : /\ f[m] \in Seq(D)
                        /\ m = 1 => f[m] = seqs[1]
                        /\ m # 1 => m - 1 \in 1 .. Len(seqs) /\ f[m] = f[m - 1] \o seqs[m]
  BY <1>1, UptoSteps
<1> HIDE DEF f
<1>3. 0 \in T
  BY <1>1
<1>4. ASSUME NEW m \in 0 .. (k - 1), m \in T PROVE m + 1 \in T
  <2>1. m + 1 \in 1 .. k /\ m + 1 \in 0 .. k /\ (m + 1) - 1 = m /\ m \in Nat
    BY <1>1
  <2>2. Len(seqs[m + 1]) = 1 /\ seqs[m + 1][1] = x[m + 1] /\ seqs[m + 1] \in Seq(D)
    <3>1. seqs[m + 1] = <<x[m + 1]>> /\ seqs[m + 1] \in Seq(D)
      BY <1>0, <1>1, <2>1
    <3>2. Len(<<x[m + 1]>>) = 1 /\ <<x[m + 1]>>[1] = x[m + 1]
      OBVIOUS
    <3> QED BY <3>1, <3>2
  <2>3. CASE m = 0
    <3>1. m + 1 = 1 /\ \A j \in 1 .. (m + 1) : j = m + 1
      BY <2>3
    <3>2. f[m + 1] = seqs[m + 1]
      BY <1>2, <2>1, <3>1
    <3> QED BY <2>1, <2>2, <3>1, <3>2
  <2>4. CASE m # 0
    <3>1. m \in 1 .. k /\ m + 1 # 1
      BY <2>1, <2>4
    <3>2. f[m] \in Seq(D) /\ seqs[m + 1] \in Seq(D) /\ f[m + 1] = f[m] \o seqs[m + 1]
      BY <1>1, <1>2, <2>1, <3>1
    <3>3. Len(f[m]) = m /\ \A j \in 1 .. m : f[m][j] = x[j]
      BY <1>4, <2>4
    <3>4. /\ Len(f[m + 1]) = m + 1
          /\ \A j \in 1 .. m : f[m + 1][j] = f[m][j]
          /\ f[m + 1][m + 1] = seqs[m + 1][1]
      <4>1. 1 \in 1 .. Len(seqs[m + 1])
        BY <2>2
      <4> DEFINE a == f[m]
                 b == seqs[m + 1]
      <4>2. a \in Seq(D) /\ b \in Seq(D) /\ f[m + 1] = a \o b /\ Len(a) = m /\ Len(b) = 1
        BY <2>2, <3>2, <3>3
      <4> HIDE DEF a, b
      <4>3. Len(a \o b) = Len(a) + Len(b) /\ \A j \in 1 .. Len(a) : (a \o b)[j] = a[j]
        BY <4>2, Joined
      <4>4. (a \o b)[Len(a) + 1] = b[1]
        BY <4>2, JoinedOne
      <4> QED BY <4>2, <4>3, <4>4 DEF a, b
    <3>5. ASSUME NEW j \in 1 .. (m + 1) PROVE f[m + 1][j] = x[j]
      <4>1. j \in 1 .. m \/ j = m + 1
        BY <2>1
      <4> QED BY <2>2, <3>3, <3>4, <4>1
    <3> QED BY <2>1, <3>4, <3>5
  <2> QED BY <2>3, <2>4
<1>5. \A m \in 0 .. k : m \in T
  <2>1. \A m \in 0 .. (k - 1) : m \in T => m + 1 \in T
    BY <1>4
  <2> HIDE DEF T
  <2> QED BY <1>1, <1>3, <2>1, Climb
<1>6. k \in 0 .. k /\ k # 0
  BY <1>1
<1> QED BY <1>5, <1>6 DEF f

(* What is in a flattened sequence. *)
LEMMA FlattenRange ==
  ASSUME NEW D, NEW seqs \in Seq(Seq(D))
  PROVE  Range(FlattenSeq(seqs)) = UNION {Range(seqs[i]) : i \in 1 .. Len(seqs)}
<1> DEFINE f == Upto(seqs)
           n == Len(seqs)
           Parts(k) == UNION {Range(seqs[i]) : i \in 1 .. k}
           T == {k \in 0 .. n : k # 0 => Range(f[k]) = Parts(k)}
<1>1. n \in Nat /\ \A i \in 1 .. n : seqs[i] \in Seq(D)
  OBVIOUS
<1>2. \A m \in 1 .. n : /\ f[m] \in Seq(D)
                        /\ m = 1 => f[m] = seqs[1]
                        /\ m # 1 => m - 1 \in 1 .. n /\ f[m] = f[m - 1] \o seqs[m]
  BY UptoSteps
<1> HIDE DEF f
<1>3. 0 \in T
  BY <1>1
<1>4. ASSUME NEW k \in 0 .. (n - 1), k \in T PROVE k + 1 \in T
  <2>1. k + 1 \in 1 .. n /\ k + 1 \in 0 .. n /\ (k + 1) - 1 = k /\ k \in Nat
    BY <1>1
  <2>2. Parts(k + 1) = Parts(k) \cup Range(seqs[k + 1])
    <3>1. \A i : i \in 1 .. (k + 1) <=> i \in 1 .. k \/ i = k + 1
      BY <2>1
    <3> QED BY <3>1, Zenon
  <2>3. CASE k = 0
    <3>1. Parts(k) = {}
      BY <2>3
    <3> HIDE DEF Parts
    <3>2. f[k + 1] = seqs[k + 1]
      <4>1. k + 1 = 1
        BY <2>3
      <4> QED BY <1>2, <2>1, <4>1
    <3>3. Range(f[k + 1]) = Parts(k + 1)
      BY <2>2, <2>3, <3>1, <3>2
    <3> QED BY <2>1, <3>3
  <2>4. CASE k # 0
    <3>1. k \in 1 .. n /\ k + 1 # 1
      BY <2>1, <2>4
    <3>2. f[k] \in Seq(D) /\ seqs[k + 1] \in Seq(D) /\ f[k + 1] = f[k] \o seqs[k + 1]
      BY <1>1, <1>2, <2>1, <3>1
    <3>3. Range(f[k]) = Parts(k)
      BY <1>4, <2>4
    <3> HIDE DEF Parts
    <3>4. Range(f[k + 1]) = Parts(k + 1)
      <4>1. Range(f[k] \o seqs[k + 1]) = Range(f[k]) \cup Range(seqs[k + 1])
        BY <3>2, RangeConcatenation
      <4> QED BY <2>2, <3>2, <3>3, <4>1
    <3> QED BY <2>1, <3>4
  <2> QED BY <2>3, <2>4
<1>5. n \in T
  <2>1. \A m \in 0 .. (n - 1) : m \in T => m + 1 \in T
    BY <1>4
  <2> HIDE DEF T, n
  <2>2. \A m \in 0 .. n : m \in T
    BY <1>1, <1>3, <2>1, Climb
  <2> QED BY <1>1, <2>2
<1>6. CASE seqs = <<>>
  <2>1. FlattenSeq(seqs) = <<>> /\ n = 0
    BY <1>6, Flattened
  <2>2. Range(<<>>) = {} /\ Parts(0) = {}
    BY DEF Range
  <2> QED BY <2>1, <2>2
<1>7. CASE seqs # <<>>
  <2>1. FlattenSeq(seqs) = f[n] /\ n # 0
    BY <1>7, Flattened DEF f
  <2> QED BY <1>5, <2>1
<1> QED BY <1>6, <1>7

(* One more piece comes last. *)
LEMMA FlattenAppend ==
  ASSUME NEW D, NEW seqs \in Seq(Seq(D)), NEW s \in Seq(D)
  PROVE  FlattenSeq(Append(seqs, s)) = FlattenSeq(seqs) \o s
<1> DEFINE n == Len(seqs)
           more == Append(seqs, s)
           f == Upto(seqs)
           g == Upto(more)
           T == {k \in 0 .. n : k # 0 => g[k] = f[k]}
<1>1. /\ n \in Nat /\ more \in Seq(Seq(D)) /\ Len(more) = n + 1 /\ more # <<>>
      /\ more[n + 1] = s /\ \A k \in 1 .. n : more[k] = seqs[k]
  BY AppendProperties
<1> HIDE DEF more
<1>2. \A k \in 1 .. n : /\ k = 1 => f[k] = seqs[1]
                        /\ k # 1 => k - 1 \in 1 .. n /\ f[k] = f[k - 1] \o seqs[k]
  BY UptoSteps
<1>3. \A k \in 1 .. (n + 1) : /\ k = 1 => g[k] = more[1]
                              /\ k # 1 => k - 1 \in 1 .. (n + 1) /\ g[k] = g[k - 1] \o more[k]
  <2>1. \A k \in 1 .. Len(more) : /\ k = 1 => g[k] = more[1]
                                  /\ k # 1 => k - 1 \in 1 .. Len(more) /\ g[k] = g[k - 1] \o more[k]
    BY <1>1, UptoSteps
  <2> QED BY <1>1, <2>1
<1> HIDE DEF f, g
<1>4. 0 \in T
  BY <1>1
<1>5. ASSUME NEW k \in 0 .. (n - 1), k \in T PROVE k + 1 \in T
  <2>1. k + 1 \in 1 .. n /\ k + 1 \in 0 .. n /\ k + 1 \in 1 .. (n + 1) /\ (k + 1) - 1 = k
    BY <1>1
  <2>2. CASE k = 0
    <3>1. k + 1 = 1 /\ 1 \in 1 .. n
      BY <2>1, <2>2
    <3>2. g[k + 1] = f[k + 1]
      BY <1>1, <1>2, <1>3, <2>1, <3>1
    <3> QED BY <2>1, <3>2
  <2>3. CASE k # 0
    <3>1. k + 1 # 1 /\ g[k] = f[k]
      BY <1>5, <2>1, <2>3
    <3>2. g[k + 1] = g[k] \o more[k + 1] /\ f[k + 1] = f[k] \o seqs[k + 1] /\ more[k + 1] = seqs[k + 1]
      BY <1>1, <1>2, <1>3, <2>1, <3>1
    <3> QED BY <2>1, <3>1, <3>2
  <2> QED BY <2>2, <2>3
<1>6. n \in T
  <2>1. \A m \in 0 .. (n - 1) : m \in T => m + 1 \in T
    BY <1>5
  <2> HIDE DEF T, n
  <2>2. \A m \in 0 .. n : m \in T
    BY <1>1, <1>4, <2>1, Climb
  <2> QED BY <1>1, <2>2
<1>7. FlattenSeq(more) = g[n + 1]
  BY <1>1, Flattened DEF g
<1>8. CASE seqs = <<>>
  <2>0. n = 0 /\ FlattenSeq(seqs) = <<>>
    BY <1>8, Flattened
  <2>1. n = 0 /\ FlattenSeq(seqs) = <<>> /\ n + 1 = 1 /\ n + 1 \in 1 .. (n + 1)
    BY <2>0
  <2>2. g[n + 1] = s
    BY <1>1, <1>3, <2>1
  <2>3. <<>> \o s = s
    BY ConcatEmptySeq
  <2> QED BY <1>7, <2>1, <2>2, <2>3 DEF more
<1>9. CASE seqs # <<>>
  <2>1. n # 0 /\ FlattenSeq(seqs) = f[n] /\ n + 1 # 1 /\ n + 1 \in 1 .. (n + 1) /\ (n + 1) - 1 = n
    BY <1>1, <1>9, Flattened DEF f
  <2>2. g[n + 1] = g[n] \o s
    BY <1>1, <1>3, <2>1
  <2> QED BY <1>6, <1>7, <2>1, <2>2 DEF more
<1> QED BY <1>8, <1>9

-----------------------------------------------------------------------------
(* What Among picks *)

PiecesOf(seq, S) == [i \in DOMAIN seq |-> IF seq[i] \in S THEN <<seq[i]>> ELSE <<>>]

LEMMA PiecesIn ==
  ASSUME NEW D, NEW seq \in Seq(D), NEW S
  PROVE  PiecesOf(seq, S) \in Seq(Seq(D)) /\ Len(PiecesOf(seq, S)) = Len(seq)
<1> DEFINE parts == PiecesOf(seq, S)
<1>1. DOMAIN seq = 1 .. Len(seq) /\ Len(seq) \in Nat /\ \A i \in 1 .. Len(seq) : seq[i] \in D
  OBVIOUS
<1>2. ASSUME NEW i \in 1 .. Len(seq) PROVE parts[i] \in Seq(D)
  <2>1. parts[i] = IF seq[i] \in S THEN <<seq[i]>> ELSE <<>>
    BY <1>1 DEF PiecesOf
  <2>2. <<>> \in Seq(D) /\ <<seq[i]>> \in Seq(D)
    BY <1>1
  <2> QED BY <2>1, <2>2
<1>3. parts = [i \in 1 .. Len(seq) |-> parts[i]]
  BY <1>1 DEF PiecesOf
<1>4. parts \in [1 .. Len(seq) -> Seq(D)]
  BY <1>2, <1>3
<1> QED BY <1>1, <1>4

LEMMA AmongRange ==
  ASSUME NEW D, NEW seq \in Seq(D), NEW S
  PROVE  Range(Among(seq, S)) = Range(seq) \cap S
<1> DEFINE parts == PiecesOf(seq, S)
<1>1. Range(FlattenSeq(parts)) = UNION {Range(parts[i]) : i \in 1 .. Len(parts)}
  BY PiecesIn, FlattenRange
<1>2. Len(parts) = Len(seq) /\ DOMAIN seq = 1 .. Len(seq)
  BY PiecesIn
<1>3. \A i \in DOMAIN seq : Range(parts[i]) = {seq[i]} \cap S
  BY DEF PiecesOf, Range
<1>4. UNION {Range(parts[i]) : i \in 1 .. Len(parts)} = Range(seq) \cap S
  <2> HIDE DEF parts
  <2> QED BY <1>2, <1>3 DEF Range
<1> QED BY <1>1, <1>4 DEF Among, PiecesOf

LEMMA AmongSame ==
  ASSUME NEW D, NEW seq \in Seq(D), NEW S, NEW R, \A x \in Range(seq) : x \in S <=> x \in R
  PROVE  Among(seq, S) = Among(seq, R)
<1>1. PiecesOf(seq, S) = PiecesOf(seq, R)
  <2>1. \A i \in DOMAIN seq : seq[i] \in S <=> seq[i] \in R
    BY DEF Range
  <2> QED BY <2>1 DEF PiecesOf
<1> QED BY <1>1 DEF Among, PiecesOf

LEMMA AmongAppend ==
  ASSUME NEW D, NEW seq \in Seq(D), NEW x \in D, NEW S
  PROVE  Among(Append(seq, x), S) = Among(seq, S) \o (IF x \in S THEN <<x>> ELSE <<>>)
<1> DEFINE piece == IF x \in S THEN <<x>> ELSE <<>>
           more == Append(seq, x)
           parts == PiecesOf(seq, S)
           all == PiecesOf(more, S)
           n == Len(seq)
<1>1. /\ n \in Nat /\ more \in Seq(D) /\ Len(more) = n + 1 /\ more[n + 1] = x /\ DOMAIN seq = 1 .. n
      /\ DOMAIN more = 1 .. (n + 1) /\ \A i \in 1 .. n : more[i] = seq[i]
  BY AppendProperties
<1>2. parts \in Seq(Seq(D)) /\ Len(parts) = n /\ all \in Seq(Seq(D)) /\ Len(all) = n + 1 /\ piece \in Seq(D)
  <2>1. piece \in Seq(D)
    OBVIOUS
  <2>2. all \in Seq(Seq(D)) /\ Len(all) = n + 1
    BY <1>1, PiecesIn
  <2> QED BY <2>1, <2>2, PiecesIn
<1>3. \A i \in 1 .. (n + 1) : all[i] = IF i <= n THEN parts[i] ELSE piece
  <2>1. ASSUME NEW i \in 1 .. n PROVE all[i] = parts[i]
    <3>1. i \in DOMAIN more /\ i \in DOMAIN seq /\ more[i] = seq[i]
      BY <1>1
    <3> HIDE DEF more
    <3> QED BY <3>1 DEF PiecesOf
  <2>2. all[n + 1] = piece
    <3>1. n + 1 \in DOMAIN more /\ more[n + 1] = x
      BY <1>1
    <3> HIDE DEF more
    <3> QED BY <3>1 DEF PiecesOf
  <2>3. \A i \in 1 .. (n + 1) : (i <= n /\ i \in 1 .. n) \/ (~(i <= n) /\ i = n + 1)
    BY <1>1
  <2> HIDE DEF all, parts, piece, n
  <2> QED BY <2>1, <2>2, <2>3
<1> HIDE DEF all, parts, piece, more
<1>4. all = Append(parts, piece)
  <2>1. /\ Append(parts, piece) \in Seq(Seq(D)) /\ Len(Append(parts, piece)) = n + 1
        /\ \A i \in 1 .. n : Append(parts, piece)[i] = parts[i]
        /\ Append(parts, piece)[n + 1] = piece
    BY <1>2, AppendProperties
  <2>2. \A i \in 1 .. (n + 1) : Append(parts, piece)[i] = IF i <= n THEN parts[i] ELSE piece
    <3>1. \A i \in 1 .. (n + 1) : (i <= n /\ i \in 1 .. n) \/ (~(i <= n) /\ i = n + 1)
      BY <1>1
    <3> HIDE DEF n
    <3> QED BY <2>1, <3>1
  <2>3. \A i \in 1 .. (n + 1) : all[i] = Append(parts, piece)[i]
    BY <1>3, <2>2
  <2> QED BY <1>2, <2>1, <2>3, SeqEqual
<1>5. FlattenSeq(Append(parts, piece)) = FlattenSeq(parts) \o piece
  BY <1>2, FlattenAppend
<1> QED BY <1>4, <1>5 DEF Among, PiecesOf, all, parts, more, piece

LEMMA NothingAmong ==
  ASSUME NEW S
  PROVE  Among(<<>>, S) = <<>>
BY DEF Among, FlattenSeq

(* Picking twice. *)
LEMMA AmongAmong ==
  ASSUME NEW D, NEW seq \in Seq(D), NEW S, NEW R
  PROVE  Among(Among(seq, S), R) = Among(seq, S \cap R)
<1> DEFINE n == Len(seq)
           upto(k) == SubSeq(seq, 1, k)
           T == {k \in 0 .. n : Among(Among(upto(k), S), R) = Among(upto(k), S \cap R)}
<1>1. n \in Nat
  OBVIOUS
<1>2. 0 \in T
  <2>1. upto(0) = <<>>
    BY SubSeqEmpty
  <2>2. Among(Among(upto(0), S), R) = Among(upto(0), S \cap R)
    BY <2>1, NothingAmong
  <2> QED BY <1>1, <2>2
<1>3. ASSUME NEW k \in 0 .. (n - 1), k \in T PROVE k + 1 \in T
  <2> DEFINE a == upto(k)
             x == seq[k + 1]
             b == Among(a, S)
  <2>1. k + 1 \in 1 .. n /\ k + 1 \in 0 .. n
    BY <1>1
  <2>2. a \in Seq(D) /\ x \in D /\ upto(k + 1) = Append(a, x)
    <3>1. a \in Seq(D)
      BY <2>1, SubSeqProperties
    <3>2. x \in D
      BY <2>1
    <3>3. SubSeq(seq, 1, k + 1) = Append(SubSeq(seq, 1, (k + 1) - 1), seq[k + 1])
      BY <2>1, SubSeqRecursiveSecond
    <3>4. (k + 1) - 1 = k
      OBVIOUS
    <3> QED BY <3>1, <3>2, <3>3, <3>4
  <2> HIDE DEF a, x
  <2>3. b \in Seq(D) /\ Among(b, R) = Among(a, S \cap R)
    <3>1. b \in Seq(D \cap S)
      BY <2>2, AmongIn
    <3> QED BY <1>3, <3>1 DEF a
  <2> HIDE DEF b
  <2>4. Among(Append(a, x), S) = b \o (IF x \in S THEN <<x>> ELSE <<>>)
    BY <2>2, AmongAppend DEF b
  <2>5. Among(Append(a, x), S \cap R) = Among(a, S \cap R) \o (IF x \in S \cap R THEN <<x>> ELSE <<>>)
    BY <2>2, AmongAppend
  <2>6. CASE x \in S
    <3>1. b \o <<x>> = Append(b, x)
      BY <2>2, <2>3, AppendIsConcat
    <3>2. Among(Append(b, x), R) = Among(b, R) \o (IF x \in R THEN <<x>> ELSE <<>>)
      BY <2>2, <2>3, AmongAppend
    <3>3. Among(Among(Append(a, x), S), R) = Among(Append(a, x), S \cap R)
      BY <2>3, <2>4, <2>5, <2>6, <3>1, <3>2
    <3> QED BY <2>1, <2>2, <3>3
  <2>7. CASE x \notin S
    <3>1. b \o <<>> = b
      BY <2>3, ConcatEmptySeq
    <3>2. Among(a, S \cap R) \in Seq(D)
      <4>1. Among(a, S \cap R) \in Seq(D \cap (S \cap R))
        BY <2>2, AmongIn
      <4> QED BY <4>1
    <3>3. Among(a, S \cap R) \o <<>> = Among(a, S \cap R)
      BY <3>2, ConcatEmptySeq
    <3>4. Among(Among(Append(a, x), S), R) = Among(Append(a, x), S \cap R)
      BY <2>3, <2>4, <2>5, <2>7, <3>1, <3>3
    <3> QED BY <2>1, <2>2, <3>4
  <2> QED BY <2>6, <2>7
<1>4. n \in T
  <2>1. \A m \in 0 .. (n - 1) : m \in T => m + 1 \in T
    BY <1>3
  <2> HIDE DEF T, n
  <2>2. \A m \in 0 .. n : m \in T
    BY <1>1, <1>2, <2>1, Climb
  <2> QED BY <1>1, <2>2
<1>5. upto(n) = seq
  BY SubSeqFull
<1> QED BY <1>4, <1>5

-----------------------------------------------------------------------------
(* What is left of the commands for one path *)

Related(p, q) == IsStrictPrefix(p, q) \/ IsStrictPrefix(q, p)

PathOf(c) == KeyPath(c.tokens)

(* Which of the first k commands are about a path. *)
About(cmds, keys, k) == {i \in 1 .. k : PathOf(cmds[i]) = keys}

(* The tree of k commands has at the path what the last one of them set,   *)
(* or the values of all of them, and no leaf but those of the commands.    *)
Holds(t, cmds, keys, k) ==
  /\ DOMAIN t \subseteq {PathOf(cmds[i]) : i \in 1 .. k}
  /\ keys \in DOMAIN t <=> About(cmds, keys, k) # {}
  /\ keys \in DOMAIN t /\ ~Appends(keys)
     => t[keys] = One(ParseValue(cmds[Max(About(cmds, keys, k))].raw))
  /\ keys \in DOMAIN t /\ Appends(keys)
     => \E D : \E items \in Seq(D) :
          /\ t[keys] = List(items)
          /\ Range(items) = {ParseValue(cmds[i].raw) : i \in About(cmds, keys, k)}

LEMMA RangeAppend ==
  ASSUME NEW D, NEW seq \in Seq(D), NEW x \in D
  PROVE  Range(Append(seq, x)) = Range(seq) \cup {x}
<1> DEFINE n == Len(seq)
           more == Append(seq, x)
<1>1. /\ n \in Nat /\ DOMAIN seq = 1 .. n /\ DOMAIN more = 1 .. (n + 1)
      /\ more[n + 1] = x /\ \A i \in 1 .. n : more[i] = seq[i]
  BY AppendProperties
<1>2. \A i : i \in 1 .. (n + 1) <=> i \in 1 .. n \/ i = n + 1
  BY <1>1
<1> HIDE DEF more, n
<1> QED BY <1>1, <1>2 DEF Range, more

LEMMA PutElsewhere ==
  ASSUME NEW t, NEW p, NEW v, NEW keys, keys # p, ~Related(p, keys)
  PROVE  /\ DOMAIN Put(t, p, v) \subseteq DOMAIN t \cup {p}
         /\ keys \in DOMAIN Put(t, p, v) <=> keys \in DOMAIN t
         /\ keys \in DOMAIN t => Put(t, p, v)[keys] = t[keys]
BY DEF Put, Above, Below, Related

LEMMA PutThere ==
  ASSUME NEW t, NEW p, NEW v
  PROVE  /\ DOMAIN Put(t, p, v) \subseteq DOMAIN t \cup {p}
         /\ p \in DOMAIN Put(t, p, v) /\ Put(t, p, v)[p] = v
BY DEF Put

LEMMA EnteredIsPut ==
  ASSUME NEW t, NEW c, Accepted(c)
  PROVE  \E v : Entered(t, c) = Put(t, PathOf(c), v)
<1>1. Entered(t, c) = SetByPath(t, PathOf(c), ParseValue(c.raw))
  BY DEF Entered, AfterSet, PathOf
<1> QED BY <1>1 DEF SetByPath

(* One command more. *)
LEMMA HoldsStep ==
  ASSUME NEW cmds, NEW keys, NEW k \in Nat, NEW t, Holds(t, cmds, keys, k),
         Accepted(cmds[k + 1]),
         \A i \in 1 .. k + 1 : ~Related(PathOf(cmds[i]), keys)
  PROVE  Holds(Entered(t, cmds[k + 1]), cmds, keys, k + 1)
<1> DEFINE c == cmds[k + 1]
           p == PathOf(c)
           u == Entered(t, c)
           v == ParseValue(c.raw)
           old == About(cmds, keys, k)
           new == About(cmds, keys, k + 1)
<1>1. /\ \A i : i \in 1 .. (k + 1) <=> i \in 1 .. k \/ i = k + 1
      /\ k + 1 \notin 1 .. k /\ k + 1 \in Nat
  OBVIOUS
<1>2. {PathOf(cmds[i]) : i \in 1 .. (k + 1)} = {PathOf(cmds[i]) : i \in 1 .. k} \cup {p}
  BY <1>1, Zenon
<1>3. ~Related(p, keys)
  BY <1>1
<1>4. CASE p # keys
  <2>1. PICK w : u = Put(t, p, w)
    BY EnteredIsPut
  <2>2. new = old
    BY <1>1, <1>4 DEF About
  <2>3. /\ DOMAIN u \subseteq DOMAIN t \cup {p} /\ (keys \in DOMAIN u <=> keys \in DOMAIN t)
        /\ keys \in DOMAIN t => u[keys] = t[keys]
    <3> HIDE DEF u, p
    <3>1. /\ DOMAIN Put(t, p, w) \subseteq DOMAIN t \cup {p}
          /\ keys \in DOMAIN Put(t, p, w) <=> keys \in DOMAIN t
          /\ keys \in DOMAIN t => Put(t, p, w)[keys] = t[keys]
      BY <1>3, <1>4, PutElsewhere
    <3> QED BY <2>1, <3>1
  <2> HIDE DEF u, p
  <2>4. DOMAIN u \subseteq {PathOf(cmds[i]) : i \in 1 .. (k + 1)}
    BY <1>2, <2>3 DEF Holds
  <2> QED BY <2>2, <2>3, <2>4, Zenon DEF Holds, u
<1>5. CASE p = keys
  <2>1. new = old \cup {k + 1} /\ new # {}
    BY <1>1, <1>5 DEF About
  <2>2. Max(new) = k + 1
    <3>1. new \in SUBSET (1 .. (k + 1)) /\ k + 1 \in new
      BY <1>1, <2>1 DEF About
    <3> HIDE DEF new
    <3> QED BY <1>1, <3>1, MaxIs
  <2>3. Below(t, keys) = {}
    <3>1. \A q \in DOMAIN t : ~IsStrictPrefix(keys, q)
      BY <1>1 DEF Holds, Related
    <3> QED BY <3>1 DEF Below
  <2> DEFINE w == IF ~Appends(keys) THEN One(v)
                  ELSE IF keys \notin DOMAIN t THEN List(<<v>>)
                  ELSE List(Append(t[keys].items, v))
  <2>4. u = Put(t, keys, w)
    <3>1. u = SetByPath(t, keys, v)
      BY <1>5 DEF Entered, AfterSet, PathOf
    <3> QED BY <2>3, <3>1 DEF SetByPath
  <2>5. DOMAIN u \subseteq DOMAIN t \cup {keys} /\ keys \in DOMAIN u /\ u[keys] = w
    <3> HIDE DEF w, u
    <3> QED BY <2>4, PutThere
  <2>6. DOMAIN u \subseteq {PathOf(cmds[i]) : i \in 1 .. (k + 1)}
    <3> HIDE DEF u, p
    <3> QED BY <1>2, <1>5, <2>5 DEF Holds
  <2>7. ~Appends(keys) => u[keys] = One(ParseValue(cmds[Max(new)].raw))
    <3> HIDE DEF u, new
    <3> QED BY <2>2, <2>5
  <2>8. ASSUME Appends(keys)
        PROVE  \E D : \E items \in Seq(D) :
                 /\ u[keys] = List(items)
                 /\ Range(items) = {ParseValue(cmds[i].raw) : i \in new}
    <3>1. {ParseValue(cmds[i].raw) : i \in new} = {ParseValue(cmds[i].raw) : i \in old} \cup {v}
      <4> HIDE DEF new, old
      <4> QED BY <2>1
    <3>2. CASE keys \notin DOMAIN t
      <4>1. u[keys] = List(<<v>>)
        BY <2>5, <2>8, <3>2
      <4>2. <<v>> \in Seq({v}) /\ Range(<<v>>) = {v}
        BY DEF Range
      <4>3. old = {}
        BY <3>2 DEF Holds
      <4> HIDE DEF u, v, old, new
      <4> QED BY <3>1, <4>1, <4>2, <4>3
    <3>3. CASE keys \in DOMAIN t
      <4>1. PICK D : \E items \in Seq(D) :
              t[keys] = List(items) /\ Range(items) = {ParseValue(cmds[i].raw) : i \in old}
        BY <2>8, <3>3 DEF Holds
      <4>2. PICK items \in Seq(D) :
              t[keys] = List(items) /\ Range(items) = {ParseValue(cmds[i].raw) : i \in old}
        BY <4>1
      <4>3. u[keys] = List(Append(items, v))
        BY <2>5, <2>8, <3>3, <4>2 DEF List
      <4>4. items \in Seq(D \cup {v}) /\ v \in D \cup {v}
        OBVIOUS
      <4> HIDE DEF u, v, old, new
      <4>5. Append(items, v) \in Seq(D \cup {v}) /\ Range(Append(items, v)) = Range(items) \cup {v}
        BY <4>4, RangeAppend, AppendProperties
      <4> QED BY <3>1, <4>2, <4>3, <4>5
    <3> QED BY <3>2, <3>3
  <2> HIDE DEF u, new
  <2> QED BY <2>1, <2>5, <2>6, <2>7, <2>8, Zenon DEF Holds, u, new
<1> QED BY <1>4, <1>5

LEMMA Tracked ==
  ASSUME NEW cmds \in Seq(Passed), NEW keys,
         \A i \in 1 .. Len(cmds) : ~Related(PathOf(cmds[i]), keys)
  PROVE  Holds(TreeOf(cmds), cmds, keys, Len(cmds))
<1> DEFINE n == Len(cmds)
           T == {k \in 0 .. n : Holds(Made(cmds)[1 .. k], cmds, keys, k)}
<1>1. /\ n \in Nat /\ DOMAIN cmds = 1 .. n /\ \A i \in 1 .. n : Accepted(cmds[i])
  BY DEF Passed
<1>2. /\ Made(cmds)[{}] = EmptyTree
      /\ \A k \in 1 .. n : Made(cmds)[1 .. k] = Entered(Made(cmds)[1 .. (k - 1)], cmds[k])
  BY <1>1, MadeSteps
<1>3. 0 \in T
  <2>1. 1 .. 0 = {} /\ 0 \in 0 .. n /\ DOMAIN EmptyTree = {}
    BY <1>1 DEF EmptyTree
  <2>2. Holds(EmptyTree, cmds, keys, 0)
    BY <2>1 DEF Holds, About
  <2> QED BY <1>2, <2>1, <2>2
<1>4. ASSUME NEW k \in 0 .. (n - 1), k \in T PROVE k + 1 \in T
  <2>1. k + 1 \in 1 .. n /\ k \in Nat /\ (k + 1) - 1 = k /\ k + 1 \in 0 .. n
    BY <1>1
  <2>2. Made(cmds)[1 .. (k + 1)] = Entered(Made(cmds)[1 .. k], cmds[k + 1])
    BY <1>2, <2>1
  <2>3. \A i \in 1 .. k + 1 : i \in 1 .. n
    BY <1>1, <2>1
  <2>4. Holds(Entered(Made(cmds)[1 .. k], cmds[k + 1]), cmds, keys, k + 1)
    BY <1>1, <1>4, <2>1, <2>3, HoldsStep
  <2> QED BY <2>1, <2>2, <2>4
<1>5. n \in T
  <2>1. \A k \in 0 .. (n - 1) : k \in T => k + 1 \in T
    BY <1>4
  <2> HIDE DEF T
  <2>2. \A k \in 0 .. n : k \in T
    BY <1>1, <1>3, <2>1, Climb
  <2> QED BY <1>1, <2>2
<1> QED BY <1>1, <1>5, TreeOfIsMade

-----------------------------------------------------------------------------
(* The path of a command *)

(* Two sequences that differ at a place both have. *)
LEMMA Differ ==
  ASSUME NEW D, NEW a \in Seq(D), NEW b \in Seq(D),
         NEW i \in 1 .. Len(a), i \in 1 .. Len(b), a[i] # b[i]
  PROVE  ~Related(a, b) /\ a # b
<1>1. ASSUME NEW s \in Seq(D), NEW t \in Seq(D), i \in 1 .. Len(s), i \in 1 .. Len(t), s[i] # t[i]
      PROVE  ~IsStrictPrefix(s, t)
  <2> SUFFICES ASSUME Len(s) <= Len(t), SubSeq(s, 1, Len(s)) = SubSeq(t, 1, Len(s)) PROVE FALSE
    BY DEF IsStrictPrefix, IsPrefix
  <2>1. SubSeq(s, 1, Len(s)) = s
    BY SubSeqFull
  <2>2. SubSeq(t, 1, Len(s))[i] = t[i]
    <3>1. Len(s) \in Int /\ Len(t) \in Int /\ i \in Int /\ 1 <= i /\ i <= Len(s) /\ Len(s) <= Len(t)
      BY <1>1
    <3>2. i \in 1 .. (Len(s) - 1 + 1) /\ 1 + i - 1 = i
      BY <3>1
    <3>3. \A j \in 1 .. Len(s) : t[j] \in D
      BY <3>1
    <3>4. \A j \in 1 .. (Len(s) - 1 + 1) : SubSeq(t, 1, Len(s))[j] = t[1 + j - 1]
      BY <3>1, <3>3, SubSeqProperties
    <3> QED BY <3>2, <3>4
  <2> QED BY <1>1, <2>1, <2>2
<1> QED BY <1>1 DEF Related

LEMMA SameLength ==
  ASSUME NEW D, NEW a \in Seq(D), NEW b \in Seq(D), Len(a) = Len(b)
  PROVE  ~Related(a, b)
<1>1. SubSeq(a, 1, Len(a)) = a /\ SubSeq(b, 1, Len(b)) = b
  BY SubSeqFull
<1> QED BY <1>1 DEF Related, IsStrictPrefix, IsPrefix

Pieces(tokens) ==
  [i \in DOMAIN tokens |-> LET t == Underscored(tokens[i])
                           IN IF t \in DOMAIN Dotted THEN Dotted[t] ELSE <<t>>]

(* Every key: those of tokens and those that tokens fall into. *)
Keys(tokens) == Range(Normal(tokens)) \cup STRING

LEMMA PiecesAre ==
  ASSUME NEW E, NEW tokens \in Seq(E)
  PROVE  /\ Pieces(tokens) \in Seq(Seq(Keys(tokens))) /\ Len(Pieces(tokens)) = Len(tokens)
         /\ Normal(tokens) \in Seq(Keys(tokens)) /\ Len(Normal(tokens)) = Len(tokens)
         /\ \A i \in 1 .. Len(tokens) :
              Pieces(tokens)[i] = IF Normal(tokens)[i] \in DOMAIN Dotted
                                  THEN Dotted[Normal(tokens)[i]] ELSE <<Normal(tokens)[i]>>
         /\ KeyPath(tokens) = FlattenSeq(Pieces(tokens))
<1> DEFINE n == Len(tokens)
           t == Normal(tokens)
           s == Pieces(tokens)
           D == Keys(tokens)
<1>1. n \in Nat /\ DOMAIN tokens = 1 .. n
  OBVIOUS
<1>2. t = [i \in 1 .. n |-> Underscored(tokens[i])]
  BY <1>1 DEF Normal
<1>3. \A i \in 1 .. n : t[i] \in D
  BY <1>2 DEF Keys, Range
<1>4. t \in [1 .. n -> D]
  <2> HIDE DEF D, n
  <2>1. t = [i \in 1 .. n |-> t[i]]
    BY <1>2
  <2> QED BY <1>3, <2>1
<1>5. s = [i \in 1 .. n |-> IF t[i] \in DOMAIN Dotted THEN Dotted[t[i]] ELSE <<t[i]>>]
  BY <1>1, <1>2, Zenon DEF Pieces
<1>6. ASSUME NEW i \in 1 .. n PROVE s[i] \in Seq(D)
  <2>1. CASE t[i] \in DOMAIN Dotted
    <3>1. s[i] \in Seq(STRING)
      <4> HIDE DEF s, t, n
      <4> QED BY <1>5, <2>1, CommandTreeAssumption
    <3>2. STRING \subseteq D
      BY DEF Keys
    <3> HIDE DEF s, t, n, D
    <3> QED BY <3>1, <3>2, SeqMonotonic
  <2>2. CASE t[i] \notin DOMAIN Dotted
    <3> HIDE DEF s, t, n, D
    <3>1. s[i] = <<t[i]>> /\ t[i] \in D
      BY <1>3, <1>5, <2>2
    <3> QED BY <3>1
  <2> QED BY <2>1, <2>2
<1>7. s \in [1 .. n -> Seq(D)]
  <2> HIDE DEF s, t, n, D
  <2>1. s = [i \in 1 .. n |-> s[i]]
    BY <1>5
  <2> QED BY <1>6, <2>1
<1>8. KeyPath(tokens) = FlattenSeq(s)
  BY Zenon DEF KeyPath, Pieces
<1>9. t \in Seq(D) /\ Len(t) = n /\ s \in Seq(Seq(D)) /\ Len(s) = n
  <2> HIDE DEF s, t, n, D
  <2> QED BY <1>1, <1>4, <1>7
<1>10. \A i \in 1 .. n : s[i] = IF t[i] \in DOMAIN Dotted THEN Dotted[t[i]] ELSE <<t[i]>>
  <2> HIDE DEF s, t, n, D
  <2> QED BY <1>5
<1> QED BY <1>8, <1>9, <1>10

(* Tokens without a dot are the keys. *)
LEMMA PathUndotted ==
  ASSUME NEW E, NEW tokens \in Seq(E), Len(tokens) > 0, Range(Normal(tokens)) \cap DOMAIN Dotted = {}
  PROVE  KeyPath(tokens) = Normal(tokens)
<1> DEFINE n == Len(tokens)
           t == Normal(tokens)
           s == Pieces(tokens)
           D == Keys(tokens)
<1>1. /\ s \in Seq(Seq(D)) /\ Len(s) = n /\ t \in Seq(D) /\ Len(t) = n /\ n \in Nat /\ n > 0
      /\ \A i \in 1 .. n : s[i] = IF t[i] \in DOMAIN Dotted THEN Dotted[t[i]] ELSE <<t[i]>>
      /\ KeyPath(tokens) = FlattenSeq(s)
  BY PiecesAre
<1> HIDE DEF s, D, n
<1>2. \A j \in 1 .. n : s[j] = <<t[j]>>
  <2>1. \A j \in 1 .. n : t[j] \notin DOMAIN Dotted
    <3>1. DOMAIN t = 1 .. n /\ Range(t) \cap DOMAIN Dotted = {}
      BY <1>1
    <3> HIDE DEF t
    <3> QED BY <3>1 DEF Range
  <2> QED BY <1>1, <2>1
<1> HIDE DEF t
<1>3. n \in 1 .. n /\ n \in 0 .. n /\ s # <<>>
  BY <1>1
<1>4. Len(Upto(s)[n]) = n /\ \A j \in 1 .. n : Upto(s)[n][j] = t[j]
  <2>1. Singles(s, n, t) /\ n \in 1 .. Len(s)
    BY <1>1, <1>2, <1>3 DEF Singles
  <2>2. s \in Seq(Seq(D)) /\ t \in Seq(D)
    BY <1>1
  <2> QED BY <2>1, <2>2, UptoSingles
<1>5. Upto(s)[n] \in Seq(D) /\ FlattenSeq(s) = Upto(s)[n]
  BY <1>1, <1>3, UptoSteps, Flattened
<1>6. Upto(s)[n] = t
  BY <1>1, <1>4, <1>5, SeqEqual
<1> QED BY <1>1, <1>5, <1>6 DEF t

(* Up to the first token with a dot they are, and then comes what that one *)
(* falls into.                                                             *)
LEMMA PathDotted ==
  ASSUME NEW tokens \in Seq(STRING), Range(Normal(tokens)) \cap DOMAIN Dotted # {}
  PROVE  \E f \in 1 .. Len(tokens) :
           /\ Normal(tokens)[f] \in DOMAIN Dotted
           /\ \E D : KeyPath(tokens) \in Seq(D)
           /\ f + 1 \in 1 .. Len(KeyPath(tokens))
           /\ KeyPath(tokens)[f + 1] = Dotted[Normal(tokens)[f]][2]
           /\ \A j \in 1 .. (f - 1) : KeyPath(tokens)[j] = Normal(tokens)[j]
<1> DEFINE n == Len(tokens)
           t == Normal(tokens)
           s == Pieces(tokens)
           D == Keys(tokens)
           path == KeyPath(tokens)
           Dots == {i \in 1 .. n : t[i] \in DOMAIN Dotted}
<1>1. /\ s \in Seq(Seq(D)) /\ Len(s) = n /\ t \in Seq(D) /\ Len(t) = n /\ n \in Nat
      /\ \A i \in 1 .. n : s[i] = IF t[i] \in DOMAIN Dotted THEN Dotted[t[i]] ELSE <<t[i]>>
      /\ path = FlattenSeq(s)
  BY PiecesAre
<1>2. Dots # {} /\ Dots \in SUBSET (1 .. n)
  <2>1. DOMAIN t = 1 .. n /\ Range(t) \cap DOMAIN Dotted # {}
    BY <1>1
  <2> HIDE DEF t, n
  <2> QED BY <2>1 DEF Range
<1> HIDE DEF s, D, n, t, path
<1> PICK f \in Dots : \A k \in Dots : f <= k
  BY <1>1, <1>2, Least
<1>3. f \in 1 .. n /\ t[f] \in DOMAIN Dotted /\ s[f] = Dotted[t[f]]
  BY <1>1
<1>4. \A j \in 1 .. (f - 1) : s[j] = <<t[j]>> /\ j \in 1 .. n
  <2> SUFFICES ASSUME NEW j \in 1 .. (f - 1) PROVE s[j] = <<t[j]>> /\ j \in 1 .. n
    OBVIOUS
  <2>1. j \in 1 .. n /\ ~(f <= j)
    BY <1>1, <1>3
  <2>2. j \notin Dots
    BY <2>1
  <2> QED BY <1>1, <2>1, <2>2
<1> HIDE DEF Dots
<1> DEFINE g == Upto(s)[f]
           name == Dotted[t[f]]
<1>5. name \in Seq(D) /\ Len(name) \in Nat /\ 2 \in 1 .. Len(name)
  <2>1. name \in Seq(STRING) /\ Len(name) > 1
    BY <1>3, CommandTreeAssumption
  <2>2. STRING \subseteq D
    BY DEF Keys, D
  <2>3. name \in Seq(D)
    <3> HIDE DEF name
    <3> QED BY <2>1, <2>2, SeqMonotonic
  <2> HIDE DEF name
  <2> QED BY <2>1, <2>3
<1>6. /\ g \in Seq(D) /\ f + 1 \in 1 .. Len(g) /\ g[f + 1] = name[2]
      /\ \A j \in 1 .. (f - 1) : g[j] = t[j]
  <2> HIDE DEF name
  <2>1. CASE f = 1
    <3>1. g = name
      BY <1>1, <1>3, <2>1, UptoSteps DEF name
    <3> HIDE DEF g
    <3> QED BY <1>5, <2>1, <3>1
  <2>2. CASE f # 1
    <3> DEFINE a == Upto(s)[f - 1]
    <3>1. g = a \o name /\ f - 1 \in 1 .. Len(s) /\ f - 1 \in 0 .. Len(s)
      <4>1. \A k \in 1 .. Len(s) : k # 1 => k - 1 \in 1 .. Len(s) /\ Upto(s)[k] = Upto(s)[k - 1] \o s[k]
        BY <1>1, UptoSteps
      <4>2. f \in 1 .. Len(s)
        BY <1>1, <1>3
      <4>3. f - 1 \in 1 .. Len(s) /\ g = a \o s[f]
        BY <2>2, <4>1, <4>2
      <4> QED BY <1>1, <1>3, <4>3 DEF name
    <3>2. a \in Seq(D)
      BY <1>1, <3>1, UptoSteps
    <3>3. f - 1 \in 1 .. (f - 1)
      BY <1>1, <1>3, <2>2
    <3>4. Len(a) = f - 1 /\ \A j \in 1 .. (f - 1) : a[j] = t[j]
      <4>1. Singles(s, f - 1, t)
        BY <1>4 DEF Singles
      <4>2. s \in Seq(Seq(D)) /\ t \in Seq(D)
        BY <1>1
      <4> QED BY <3>1, <4>1, <4>2, UptoSingles
    <3> HIDE DEF a, g
    <3>5. /\ a \o name \in Seq(D) /\ Len(a \o name) = (f - 1) + Len(name)
          /\ \A j \in 1 .. (f - 1) : (a \o name)[j] = a[j]
      <4>1. /\ a \o name \in Seq(D) /\ Len(a \o name) = Len(a) + Len(name)
            /\ \A j \in 1 .. Len(a) : (a \o name)[j] = a[j]
        BY <1>5, <3>2, Joined
      <4> QED BY <3>4, <4>1
    <3>6. (a \o name)[(f - 1) + 2] = name[2]
      <4>1. \A j \in 1 .. Len(name) : (a \o name)[Len(a) + j] = name[j]
        BY <1>5, <3>2, Joined
      <4> QED BY <1>5, <3>4, <4>1
    <3>7. (f - 1) + 2 = f + 1 /\ f + 1 \in 1 .. ((f - 1) + Len(name))
      BY <1>1, <1>3, <1>5
    <3> QED BY <3>1, <3>4, <3>5, <3>6, <3>7
  <2> QED BY <2>1, <2>2
<1>7. path \in Seq(D) /\ Len(g) <= Len(path) /\ \A j \in 1 .. Len(g) : path[j] = g[j]
  <2>1. s # <<>> /\ n \in 1 .. Len(s)
    BY <1>1, <1>3
  <2>2. path = Upto(s)[n]
    BY <1>1, <2>1, Flattened
  <2>3. path \in Seq(D)
    <3>1. s \in Seq(Seq(D))
      BY <1>1
    <3>2. \A k \in 1 .. Len(s) : Upto(s)[k] \in Seq(D)
      BY <3>1, UptoSteps
    <3> QED BY <2>1, <2>2, <3>2
  <2>4. f \in 1 .. Len(s)
    BY <1>1, <1>3
  <2>5. /\ Len(Upto(s)[f]) <= Len(FlattenSeq(s))
        /\ \A j \in 1 .. Len(Upto(s)[f]) : FlattenSeq(s)[j] = Upto(s)[f][j]
    BY <1>1, <2>4, UptoStarts
  <2> QED BY <1>1, <2>3, <2>5
<1>8. f + 1 \in 1 .. Len(path) /\ path[f + 1] = name[2] /\ \A j \in 1 .. (f - 1) : path[j] = t[j]
  <2> HIDE DEF g, name
  <2>1. Len(path) \in Nat /\ Len(g) \in Nat
    BY <1>6, <1>7
  <2>2. \A j \in 1 .. (f - 1) : j \in 1 .. Len(g)
    BY <1>1, <1>3, <1>6, <2>1
  <2>3. f + 1 \in 1 .. Len(path)
    BY <1>6, <1>7, <2>1
  <2> QED BY <1>6, <1>7, <2>2, <2>3
<1> QED BY <1>3, <1>7, <1>8 DEF path, t, n

-----------------------------------------------------------------------------
(* Where the settings are *)

LEMMA JoinIs ==
  ASSUME NEW D, NEW a \in Seq(D), NEW b \in Seq(D), NEW c \in Seq(D), Len(c) = Len(a) + Len(b),
         \A j \in 1 .. Len(a) : c[j] = a[j], \A j \in 1 .. Len(b) : c[Len(a) + j] = b[j]
  PROVE  a \o b = c
<1>1. /\ a \o b \in Seq(D) /\ Len(a \o b) = Len(a) + Len(b)
      /\ \A j \in 1 .. Len(a) : (a \o b)[j] = a[j]
      /\ \A j \in 1 .. Len(b) : (a \o b)[Len(a) + j] = b[j]
  BY Joined
<1>2. ASSUME NEW j \in 1 .. Len(c) PROVE (a \o b)[j] = c[j]
  <2>1. Len(a) \in Nat /\ Len(b) \in Nat
    OBVIOUS
  <2>2. CASE j <= Len(a)
    <3>1. j \in 1 .. Len(a)
      BY <2>1, <2>2
    <3> QED BY <1>1, <3>1
  <2>3. CASE ~(j <= Len(a))
    <3>1. j - Len(a) \in 1 .. Len(b) /\ Len(a) + (j - Len(a)) = j
      BY <2>1, <2>3
    <3> QED BY <1>1, <3>1
  <2> QED BY <2>2, <2>3
<1> QED BY <1>1, <1>2, SeqEqual

LEMMA TwoTwo ==
  ASSUME NEW a, NEW b, NEW c, NEW d
  PROVE  <<a, b>> \o <<c, d>> = <<a, b, c, d>>
<1> DEFINE s == <<a, b>>
           t == <<c, d>>
           u == <<a, b, c, d>>
           S == {a, b, c, d}
<1>1. s \in Seq(S) /\ t \in Seq(S) /\ u \in Seq(S)
  OBVIOUS
<1>2. Len(s) = 2 /\ Len(t) = 2 /\ Len(u) = 4
  OBVIOUS
<1>3. ASSUME NEW j \in 1 .. Len(s) PROVE u[j] = s[j]
  <2>1. j = 1 \/ j = 2
    BY <1>2
  <2> QED BY <2>1
<1>4. ASSUME NEW j \in 1 .. Len(t) PROVE u[Len(s) + j] = t[j]
  <2>1. j = 1 \/ j = 2
    BY <1>2
  <2> QED BY <1>2, <2>1
<1> HIDE DEF s, t, u, S
<1>5. Len(u) = Len(s) + Len(t)
  BY <1>2
<1>6. \A j \in 1 .. Len(s) : u[j] = s[j]
  BY <1>3
<1>7. \A j \in 1 .. Len(t) : u[Len(s) + j] = t[j]
  BY <1>4
<1>8. s \o t = u
  BY <1>1, <1>5, <1>6, <1>7, JoinIs
<1> QED BY <1>8 DEF s, t, u

LEMMA ThreeOne ==
  ASSUME NEW a, NEW b, NEW c, NEW d
  PROVE  <<a, b, c>> \o <<d>> = <<a, b, c, d>>
<1> DEFINE s == <<a, b, c>>
           t == <<d>>
           u == <<a, b, c, d>>
           S == {a, b, c, d}
<1>1. s \in Seq(S) /\ t \in Seq(S) /\ u \in Seq(S)
  OBVIOUS
<1>2. Len(s) = 3 /\ Len(t) = 1 /\ Len(u) = 4
  OBVIOUS
<1>3. ASSUME NEW j \in 1 .. Len(s) PROVE u[j] = s[j]
  <2>1. j = 1 \/ j = 2 \/ j = 3
    BY <1>2
  <2> QED BY <2>1
<1>4. ASSUME NEW j \in 1 .. Len(t) PROVE u[Len(s) + j] = t[j]
  <2>1. j = 1
    BY <1>2
  <2> QED BY <1>2, <2>1
<1> HIDE DEF s, t, u, S
<1>5. Len(u) = Len(s) + Len(t)
  BY <1>2
<1>6. \A j \in 1 .. Len(s) : u[j] = s[j]
  BY <1>3
<1>7. \A j \in 1 .. Len(t) : u[Len(s) + j] = t[j]
  BY <1>4
<1>8. s \o t = u
  BY <1>1, <1>5, <1>6, <1>7, JoinIs
<1> QED BY <1>8 DEF s, t, u

LEMMA FourOne ==
  ASSUME NEW a, NEW b, NEW c, NEW d, NEW e
  PROVE  <<a, b, c, d>> \o <<e>> = <<a, b, c, d, e>>
<1> DEFINE s == <<a, b, c, d>>
           t == <<e>>
           u == <<a, b, c, d, e>>
           S == {a, b, c, d, e}
<1>1. s \in Seq(S) /\ t \in Seq(S) /\ u \in Seq(S)
  OBVIOUS
<1>2. Len(s) = 4 /\ Len(t) = 1 /\ Len(u) = 5
  OBVIOUS
<1>3. ASSUME NEW j \in 1 .. Len(s) PROVE u[j] = s[j]
  <2>1. j = 1 \/ j = 2 \/ j = 3 \/ j = 4
    BY <1>2
  <2> QED BY <2>1
<1>4. ASSUME NEW j \in 1 .. Len(t) PROVE u[Len(s) + j] = t[j]
  <2>1. j = 1
    BY <1>2
  <2> QED BY <1>2, <2>1
<1> HIDE DEF s, t, u, S
<1>5. Len(u) = Len(s) + Len(t)
  BY <1>2
<1>6. \A j \in 1 .. Len(s) : u[j] = s[j]
  BY <1>3
<1>7. \A j \in 1 .. Len(t) : u[Len(s) + j] = t[j]
  BY <1>4
<1>8. s \o t = u
  BY <1>1, <1>5, <1>6, <1>7, JoinIs
<1> QED BY <1>8 DEF s, t, u

LEMMA RuleOf ==
  ASSUME NEW n, NEW x
  PROVE  <<"nat", "source", "rule", n>> \o <<x, "address">> = <<"nat", "source", "rule", n, x, "address">>
<1> DEFINE s == <<"nat", "source", "rule", n>>
           t == <<x, "address">>
           u == <<"nat", "source", "rule", n, x, "address">>
           S == {"nat", "source", "rule", n, x, "address"}
<1>1. s \in Seq(S) /\ t \in Seq(S) /\ u \in Seq(S)
  OBVIOUS
<1>2. Len(s) = 4 /\ Len(t) = 2 /\ Len(u) = 6
  OBVIOUS
<1>3. ASSUME NEW j \in 1 .. Len(s) PROVE u[j] = s[j]
  <2>1. j = 1 \/ j = 2 \/ j = 3 \/ j = 4
    BY <1>2
  <2> QED BY <2>1
<1>4. ASSUME NEW j \in 1 .. Len(t) PROVE u[Len(s) + j] = t[j]
  <2>1. j = 1 \/ j = 2
    BY <1>2
  <2> QED BY <1>2, <2>1
<1> HIDE DEF s, t, u, S
<1>5. Len(u) = Len(s) + Len(t)
  BY <1>2
<1>6. \A j \in 1 .. Len(s) : u[j] = s[j]
  BY <1>3
<1>7. \A j \in 1 .. Len(t) : u[Len(s) + j] = t[j]
  BY <1>4
<1>8. s \o t = u
  BY <1>1, <1>5, <1>6, <1>7, JoinIs
<1> QED BY <1>8 DEF s, t, u

LEMMA Spelled ==
  ASSUME NEW n
  PROVE  /\ RoleAt(n) = <<"interfaces", "ethernet", n, "role">>
         /\ AddressAt(n) = <<"interfaces", "ethernet", n, "address">>
         /\ OifAt(n) = <<"nat", "source", "rule", n, "outbound_interface">>
         /\ SourceAt(n) = <<"nat", "source", "rule", n, "source", "address">>
         /\ TranslationAt(n) = <<"nat", "source", "rule", n, "translation", "address">>
<1>1. RoleAt(n) = <<"interfaces", "ethernet", n, "role">> /\ AddressAt(n) = <<"interfaces", "ethernet", n, "address">>
  BY TwoTwo DEF RoleAt, AddressAt, Ethernet
<1>2. NatRules \o <<n>> = <<"nat", "source", "rule", n>>
  BY ThreeOne DEF NatRules
<1>3. OifAt(n) = <<"nat", "source", "rule", n, "outbound_interface">>
  BY <1>2, FourOne DEF OifAt
<1>4. SourceAt(n) = <<"nat", "source", "rule", n, "source", "address">>
  <2>1. <<"nat", "source", "rule", n>> \o <<"source", "address">>
        = <<"nat", "source", "rule", n, "source", "address">>
    BY RuleOf
  <2> QED BY <1>2, <2>1, Zenon DEF SourceAt
<1>5. TranslationAt(n) = <<"nat", "source", "rule", n, "translation", "address">>
  <2>1. <<"nat", "source", "rule", n>> \o <<"translation", "address">>
        = <<"nat", "source", "rule", n, "translation", "address">>
    BY RuleOf
  <2> QED BY <1>2, <2>1, Zenon DEF TranslationAt
<1> QED BY <1>1, <1>3, <1>4, <1>5

(* What comes after the names in a sequence. *)
Leads(r) ==
  /\ r \in Seq(Range(r))
  /\ \A i \in 1 .. Len(r) : r[i] = "<>" => i + 1 \in 1 .. Len(r) /\ r[i + 1] # "<>"

LEMMA LeadsTwo ==
  ASSUME NEW a, NEW b, a # "<>", b # "<>"
  PROVE  Leads(<<a, b>>)
<1> DEFINE r == <<a, b>>
<1>1. r \in Seq(Range(r))
  <2> DEFINE S == {a, b}
  <2>1. r \in Seq(S) /\ Range(r) = S
    BY DEF Range
  <2> HIDE DEF r, S
  <2> QED BY <2>1
<1>2. Len(r) = 2
  OBVIOUS
<1>3. ASSUME NEW i \in 1 .. 2, r[i] = "<>" PROVE i + 1 \in 1 .. 2 /\ r[i + 1] # "<>"
  <2>1. i = 1 \/ i = 2
    OBVIOUS
  <2> QED BY <1>3, <2>1
<1> QED BY <1>1, <1>2, <1>3 DEF Leads

LEMMA LeadsThree ==
  ASSUME NEW a, NEW b, NEW c, a # "<>", b # "<>", c # "<>"
  PROVE  Leads(<<a, b, c>>)
<1> DEFINE r == <<a, b, c>>
<1>1. r \in Seq(Range(r))
  <2> DEFINE S == {a, b, c}
  <2>1. r \in Seq(S) /\ Range(r) = S
    BY DEF Range
  <2> HIDE DEF r, S
  <2> QED BY <2>1
<1>2. Len(r) = 3
  OBVIOUS
<1>3. ASSUME NEW i \in 1 .. 3, r[i] = "<>" PROVE i + 1 \in 1 .. 3 /\ r[i + 1] # "<>"
  <2>1. i = 1 \/ i = 2 \/ i = 3
    OBVIOUS
  <2> QED BY <1>3, <2>1
<1> QED BY <1>1, <1>2, <1>3 DEF Leads

LEMMA LeadsFour ==
  ASSUME NEW a, NEW b, NEW c, NEW d, a # "<>", b # "<>", d # "<>"
  PROVE  Leads(<<a, b, c, d>>)
<1> DEFINE r == <<a, b, c, d>>
<1>1. r \in Seq(Range(r))
  <2> DEFINE S == {a, b, c, d}
  <2>1. r \in Seq(S) /\ Range(r) = S
    BY DEF Range
  <2> HIDE DEF r, S
  <2> QED BY <2>1
<1>2. Len(r) = 4
  OBVIOUS
<1>3. ASSUME NEW i \in 1 .. 4, r[i] = "<>" PROVE i + 1 \in 1 .. 4 /\ r[i + 1] # "<>"
  <2>1. i = 1 \/ i = 2 \/ i = 3 \/ i = 4
    OBVIOUS
  <2> QED BY <1>3, <2>1
<1> QED BY <1>1, <1>2, <1>3 DEF Leads

LEMMA LeadsFive ==
  ASSUME NEW a, NEW b, NEW c, NEW d, NEW e, a # "<>", b # "<>", c # "<>", e # "<>"
  PROVE  Leads(<<a, b, c, d, e>>)
<1> DEFINE r == <<a, b, c, d, e>>
<1>1. r \in Seq(Range(r))
  <2> DEFINE S == {a, b, c, d, e}
  <2>1. r \in Seq(S) /\ Range(r) = S
    BY DEF Range
  <2> HIDE DEF r, S
  <2> QED BY <2>1
<1>2. Len(r) = 5
  OBVIOUS
<1>3. ASSUME NEW i \in 1 .. 5, r[i] = "<>" PROVE i + 1 \in 1 .. 5 /\ r[i + 1] # "<>"
  <2>1. i = 1 \/ i = 2 \/ i = 3 \/ i = 4 \/ i = 5
    OBVIOUS
  <2> QED BY <1>3, <2>1
<1> QED BY <1>1, <1>2, <1>3 DEF Leads

LEMMA LeadsSix ==
  ASSUME NEW a, NEW b, NEW c, NEW d, NEW e, NEW f, a # "<>", b # "<>", c # "<>", e # "<>", f # "<>"
  PROVE  Leads(<<a, b, c, d, e, f>>)
<1> DEFINE r == <<a, b, c, d, e, f>>
<1>1. r \in Seq(Range(r))
  <2> DEFINE S == {a, b, c, d, e, f}
  <2>1. r \in Seq(S) /\ Range(r) = S
    BY DEF Range
  <2> HIDE DEF r, S
  <2> QED BY <2>1
<1>2. Len(r) = 6
  OBVIOUS
<1>3. ASSUME NEW i \in 1 .. 6, r[i] = "<>" PROVE i + 1 \in 1 .. 6 /\ r[i + 1] # "<>"
  <2>1. i = 1 \/ i = 2 \/ i = 3 \/ i = 4 \/ i = 5 \/ i = 6
    OBVIOUS
  <2> QED BY <1>3, <2>1
<1> QED BY <1>1, <1>2, <1>3 DEF Leads

LEMMA SettingsAre ==
  ASSUME NEW r \in Settings
  PROVE  /\ Leads(r)
         /\ Range(r) \subseteq SettingWords \cup {"<>"}
<1>1. \/ r = <<"system", "host_name">> \/ r = <<"system", "name_server">>
      \/ r = <<"firewall", "nftables", "wan_block">>
      \/ \E c \in Chains : r = <<"firewall", "nftables", c, "default_action">>
      \/ r = <<"interfaces", "ethernet", "<>", "role">> \/ r = <<"interfaces", "ethernet", "<>", "address">>
      \/ r = <<"nat", "source", "rule", "<>", "outbound_interface">>
      \/ r = <<"nat", "source", "rule", "<>", "source", "address">>
      \/ r = <<"nat", "source", "rule", "<>", "translation", "address">>
  <2>1. \/ r \in Lists \/ \E c \in Chains : r = ChainAt(c)
        \/ r = WanBlockAt \/ r = HostNameAt
        \/ r \in {RoleAt("<>"), OifAt("<>"), SourceAt("<>"), TranslationAt("<>")}
    BY DEF Settings
  <2> QED BY <2>1, Spelled DEF Lists, ChainAt, WanBlockAt, HostNameAt, NameServerAt
<1>2. Leads(r)
  <2>1. CASE \E c \in Chains : r = <<"firewall", "nftables", c, "default_action">>
    <3>1. PICK c \in Chains : r = <<"firewall", "nftables", c, "default_action">>
      BY <2>1
    <3> QED BY <3>1, LeadsFour
  <2>2. CASE r = <<"system", "host_name">> \/ r = <<"system", "name_server">>
    BY <2>2, LeadsTwo
  <2>3. CASE r = <<"firewall", "nftables", "wan_block">>
    BY <2>3, LeadsThree
  <2>4. CASE r = <<"interfaces", "ethernet", "<>", "role">> \/ r = <<"interfaces", "ethernet", "<>", "address">>
    BY <2>4, LeadsFour
  <2>5. CASE r = <<"nat", "source", "rule", "<>", "outbound_interface">>
    BY <2>5, LeadsFive
  <2>6. CASE r = <<"nat", "source", "rule", "<>", "source", "address">>
             \/ r = <<"nat", "source", "rule", "<>", "translation", "address">>
    BY <2>6, LeadsSix
  <2> QED BY <1>1, <2>1, <2>2, <2>3, <2>4, <2>5, <2>6
<1>3. Range(r) \subseteq SettingWords \cup {"<>"}
  <2>1. ASSUME NEW x \in Range(r), x # "<>" PROVE x \in SettingWords
    <3> DEFINE all == {Range(q) : q \in Settings}
    <3>1. Range(r) \in all
      OBVIOUS
    <3> HIDE DEF all
    <3>2. x \in UNION all
      BY <2>1, <3>1
    <3>3. x \in (UNION all) \ {"<>"}
      BY <2>1, <3>2
    <3> QED BY <3>3 DEF SettingWords, all
  <2> QED BY <2>1
<1> QED BY <1>2, <1>3

-----------------------------------------------------------------------------
(* Which commands lead to a setting *)

(* The keys of a setting: its words, and names without a dot. *)
At(r, keys) ==
  /\ r \in Settings /\ keys \in Seq(Range(keys))
  /\ MatchesPattern(r, keys) /\ Range(keys) \cap DOMAIN Dotted = {}

(* A command none of whose names goes on with a word of the settings. *)
Clean(c) ==
  \A t \in Range(Normal(c.tokens)) \cap DOMAIN Dotted : Dotted[t][2] \notin SettingWords

(* The interface of a rule is not set by name or by group. *)
Plainly(r, keys, c) ==
  r = OifAt("<>") => \A x \in {"name", "group"} : Normal(c.tokens) # Append(keys, x)

LEMMA AtParts ==
  ASSUME NEW r, NEW keys, At(r, keys)
  PROVE  /\ r \in Seq(Range(r)) /\ keys \in Seq(Range(keys))
         /\ Len(r) = Len(keys) /\ Len(r) \in Nat
         /\ DOMAIN r = 1 .. Len(r) /\ DOMAIN keys = 1 .. Len(r)
         /\ \A i \in 1 .. Len(r) : r[i] # "<>" => keys[i] = r[i] /\ keys[i] \in SettingWords
         /\ \A i \in 1 .. Len(r) : keys[i] \notin DOMAIN Dotted
         /\ \A i \in 1 .. Len(r) : r[i] = "<>" => i + 1 \in 1 .. Len(r) /\ r[i + 1] # "<>"
<1>1. /\ r \in Seq(Range(r)) /\ Range(r) \subseteq SettingWords \cup {"<>"}
      /\ \A i \in 1 .. Len(r) : r[i] = "<>" => i + 1 \in 1 .. Len(r) /\ r[i + 1] # "<>"
  BY SettingsAre DEF At, Leads
<1>2. keys \in Seq(Range(keys)) /\ Len(r) = Len(keys) /\ \A i \in DOMAIN r : r[i] \in {"<>", keys[i]}
  BY DEF At, MatchesPattern
<1>3. DOMAIN r = 1 .. Len(r) /\ DOMAIN keys = 1 .. Len(r) /\ Len(r) \in Nat
  <2>1. DOMAIN r = 1 .. Len(r) /\ Len(r) \in Nat
    BY <1>1
  <2>2. DOMAIN keys = 1 .. Len(keys)
    BY <1>2
  <2> QED BY <1>2, <2>1, <2>2
<1>4. \A i \in 1 .. Len(r) : r[i] # "<>" => keys[i] = r[i] /\ keys[i] \in SettingWords
  <2>1. \A i \in 1 .. Len(r) : r[i] \in Range(r)
    BY <1>3 DEF Range
  <2> QED BY <1>1, <1>2, <1>3, <2>1
<1>5. \A i \in 1 .. Len(r) : keys[i] \notin DOMAIN Dotted
  <2>1. Range(keys) \cap DOMAIN Dotted = {}
    BY DEF At
  <2> QED BY <1>3, <2>1 DEF Range
<1> QED BY <1>1, <1>2, <1>3, <1>4, <1>5

(* What the schema says of a command that goes through. *)
Lets(q, c) ==
  LET t == Normal(c.tokens) IN
  /\ t \in Seq(Range(t)) /\ q \in Seq(Range(q)) /\ Len(q) = Len(t) /\ Len(t) > 0 /\ Len(c.tokens) = Len(t)
  /\ \A i \in 1 .. Len(t) : q[i] = "<>" \/ q[i] = t[i]
  /\ \A i \in 1 .. Len(t) : q[i] \notin DOMAIN Dotted
  /\ \A r \in Settings :
       \/ q = r \/ PartAtAWord(q, r)
       \/ r = OifAt("<>") /\ \E x \in {"name", "group"} : q = Append(r, x)

LEMMA NormalIs ==
  ASSUME NEW tokens \in Seq(STRING)
  PROVE  Normal(tokens) \in Seq(Range(Normal(tokens))) /\ Len(Normal(tokens)) = Len(tokens)
<1>1. Normal(tokens) \in Seq(Keys(tokens)) /\ Len(Normal(tokens)) = Len(tokens)
  BY PiecesAre
<1> HIDE DEF Normal
<1> QED BY <1>1 DEF Range

LEMMA PassedLets ==
  ASSUME NEW c \in Passed
  PROVE  \E p \in Schema : Lets(Normal(p.tokens), c) /\ c.raw \in p.accepts
<1>1. c.tokens \in Seq(STRING) /\ Accepted(c)
  BY DEF Passed, SetCommands
<1>2. PICK p \in Schema : MatchesPattern(Normal(p.tokens), Normal(c.tokens)) /\ c.raw \in p.accepts
  BY <1>1 DEF Accepted, ValidSet
<1> DEFINE q == Normal(p.tokens)
           t == Normal(c.tokens)
<1>3. p.tokens \in Seq(STRING) /\ Len(p.tokens) > 0
  BY CommandTreeAssumption
<1>4. /\ Range(q) \cap DOMAIN Dotted = {}
      /\ \A r \in Settings :
           \/ q = r \/ PartAtAWord(q, r)
           \/ r = OifAt("<>") /\ \E x \in {"name", "group"} : q = Append(r, x)
  BY SchemaAssumption
<1>5. q \in Seq(Range(q)) /\ Len(q) = Len(p.tokens) /\ t \in Seq(Range(t)) /\ Len(t) = Len(c.tokens)
  BY <1>1, <1>3, NormalIs
<1>6. Len(q) = Len(t) /\ \A i \in DOMAIN q : q[i] \in {"<>", t[i]}
  BY <1>2 DEF MatchesPattern
<1> HIDE DEF q, t
<1>7. DOMAIN q = 1 .. Len(t)
  BY <1>5, <1>6
<1>8. \A i \in 1 .. Len(t) : q[i] \notin DOMAIN Dotted
  BY <1>4, <1>7 DEF Range
<1>9. \A i \in 1 .. Len(t) : q[i] = "<>" \/ q[i] = t[i]
  BY <1>6, <1>7
<1>10. Len(t) > 0 /\ Len(c.tokens) = Len(t)
  BY <1>3, <1>5, <1>6
<1>11. Lets(q, c)
  BY <1>4, <1>5, <1>6, <1>8, <1>9, <1>10 DEF Lets, t
<1> QED BY <1>2, <1>11 DEF q

(* Without a dot the keys of a command are its tokens. *)
LEMMA UndottedLeads ==
  ASSUME NEW q, NEW c \in Passed, Lets(q, c), NEW r, NEW keys, At(r, keys), Plainly(r, keys, c),
         Range(Normal(c.tokens)) \cap DOMAIN Dotted = {}
  PROVE  /\ PathOf(c) = Normal(c.tokens) /\ ~Related(PathOf(c), keys)
         /\ Normal(c.tokens) = keys => q = r
<1> DEFINE t == Normal(c.tokens)
           D == Range(t) \cup Range(keys)
<1>1. /\ r \in Settings /\ r \in Seq(Range(r)) /\ keys \in Seq(D) /\ Len(r) = Len(keys) /\ Len(r) \in Nat
      /\ DOMAIN r = 1 .. Len(r)
      /\ \A i \in 1 .. Len(r) : r[i] # "<>" => keys[i] = r[i]
  <2>1. /\ r \in Settings /\ r \in Seq(Range(r)) /\ keys \in Seq(Range(keys)) /\ Len(r) = Len(keys) /\ Len(r) \in Nat
        /\ DOMAIN r = 1 .. Len(r)
        /\ \A i \in 1 .. Len(r) : r[i] # "<>" => keys[i] = r[i]
    BY AtParts DEF At
  <2>2. keys \in Seq(D)
    <3> HIDE DEF t
    <3> QED BY <2>1, SeqMonotonic
  <2> QED BY <2>1, <2>2
<1>2. /\ t \in Seq(Range(t)) /\ q \in Seq(Range(q)) /\ Len(q) = Len(t) /\ Len(t) > 0 /\ Len(c.tokens) = Len(t)
      /\ \A i \in 1 .. Len(t) : q[i] = "<>" \/ q[i] = t[i]
      /\ q = r \/ PartAtAWord(q, r)
         \/ (r = OifAt("<>") /\ \E x \in {"name", "group"} : q = Append(r, x))
  BY <1>1, Zenon DEF Lets
<1>3. PathOf(c) = t
  <2>1. c.tokens \in Seq(STRING) /\ Len(c.tokens) > 0
    BY <1>2 DEF Passed, SetCommands
  <2> QED BY <2>1, PathUndotted DEF PathOf
<1>4. t \in Seq(D)
  <2> HIDE DEF t
  <2> QED BY <1>2, SeqMonotonic
<1> HIDE DEF t, D
<1>5. DOMAIN q = 1 .. Len(t) /\ Len(t) \in Nat
  BY <1>2
<1>6. CASE q = r
  <2>1. Len(t) = Len(keys)
    BY <1>1, <1>2, <1>6
  <2> QED BY <1>1, <1>3, <1>4, <1>6, <2>1, SameLength DEF t
<1>7. CASE PartAtAWord(q, r)
  <2>1. PICK i \in DOMAIN q \cap DOMAIN r : q[i] # r[i] /\ q[i] # "<>" /\ r[i] # "<>"
    BY <1>7 DEF PartAtAWord
  <2>2. i \in 1 .. Len(t) /\ i \in 1 .. Len(r) /\ i \in 1 .. Len(keys)
    BY <1>1, <1>5, <2>1
  <2>3. t[i] # keys[i]
    BY <1>1, <1>2, <2>1, <2>2
  <2>4. ~Related(t, keys) /\ t # keys
    BY <1>1, <1>4, <2>2, <2>3, Differ
  <2> QED BY <1>3, <2>4 DEF t
<1>8. CASE r = OifAt("<>") /\ \E x \in {"name", "group"} : q = Append(r, x)
  <2>1. PICK x \in {"name", "group"} : q = Append(r, x)
    BY <1>8
  <2>2. t # Append(keys, x)
    BY <1>8 DEF Plainly, t
  <2> DEFINE n == Len(r)
  <2>3. Len(q) = n + 1 /\ q[n + 1] = x /\ x # "<>"
    BY <1>1, <2>1, AppendProperties
  <2>4. Len(t) = n + 1 /\ t[n + 1] = x
    <3>1. n + 1 \in 1 .. Len(t)
      BY <1>1, <1>2, <2>3
    <3> QED BY <1>2, <2>3, <3>1
  <2>5. \E j \in 1 .. n : t[j] # keys[j]
    <3> SUFFICES ASSUME \A j \in 1 .. n : t[j] = keys[j] PROVE FALSE
      OBVIOUS
    <3> DEFINE E == D \cup {x}
    <3>1. keys \in Seq(E) /\ x \in E /\ t \in Seq(E)
      BY <1>1, <1>4, SeqMonotonic
    <3>2. /\ Append(keys, x) \in Seq(E) /\ Len(Append(keys, x)) = n + 1 /\ Append(keys, x)[n + 1] = x
          /\ \A j \in 1 .. n : Append(keys, x)[j] = keys[j]
      BY <1>1, <3>1, AppendProperties
    <3>3. \A j \in 1 .. (n + 1) : j \in 1 .. n \/ j = n + 1
      BY <1>1
    <3> HIDE DEF E, n
    <3>4. \A j \in 1 .. Len(t) : t[j] = Append(keys, x)[j]
      BY <2>4, <3>2, <3>3
    <3>5. t = Append(keys, x)
      BY <2>4, <3>1, <3>2, <3>4, SeqEqual
    <3> QED BY <2>2, <3>5
  <2>6. PICK j \in 1 .. n : t[j] # keys[j]
    BY <2>5
  <2>7. j \in 1 .. Len(t) /\ j \in 1 .. Len(keys)
    BY <1>1, <2>4
  <2>8. ~Related(t, keys) /\ t # keys
    BY <1>1, <1>4, <2>6, <2>7, Differ
  <2> QED BY <1>3, <2>8 DEF t
<1> QED BY <1>2, <1>6, <1>7, <1>8

(* With a dot they lead elsewhere. *)
LEMMA DottedLeads ==
  ASSUME NEW q, NEW c \in Passed, Lets(q, c), NEW r, NEW keys, At(r, keys), Clean(c),
         Range(Normal(c.tokens)) \cap DOMAIN Dotted # {}
  PROVE  ~Related(PathOf(c), keys) /\ PathOf(c) # keys /\ Normal(c.tokens) # keys
<1> DEFINE t == Normal(c.tokens)
           path == PathOf(c)
<1>1. /\ r \in Settings /\ keys \in Seq(Range(keys)) /\ Len(r) = Len(keys) /\ Len(r) \in Nat
      /\ r \in Seq(Range(r)) /\ DOMAIN r = 1 .. Len(r) /\ DOMAIN keys = 1 .. Len(r)
      /\ \A i \in 1 .. Len(r) : r[i] # "<>" => keys[i] = r[i] /\ keys[i] \in SettingWords
      /\ \A i \in 1 .. Len(r) : r[i] = "<>" => i + 1 \in 1 .. Len(r) /\ r[i + 1] # "<>"
  BY AtParts DEF At
<1>2. /\ t \in Seq(Range(t)) /\ q \in Seq(Range(q)) /\ Len(q) = Len(t) /\ Len(c.tokens) = Len(t)
      /\ \A i \in 1 .. Len(t) : q[i] = "<>" \/ q[i] = t[i]
      /\ \A i \in 1 .. Len(t) : q[i] \notin DOMAIN Dotted
      /\ q = r \/ PartAtAWord(q, r)
         \/ (r = OifAt("<>") /\ \E x \in {"name", "group"} : q = Append(r, x))
  BY <1>1, Zenon DEF Lets
<1>3. PICK f \in 1 .. Len(t) :
        /\ t[f] \in DOMAIN Dotted
        /\ \E D : path \in Seq(D)
        /\ f + 1 \in 1 .. Len(path)
        /\ path[f + 1] = Dotted[t[f]][2]
        /\ \A j \in 1 .. (f - 1) : path[j] = t[j]
  <2>1. c.tokens \in Seq(STRING)
    BY DEF Passed, SetCommands
  <2> QED BY <1>2, <2>1, PathDotted DEF PathOf
<1>4. PICK D0 : path \in Seq(D0)
  BY <1>3
<1> DEFINE D == D0 \cup Range(keys)
<1>5. path \in Seq(D) /\ keys \in Seq(D)
  <2> HIDE DEF path
  <2> QED BY <1>1, <1>4, SeqMonotonic
<1>6. t # keys /\ path[f + 1] \notin SettingWords
  <2>1. t[f] \in Range(t) \cap DOMAIN Dotted
    BY <1>2, <1>3 DEF Range
  <2>2. Range(keys) \cap DOMAIN Dotted = {}
    BY DEF At
  <2>3. Dotted[t[f]][2] \notin SettingWords
    BY <2>1 DEF Clean
  <2> HIDE DEF t
  <2> QED BY <1>3, <2>1, <2>2, <2>3
<1>7. q[f] = "<>"
  <2> HIDE DEF t
  <2> QED BY <1>2, <1>3
<1> HIDE DEF t, path, D
<1>8. DOMAIN q = 1 .. Len(t) /\ Len(t) \in Nat /\ Len(path) \in Nat
  BY <1>2, <1>4
<1>9. ASSUME f \in 1 .. Len(r), r[f] = "<>" PROVE ~Related(path, keys) /\ path # keys
  <2>1. f + 1 \in 1 .. Len(r) /\ r[f + 1] # "<>"
    BY <1>1, <1>9
  <2>2. keys[f + 1] \in SettingWords /\ f + 1 \in 1 .. Len(keys)
    BY <1>1, <2>1
  <2> QED BY <1>3, <1>5, <1>6, <2>2, Differ
<1>10. CASE q = r
  <2>1. f \in 1 .. Len(r)
    BY <1>2, <1>10
  <2> QED BY <1>6, <1>7, <1>9, <1>10, <2>1 DEF t, path
<1>11. CASE PartAtAWord(q, r)
  <2>1. PICK i \in DOMAIN q \cap DOMAIN r :
          /\ \A j \in 1 .. (i - 1) : q[j] = r[j]
          /\ q[i] # r[i] /\ q[i] # "<>" /\ r[i] # "<>"
    BY <1>11 DEF PartAtAWord
  <2>2. i \in 1 .. Len(t) /\ i \in 1 .. Len(r) /\ i # f
    BY <1>1, <1>7, <1>8, <2>1
  <2>3. CASE i < f
    <3>1. i \in 1 .. (f - 1) /\ i \in 1 .. Len(path) /\ i \in 1 .. Len(keys)
      BY <1>1, <1>3, <1>8, <2>2, <2>3
    <3>2. path[i] # keys[i]
      BY <1>1, <1>2, <1>3, <2>1, <2>2, <3>1
    <3>3. ~Related(path, keys) /\ path # keys
      BY <1>5, <3>1, <3>2, Differ
    <3> QED BY <1>6, <3>3 DEF t, path
  <2>4. CASE f < i
    <3>1. f \in 1 .. (i - 1) /\ f \in 1 .. Len(r)
      BY <1>1, <2>2, <2>4
    <3>2. r[f] = "<>"
      BY <1>7, <2>1, <3>1
    <3> QED BY <1>6, <1>9, <3>1, <3>2 DEF t, path
  <2> QED BY <1>1, <1>8, <2>2, <2>3, <2>4
<1>12. CASE r = OifAt("<>") /\ \E x \in {"name", "group"} : q = Append(r, x)
  <2>1. PICK x \in {"name", "group"} : q = Append(r, x)
    BY <1>12
  <2>2. Len(q) = Len(r) + 1 /\ q[Len(r) + 1] = x /\ x # "<>" /\ \A j \in 1 .. Len(r) : q[j] = r[j]
    BY <1>1, <2>1, AppendProperties
  <2>3. f \in 1 .. Len(r)
    BY <1>1, <1>2, <1>7, <2>2
  <2>4. r[f] = "<>"
    BY <1>7, <2>2, <2>3
  <2> QED BY <1>6, <1>9, <2>3, <2>4 DEF t, path
<1> QED BY <1>2, <1>10, <1>11, <1>12

(* A setting is where the commands for it lead, and no other one. *)
LEMMA SettingReached ==
  ASSUME NEW c \in Passed, NEW r, NEW keys, At(r, keys), Clean(c), Plainly(r, keys, c)
  PROVE  /\ ~Related(PathOf(c), keys)
         /\ PathOf(c) = keys <=> Normal(c.tokens) = keys
         /\ PathOf(c) = keys => \E p \in Schema : Normal(p.tokens) = r /\ c.raw \in p.accepts
<1>1. PICK p \in Schema : Lets(Normal(p.tokens), c) /\ c.raw \in p.accepts
  BY PassedLets
<1> DEFINE t == Normal(c.tokens)
<1>2. CASE Range(t) \cap DOMAIN Dotted = {}
  <2>1. PathOf(c) = t /\ ~Related(PathOf(c), keys) /\ (t = keys => Normal(p.tokens) = r)
    BY <1>1, <1>2, UndottedLeads
  <2> HIDE DEF t
  <2> QED BY <1>1, <2>1 DEF t
<1>3. CASE Range(t) \cap DOMAIN Dotted # {}
  <2>1. ~Related(PathOf(c), keys) /\ PathOf(c) # keys /\ t # keys
    BY <1>1, <1>3, DottedLeads
  <2> QED BY <2>1
<1> QED BY <1>2, <1>3

-----------------------------------------------------------------------------
(* What the plan and the rules read of a setting *)

(* The commands for a setting. *)
For(d, keys) == {i \in DOMAIN d.typed : Normal(d.typed[i].tokens) = keys}

(* A candidate one of whose settings is read. *)
Reads(d, r, keys) ==
  /\ Whole(d) /\ Undivided(d) /\ At(r, keys)
  /\ \A i \in DOMAIN d.typed : Plainly(r, keys, d.typed[i])

LEMMA ParseValueIs ==
  ASSUME NEW raw
  PROVE  /\ raw \in SwitchesOn => ParseValue(raw) = Flag("true")
         /\ raw \in SwitchesOff => ParseValue(raw) = Flag("false")
         /\ ParseValue(raw).t = "text" => ParseValue(raw) = Text(raw)
         /\ ParseValue(raw).t = "flag" /\ ParseValue(raw).v = "true"
            => raw \in SwitchesOn
         /\ (/\ raw \notin SwitchesOn \cup SwitchesOff \cup NotFinite
             /\ raw \notin DOMAIN Printed) => ParseValue(raw) = Text(raw)
         /\ Text(raw).t = "text" /\ Text(raw).v = raw
<1> DEFINE yes == raw \in SwitchesOn
           no == raw \in SwitchesOff
           odd == raw \in NotFinite
           numeral == raw \in DOMAIN Printed
<1>1. /\ Flag("true").t = "flag" /\ Flag("true").v = "true" /\ Flag("false").t = "flag" /\ Flag("false").v = "false"
      /\ NoNumber.t = "nan" /\ Number(Printed[raw]).t = "number" /\ Text(raw).t = "text" /\ Text(raw).v = raw
  BY DEF Flag, Text, Number, NoNumber
<1>2. ~(yes /\ no) /\ ~(yes /\ odd) /\ ~(no /\ odd) /\ (numeral => ~yes /\ ~no /\ ~odd)
  BY CommandTreeAssumption DEF SwitchesOn, SwitchesOff, NotFinite
<1>3. ParseValue(raw) = CASE yes -> Flag("true") [] no -> Flag("false") [] odd -> NoNumber
                          [] numeral -> Number(Printed[raw]) [] OTHER -> Text(raw)
  BY DEF ParseValue
<1>4. /\ yes => ParseValue(raw) = Flag("true")
      /\ no => ParseValue(raw) = Flag("false")
      /\ ~yes /\ ~no /\ odd => ParseValue(raw) = NoNumber
      /\ ~yes /\ ~no /\ ~odd /\ numeral => ParseValue(raw) = Number(Printed[raw])
      /\ ~yes /\ ~no /\ ~odd /\ ~numeral => ParseValue(raw) = Text(raw)
  <2> HIDE DEF yes, no, odd, numeral
  <2> QED BY <1>2, <1>3
<1>5. raw \notin SwitchesOn \cup SwitchesOff \cup NotFinite
      => ~yes /\ ~no /\ ~odd
  OBVIOUS
<1> HIDE DEF odd, numeral
<1> QED BY <1>1, <1>4, <1>5 DEF numeral

LEMMA OneIs ==
  ASSUME NEW x
  PROVE  One(x).list = FALSE /\ One(x).items = <<x>> /\ One(x).items[1] = x
BY DEF One

LEMMA ListIs ==
  ASSUME NEW items
  PROVE  List(items).list = TRUE /\ List(items).items = items
BY DEF List

(* The lists among the settings, and no other ones, are appended to. *)
LEMMA ListsAppend ==
  ASSUME NEW r, NEW keys, At(r, keys)
  PROVE  Appends(keys) <=> r \in Lists
<1>1. MatchesPattern(r, keys) /\ r \in Settings
  BY DEF At
<1>2. /\ Len(r) = Len(keys) /\ Len(r) \in Nat /\ DOMAIN r = 1 .. Len(r) /\ r \in Seq(Range(r))
      /\ \A i \in 1 .. Len(r) : r[i] # "<>" => keys[i] = r[i]
  BY AtParts
<1>3. ASSUME r \in Lists PROVE IsMultiPath(keys)
  <2>1. PICK p \in Schema : p.multi /\ Normal(p.tokens) = r
    BY <1>3, SchemaAssumption
  <2> QED BY <1>1, <2>1 DEF IsMultiPath
<1>4. ASSUME IsMultiPath(keys) PROVE r \in Lists
  <2>1. PICK p \in Schema : p.multi /\ MatchesPattern(Normal(p.tokens), keys)
    BY <1>4 DEF IsMultiPath
  <2> DEFINE q == Normal(p.tokens)
  <2>2. /\ q = r \/ PartAtAWord(q, r)
           \/ (r = OifAt("<>") /\ \E x \in {"name", "group"} : q = Append(r, x))
        /\ q \in Settings /\ p.multi => q \in Lists
    BY <1>1, SchemaAssumption
  <2>3. Len(q) = Len(keys) /\ \A i \in DOMAIN q : q[i] \in {"<>", keys[i]}
    BY <2>1 DEF MatchesPattern
  <2> HIDE DEF q
  <2>4. CASE q = r
    BY <1>1, <2>1, <2>2, <2>4
  <2>5. CASE PartAtAWord(q, r)
    <3>1. PICK i \in DOMAIN q \cap DOMAIN r : q[i] # r[i] /\ q[i] # "<>" /\ r[i] # "<>"
      BY <2>5 DEF PartAtAWord
    <3> QED BY <1>2, <2>3, <3>1
  <2>6. CASE \E x \in {"name", "group"} : q = Append(r, x)
    <3>1. PICK x \in {"name", "group"} : q = Append(r, x)
      BY <2>6
    <3>2. Len(q) = Len(r) + 1
      BY <1>2, <3>1
    <3> QED BY <1>2, <2>3, <3>2
  <2> QED BY <2>2, <2>4, <2>5, <2>6
<1> QED BY <1>3, <1>4 DEF Appends

(* A setting follows the commands for it. *)
LEMMA Followed ==
  ASSUME NEW d, NEW r, NEW keys, Reads(d, r, keys)
  PROVE  /\ Holds(d.tree, d.typed, keys, Len(d.typed))
         /\ About(d.typed, keys, Len(d.typed)) = For(d, keys)
         /\ \A i \in For(d, keys) : /\ d.typed[i].raw # ""
                                    /\ \E p \in Schema : Normal(p.tokens) = r /\ d.typed[i].raw \in p.accepts
         /\ For(d, keys) \in SUBSET (1 .. Len(d.typed)) /\ Len(d.typed) \in Nat
<1> DEFINE cmds == d.typed
           n == Len(cmds)
<1>1. cmds \in Seq(Passed) /\ d.tree = TreeOf(cmds) /\ At(r, keys) /\ n \in Nat /\ DOMAIN cmds = 1 .. n
  BY DEF Reads, Whole
<1>2. ASSUME NEW i \in 1 .. n
      PROVE  /\ ~Related(PathOf(cmds[i]), keys)
             /\ PathOf(cmds[i]) = keys <=> Normal(cmds[i].tokens) = keys
             /\ PathOf(cmds[i]) = keys => \E p \in Schema : Normal(p.tokens) = r /\ cmds[i].raw \in p.accepts
  <2>1. cmds[i] \in Passed
    BY <1>1
  <2>2. Clean(cmds[i]) /\ Plainly(r, keys, cmds[i])
    BY <1>1 DEF Reads, Undivided, Clean
  <2> HIDE DEF cmds, n
  <2> QED BY <1>1, <2>1, <2>2, SettingReached
<1> HIDE DEF cmds, n
<1>3. Holds(d.tree, cmds, keys, n)
  BY <1>1, <1>2, Tracked DEF n
<1>4. About(cmds, keys, n) = For(d, keys)
  BY <1>1, <1>2 DEF About, For, cmds
<1>5. For(d, keys) \in SUBSET (1 .. n)
  BY <1>1 DEF For, cmds
<1>6. ASSUME NEW i \in For(d, keys)
      PROVE  cmds[i].raw # "" /\ \E p \in Schema : Normal(p.tokens) = r /\ cmds[i].raw \in p.accepts
  <2>1. i \in 1 .. n /\ PathOf(cmds[i]) = keys
    BY <1>2, <1>5, <1>6 DEF For, cmds
  <2>2. PICK p \in Schema : Normal(p.tokens) = r /\ cmds[i].raw \in p.accepts
    BY <1>2, <2>1
  <2>3. "" \notin p.accepts
    BY CommandTreeAssumption
  <2> QED BY <2>2, <2>3
<1> QED BY <1>1, <1>3, <1>4, <1>5, <1>6 DEF cmds, n

LEMMA MaxOf ==
  ASSUME NEW n \in Nat, NEW s \in SUBSET (1 .. n), s # {}
  PROVE  Max(s) \in s
<1> DEFINE T == {k \in 0 .. n : \A m \in s : m <= k => \E x \in s : \A y \in s : y <= k => x >= y}
<1>1. \A x \in s : x \in Nat /\ x <= n /\ x >= 1
  OBVIOUS
<1>2. 0 \in T
  BY <1>1
<1>3. ASSUME NEW k \in 0 .. (n - 1), k \in T PROVE k + 1 \in T
  <2>1. k + 1 \in 0 .. n /\ k \in Nat
    OBVIOUS
  <2>2. CASE k + 1 \in s
    <3>1. \A y \in s : y <= k + 1 => k + 1 >= y
      BY <1>1
    <3> QED BY <2>1, <2>2, <3>1
  <2>3. CASE k + 1 \notin s
    <3>1. \A y \in s : y <= k + 1 => y <= k
      BY <1>1, <2>1, <2>3
    <3> QED BY <1>3, <2>1, <3>1
  <2> QED BY <2>2, <2>3
<1>4. n \in T
  <2>1. \A k \in 0 .. (n - 1) : k \in T => k + 1 \in T
    BY <1>3
  <2> HIDE DEF T
  <2>2. \A k \in 0 .. n : k \in T
    BY <1>2, <2>1, Climb
  <2> QED BY <2>2
<1>5. \E x \in s : \A y \in s : x >= y
  BY <1>1, <1>4
<1> QED BY <1>5, Zenon DEF Max

LEMMA LastIs ==
  ASSUME NEW d, NEW r, NEW keys, Reads(d, r, keys), For(d, keys) # {}
  PROVE  Max(For(d, keys)) \in For(d, keys) /\ LastRaw(d, keys) = d.typed[Max(For(d, keys))].raw
<1>1. For(d, keys) \in SUBSET (1 .. Len(d.typed)) /\ Len(d.typed) \in Nat
  BY Followed
<1>2. Max(For(d, keys)) \in For(d, keys)
  BY <1>1, MaxOf
<1>3. LastRaw(d, keys) = d.typed[Max(For(d, keys))].raw
  BY Zenon DEF LastRaw, For
<1> QED BY <1>2, <1>3

LEMMA NoneIs ==
  ASSUME NEW d, NEW keys, For(d, keys) = {}
  PROVE  LastRaw(d, keys) = ""
BY DEF LastRaw, For

(* What was typed last came from a command of the setting's pattern. *)
LEMMA LastAccepted ==
  ASSUME NEW d, NEW r, NEW keys, Reads(d, r, keys), LastRaw(d, keys) # ""
  PROVE  \E p \in Schema : Normal(p.tokens) = r /\ LastRaw(d, keys) \in p.accepts
<1>1. For(d, keys) # {}
  BY NoneIs
<1>2. /\ Max(For(d, keys)) \in For(d, keys)
      /\ LastRaw(d, keys) = d.typed[Max(For(d, keys))].raw
  BY <1>1, LastIs
<1>3. \A i \in For(d, keys) : \E p \in Schema : Normal(p.tokens) = r /\ d.typed[i].raw \in p.accepts
  BY Followed
<1> QED BY <1>2, <1>3

(* A setting that is no list. *)
LEMMA ReadScalar ==
  ASSUME NEW d, NEW r, NEW keys, Reads(d, r, keys), r \notin Lists
  PROVE  /\ keys \in DOMAIN d.tree <=> LastRaw(d, keys) # ""
         /\ keys \in DOMAIN d.tree => d.tree[keys] = One(ParseValue(LastRaw(d, keys)))
<1>1. ~Appends(keys)
  BY ListsAppend DEF Reads
<1>2. /\ keys \in DOMAIN d.tree <=> For(d, keys) # {}
      /\ keys \in DOMAIN d.tree => d.tree[keys] = One(ParseValue(d.typed[Max(For(d, keys))].raw))
  BY <1>1, Followed DEF Holds
<1>3. CASE For(d, keys) = {}
  BY <1>2, <1>3, NoneIs
<1>4. CASE For(d, keys) # {}
  <2>1. /\ Max(For(d, keys)) \in For(d, keys)
        /\ LastRaw(d, keys) = d.typed[Max(For(d, keys))].raw
    BY <1>4, LastIs
  <2>2. \A i \in For(d, keys) : d.typed[i].raw # ""
    BY Followed
  <2> QED BY <1>2, <1>4, <2>1, <2>2
<1> QED BY <1>3, <1>4

LEMMA ReadString ==
  ASSUME NEW d, NEW r, NEW keys, Reads(d, r, keys), r \notin Lists
  PROVE  /\ GetString(d.tree, keys) = IF IsWord(LastRaw(d, keys)) THEN LastRaw(d, keys) ELSE ""
         /\ GetBool(d.tree, keys) <=> LastRaw(d, keys) \in SwitchesOn
         /\ GetString(d.tree, keys) # "" => keys \in DOMAIN d.tree
<1> DEFINE raw == LastRaw(d, keys)
           x == ParseValue(raw)
<1>1. /\ keys \in DOMAIN d.tree <=> raw # ""
      /\ keys \in DOMAIN d.tree => d.tree[keys] = One(x)
  BY ReadScalar
<1> HIDE DEF raw
<1>2. ASSUME NEW kind PROVE Scalar(d.tree, keys, kind) <=> raw # "" /\ x.t = kind
  BY <1>1, OneIs DEF Scalar
<1>3. keys \in DOMAIN d.tree => d.tree[keys].items[1] = x
  BY <1>1, OneIs
<1>4. GetString(d.tree, keys) = IF raw # "" /\ x.t = "text" THEN x.v ELSE ""
  BY <1>1, <1>2, <1>3 DEF GetString
<1>5. GetBool(d.tree, keys) <=> raw # "" /\ x.t = "flag" /\ x.v = "true"
  BY <1>1, <1>2, <1>3 DEF GetBool
<1>6. IsWord(raw) <=> raw # "" /\ x.t = "text"
  BY ParseValueIs DEF IsWord
<1>7. x.t = "text" => x.v = raw
  BY ParseValueIs
<1>8. GetBool(d.tree, keys) <=> raw \in SwitchesOn
  <2>1. raw \in SwitchesOn => raw # "" /\ x.t = "flag" /\ x.v = "true"
    <3>1. raw \in SwitchesOn => raw # ""
      BY DEF SwitchesOn
    <3>2. raw \in SwitchesOn => x = Flag("true")
      BY ParseValueIs
    <3>3. Flag("true").t = "flag" /\ Flag("true").v = "true"
      BY DEF Flag
    <3> HIDE DEF x
    <3> QED BY <3>1, <3>2, <3>3
  <2>2. x.t = "flag" /\ x.v = "true" => raw \in SwitchesOn
    BY ParseValueIs
  <2> QED BY <1>5, <2>1, <2>2
<1>9. GetString(d.tree, keys) = IF IsWord(raw) THEN raw ELSE ""
  <2> HIDE DEF x
  <2> QED BY <1>4, <1>6, <1>7
<1>10. GetString(d.tree, keys) # "" => keys \in DOMAIN d.tree
  BY <1>1, <1>4
<1> QED BY <1>8, <1>9, <1>10 DEF raw

(* A list keeps the words. *)
LEMMA ReadList ==
  ASSUME NEW d, NEW r, NEW keys, Reads(d, r, keys), r \in Lists
  PROVE  /\ \E D : Strings(d.tree, keys) \in Seq(D)
         /\ Range(Strings(d.tree, keys)) = AllWords(d, keys)
         /\ AllWords(d, keys) # {} => keys \in DOMAIN d.tree
<1> DEFINE words == {raw \in {d.typed[i].raw : i \in For(d, keys)} : IsWord(raw)}
<1>1. Appends(keys)
  BY ListsAppend DEF Reads
<1>2. AllWords(d, keys) = words
  BY DEF AllWords, For
<1>3. keys \in DOMAIN d.tree <=> For(d, keys) # {}
  BY Followed DEF Holds
<1>4. CASE keys \notin DOMAIN d.tree
  <2>1. Strings(d.tree, keys) = <<>> /\ <<>> \in Seq({}) /\ Range(<<>>) = {}
    BY <1>4 DEF Strings, Range
  <2>2. words = {}
    BY <1>3, <1>4
  <2> QED BY <1>2, <1>4, <2>1, <2>2
<1>5. CASE keys \in DOMAIN d.tree
  <2>1. PICK D : \E items \in Seq(D) :
          /\ d.tree[keys] = List(items)
          /\ Range(items) = {ParseValue(d.typed[i].raw) : i \in For(d, keys)}
    <3>1. Holds(d.tree, d.typed, keys, Len(d.typed)) /\ About(d.typed, keys, Len(d.typed)) = For(d, keys)
      BY Followed
    <3> QED BY <1>1, <1>5, <3>1 DEF Holds
  <2>2. PICK items \in Seq(D) :
          /\ d.tree[keys] = List(items)
          /\ Range(items) = {ParseValue(d.typed[i].raw) : i \in For(d, keys)}
    BY <2>1
  <2> DEFINE texts == {x \in Range(items) : x.t = "text"}
             text == Among(items, texts)
             strings == [i \in DOMAIN text |-> text[i].v]
  <2>3. Strings(d.tree, keys) = strings
    BY <1>5, <2>2, ListIs, Zenon DEF Strings
  <2>4. text \in Seq(D) /\ Range(text) = texts
    <3>1. text \in Seq(D \cap texts) /\ Range(text) = Range(items) \cap texts
      BY AmongIn, AmongRange
    <3> HIDE DEF text
    <3>2. text \in Seq(D)
      BY <3>1, SeqMonotonic
    <3> QED BY <3>1, <3>2
  <2> HIDE DEF text
  <2>5. strings \in Seq(Range(strings)) /\ Range(strings) = {x.v : x \in Range(text)}
    <3>1. DOMAIN text = 1 .. Len(text) /\ Len(text) \in Nat
      BY <2>4
    <3>2. strings = [i \in 1 .. Len(text) |-> strings[i]] /\ \A i \in 1 .. Len(text) : strings[i] = text[i].v
      BY <3>1
    <3> HIDE DEF strings
    <3>3. strings \in Seq(Range(strings))
      BY <3>1, <3>2 DEF Range
    <3>4. DOMAIN strings = 1 .. Len(text)
      BY <3>1, <3>2
    <3>5. Range(strings) = {x.v : x \in Range(text)}
      BY <3>1, <3>2, <3>4 DEF Range
    <3> QED BY <3>3, <3>5
  <2>6. {x.v : x \in texts} = words
    <3>1. ASSUME NEW x \in texts PROVE x.v \in words
      <4>1. PICK i \in For(d, keys) : x = ParseValue(d.typed[i].raw)
        BY <2>2
      <4>2. d.typed[i].raw # ""
        BY Followed
      <4> DEFINE raw == d.typed[i].raw
      <4>3. x = Text(raw) /\ x.v = raw /\ IsWord(raw)
        BY <4>1, <4>2, ParseValueIs DEF IsWord
      <4> QED BY <4>3
    <3>2. ASSUME NEW raw \in words PROVE \E x \in texts : raw = x.v
      <4>1. PICK i \in For(d, keys) : raw = d.typed[i].raw
        OBVIOUS
      <4>2. ParseValue(raw) = Text(raw) /\ Text(raw).t = "text" /\ Text(raw).v = raw
        BY ParseValueIs DEF IsWord
      <4>3. ParseValue(raw) \in Range(items)
        BY <2>2, <4>1
      <4> QED BY <4>2, <4>3
    <3> HIDE DEF texts, words
    <3> QED BY <3>1, <3>2
  <2> HIDE DEF strings, texts, words
  <2> QED BY <1>2, <1>5, <2>3, <2>4, <2>5, <2>6
<1> QED BY <1>4, <1>5

-----------------------------------------------------------------------------
(* The settings of an interface, of a rule and of the system *)

LEMMA NameIs ==
  ASSUME NEW n \in Range(Names)
  PROVE  n \notin DOMAIN Dotted
BY OpsPlanAssumption

LEMMA AtKeys ==
  ASSUME NEW r \in Settings, NEW D, NEW keys \in Seq(D), Len(keys) = Len(r),
         \A i \in 1 .. Len(r) : IF r[i] = "<>" THEN keys[i] \notin DOMAIN Dotted ELSE keys[i] = r[i]
  PROVE  At(r, keys)
<1>1. r \in Seq(Range(r)) /\ Range(r) \subseteq SettingWords \cup {"<>"}
  BY SettingsAre DEF Leads
<1>2. DOMAIN r = 1 .. Len(r) /\ DOMAIN keys = 1 .. Len(r)
  BY <1>1
<1>3. keys \in Seq(Range(keys))
  BY DEF Range
<1>4. MatchesPattern(r, keys)
  BY <1>2 DEF MatchesPattern
<1>5. \A i \in 1 .. Len(r) : keys[i] \notin DOMAIN Dotted
  <2>1. \A i \in 1 .. Len(r) : r[i] # "<>" => r[i] \in SettingWords
    BY <1>1, <1>2 DEF Range
  <2>2. SettingWords \cap DOMAIN Dotted = {}
    BY SchemaAssumption
  <2> QED BY <2>1, <2>2
<1>6. Range(keys) \cap DOMAIN Dotted = {}
  BY <1>2, <1>5 DEF Range
<1> QED BY <1>3, <1>4, <1>6 DEF At

LEMMA AtTwo ==
  ASSUME NEW a, NEW b, a # "<>", b # "<>", <<a, b>> \in Settings
  PROVE  At(<<a, b>>, <<a, b>>)
<1> DEFINE r == <<a, b>>
           D == {a, b}
<1>1. r \in Seq(D) /\ Len(r) = 2
  OBVIOUS
<1>2. ASSUME NEW i \in 1 .. Len(r)
      PROVE  IF r[i] = "<>" THEN r[i] \notin DOMAIN Dotted ELSE r[i] = r[i]
  <2>1. i = 1 \/ i = 2
    BY <1>1
  <2> QED BY <2>1
<1> HIDE DEF r, D
<1>4. r \in Settings
  BY DEF r
<1>5. At(r, r)
  BY <1>1, <1>2, <1>4, AtKeys
<1> QED BY <1>5 DEF r

LEMMA AtThree ==
  ASSUME NEW a, NEW b, NEW c, a # "<>", b # "<>", c # "<>", <<a, b, c>> \in Settings
  PROVE  At(<<a, b, c>>, <<a, b, c>>)
<1> DEFINE r == <<a, b, c>>
           D == {a, b, c}
<1>1. r \in Seq(D) /\ Len(r) = 3
  OBVIOUS
<1>2. ASSUME NEW i \in 1 .. Len(r)
      PROVE  IF r[i] = "<>" THEN r[i] \notin DOMAIN Dotted ELSE r[i] = r[i]
  <2>1. i = 1 \/ i = 2 \/ i = 3
    BY <1>1
  <2> QED BY <2>1
<1> HIDE DEF r, D
<1>4. r \in Settings
  BY DEF r
<1>5. At(r, r)
  BY <1>1, <1>2, <1>4, AtKeys
<1> QED BY <1>5 DEF r

(* The third key is a word, or a name in its place. *)
LEMMA AtFour ==
  ASSUME NEW a, NEW b, NEW c, NEW d, NEW n, a # "<>", b # "<>", d # "<>",
         <<a, b, c, d>> \in Settings, c \in {"<>", n},
         n \notin DOMAIN Dotted
  PROVE  At(<<a, b, c, d>>, <<a, b, n, d>>)
<1> DEFINE r == <<a, b, c, d>>
           keys == <<a, b, n, d>>
           D == {a, b, n, d}
<1>1. keys \in Seq(D) /\ Len(r) = 4 /\ Len(keys) = 4
  OBVIOUS
<1>2. ASSUME NEW i \in 1 .. Len(r)
      PROVE  IF r[i] = "<>" THEN keys[i] \notin DOMAIN Dotted ELSE keys[i] = r[i]
  <2>1. i = 1 \/ i = 2 \/ i = 3 \/ i = 4
    BY <1>1
  <2> QED BY <2>1
<1> HIDE DEF r, keys, D
<1>3. r \in Settings
  BY DEF r
<1>4. At(r, keys)
  BY <1>1, <1>2, <1>3, AtKeys
<1> QED BY <1>4 DEF r, keys

LEMMA AtFive ==
  ASSUME NEW a, NEW b, NEW c, NEW e, NEW n, a # "<>", b # "<>", c # "<>", e # "<>",
         <<a, b, c, "<>", e>> \in Settings, n \notin DOMAIN Dotted
  PROVE  At(<<a, b, c, "<>", e>>, <<a, b, c, n, e>>)
<1> DEFINE r == <<a, b, c, "<>", e>>
           keys == <<a, b, c, n, e>>
           D == {a, b, c, n, e}
<1>1. keys \in Seq(D) /\ Len(r) = 5 /\ Len(keys) = 5
  OBVIOUS
<1>2. ASSUME NEW i \in 1 .. Len(r)
      PROVE  IF r[i] = "<>" THEN keys[i] \notin DOMAIN Dotted ELSE keys[i] = r[i]
  <2>1. i = 1 \/ i = 2 \/ i = 3 \/ i = 4 \/ i = 5
    BY <1>1
  <2> QED BY <2>1
<1> HIDE DEF r, keys, D
<1>3. r \in Settings
  BY DEF r
<1>4. At(r, keys)
  BY <1>1, <1>2, <1>3, AtKeys
<1> QED BY <1>4 DEF r, keys

LEMMA AtSix ==
  ASSUME NEW a, NEW b, NEW c, NEW e, NEW f, NEW n, a # "<>", b # "<>", c # "<>", e # "<>", f # "<>",
         <<a, b, c, "<>", e, f>> \in Settings, n \notin DOMAIN Dotted
  PROVE  At(<<a, b, c, "<>", e, f>>, <<a, b, c, n, e, f>>)
<1> DEFINE r == <<a, b, c, "<>", e, f>>
           keys == <<a, b, c, n, e, f>>
           D == {a, b, c, n, e, f}
<1>1. keys \in Seq(D) /\ Len(r) = 6 /\ Len(keys) = 6
  OBVIOUS
<1>2. ASSUME NEW i \in 1 .. Len(r)
      PROVE  IF r[i] = "<>" THEN keys[i] \notin DOMAIN Dotted ELSE keys[i] = r[i]
  <2>1. i = 1 \/ i = 2 \/ i = 3 \/ i = 4 \/ i = 5 \/ i = 6
    BY <1>1
  <2> QED BY <2>1
<1> HIDE DEF r, keys, D
<1>3. r \in Settings
  BY DEF r
<1>4. At(r, keys)
  BY <1>1, <1>2, <1>3, AtKeys
<1> QED BY <1>4 DEF r, keys

LEMMA ChainsAt ==
  ASSUME NEW c \in Chains
  PROVE  At(ChainAt(c), ChainAt(c))
<1>0. ChainAt(c) \in Settings
  BY DEF Settings
<1>1. <<"firewall", "nftables", c, "default_action">> \in Settings
  BY <1>0 DEF ChainAt
<1>2. c # "<>" /\ \A i : i \in DOMAIN <<"firewall", "nftables", c, "default_action">> => i \in 1 .. 4
  BY DEF Chains
<1>3. c \notin DOMAIN Dotted
  <2>1. c \in Range(ChainAt(c)) /\ Range(ChainAt(c)) \subseteq SettingWords \cup {"<>"}
    <3>1. Range(ChainAt(c)) \subseteq SettingWords \cup {"<>"}
      BY <1>0, SettingsAre
    <3>2. 3 \in DOMAIN <<"firewall", "nftables", c, "default_action">>
      OBVIOUS
    <3> QED BY <3>1, <3>2 DEF Range, ChainAt
  <2> QED BY <1>2, <2>1, SchemaAssumption
<1>4. At(<<"firewall", "nftables", c, "default_action">>, <<"firewall", "nftables", c, "default_action">>)
  BY <1>1, <1>2, <1>3, AtFour
<1> QED BY <1>4 DEF ChainAt

LEMMA SystemAt ==
  At(WanBlockAt, WanBlockAt) /\ At(HostNameAt, HostNameAt) /\ At(NameServerAt, NameServerAt)
<1>1. WanBlockAt \in Settings /\ HostNameAt \in Settings /\ NameServerAt \in Settings
  BY DEF Settings, Lists
<1>2. At(WanBlockAt, WanBlockAt)
  BY <1>1, AtThree DEF WanBlockAt
<1>3. At(HostNameAt, HostNameAt) /\ At(NameServerAt, NameServerAt)
  BY <1>1, AtTwo DEF HostNameAt, NameServerAt
<1> QED BY <1>2, <1>3

LEMMA NamedAt ==
  ASSUME NEW n \in Range(Names)
  PROVE  /\ At(RoleAt("<>"), RoleAt(n)) /\ At(AddressAt("<>"), AddressAt(n))
         /\ At(OifAt("<>"), OifAt(n)) /\ At(SourceAt("<>"), SourceAt(n))
         /\ At(TranslationAt("<>"), TranslationAt(n))
<1>1. n \notin DOMAIN Dotted
  BY NameIs
<1>2. /\ RoleAt("<>") \in Settings /\ AddressAt("<>") \in Settings /\ OifAt("<>") \in Settings
      /\ SourceAt("<>") \in Settings /\ TranslationAt("<>") \in Settings
  BY DEF Settings, Lists
<1>3. At(RoleAt("<>"), RoleAt(n))
  BY <1>1, <1>2, Spelled, AtFour
<1>4. At(AddressAt("<>"), AddressAt(n))
  BY <1>1, <1>2, Spelled, AtFour
<1>5. At(OifAt("<>"), OifAt(n))
  BY <1>1, <1>2, Spelled, AtFive
<1>6. At(SourceAt("<>"), SourceAt(n))
  BY <1>1, <1>2, Spelled, AtSix
<1>7. At(TranslationAt("<>"), TranslationAt(n))
  BY <1>1, <1>2, Spelled, AtSix
<1> QED BY <1>3, <1>4, <1>5, <1>6, <1>7

(* Which of them are lists, and that only the one is an interface of a rule. *)
LEMMA SettingsDiffer ==
  /\ \A c \in Chains : ChainAt(c) \notin Lists /\ ChainAt(c) # OifAt("<>")
  /\ \A r \in {WanBlockAt, HostNameAt, RoleAt("<>"), SourceAt("<>"), TranslationAt("<>")} :
       r \notin Lists /\ r # OifAt("<>")
  /\ OifAt("<>") \notin Lists
  /\ AddressAt("<>") \in Lists /\ NameServerAt \in Lists
  /\ AddressAt("<>") # OifAt("<>") /\ NameServerAt # OifAt("<>")
<1>1. Lists = {<<"interfaces", "ethernet", "<>", "address">>, <<"system", "name_server">>}
  BY Spelled DEF Lists, NameServerAt
<1>2. OifAt("<>") = <<"nat", "source", "rule", "<>", "outbound_interface">>
  BY Spelled
<1>3. \A c \in Chains : ChainAt(c) \notin Lists /\ ChainAt(c) # OifAt("<>")
  BY <1>1, <1>2 DEF ChainAt
<1>4. WanBlockAt \notin Lists /\ WanBlockAt # OifAt("<>") /\ HostNameAt \notin Lists /\ HostNameAt # OifAt("<>")
  BY <1>1, <1>2 DEF WanBlockAt, HostNameAt
<1>5. RoleAt("<>") \notin Lists /\ RoleAt("<>") # OifAt("<>")
  BY <1>1, <1>2, Spelled
<1>6. SourceAt("<>") \notin Lists /\ SourceAt("<>") # OifAt("<>")
  BY <1>1, <1>2, Spelled
<1>7. TranslationAt("<>") \notin Lists /\ TranslationAt("<>") # OifAt("<>")
  BY <1>1, <1>2, Spelled
<1>8. OifAt("<>") \notin Lists
  BY <1>1, <1>2
<1>9. AddressAt("<>") # OifAt("<>") /\ NameServerAt # OifAt("<>")
  BY <1>2, Spelled DEF NameServerAt
<1>10. AddressAt("<>") \in Lists /\ NameServerAt \in Lists
  BY DEF Lists
<1> QED BY <1>3, <1>4, <1>5, <1>6, <1>7, <1>8, <1>9, <1>10

-----------------------------------------------------------------------------
(* Maps on the way to a setting *)

LEMMA StartsWith ==
  ASSUME NEW D, NEW s \in Seq(D), NEW t \in Seq(D), Len(s) < Len(t), \A i \in 1 .. Len(s) : s[i] = t[i]
  PROVE  IsStrictPrefix(s, t)
<1>1. SubSeq(s, 1, Len(s)) = s
  BY SubSeqFull
<1>2. SubSeq(t, 1, Len(s)) \in Seq(D) /\ Len(SubSeq(t, 1, Len(s))) = Len(s)
      /\ \A i \in 1 .. Len(s) : SubSeq(t, 1, Len(s))[i] = t[i]
  <2>1. Len(s) \in Nat /\ Len(t) \in Nat /\ Len(s) <= Len(t)
    OBVIOUS
  <2>2. \A i \in 1 .. Len(s) : t[i] \in D
    BY <2>1
  <2>3. /\ SubSeq(t, 1, Len(s)) \in Seq(D)
        /\ Len(SubSeq(t, 1, Len(s))) = IF 1 <= Len(s) THEN Len(s) - 1 + 1 ELSE 0
        /\ \A i \in 1 .. (Len(s) - 1 + 1) : SubSeq(t, 1, Len(s))[i] = t[1 + i - 1]
    BY <2>1, <2>2, SubSeqProperties
  <2>4. Len(SubSeq(t, 1, Len(s))) = Len(s) /\ Len(s) - 1 + 1 = Len(s) /\ \A i \in 1 .. Len(s) : 1 + i - 1 = i
    BY <2>1, <2>3
  <2> QED BY <2>3, <2>4
<1>3. SubSeq(t, 1, Len(s)) = s
  BY <1>2, SeqEqual
<1>4. s # t /\ Len(s) <= Len(t)
  OBVIOUS
<1> QED BY <1>1, <1>3, <1>4 DEF IsStrictPrefix, IsPrefix

(* What is below of a key of a map is one of its submaps. *)
LEMMA IsSubMap ==
  ASSUME NEW tree, NEW D, NEW base \in Seq(D), NEW n \in Range(Names), n \in D,
         NEW keys \in Seq(D), keys \in DOMAIN tree, Len(keys) > Len(base) + 1,
         \A i \in 1 .. Len(base) : keys[i] = base[i], keys[Len(base) + 1] = n
  PROVE  n \in Range(SubMaps(tree, base))
<1> DEFINE at == Append(base, n)
<1>1. /\ at \in Seq(D) /\ Len(at) = Len(base) + 1 /\ Len(base) \in Nat /\ Len(keys) \in Nat
      /\ at[Len(base) + 1] = n /\ \A i \in 1 .. Len(base) : at[i] = base[i]
  BY AppendProperties
<1> HIDE DEF at
<1>2. IsStrictPrefix(at, keys)
  <2>1. \A i \in 1 .. Len(at) : i \in 1 .. Len(base) \/ i = Len(base) + 1
    BY <1>1
  <2>2. \A i \in 1 .. Len(at) : at[i] = keys[i]
    BY <1>1, <2>1
  <2> QED BY <1>1, <2>2, StartsWith
<1>3. IsStrictPrefix(base, keys)
  <2>1. Len(base) < Len(keys)
    BY <1>1
  <2> QED BY <2>1, StartsWith
<1>4. n \in Children(tree, base) /\ HasMap(tree, at)
  BY <1>2, <1>3 DEF Children, HasMap, Below
<1>5. Range(SubMaps(tree, base)) = Range(Names) \cap {m \in Children(tree, base) : HasMap(tree, Append(base, m))}
  BY OpsPlanAssumption, AmongRange DEF SubMaps
<1> QED BY <1>4, <1>5 DEF at

LEMMA EthernetIs == Ethernet \in Seq(Range(Ethernet)) /\ Len(Ethernet) = 2
  /\ Ethernet[1] = "interfaces" /\ Ethernet[2] = "ethernet"
BY DEF Ethernet, Range

LEMMA NatRulesIs == NatRules \in Seq(Range(NatRules)) /\ Len(NatRules) = 3
  /\ NatRules[1] = "nat" /\ NatRules[2] = "source" /\ NatRules[3] = "rule"
BY DEF NatRules, Range

LEMMA InterfaceIsMap ==
  ASSUME NEW tree, NEW n \in Range(Names), NEW x, <<"interfaces", "ethernet", n, x>> \in DOMAIN tree
  PROVE  n \in Range(SubMaps(tree, Ethernet))
<1> DEFINE keys == <<"interfaces", "ethernet", n, x>>
           D == {"interfaces", "ethernet", n, x}
<1>1. keys \in Seq(D) /\ Ethernet \in Seq(D) /\ n \in D
  BY DEF Ethernet
<1>2. Len(keys) = 4 /\ keys[1] = "interfaces" /\ keys[2] = "ethernet" /\ keys[3] = n
  OBVIOUS
<1>3. \A i \in 1 .. Len(Ethernet) : i = 1 \/ i = 2
  BY EthernetIs
<1> HIDE DEF D
<1>4. keys \in DOMAIN tree
  OBVIOUS
<1> HIDE DEF keys
<1>5. Len(keys) > Len(Ethernet) + 1 /\ keys[Len(Ethernet) + 1] = n /\ \A i \in 1 .. Len(Ethernet) : keys[i] = Ethernet[i]
  BY <1>2, <1>3, EthernetIs
<1> QED BY <1>1, <1>4, <1>5, IsSubMap

LEMMA RuleIsMap ==
  ASSUME NEW tree, NEW n \in Range(Names), NEW x, NEW y,
         <<"nat", "source", "rule", n, x, y>> \in DOMAIN tree
  PROVE  n \in Range(SubMaps(tree, NatRules))
<1> DEFINE keys == <<"nat", "source", "rule", n, x, y>>
           D == {"nat", "source", "rule", n, x, y}
<1>1. keys \in Seq(D) /\ NatRules \in Seq(D) /\ n \in D
  BY DEF NatRules
<1>2. Len(keys) = 6 /\ keys[1] = "nat" /\ keys[2] = "source" /\ keys[3] = "rule" /\ keys[4] = n
  OBVIOUS
<1>3. \A i \in 1 .. Len(NatRules) : i = 1 \/ i = 2 \/ i = 3
  BY NatRulesIs
<1> HIDE DEF D
<1>4. keys \in DOMAIN tree
  OBVIOUS
<1> HIDE DEF keys
<1>5. Len(keys) > Len(NatRules) + 1 /\ keys[Len(NatRules) + 1] = n /\ \A i \in 1 .. Len(NatRules) : keys[i] = NatRules[i]
  BY <1>2, <1>3, NatRulesIs
<1> QED BY <1>1, <1>4, <1>5, IsSubMap

-----------------------------------------------------------------------------
(* Words *)

LEMMA KnownWords ==
  ASSUME NEW raw \in {"accept", "drop", "wan", "masquerade", "dhcp"}
  PROVE  IsWord(raw)
<1>1. raw \notin SwitchesOn \cup SwitchesOff \cup NotFinite
  BY DEF SwitchesOn, SwitchesOff, NotFinite
<1>2. raw \notin DOMAIN Printed
  BY SchemaAssumption
<1> QED BY <1>1, <1>2, ParseValueIs DEF IsWord

LEMMA ReadsSetting ==
  ASSUME NEW d, Whole(d), Undivided(d), NEW r, NEW keys, At(r, keys), r # OifAt("<>")
  PROVE  Reads(d, r, keys)
BY DEF Reads, Plainly

(* A chain's policy, what makes the interfaces the WAN's, ... *)
LEMMA ChainFollows ==
  ASSUME NEW d, Whole(d), Undivided(d), NEW c \in Chains, NEW fallback
  PROVE  ChainPolicy(d.tree, c, fallback)
         = IF LastRaw(d, ChainAt(c)) = "" THEN fallback ELSE LastRaw(d, ChainAt(c))
<1> DEFINE raw == LastRaw(d, ChainAt(c))
<1>1. At(ChainAt(c), ChainAt(c))
  BY ChainsAt
<1>2. Reads(d, ChainAt(c), ChainAt(c)) /\ ChainAt(c) \notin Lists
  BY <1>1, SettingsDiffer, ReadsSetting
<1>3. GetString(d.tree, ChainAt(c)) = IF IsWord(raw) THEN raw ELSE ""
  BY <1>2, ReadString
<1>4. raw # "" => raw \in {"accept", "drop"}
  <2>1. ASSUME raw # "" PROVE raw \in {"accept", "drop"}
    <3>1. PICK p \in Schema : Normal(p.tokens) = ChainAt(c) /\ raw \in p.accepts
      BY <1>2, <2>1, LastAccepted
    <3>2. p.accepts \subseteq {"accept", "drop"}
      BY <3>1, SchemaAssumption
    <3> QED BY <3>1, <3>2
  <2> QED BY <2>1
<1>5. ChainPolicy(d.tree, c, fallback) = ToNftPolicy(GetString(d.tree, ChainAt(c)), fallback)
  BY DEF ChainPolicy, ChainAt
<1> HIDE DEF raw
<1>6. CASE raw = ""
  BY <1>3, <1>5, <1>6 DEF ToNftPolicy, raw, IsWord
<1>7. CASE raw # ""
  <2>1. IsWord(raw)
    BY <1>4, <1>7, KnownWords
  <2> QED BY <1>3, <1>4, <1>5, <1>7, <2>1 DEF ToNftPolicy, raw
<1> QED BY <1>6, <1>7

LEMMA WanFollows ==
  ASSUME NEW d, Whole(d), Undivided(d), NEW n \in Range(Names)
  PROVE  n \in RenderRules(d.tree).wan <=> LastRaw(d, WanBlockAt) # "" /\ LastRaw(d, RoleAt(n)) = "wan"
<1> DEFINE block == LastRaw(d, WanBlockAt)
           role == LastRaw(d, RoleAt(n))
<1>1. Reads(d, WanBlockAt, WanBlockAt) /\ WanBlockAt \notin Lists
  BY SystemAt, SettingsDiffer, ReadsSetting
<1>2. Reads(d, RoleAt("<>"), RoleAt(n)) /\ RoleAt("<>") \notin Lists
  BY NamedAt, SettingsDiffer, ReadsSetting
<1>3. GetBool(d.tree, WanBlockAt) <=> block \in SwitchesOn
  BY <1>1, ReadString
<1>4. block # "" <=> block \in SwitchesOn
  <2>1. ASSUME block # "" PROVE block \in SwitchesOn
    <3>1. PICK p \in Schema : Normal(p.tokens) = WanBlockAt /\ block \in p.accepts
      BY <1>1, <2>1, LastAccepted
    <3>2. p.accepts \subseteq {"enable"}
      BY <3>1, SchemaAssumption
    <3> QED BY <3>1, <3>2 DEF SwitchesOn
  <2> QED BY <2>1 DEF SwitchesOn
<1>5. /\ GetString(d.tree, RoleAt(n)) = IF IsWord(role) THEN role ELSE ""
      /\ GetString(d.tree, RoleAt(n)) # "" => RoleAt(n) \in DOMAIN d.tree
  BY <1>2, ReadString
<1> HIDE DEF block, role
<1>6. GetString(d.tree, RoleAt(n)) = "wan" <=> role = "wan"
  BY <1>5, KnownWords
<1>7. RoleAt(n) \in DOMAIN d.tree => n \in Range(SubMaps(d.tree, Ethernet))
  BY Spelled, InterfaceIsMap
<1>8. n \in GetWanIfaces(d.tree) <=> role = "wan"
  BY <1>5, <1>6, <1>7 DEF GetWanIfaces, RoleAt
<1>9. RenderRules(d.tree).wan = IF GetBool(d.tree, WanBlockAt) THEN GetWanIfaces(d.tree) ELSE {}
  BY DEF RenderRules, WanBlockAt
<1> QED BY <1>3, <1>4, <1>8, <1>9 DEF block, role

(* A masquerade rule. *)
ClearRule(d, n) ==
  /\ LastRaw(d, OifAt(n)) # "" => IsWord(LastRaw(d, OifAt(n)))
  /\ \A x \in {"name", "group"} : LastRaw(d, Append(OifAt(n), x)) = ""

LEMMA ReadsRule ==
  ASSUME NEW d, Whole(d), Undivided(d), NEW n \in Range(Names), ClearRule(d, n)
  PROVE  Reads(d, OifAt("<>"), OifAt(n))
<1>1. ASSUME NEW i \in DOMAIN d.typed, NEW x \in {"name", "group"}
      PROVE  Normal(d.typed[i].tokens) # Append(OifAt(n), x)
  <2> DEFINE keys == Append(OifAt(n), x)
             at == For(d, keys)
  <2>1. d.typed \in Seq(Passed)
    BY DEF Whole
  <2>2. at \in SUBSET (1 .. Len(d.typed)) /\ Len(d.typed) \in Nat
    BY <2>1 DEF For
  <2>3. \A j \in at : d.typed[j].raw # ""
    <3> SUFFICES ASSUME NEW j \in at PROVE d.typed[j].raw # ""
      OBVIOUS
    <3>1. d.typed[j] \in Passed
      BY <2>1 DEF For
    <3>2. PICK p \in Schema : d.typed[j].raw \in p.accepts
      BY <3>1, PassedLets
    <3> QED BY <3>2, CommandTreeAssumption
  <2>4. LastRaw(d, keys) = ""
    BY DEF ClearRule
  <2> HIDE DEF keys
  <2>5. at = {}
    <3> SUFFICES ASSUME at # {} PROVE FALSE
      OBVIOUS
    <3>1. Max(at) \in at
      BY <2>2, MaxOf
    <3>2. LastRaw(d, keys) = d.typed[Max(at)].raw
      BY Zenon DEF LastRaw, For
    <3> QED BY <2>3, <2>4, <3>1, <3>2
  <2> QED BY <2>5 DEF For, keys
<1>2. \A i \in DOMAIN d.typed : Plainly(OifAt("<>"), OifAt(n), d.typed[i])
  BY <1>1 DEF Plainly
<1> QED BY <1>2, NamedAt DEF Reads

(* What is read of a rule. *)
LEMMA RuleFollows ==
  ASSUME NEW d, Whole(d), Undivided(d), NEW n \in Range(Names), ClearRule(d, n)
  PROVE  /\ GetString(d.tree, OifAt(n)) = LastRaw(d, OifAt(n))
         /\ GetString(d.tree, SourceAt(n)) = LastRaw(d, SourceAt(n))
         /\ GetString(d.tree, TranslationAt(n)) = "masquerade" <=> LastRaw(d, TranslationAt(n)) = "masquerade"
         /\ LastRaw(d, SourceAt(n)) # "" => n \in Range(SubMaps(d.tree, NatRules))
<1> DEFINE oif == LastRaw(d, OifAt(n))
           src == LastRaw(d, SourceAt(n))
           to == LastRaw(d, TranslationAt(n))
<1>1. Reads(d, OifAt("<>"), OifAt(n)) /\ OifAt("<>") \notin Lists
  BY ReadsRule, SettingsDiffer
<1>2. Reads(d, SourceAt("<>"), SourceAt(n)) /\ SourceAt("<>") \notin Lists
  BY NamedAt, SettingsDiffer, ReadsSetting
<1>3. Reads(d, TranslationAt("<>"), TranslationAt(n)) /\ TranslationAt("<>") \notin Lists
  BY NamedAt, SettingsDiffer, ReadsSetting
<1>4. GetString(d.tree, OifAt(n)) = IF IsWord(oif) THEN oif ELSE ""
  BY <1>1, ReadString
<1>5. /\ GetString(d.tree, SourceAt(n)) = IF IsWord(src) THEN src ELSE ""
      /\ GetString(d.tree, SourceAt(n)) # "" => SourceAt(n) \in DOMAIN d.tree
  BY <1>2, ReadString
<1>6. GetString(d.tree, TranslationAt(n)) = IF IsWord(to) THEN to ELSE ""
  BY <1>3, ReadString
<1>7. ASSUME src # "" PROVE IsWord(src)
  <2>1. PICK p \in Schema : Normal(p.tokens) = SourceAt("<>") /\ src \in p.accepts
    BY <1>2, <1>7, LastAccepted
  <2>2. \A raw \in p.accepts : IsWord(raw)
    BY <2>1, SchemaAssumption
  <2> QED BY <2>1, <2>2
<1>8. SourceAt(n) \in DOMAIN d.tree => n \in Range(SubMaps(d.tree, NatRules))
  BY Spelled, RuleIsMap
<1>9. oif # "" => IsWord(oif)
  BY DEF ClearRule
<1> HIDE DEF oif, src, to
<1>10. GetString(d.tree, OifAt(n)) = oif
  BY <1>4, <1>9
<1>11. GetString(d.tree, SourceAt(n)) = src /\ (src # "" => n \in Range(SubMaps(d.tree, NatRules)))
  BY <1>5, <1>7, <1>8
<1>12. GetString(d.tree, TranslationAt(n)) = "masquerade" <=> to = "masquerade"
  BY <1>6, KnownWords
<1> QED BY <1>10, <1>11, <1>12 DEF oif, src, to

LEMMA ItemsIn ==
  ASSUME NEW D, NEW seq \in Seq(D)
  PROVE  \A i \in DOMAIN seq : seq[i] \in D
OBVIOUS

(* The rules that were typed whole. *)
Wanted(d) ==
  {n \in Range(Names) :
     /\ LastRaw(d, OifAt(n)) # "" /\ LastRaw(d, SourceAt(n)) # ""
     /\ LastRaw(d, TranslationAt(n)) = "masquerade"}

LEMMA SubMapsAmong ==
  ASSUME NEW tree, NEW base, NEW S
  PROVE  Among(SubMaps(tree, base), S)
         = Among(Names, {n \in Children(tree, base) : HasMap(tree, Append(base, n))} \cap S)
<1> DEFINE maps == {n \in Children(tree, base) : HasMap(tree, Append(base, n))}
<1>1. SubMaps(tree, base) = Among(Names, maps)
  BY DEF SubMaps
<1> HIDE DEF maps
<1>2. Among(Among(Names, maps), S) = Among(Names, maps \cap S)
  BY NamesAreASequence, AmongAmong
<1> QED BY <1>1, <1>2 DEF maps

LEMMA WantedAre ==
  ASSUME NEW d, Whole(d), Undivided(d), \A n \in Range(Names) : ClearRule(d, n)
  PROVE  Among(Names, Wanted(d))
         = Among(SubMaps(d.tree, NatRules),
                 {n \in Range(Names) :
                    /\ GetString(d.tree, OifAt(n)) # "" /\ GetString(d.tree, SourceAt(n)) # ""
                    /\ GetString(d.tree, TranslationAt(n)) = "masquerade"})
<1> DEFINE maps == {n \in Children(d.tree, NatRules) : HasMap(d.tree, Append(NatRules, n))}
           set == {n \in Range(Names) :
                     /\ GetString(d.tree, OifAt(n)) # "" /\ GetString(d.tree, SourceAt(n)) # ""
                     /\ GetString(d.tree, TranslationAt(n)) = "masquerade"}
<1>1. Range(SubMaps(d.tree, NatRules)) = Range(Names) \cap maps
  BY OpsPlanAssumption, AmongRange DEF SubMaps
<1>2. Among(SubMaps(d.tree, NatRules), set) = Among(Names, maps \cap set)
  <2>1. \A S : Among(SubMaps(d.tree, NatRules), S) = Among(Names, maps \cap S)
    BY SubMapsAmong
  <2> HIDE DEF maps, set
  <2> QED BY <2>1
<1>3. ASSUME NEW n \in Range(Names) PROVE n \in maps \cap set <=> n \in Wanted(d)
  <2>1. /\ GetString(d.tree, OifAt(n)) = LastRaw(d, OifAt(n))
        /\ GetString(d.tree, SourceAt(n)) = LastRaw(d, SourceAt(n))
        /\ GetString(d.tree, TranslationAt(n)) = "masquerade" <=> LastRaw(d, TranslationAt(n)) = "masquerade"
        /\ LastRaw(d, SourceAt(n)) # "" => n \in Range(SubMaps(d.tree, NatRules))
    BY RuleFollows
  <2>2. n \in set <=> n \in Wanted(d)
    BY <2>1 DEF Wanted
  <2>3. n \in Wanted(d) => n \in Range(SubMaps(d.tree, NatRules))
    BY <2>1 DEF Wanted
  <2> HIDE DEF maps, set
  <2> QED BY <1>1, <2>2, <2>3
<1> HIDE DEF maps, set
<1>4. Among(Names, maps \cap set) = Among(Names, Wanted(d))
  <2> DEFINE both == maps \cap set
  <2>1. \A n \in Range(Names) : n \in both <=> n \in Wanted(d)
    BY <1>3
  <2> HIDE DEF both
  <2>2. Among(Names, both) = Among(Names, Wanted(d))
    BY <2>1, NamesAreASequence, AmongSame
  <2> QED BY <2>2 DEF both
<1> QED BY <1>2, <1>4 DEF set

LEMMA NatFollows ==
  ASSUME NEW d, Whole(d), Undivided(d), \A n \in Range(Names) : ClearRule(d, n)
  PROVE  LET wanted == Among(Names, Wanted(d)) IN
         RenderSourceNatRules(d.tree)
         = [i \in DOMAIN wanted |-> [oif |-> LastRaw(d, OifAt(wanted[i])), src |-> LastRaw(d, SourceAt(wanted[i]))]]
<1> DEFINE wanted == Among(Names, Wanted(d))
           whole == Among(SubMaps(d.tree, NatRules),
                      {n \in Range(Names) :
                         /\ GetString(d.tree, OifAt(n)) # "" /\ GetString(d.tree, SourceAt(n)) # ""
                         /\ GetString(d.tree, TranslationAt(n)) = "masquerade"})
<1>1. RenderSourceNatRules(d.tree)
      = [i \in DOMAIN whole |-> [oif |-> GetString(d.tree, OifAt(whole[i])), src |-> GetString(d.tree, SourceAt(whole[i]))]]
  BY Zenon DEF RenderSourceNatRules, OifAt, SourceAt, TranslationAt
<1>2. whole = wanted
  BY WantedAre
<1>3. \A i \in DOMAIN wanted : wanted[i] \in Range(Names)
  <2>1. wanted \in Seq(Range(Names) \cap Wanted(d))
    BY NamesAreASequence, AmongIn
  <2> HIDE DEF wanted
  <2>2. \A i \in DOMAIN wanted : wanted[i] \in Range(Names) \cap Wanted(d)
    BY <2>1, ItemsIn
  <2> QED BY <2>2
<1> HIDE DEF whole, wanted
<1>4. \A i \in DOMAIN wanted :
        /\ GetString(d.tree, OifAt(wanted[i])) = LastRaw(d, OifAt(wanted[i]))
        /\ GetString(d.tree, SourceAt(wanted[i])) = LastRaw(d, SourceAt(wanted[i]))
  BY <1>3, RuleFollows
<1>5. RenderSourceNatRules(d.tree)
      = [i \in DOMAIN wanted |-> [oif |-> LastRaw(d, OifAt(wanted[i])), src |-> LastRaw(d, SourceAt(wanted[i]))]]
  BY <1>1, <1>2, <1>4
<1> QED BY <1>5 DEF wanted

LEMMA WholeRulesFollow ==
  ASSUME Whole(file.doc)
  PROVE  RulesFollowCommands
<1> DEFINE d == file.doc
           r == RenderRules(d.tree)
           wanted == Among(Names, Wanted(d))
           rules == [i \in DOMAIN wanted |-> [oif |-> LastRaw(d, OifAt(wanted[i])), src |-> LastRaw(d, SourceAt(wanted[i]))]]
<1>1. SUFFICES ASSUME Undivided(d)
      PROVE  /\ \A c \in {"input", "forward"} :
                  r[c] = IF LastRaw(d, ChainAt(c)) = "" THEN "drop" ELSE LastRaw(d, ChainAt(c))
             /\ r.output = IF LastRaw(d, ChainAt("output")) = "" THEN "accept" ELSE LastRaw(d, ChainAt("output"))
             /\ \A n \in Range(Names) : n \in r.wan <=> LastRaw(d, WanBlockAt) # "" /\ LastRaw(d, RoleAt(n)) = "wan"
             /\ (\A n \in Range(Names) : ClearRule(d, n)) => r.nat = rules
  BY Zenon DEF RulesFollowCommands, ClearRule, Wanted
<1>2. /\ r.input = ChainPolicy(d.tree, "input", "drop") /\ r.forward = ChainPolicy(d.tree, "forward", "drop")
      /\ r.output = ChainPolicy(d.tree, "output", "accept") /\ r.nat = RenderSourceNatRules(d.tree)
  BY DEF RenderRules
<1> HIDE DEF r
<1>3. /\ r["input"] = IF LastRaw(d, ChainAt("input")) = "" THEN "drop" ELSE LastRaw(d, ChainAt("input"))
      /\ r["forward"] = IF LastRaw(d, ChainAt("forward")) = "" THEN "drop" ELSE LastRaw(d, ChainAt("forward"))
      /\ r.output = IF LastRaw(d, ChainAt("output")) = "" THEN "accept" ELSE LastRaw(d, ChainAt("output"))
  <2>1. "input" \in Chains /\ "forward" \in Chains /\ "output" \in Chains
    BY DEF Chains
  <2> HIDE DEF d
  <2> QED BY <1>1, <1>2, <2>1, ChainFollows DEF d
<1>4. \A n \in Range(Names) : n \in r.wan <=> LastRaw(d, WanBlockAt) # "" /\ LastRaw(d, RoleAt(n)) = "wan"
  BY <1>1, WanFollows DEF r
<1>5. ASSUME \A n \in Range(Names) : ClearRule(d, n) PROVE r.nat = rules
  <2>1. RenderSourceNatRules(d.tree) = rules
    BY <1>1, <1>5, NatFollows
  <2> QED BY <1>2, <2>1
<1> HIDE DEF rules
<1> QED BY <1>3, <1>4, <1>5

(* What nft loads for the candidate (nftables.go, renderRules) is what was *)
(* typed last, for every schema that keeps its settings apart, by any      *)
(* commands of any shells.                                                 *)
THEOREM RulesFollow == Spec => []RulesFollowCommands
<1>1. TypeInv => RulesFollowCommands
  BY WholeRulesFollow DEF TypeInv, Candidates
<1> QED BY <1>1, AlwaysTyped, PTL

-----------------------------------------------------------------------------
(* What a plan is made of *)

IsSequence(s) == \E D : s \in Seq(D)

(* A part of a sequence. *)
Within(part, whole) ==
  \E k \in Nat : /\ k + Len(part) <= Len(whole)
                 /\ \A i \in 1 .. Len(part) : whole[k + i] = part[i]

LEMMA JoinedSequences ==
  ASSUME NEW a, NEW b, IsSequence(a), IsSequence(b)
  PROVE  IsSequence(a \o b) /\ Within(a, a \o b) /\ Within(b, a \o b)
<1> PICK A : a \in Seq(A)
  BY DEF IsSequence
<1> PICK B : b \in Seq(B)
  BY DEF IsSequence
<1> DEFINE D == A \cup B
<1>1. a \in Seq(D) /\ b \in Seq(D)
  BY SeqMonotonic
<1> HIDE DEF D
<1>2. /\ a \o b \in Seq(D) /\ Len(a) \in Nat /\ Len(b) \in Nat /\ Len(a \o b) = Len(a) + Len(b)
      /\ \A j \in 1 .. Len(a) : (a \o b)[j] = a[j]
      /\ \A j \in 1 .. Len(b) : (a \o b)[Len(a) + j] = b[j]
  BY <1>1, Joined
<1> DEFINE c == a \o b
<1>3. /\ c \in Seq(D) /\ Len(c) = Len(a) + Len(b)
      /\ \A j \in 1 .. Len(a) : c[j] = a[j]
      /\ \A j \in 1 .. Len(b) : c[Len(a) + j] = b[j]
  BY <1>2
<1> HIDE DEF c
<1>4. Within(a, c)
  <2>1. 0 \in Nat /\ 0 + Len(a) <= Len(c) /\ \A i \in 1 .. Len(a) : 0 + i = i
    BY <1>2, <1>3
  <2>2. \A i \in 1 .. Len(a) : c[0 + i] = a[i]
    BY <1>3, <2>1
  <2> QED BY <2>1, <2>2 DEF Within
<1>5. Within(b, c)
  <2>1. Len(a) + Len(b) <= Len(c)
    BY <1>2, <1>3
  <2> QED BY <1>2, <1>3, <2>1 DEF Within
<1> QED BY <1>3, <1>4, <1>5 DEF IsSequence, c

LEMMA WithinWithin ==
  ASSUME NEW a, NEW b, NEW c, IsSequence(a), IsSequence(b), IsSequence(c), Within(a, b), Within(b, c)
  PROVE  Within(a, c)
<1>1. Len(a) \in Nat /\ Len(b) \in Nat /\ Len(c) \in Nat
  BY DEF IsSequence
<1>2. PICK k \in Nat : k + Len(a) <= Len(b) /\ \A i \in 1 .. Len(a) : b[k + i] = a[i]
  BY DEF Within
<1>3. PICK m \in Nat : m + Len(b) <= Len(c) /\ \A i \in 1 .. Len(b) : c[m + i] = b[i]
  BY DEF Within
<1>4. m + k \in Nat /\ (m + k) + Len(a) <= Len(c)
  BY <1>1, <1>2, <1>3
<1>5. ASSUME NEW i \in 1 .. Len(a) PROVE c[(m + k) + i] = a[i]
  <2>1. k + i \in 1 .. Len(b) /\ (m + k) + i = m + (k + i)
    BY <1>1, <1>2
  <2> QED BY <1>2, <1>3, <2>1
<1> QED BY <1>4, <1>5 DEF Within

LEMMA Itself ==
  ASSUME NEW a, IsSequence(a)
  PROVE  Within(a, a)
<1>1. Len(a) \in Nat /\ 0 \in Nat /\ 0 + Len(a) <= Len(a)
  BY DEF IsSequence
<1>2. \A i \in 1 .. Len(a) : a[0 + i] = a[i]
  <2>1. \A i \in 1 .. Len(a) : 0 + i = i
    BY <1>1
  <2> QED BY <2>1
<1> QED BY <1>1, <1>2 DEF Within

LEMMA WithinFlattened ==
  ASSUME NEW D, NEW seqs \in Seq(Seq(D)), NEW k \in 1 .. Len(seqs)
  PROVE  Within(seqs[k], FlattenSeq(seqs))
<1> DEFINE f == Upto(seqs)
           s == seqs[k]
           t == f[k]
           all == FlattenSeq(seqs)
<1>1. /\ t \in Seq(D) /\ (k = 1 => t = seqs[1])
      /\ k # 1 => k - 1 \in 1 .. Len(seqs) /\ t = f[k - 1] \o s /\ f[k - 1] \in Seq(D)
  BY UptoSteps
<1>2. s \in Seq(D)
  OBVIOUS
<1>3. Len(t) <= Len(all) /\ \A j \in 1 .. Len(t) : all[j] = t[j]
  BY UptoStarts
<1>4. all \in Seq(D)
  <2>1. seqs # <<>> /\ Len(seqs) \in 1 .. Len(seqs)
    OBVIOUS
  <2>2. FlattenSeq(seqs) = Upto(seqs)[Len(seqs)]
    BY <2>1, Flattened
  <2>3. \A m \in 1 .. Len(seqs) : Upto(seqs)[m] \in Seq(D)
    BY UptoSteps
  <2> QED BY <2>1, <2>2, <2>3
<1> HIDE DEF f, s, t, all
<1>5. IsSequence(s) /\ IsSequence(t) /\ IsSequence(all)
  BY <1>1, <1>2, <1>4 DEF IsSequence
<1>6. Within(s, t)
  <2>1. CASE k = 1
    BY <1>1, <1>5, <2>1, Itself DEF s
  <2>2. CASE k # 1
    <3>1. IsSequence(f[k - 1])
      BY <1>1, <2>2 DEF IsSequence
    <3> QED BY <1>1, <1>5, <2>2, <3>1, JoinedSequences
  <2> QED BY <2>1, <2>2
<1>7. Within(t, all)
  <2>1. Len(t) \in Nat /\ 0 \in Nat /\ 0 + Len(t) <= Len(all) /\ \A i \in 1 .. Len(t) : 0 + i = i
    BY <1>1, <1>3
  <2> QED BY <1>3, <2>1 DEF Within
<1>8. Within(s, all)
  BY <1>5, <1>6, <1>7, WithinWithin
<1> QED BY <1>8 DEF s, all

(* The parts of a plan. *)
Before(tree) ==
  Service(HasService(tree, <<"dns", "forwarding">>), "/etc/bind/", <<"named.conf.options">>, <<>>,
          "restart", <<"bind9">>)
  \o Service(Strings(tree, <<"system", "ntp", "server">>) # <<>>, "/etc/chrony/", <<"clawgress.sources">>,
             Strings(tree, <<"system", "ntp", "server">>), "restart", <<"chrony">>)
  \o Service(HasMap(tree, <<"policy">>), "/etc/clawgress/", <<"policy.json">>, <<>>,
             "reload-or-restart", <<"clawgress-policyd">>)
  \o FallbackActions(tree)

Dhclients(tree) == PerInterface(tree, [n \in Range(Names) |-> DhclientActions(tree, n)])
Networks(tree) == PerInterface(tree, [n \in Range(Names) |-> NetworkdActions(tree, n)])

Haproxy(tree) ==
  Service(HasService(tree, <<"haproxy">>), "/etc/haproxy/", <<"haproxy.cfg">>, <<>>, "restart", <<"haproxy">>)
HostName(tree) ==
  If(GetString(tree, <<"system", "host_name">>) # "", Hostnamectl(GetString(tree, <<"system", "host_name">>)))
Ssh(tree) ==
  Service(HasService(tree, <<"ssh">>), "/etc/ssh/", <<"90-clawgress.conf">>, <<>>, "restart", <<"ssh">>)
Resolver(tree) ==
  Service(Strings(tree, <<"system", "name_server">>) # <<>>, "/etc/systemd/", <<"90-clawgress.conf">>,
          Strings(tree, <<"system", "name_server">>), "restart", <<"systemd-resolved">>)

LEMMA PlanIs ==
  ASSUME NEW tree
  PROVE  Plan(tree)
         = Before(tree) \o Dhclients(tree) \o Haproxy(tree) \o HostName(tree)
           \o NftActions(tree, "firewall", "40-clawgress-firewall.nft") \o NftActions(tree, "nat", "50-clawgress-nat.nft")
           \o Ssh(tree) \o Networks(tree) \o Resolver(tree) \o UnitActions(tree)
BY Zenon DEF Plan, Before, Dhclients, Haproxy, HostName, Ssh, Networks, Resolver

LEMMA ServedSequence ==
  ASSUME NEW a, Served(a)
  PROVE  IsSequence(a)
BY DEF Served, IsSequence

LEMMA PlanSequences ==
  ASSUME NEW tree
  PROVE  /\ IsSequence(Before(tree)) /\ IsSequence(Dhclients(tree)) /\ IsSequence(Haproxy(tree))
         /\ IsSequence(HostName(tree)) /\ IsSequence(Ssh(tree)) /\ IsSequence(Networks(tree))
         /\ IsSequence(Resolver(tree)) /\ IsSequence(UnitActions(tree))
         /\ \A root, name : IsSequence(NftActions(tree, root, name))
<1>1. ASSUME NEW reason, NEW dir, NEW name, NEW what, NEW verb, NEW unit
      PROVE  IsSequence(Service(reason, dir, name, what, verb, unit))
  <2> DEFINE w == Write(dir, name, what)
             a == Systemctl(verb, unit)
  <2>1. <<w, a>> \in Seq({w, a}) /\ <<>> \in Seq({w, a})
    OBVIOUS
  <2> QED BY <2>1 DEF Service, IsSequence
<1>2. IsSequence(Haproxy(tree)) /\ IsSequence(Ssh(tree)) /\ IsSequence(Resolver(tree))
  BY <1>1 DEF Haproxy, Ssh, Resolver
<1>3. IsSequence(FallbackActions(tree)) /\ IsSequence(UnitActions(tree))
  BY FallbackServed, UnitsServed, ServedSequence
<1>4. IsSequence(Before(tree))
  BY <1>1, <1>3, JoinedSequences DEF Before
<1>5. IsSequence(Dhclients(tree)) /\ IsSequence(Networks(tree))
  <2>1. Served(Dhclients(tree)) /\ Served(Networks(tree))
    BY DhclientServed, NetworkdServed, PerInterfaceServed DEF Dhclients, Networks
  <2> QED BY <2>1, ServedSequence
<1>6. IsSequence(HostName(tree))
  <2> DEFINE a == Hostnamectl(GetString(tree, <<"system", "host_name">>))
  <2>1. <<a>> \in Seq({a}) /\ <<>> \in Seq({a})
    OBVIOUS
  <2> QED BY <2>1 DEF HostName, If, IsSequence
<1>7. \A root, name : IsSequence(NftActions(tree, root, name))
  BY NftServed, ServedSequence
<1> QED BY <1>2, <1>3, <1>4, <1>5, <1>6, <1>7

LEMMA PlanParts ==
  ASSUME NEW tree
  PROVE  /\ IsSequence(Plan(tree))
         /\ Within(Dhclients(tree), Plan(tree)) /\ Within(HostName(tree), Plan(tree))
         /\ Within(Networks(tree), Plan(tree)) /\ Within(Resolver(tree), Plan(tree))
<1> DEFINE p1 == Before(tree)
           p2 == Dhclients(tree)
           p3 == Haproxy(tree)
           p4 == HostName(tree)
           p5 == NftActions(tree, "firewall", "40-clawgress-firewall.nft")
           p6 == NftActions(tree, "nat", "50-clawgress-nat.nft")
           p7 == Ssh(tree)
           p8 == Networks(tree)
           p9 == Resolver(tree)
           p10 == UnitActions(tree)
           q2 == p1 \o p2
           q3 == q2 \o p3
           q4 == q3 \o p4
           q5 == q4 \o p5
           q6 == q5 \o p6
           q7 == q6 \o p7
           q8 == q7 \o p8
           q9 == q8 \o p9
           q10 == q9 \o p10
<1>1. /\ IsSequence(p1) /\ IsSequence(p2) /\ IsSequence(p3) /\ IsSequence(p4) /\ IsSequence(p5)
      /\ IsSequence(p6) /\ IsSequence(p7) /\ IsSequence(p8) /\ IsSequence(p9) /\ IsSequence(p10)
  BY PlanSequences
<1>2. Plan(tree) = q10
  BY PlanIs
<1> HIDE DEF p1, p2, p3, p4, p5, p6, p7, p8, p9, p10
<1>3. IsSequence(q2) /\ Within(p2, q2)
  BY <1>1, JoinedSequences
<1> HIDE DEF q2
<1>4. IsSequence(q3) /\ Within(q2, q3)
  BY <1>1, <1>3, JoinedSequences
<1> HIDE DEF q3
<1>5. IsSequence(q4) /\ Within(q3, q4) /\ Within(p4, q4)
  BY <1>1, <1>4, JoinedSequences
<1> HIDE DEF q4
<1>6. IsSequence(q5) /\ Within(q4, q5)
  BY <1>1, <1>5, JoinedSequences
<1> HIDE DEF q5
<1>7. IsSequence(q6) /\ Within(q5, q6)
  BY <1>1, <1>6, JoinedSequences
<1> HIDE DEF q6
<1>8. IsSequence(q7) /\ Within(q6, q7)
  BY <1>1, <1>7, JoinedSequences
<1> HIDE DEF q7
<1>9. IsSequence(q8) /\ Within(q7, q8) /\ Within(p8, q8)
  BY <1>1, <1>8, JoinedSequences
<1> HIDE DEF q8
<1>10. IsSequence(q9) /\ Within(q8, q9) /\ Within(p9, q9)
  BY <1>1, <1>9, JoinedSequences
<1> HIDE DEF q9
<1>11. IsSequence(q10) /\ Within(q9, q10)
  BY <1>1, <1>10, JoinedSequences
<1> HIDE DEF q10
<1>12. Within(p9, q10) /\ Within(q8, q10)
  BY <1>1, <1>9, <1>10, <1>11, WithinWithin
<1>13. Within(p8, q10) /\ Within(q7, q10)
  BY <1>1, <1>8, <1>9, <1>11, <1>12, WithinWithin
<1>14. Within(q6, q10)
  BY <1>7, <1>8, <1>11, <1>13, WithinWithin
<1>15. Within(q5, q10)
  BY <1>6, <1>7, <1>11, <1>14, WithinWithin
<1>16. Within(q4, q10)
  BY <1>5, <1>6, <1>11, <1>15, WithinWithin
<1>17. Within(p4, q10) /\ Within(q3, q10)
  BY <1>1, <1>4, <1>5, <1>11, <1>16, WithinWithin
<1>18. Within(q2, q10)
  BY <1>3, <1>4, <1>11, <1>17, WithinWithin
<1>19. Within(p2, q10)
  BY <1>1, <1>3, <1>11, <1>18, WithinWithin
<1> QED BY <1>2, <1>11, <1>12, <1>13, <1>17, <1>19 DEF p2, p4, p8, p9

(* An action of a plan restarts a DHCP client for an interface with dhcp   *)
(* among its addresses only, and writes a network file for one that has    *)
(* other ones only.                                                        *)
Fits(tree, a) ==
  \/ a.do # "write" /\ \A n : a # Systemctl("restart", <<"dhclient", n>>)
  \/ a.do = "write" /\ \A n : a.name # <<"network", n>>
  \/ \E n \in Range(Names) :
       /\ HasDHCPAddress(tree, AddressAt(n))
       /\ a = Systemctl("restart", <<"dhclient", n>>)
  \/ \E n \in Range(Names) :
       /\ ~HasDHCPAddress(tree, AddressAt(n)) /\ Addresses(tree, n) # <<>>
       /\ a = Write("/etc/systemd/", <<"network", n>>, Addresses(tree, n))

AllFit(tree, s) == IsSequence(s) /\ \A i \in 1 .. Len(s) : Fits(tree, s[i])

LEMMA FitJoin ==
  ASSUME NEW tree, NEW a, NEW b, AllFit(tree, a), AllFit(tree, b)
  PROVE  AllFit(tree, a \o b)
<1> PICK A : a \in Seq(A)
  BY DEF AllFit, IsSequence
<1> PICK B : b \in Seq(B)
  BY DEF AllFit, IsSequence
<1> DEFINE D == A \cup B
           c == a \o b
<1>1. a \in Seq(D) /\ b \in Seq(D)
  BY SeqMonotonic
<1> HIDE DEF D
<1>2. c \in Seq(D) /\ Range(c) = Range(a) \cup Range(b)
  BY <1>1, RangeConcatenation, ConcatProperties
<1>3. /\ Range(a) = {a[i] : i \in 1 .. Len(a)} /\ Range(b) = {b[i] : i \in 1 .. Len(b)}
      /\ Range(c) = {c[i] : i \in 1 .. Len(c)}
  <2> HIDE DEF c
  <2>1. DOMAIN a = 1 .. Len(a) /\ DOMAIN b = 1 .. Len(b) /\ DOMAIN c = 1 .. Len(c)
    BY <1>1, <1>2
  <2> QED BY <2>1 DEF Range
<1> HIDE DEF c
<1>4. \A i \in 1 .. Len(c) : Fits(tree, c[i])
  <2> SUFFICES ASSUME NEW i \in 1 .. Len(c) PROVE Fits(tree, c[i])
    OBVIOUS
  <2>1. c[i] \in Range(a) \/ c[i] \in Range(b)
    BY <1>2, <1>3
  <2>2. (\A j \in 1 .. Len(a) : Fits(tree, a[j])) /\ (\A j \in 1 .. Len(b) : Fits(tree, b[j]))
    BY DEF AllFit
  <2> QED BY <1>3, <2>1, <2>2
<1> QED BY <1>2, <1>4 DEF AllFit, IsSequence, c

LEMMA FitFlatten ==
  ASSUME NEW tree, NEW n \in Nat, NEW seqs, seqs = [i \in 1 .. n |-> seqs[i]],
         \A i \in 1 .. n : AllFit(tree, seqs[i])
  PROVE  AllFit(tree, FlattenSeq(seqs))
<1> DEFINE D == UNION {Range(seqs[i]) : i \in 1 .. n}
           Good == {a \in Seq(D) : AllFit(tree, a)}
<1>1. <<>> \in Good
  <2>1. <<>> \in Seq(D) /\ Len(<<>>) = 0
    OBVIOUS
  <2> HIDE DEF D
  <2> QED BY <2>1 DEF AllFit, IsSequence
<1>2. ASSUME NEW a \in Good, NEW b \in Good
      PROVE  a \o b \in Good
  <2> HIDE DEF D
  <2>1. a \in Seq(D) /\ b \in Seq(D) /\ AllFit(tree, a) /\ AllFit(tree, b)
    OBVIOUS
  <2>2. a \o b \in Seq(D) /\ AllFit(tree, a \o b)
    BY <2>1, FitJoin, ConcatProperties
  <2> QED BY <2>2
<1>3. ASSUME NEW i \in 1 .. n
      PROVE  seqs[i] \in Good
  <2>1. PICK E : seqs[i] \in Seq(E)
    BY DEF AllFit, IsSequence
  <2>2. Range(seqs[i]) \subseteq D
    OBVIOUS
  <2>3. \A k \in 1 .. Len(seqs[i]) : seqs[i][k] \in D
    BY <2>1, <2>2 DEF Range
  <2> HIDE DEF D
  <2>4. seqs[i] \in Seq(D)
    BY <2>1, <2>3
  <2> QED BY <2>4
<1>4. FlattenSeq(seqs) \in Good
  <2> HIDE DEF Good
  <2>1. seqs \in Seq(Good)
    BY <1>3
  <2> QED BY <1>1, <1>2, <2>1, FlattenKeeps
<1> QED BY <1>4

LEMMA NothingFits ==
  ASSUME NEW tree
  PROVE  AllFit(tree, <<>>)
<1>1. <<>> \in Seq({}) /\ Len(<<>>) = 0
  OBVIOUS
<1> QED BY <1>1 DEF AllFit, IsSequence

LEMMA OneFits ==
  ASSUME NEW tree, NEW a, Fits(tree, a)
  PROVE  AllFit(tree, <<a>>)
<1>1. <<a>> \in Seq({a}) /\ Len(<<a>>) = 1 /\ <<a>>[1] = a
  OBVIOUS
<1>2. \A i \in 1 .. Len(<<a>>) : i = 1
  BY <1>1
<1> QED BY <1>1, <1>2 DEF AllFit, IsSequence

LEMMA TwoFit ==
  ASSUME NEW tree, NEW a, NEW b, Fits(tree, a), Fits(tree, b)
  PROVE  AllFit(tree, <<a, b>>)
<1>1. <<a, b>> \in Seq({a, b}) /\ Len(<<a, b>>) = 2 /\ <<a, b>>[1] = a /\ <<a, b>>[2] = b
  OBVIOUS
<1>2. \A i \in 1 .. Len(<<a, b>>) : i = 1 \/ i = 2
  BY <1>1
<1> QED BY <1>1, <1>2 DEF AllFit, IsSequence

LEMMA IfFits ==
  ASSUME NEW tree, NEW cond, NEW a, Fits(tree, a)
  PROVE  AllFit(tree, If(cond, a))
BY OneFits, NothingFits DEF If

(* Units that are no DHCP client, and files that are no network. *)
LEMMA UnitFits ==
  ASSUME NEW tree, NEW verb, NEW unit, verb # "restart" \/ Len(unit) = 1
  PROVE  Fits(tree, Systemctl(verb, unit))
<1> DEFINE a == Systemctl(verb, unit)
<1>1. a.do # "write" /\ a.verb = verb /\ a.unit = unit
  BY DEF Systemctl
<1>2. ASSUME NEW n PROVE a # Systemctl("restart", <<"dhclient", n>>)
  <2> DEFINE b == Systemctl("restart", <<"dhclient", n>>)
  <2>1. b.verb = "restart" /\ b.unit = <<"dhclient", n>>
    BY DEF Systemctl
  <2>2. Len(<<"dhclient", n>>) = 2
    OBVIOUS
  <2> HIDE DEF a, b
  <2>3. a # b
    BY <1>1, <2>1, <2>2
  <2> QED BY <2>3 DEF b
<1> HIDE DEF a
<1>3. Fits(tree, a)
  BY <1>1, <1>2 DEF Fits
<1> QED BY <1>3 DEF a

LEMMA FileFits ==
  ASSUME NEW tree, NEW dir, NEW name, NEW what, name[1] # "network" \/ Len(name) # 2
  PROVE  Fits(tree, Write(dir, name, what))
<1> DEFINE a == Write(dir, name, what)
<1>1. a.do = "write" /\ a.name = name
  BY DEF Write
<1>2. \A n : <<"network", n>>[1] = "network" /\ Len(<<"network", n>>) = 2
  OBVIOUS
<1>3. \A n : name # <<"network", n>>
  BY <1>2
<1> HIDE DEF a
<1>4. Fits(tree, a)
  BY <1>1, <1>3 DEF Fits
<1> QED BY <1>4 DEF a

LEMMA ServiceFits ==
  ASSUME NEW tree, NEW reason, NEW dir, NEW name, NEW what, NEW verb, NEW unit,
         name[1] # "network" \/ Len(name) # 2, Len(unit) = 1
  PROVE  AllFit(tree, Service(reason, dir, name, what, verb, unit))
<1>1. AllFit(tree, <<Write(dir, name, what), Systemctl(verb, unit)>>)
  BY FileFits, UnitFits, TwoFit
<1> QED BY <1>1, NothingFits DEF Service

(* What neither writes nor is for systemd. *)
LEMMA OtherFits ==
  ASSUME NEW tree, NEW a, a.do \notin {"write", "systemctl"}
  PROVE  Fits(tree, a)
<1>1. \A n : Systemctl("restart", <<"dhclient", n>>).do = "systemctl"
  BY DEF Systemctl
<1>2. \A n : a # Systemctl("restart", <<"dhclient", n>>)
  BY <1>1
<1> QED BY <1>2 DEF Fits

LEMMA InterfaceStateFits ==
  ASSUME NEW tree, NEW n
  PROVE  AllFit(tree, InterfaceStateActions(tree, n))
<1> DEFINE at == Append(Ethernet, n)
           mtu == Append(at, "mtu")
           desc == GetString(tree, Append(at, "description"))
           role == GetString(tree, Append(at, "role"))
           link == Write("/run/systemd/", <<"network", n, "link">>, <<desc>>)
           down == IpLink(n, <<"down">>)
           size == IpLink(n, <<"mtu", tree[mtu].items[1].v>>)
           note == Write("/etc/clawgress/", <<"interface-role.d", n>>, <<role>>)
           p1 == If(desc # "", link)
           p2 == If(Scalar(tree, mtu, "number") \/ GetString(tree, mtu) # "", size)
           p3 == If(role # "", note)
           p4 == If(GetBool(tree, Append(at, "disable")), down)
<1>1. Fits(tree, link)
  <2>1. Len(<<"network", n, "link">>) # 2
    OBVIOUS
  <2> QED BY <2>1, FileFits
<1>2. Fits(tree, note)
  <2>1. <<"interface-role.d", n>>[1] # "network"
    OBVIOUS
  <2> QED BY <2>1, FileFits
<1>3. Fits(tree, down) /\ Fits(tree, size)
  <2>1. down.do = "ip" /\ size.do = "ip"
    BY DEF IpLink
  <2> HIDE DEF down, size
  <2> QED BY <2>1, OtherFits
<1> HIDE DEF link, note, down, size
<1>4. AllFit(tree, p1) /\ AllFit(tree, p2) /\ AllFit(tree, p3) /\ AllFit(tree, p4)
  BY <1>1, <1>2, <1>3, IfFits
<1> HIDE DEF p1, p2, p3, p4
<1>5. AllFit(tree, p1 \o p2 \o p3 \o p4)
  BY <1>4, FitJoin
<1>6. InterfaceStateActions(tree, n) = p1 \o p2 \o p3 \o p4
  BY Zenon DEF InterfaceStateActions, p1, p2, p3, p4, link, note, down, size
<1> QED BY <1>5, <1>6

LEMMA DhclientFits ==
  ASSUME NEW tree, NEW n \in Range(Names)
  PROVE  AllFit(tree, DhclientActions(tree, n))
<1> DEFINE w1 == Write("/run/dhclient/", <<"conf", n>>, <<>>)
           w2 == Write("/run/systemd/", <<"dhclient", n>>, <<>>)
           a1 == Systemctl("daemon-reload", <<"systemd">>)
           a2 == Systemctl("restart", <<"dhclient", n>>)
           acts == <<w1, w2, a1, a2>>
<1>1. CASE ~HasDHCPAddress(tree, AddressAt(n))
  <2>1. DhclientActions(tree, n) = <<>>
    BY <1>1 DEF DhclientActions, AddressAt
  <2> QED BY <2>1, NothingFits
<1>2. CASE HasDHCPAddress(tree, AddressAt(n))
  <2>1. Fits(tree, w1) /\ Fits(tree, w2)
    <3>1. <<"conf", n>>[1] # "network" /\ <<"dhclient", n>>[1] # "network"
      OBVIOUS
    <3> QED BY <3>1, FileFits
  <2>2. Fits(tree, a1)
    BY UnitFits
  <2>3. Fits(tree, a2)
    BY <1>2, Zenon DEF Fits
  <2>4. DhclientActions(tree, n) = acts \o InterfaceStateActions(tree, n)
    BY <1>2, Zenon DEF DhclientActions, AddressAt, acts, w1, w2, a1, a2
  <2> HIDE DEF w1, w2, a1, a2
  <2>5. acts \in Seq({w1, w2, a1, a2}) /\ Len(acts) = 4
        /\ acts[1] = w1 /\ acts[2] = w2 /\ acts[3] = a1 /\ acts[4] = a2
    OBVIOUS
  <2> HIDE DEF acts
  <2>6. AllFit(tree, acts)
    <3>1. \A i \in 1 .. Len(acts) : i = 1 \/ i = 2 \/ i = 3 \/ i = 4
      BY <2>5
    <3> QED BY <2>1, <2>2, <2>3, <2>5, <3>1 DEF AllFit, IsSequence
  <2> QED BY <2>4, <2>6, InterfaceStateFits, FitJoin
<1> QED BY <1>1, <1>2

LEMMA NetworkdFits ==
  ASSUME NEW tree, NEW n \in Range(Names)
  PROVE  AllFit(tree, NetworkdActions(tree, n))
<1> DEFINE w == Write("/etc/systemd/", <<"network", n>>, Addresses(tree, n))
           a == Systemctl("restart", <<"systemd-networkd">>)
           net == IF Addresses(tree, n) = <<>> THEN <<>> ELSE <<w, a>>
<1>1. CASE HasDHCPAddress(tree, AddressAt(n))
  <2>1. NetworkdActions(tree, n) = <<>>
    BY <1>1 DEF NetworkdActions, AddressAt
  <2> QED BY <2>1, NothingFits
<1>2. CASE ~HasDHCPAddress(tree, AddressAt(n))
  <2>1. Fits(tree, a)
    BY UnitFits
  <2>2. Addresses(tree, n) # <<>> => Fits(tree, w)
    BY <1>2, Zenon DEF Fits
  <2>3. NetworkdActions(tree, n) = net \o InterfaceStateActions(tree, n)
    BY <1>2, Zenon DEF NetworkdActions, AddressAt, net, w, a
  <2> HIDE DEF w, a
  <2>4. AllFit(tree, net)
    BY <2>1, <2>2, TwoFit, NothingFits
  <2> HIDE DEF net
  <2> QED BY <2>3, <2>4, InterfaceStateFits, FitJoin
<1> QED BY <1>1, <1>2

LEMMA PerInterfaceFits ==
  ASSUME NEW tree, NEW actions, \A n \in Range(Names) : AllFit(tree, actions[n])
  PROVE  AllFit(tree, PerInterface(tree, actions))
<1> DEFINE names == SubMaps(tree, Ethernet)
           seqs == [i \in DOMAIN names |-> actions[names[i]]]
<1>1. DOMAIN names = 1 .. Len(names) /\ Len(names) \in Nat /\ \A i \in 1 .. Len(names) : names[i] \in Range(Names)
  BY SubMapsIn
<1> HIDE DEF names
<1>2. seqs = [i \in 1 .. Len(names) |-> seqs[i]] /\ \A i \in 1 .. Len(names) : AllFit(tree, seqs[i])
  BY <1>1
<1> HIDE DEF seqs
<1>3. AllFit(tree, FlattenSeq(seqs))
  BY <1>1, <1>2, FitFlatten
<1> QED BY <1>3 DEF PerInterface, seqs, names

LEMMA UnitsFit ==
  ASSUME NEW tree
  PROVE  AllFit(tree, UnitActions(tree))
<1> DEFINE names == Among(SubMaps(tree, <<"service">>), Range(Names) \ {"dns", "haproxy", "ssh"})
           Both(n) == <<Write("/etc/clawgress/", <<"services", n>>, <<>>),
                        Systemctl("reload-or-restart", <<n>>)>>
           seqs == [i \in DOMAIN names |-> Both(names[i])]
<1>1. DOMAIN names = 1 .. Len(names) /\ Len(names) \in Nat
  <2>1. names \in Seq(Range(Names) \cap (Range(Names) \ {"dns", "haproxy", "ssh"}))
    BY SubMapsIn, AmongIn
  <2> HIDE DEF names
  <2> QED BY <2>1
<1>2. ASSUME NEW n PROVE AllFit(tree, Both(n))
  <2>1. <<"services", n>>[1] # "network"
    OBVIOUS
  <2> QED BY <2>1, FileFits, UnitFits, TwoFit
<1> HIDE DEF names, Both
<1>3. seqs = [i \in 1 .. Len(names) |-> seqs[i]] /\ \A i \in 1 .. Len(names) : AllFit(tree, seqs[i])
  BY <1>1, <1>2
<1> HIDE DEF seqs
<1>4. AllFit(tree, FlattenSeq(seqs))
  BY <1>1, <1>3, FitFlatten
<1> QED BY <1>4 DEF UnitActions, seqs, names, Both

LEMMA FallbackFits ==
  ASSUME NEW tree
  PROVE  AllFit(tree, FallbackActions(tree))
<1> DEFINE roots == <<"firewall", "interfaces", "nat", "policy", "service", "system">>
           Of(root) == Service(HasMap(tree, <<root>>),
                               "/etc/clawgress/", <<"rendered", root>>, <<>>,
                               "reload-or-restart", <<"clawgress-configd">>)
           seqs == [i \in DOMAIN roots |-> Of(roots[i])]
<1>1. DOMAIN roots = 1 .. 6
  OBVIOUS
<1>2. ASSUME NEW root PROVE AllFit(tree, Of(root))
  <2>1. <<"rendered", root>>[1] # "network" /\ Len(<<"clawgress-configd">>) = 1
    OBVIOUS
  <2> QED BY <2>1, ServiceFits
<1> HIDE DEF roots, Of
<1>3. seqs = [i \in 1 .. 6 |-> seqs[i]] /\ \A i \in 1 .. 6 : AllFit(tree, seqs[i])
  BY <1>1, <1>2
<1> HIDE DEF seqs
<1>4. AllFit(tree, FlattenSeq(seqs))
  BY <1>3, FitFlatten
<1> QED BY <1>4 DEF FallbackActions, seqs, roots, Of

LEMMA NftFits ==
  ASSUME NEW tree, NEW root, NEW name
  PROVE  AllFit(tree, NftActions(tree, root, name))
<1> DEFINE w == Write("/etc/nftables.d/", <<name>>, <<>>)
           a == Nft(TRUE, name)
           b == Nft(FALSE, name)
           acts == <<w, a, b>>
<1>1. Fits(tree, w)
  <2>1. Len(<<name>>) # 2
    OBVIOUS
  <2> QED BY <2>1, FileFits
<1>2. Fits(tree, a) /\ Fits(tree, b)
  <2>1. a.do = "nft" /\ b.do = "nft"
    BY DEF Nft
  <2> HIDE DEF a, b
  <2> QED BY <2>1, OtherFits
<1> HIDE DEF w, a, b
<1>3. acts \in Seq({w, a, b}) /\ Len(acts) = 3 /\ acts[1] = w /\ acts[2] = a /\ acts[3] = b
  OBVIOUS
<1> HIDE DEF acts
<1>4. AllFit(tree, acts)
  <2>1. \A i \in 1 .. Len(acts) : i = 1 \/ i = 2 \/ i = 3
    BY <1>3
  <2> QED BY <1>1, <1>2, <1>3, <2>1 DEF AllFit, IsSequence
<1>5. NftActions(tree, root, name) = <<>> \/ NftActions(tree, root, name) = acts
  BY Zenon DEF NftActions, acts, w, a, b
<1> QED BY <1>4, <1>5, NothingFits

LEMMA PlanFits ==
  ASSUME NEW tree
  PROVE  AllFit(tree, Plan(tree))
<1> DEFINE p1 == Before(tree)
           p2 == Dhclients(tree)
           p3 == Haproxy(tree)
           p4 == HostName(tree)
           p5 == NftActions(tree, "firewall", "40-clawgress-firewall.nft")
           p6 == NftActions(tree, "nat", "50-clawgress-nat.nft")
           p7 == Ssh(tree)
           p8 == Networks(tree)
           p9 == Resolver(tree)
           p10 == UnitActions(tree)
<1>1. ASSUME NEW x PROVE Len(<<x>>) = 1 /\ Len(<<x>>) # 2
  OBVIOUS
<1>2. ASSUME NEW reason, NEW dir, NEW x, NEW what, NEW verb, NEW y
      PROVE  AllFit(tree, Service(reason, dir, <<x>>, what, verb, <<y>>))
  BY <1>1, ServiceFits
<1>3. AllFit(tree, p3) /\ AllFit(tree, p7) /\ AllFit(tree, p9)
  BY <1>2 DEF Haproxy, Ssh, Resolver
<1>4. AllFit(tree, p1)
  BY <1>2, FallbackFits, FitJoin DEF Before
<1>5. AllFit(tree, p2) /\ AllFit(tree, p8)
  BY DhclientFits, NetworkdFits, PerInterfaceFits DEF Dhclients, Networks
<1>6. AllFit(tree, p4)
  <2> DEFINE a == Hostnamectl(GetString(tree, <<"system", "host_name">>))
  <2>1. a.do = "hostnamectl"
    BY DEF Hostnamectl
  <2> HIDE DEF a
  <2>2. Fits(tree, a)
    BY <2>1, OtherFits
  <2> QED BY <2>2, IfFits DEF HostName, a
<1>7. AllFit(tree, p5) /\ AllFit(tree, p6) /\ AllFit(tree, p10)
  BY NftFits, UnitsFit
<1>8. Plan(tree) = p1 \o p2 \o p3 \o p4 \o p5 \o p6 \o p7 \o p8 \o p9 \o p10
  BY PlanIs
<1> HIDE DEF p1, p2, p3, p4, p5, p6, p7, p8, p9, p10
<1>9. AllFit(tree, p1 \o p2 \o p3 \o p4 \o p5)
  BY <1>3, <1>4, <1>5, <1>6, <1>7, FitJoin
<1>10. AllFit(tree, p1 \o p2 \o p3 \o p4 \o p5 \o p6 \o p7 \o p8 \o p9 \o p10)
  BY <1>3, <1>5, <1>7, <1>9, FitJoin
<1> QED BY <1>8, <1>10

-----------------------------------------------------------------------------
(* What a plan does for an interface, the host name and the name servers *)

(* Where a part of a plan is. *)
LEMMA Placed ==
  ASSUME NEW part, NEW whole, IsSequence(part), IsSequence(whole), Within(part, whole)
  PROVE  \E k \in Nat : \A i \in 1 .. Len(part) : k + i \in DOMAIN whole /\ whole[k + i] = part[i]
<1>1. Len(part) \in Nat /\ Len(whole) \in Nat /\ DOMAIN whole = 1 .. Len(whole)
  BY DEF IsSequence
<1>2. PICK k \in Nat : k + Len(part) <= Len(whole) /\ \A i \in 1 .. Len(part) : whole[k + i] = part[i]
  BY DEF Within
<1>3. \A i \in 1 .. Len(part) : k + i \in 1 .. Len(whole)
  BY <1>1, <1>2
<1> QED BY <1>1, <1>2, <1>3

LEMMA InterfacePlace ==
  ASSUME NEW tree, NEW actions, \A n \in Range(Names) : Served(actions[n]),
         NEW n \in Range(SubMaps(tree, Ethernet))
  PROVE  Within(actions[n], PerInterface(tree, actions))
<1> DEFINE names == SubMaps(tree, Ethernet)
           seqs == [i \in DOMAIN names |-> actions[names[i]]]
           D == UNION {Range(actions[m]) : m \in Range(Names)}
<1>1. DOMAIN names = 1 .. Len(names) /\ Len(names) \in Nat /\ \A i \in 1 .. Len(names) : names[i] \in Range(Names)
  BY SubMapsIn
<1>2. \A m \in Range(Names) : actions[m] \in Seq(D)
  <2> SUFFICES ASSUME NEW m \in Range(Names) PROVE actions[m] \in Seq(D)
    OBVIOUS
  <2>1. PICK E : actions[m] \in Seq(E)
    BY DEF Served
  <2>2. Range(actions[m]) \subseteq D
    OBVIOUS
  <2>3. \A k \in 1 .. Len(actions[m]) : actions[m][k] \in D
    BY <2>1, <2>2 DEF Range
  <2> HIDE DEF D
  <2> QED BY <2>1, <2>3
<1> HIDE DEF D
<1>3. PICK k \in DOMAIN names : names[k] = n
  BY DEF Range
<1> HIDE DEF names
<1>4. seqs = [i \in 1 .. Len(names) |-> seqs[i]] /\ \A i \in 1 .. Len(names) : seqs[i] = actions[names[i]]
  BY <1>1
<1> HIDE DEF seqs
<1>5. \A i \in 1 .. Len(names) : seqs[i] \in Seq(D)
  BY <1>1, <1>2, <1>4
<1>6. seqs \in Seq(Seq(D)) /\ Len(seqs) = Len(names)
  BY <1>1, <1>4, <1>5
<1>7. Within(seqs[k], FlattenSeq(seqs))
  BY <1>1, <1>3, <1>6, WithinFlattened
<1>8. seqs[k] = actions[n]
  BY <1>1, <1>3, <1>4
<1> QED BY <1>7, <1>8 DEF PerInterface, seqs, names

LEMMA InterfaceInPlan ==
  ASSUME NEW tree, NEW n \in Range(SubMaps(tree, Ethernet)), n \in Range(Names)
  PROVE  /\ IsSequence(DhclientActions(tree, n)) /\ Within(DhclientActions(tree, n), Plan(tree))
         /\ IsSequence(NetworkdActions(tree, n)) /\ Within(NetworkdActions(tree, n), Plan(tree))
<1> DEFINE dhcp == [m \in Range(Names) |-> DhclientActions(tree, m)]
           net == [m \in Range(Names) |-> NetworkdActions(tree, m)]
<1>1. /\ \A m \in Range(Names) : dhcp[m] = DhclientActions(tree, m) /\ Served(dhcp[m])
      /\ \A m \in Range(Names) : net[m] = NetworkdActions(tree, m) /\ Served(net[m])
  BY DhclientServed, NetworkdServed
<1>2. Dhclients(tree) = PerInterface(tree, dhcp) /\ Networks(tree) = PerInterface(tree, net)
  BY Zenon DEF Dhclients, Networks
<1> HIDE DEF dhcp, net
<1>3. Within(dhcp[n], Dhclients(tree)) /\ Within(net[n], Networks(tree))
  BY <1>1, <1>2, InterfacePlace
<1>4. IsSequence(dhcp[n]) /\ IsSequence(net[n])
  BY <1>1, ServedSequence
<1>5. IsSequence(Dhclients(tree)) /\ IsSequence(Networks(tree)) /\ IsSequence(Plan(tree))
      /\ Within(Dhclients(tree), Plan(tree)) /\ Within(Networks(tree), Plan(tree))
  BY PlanSequences, PlanParts
<1>6. Within(dhcp[n], Plan(tree)) /\ Within(net[n], Plan(tree))
  BY <1>3, <1>4, <1>5, WithinWithin
<1> QED BY <1>1, <1>4, <1>6

(* The parts that a property asks for. *)
Restarts(plan, n) == \E i \in DOMAIN plan : plan[i] = Systemctl("restart", <<"dhclient", n>>)

WriteThen(plan, f, values, a) ==
  \E i, j \in DOMAIN plan :
    /\ i < j /\ plan[j] = a
    /\ plan[i].do = "write" /\ plan[i].name = f /\ Range(plan[i].what) = values

LEMMA NetworkWritten ==
  ASSUME NEW tree, NEW n \in Range(Names), n \in Range(SubMaps(tree, Ethernet)),
         ~HasDHCPAddress(tree, AddressAt(n)), Addresses(tree, n) # <<>>
  PROVE  WriteThen(Plan(tree), <<"network", n>>, Range(Addresses(tree, n)),
                   Systemctl("restart", <<"systemd-networkd">>))
<1> DEFINE w == Write("/etc/systemd/", <<"network", n>>, Addresses(tree, n))
           a == Systemctl("restart", <<"systemd-networkd">>)
           acts == <<w, a>>
           state == InterfaceStateActions(tree, n)
           part == NetworkdActions(tree, n)
           plan == Plan(tree)
<1>1. part = acts \o state
  BY Zenon DEF NetworkdActions, AddressAt, acts, w, a, part, state
<1>2. IsSequence(part) /\ Within(part, plan) /\ IsSequence(plan) /\ IsSequence(state)
  BY InterfaceInPlan, PlanParts, InterfaceStateServed, ServedSequence
<1>3. w.do = "write" /\ w.name = <<"network", n>> /\ w.what = Addresses(tree, n)
  BY DEF Write
<1> HIDE DEF w, a, part, plan, state
<1>4. acts \in Seq({w, a}) /\ Len(acts) = 2 /\ acts[1] = w /\ acts[2] = a
  OBVIOUS
<1> HIDE DEF acts
<1>5. Within(acts, part)
  BY <1>1, <1>2, <1>4, JoinedSequences DEF IsSequence
<1>6. PICK k \in Nat : \A i \in 1 .. Len(part) : k + i \in DOMAIN plan /\ plan[k + i] = part[i]
  BY <1>2, Placed
<1>7. IsSequence(acts) /\ Within(acts, plan)
  BY <1>2, <1>4, <1>5, WithinWithin DEF IsSequence
<1>8. PICK m \in Nat : \A i \in 1 .. Len(acts) : m + i \in DOMAIN plan /\ plan[m + i] = acts[i]
  BY <1>2, <1>7, Placed
<1>9. m + 1 \in DOMAIN plan /\ m + 2 \in DOMAIN plan /\ plan[m + 1] = w /\ plan[m + 2] = a /\ m + 1 < m + 2
  BY <1>4, <1>8
<1>10. WriteThen(plan, <<"network", n>>, Range(Addresses(tree, n)), a)
  BY <1>3, <1>9 DEF WriteThen
<1> QED BY <1>10 DEF plan, a

LEMMA ClientRestarted ==
  ASSUME NEW tree, NEW n \in Range(Names), n \in Range(SubMaps(tree, Ethernet)),
         HasDHCPAddress(tree, AddressAt(n))
  PROVE  Restarts(Plan(tree), n)
<1> DEFINE w1 == Write("/run/dhclient/", <<"conf", n>>, <<>>)
           w2 == Write("/run/systemd/", <<"dhclient", n>>, <<>>)
           a1 == Systemctl("daemon-reload", <<"systemd">>)
           a2 == Systemctl("restart", <<"dhclient", n>>)
           acts == <<w1, w2, a1, a2>>
           state == InterfaceStateActions(tree, n)
           part == DhclientActions(tree, n)
           plan == Plan(tree)
<1>1. part = acts \o state
  BY Zenon DEF DhclientActions, AddressAt, acts, w1, w2, a1, a2, part, state
<1>2. IsSequence(part) /\ Within(part, plan) /\ IsSequence(plan) /\ IsSequence(state)
  BY InterfaceInPlan, PlanParts, InterfaceStateServed, ServedSequence
<1> HIDE DEF w1, w2, a1, a2, part, plan, state
<1>3. acts \in Seq({w1, w2, a1, a2}) /\ Len(acts) = 4 /\ acts[4] = a2
  OBVIOUS
<1> HIDE DEF acts
<1>4. Within(acts, part)
  BY <1>1, <1>2, <1>3, JoinedSequences DEF IsSequence
<1>5. IsSequence(acts) /\ Within(acts, plan)
  BY <1>2, <1>3, <1>4, WithinWithin DEF IsSequence
<1>6. PICK m \in Nat : \A i \in 1 .. Len(acts) : m + i \in DOMAIN plan /\ plan[m + i] = acts[i]
  BY <1>2, <1>5, Placed
<1>7. m + 4 \in DOMAIN plan /\ plan[m + 4] = a2
  BY <1>3, <1>6
<1> QED BY <1>7 DEF Restarts, plan, a2

(* Only they are in a plan. *)
LEMMA ClientWanted ==
  ASSUME NEW tree, NEW n, Restarts(Plan(tree), n)
  PROVE  HasDHCPAddress(tree, AddressAt(n))
<1> DEFINE plan == Plan(tree)
           a == Systemctl("restart", <<"dhclient", n>>)
<1>1. IsSequence(plan) /\ \A i \in 1 .. Len(plan) : Fits(tree, plan[i])
  BY PlanFits DEF AllFit
<1>2. DOMAIN plan = 1 .. Len(plan)
  BY <1>1 DEF IsSequence
<1> HIDE DEF plan
<1>3. Fits(tree, a)
  BY <1>1, <1>2 DEF Restarts, plan
<1>4. a.do = "systemctl" /\ a.unit = <<"dhclient", n>>
  BY DEF Systemctl
<1>5. \A m : a = Systemctl("restart", <<"dhclient", m>>) => m = n
  <2> SUFFICES ASSUME NEW m, a = Systemctl("restart", <<"dhclient", m>>) PROVE m = n
    OBVIOUS
  <2>1. Systemctl("restart", <<"dhclient", m>>).unit = <<"dhclient", m>>
    BY DEF Systemctl
  <2>2. <<"dhclient", m>> = <<"dhclient", n>>
    BY <1>4, <2>1
  <2> QED BY <2>2
<1>6. ~(a.do # "write" /\ \A m : a # Systemctl("restart", <<"dhclient", m>>))
  OBVIOUS
<1>7. \A m : a # Write("/etc/systemd/", <<"network", m>>, Addresses(tree, m))
  <2>1. \A m : Write("/etc/systemd/", <<"network", m>>, Addresses(tree, m)).do = "write"
    BY DEF Write
  <2> HIDE DEF a
  <2> QED BY <1>4, <2>1
<1> HIDE DEF a
<1> QED BY <1>3, <1>4, <1>5, <1>6, <1>7 DEF Fits

LEMMA NetworkWanted ==
  ASSUME NEW tree, NEW n, NEW values, NEW a, WriteThen(Plan(tree), <<"network", n>>, values, a)
  PROVE  ~HasDHCPAddress(tree, AddressAt(n)) /\ Addresses(tree, n) # <<>>
<1> DEFINE plan == Plan(tree)
<1>1. IsSequence(plan) /\ \A i \in 1 .. Len(plan) : Fits(tree, plan[i])
  BY PlanFits DEF AllFit
<1>2. DOMAIN plan = 1 .. Len(plan)
  BY <1>1 DEF IsSequence
<1> HIDE DEF plan
<1>3. PICK i \in 1 .. Len(plan) : plan[i].do = "write" /\ plan[i].name = <<"network", n>>
  BY <1>2 DEF WriteThen, plan
<1> DEFINE w == plan[i]
<1>4. Fits(tree, w) /\ w.do = "write" /\ w.name = <<"network", n>>
  BY <1>1, <1>3
<1> HIDE DEF w
<1>5. \A m : w = Write("/etc/systemd/", <<"network", m>>, Addresses(tree, m)) => m = n
  <2> SUFFICES ASSUME NEW m, w = Write("/etc/systemd/", <<"network", m>>, Addresses(tree, m)) PROVE m = n
    OBVIOUS
  <2>1. Write("/etc/systemd/", <<"network", m>>, Addresses(tree, m)).name = <<"network", m>>
    BY DEF Write
  <2>2. <<"network", m>> = <<"network", n>>
    BY <1>4, <2>1
  <2> QED BY <2>2
<1>6. \A m : w # Systemctl("restart", <<"dhclient", m>>)
  <2>1. \A m : Systemctl("restart", <<"dhclient", m>>).do = "systemctl"
    BY DEF Systemctl
  <2> QED BY <1>4, <2>1
<1> QED BY <1>4, <1>5, <1>6 DEF Fits

(* An interface follows the addresses typed for it. *)
LEMMA InterfaceFollows ==
  ASSUME NEW d, Whole(d), Undivided(d), NEW n \in Range(Names)
  PROVE  LET addresses == AllWords(d, AddressAt(n)) IN
         /\ "dhcp" \in addresses <=> Restarts(Plan(d.tree), n)
         /\ addresses # {} /\ "dhcp" \notin addresses
            <=> WriteThen(Plan(d.tree), <<"network", n>>, addresses, Systemctl("restart", <<"systemd-networkd">>))
<1> DEFINE addresses == AllWords(d, AddressAt(n))
           read == Strings(d.tree, AddressAt(n))
<1>1. Reads(d, AddressAt("<>"), AddressAt(n)) /\ AddressAt("<>") \in Lists
  BY NamedAt, SettingsDiffer, ReadsSetting
<1>2. /\ \E D : read \in Seq(D)
      /\ Range(read) = addresses
      /\ addresses # {} => AddressAt(n) \in DOMAIN d.tree
  BY <1>1, ReadList
<1>3. Addresses(d.tree, n) = read /\ (HasDHCPAddress(d.tree, AddressAt(n)) <=> "dhcp" \in Range(read))
  BY DEF Addresses, AddressAt, HasDHCPAddress
<1> HIDE DEF addresses, read
<1>4. read = <<>> <=> addresses = {}
  <2>1. PICK D : read \in Seq(D)
    BY <1>2
  <2>2. Range(read) = {read[i] : i \in 1 .. Len(read)} /\ Len(read) \in Nat
    BY <2>1 DEF Range
  <2>3. read = <<>> <=> Len(read) = 0
    BY <2>1
  <2>4. Len(read) # 0 => read[1] \in Range(read)
    BY <2>2
  <2>5. Len(read) = 0 => Range(read) = {}
    BY <2>2
  <2> QED BY <1>2, <2>3, <2>4, <2>5
<1>5. addresses # {} => n \in Range(SubMaps(d.tree, Ethernet))
  BY <1>2, Spelled, InterfaceIsMap
<1>6. "dhcp" \in addresses => Restarts(Plan(d.tree), n)
  BY <1>2, <1>3, <1>5, ClientRestarted
<1>7. Restarts(Plan(d.tree), n) => "dhcp" \in addresses
  BY <1>2, <1>3, ClientWanted
<1>8. addresses # {} /\ "dhcp" \notin addresses
      => WriteThen(Plan(d.tree), <<"network", n>>, addresses, Systemctl("restart", <<"systemd-networkd">>))
  BY <1>2, <1>3, <1>4, <1>5, NetworkWritten
<1>9. WriteThen(Plan(d.tree), <<"network", n>>, addresses, Systemctl("restart", <<"systemd-networkd">>))
      => addresses # {} /\ "dhcp" \notin addresses
  BY <1>2, <1>3, <1>4, NetworkWanted
<1> QED BY <1>6, <1>7, <1>8, <1>9 DEF addresses

LEMMA HostFollows ==
  ASSUME NEW d, Whole(d), Undivided(d), IsWord(LastRaw(d, HostNameAt))
  PROVE  LET plan == Plan(d.tree) IN
         \E i \in DOMAIN plan : plan[i] = Hostnamectl(LastRaw(d, HostNameAt))
<1> DEFINE host == LastRaw(d, HostNameAt)
           a == Hostnamectl(host)
           plan == Plan(d.tree)
           part == HostName(d.tree)
<1>1. Reads(d, HostNameAt, HostNameAt) /\ HostNameAt \notin Lists
  BY SystemAt, SettingsDiffer, ReadsSetting
<1>2. GetString(d.tree, HostNameAt) = host /\ host # ""
  BY <1>1, ReadString DEF IsWord
<1>3. part = <<a>>
  BY <1>2 DEF HostName, HostNameAt, If
<1>4. IsSequence(part) /\ IsSequence(plan) /\ Within(part, plan)
  BY PlanSequences, PlanParts
<1> HIDE DEF a, plan, part
<1>5. Len(part) = 1 /\ part[1] = a
  BY <1>3
<1>6. PICK m \in Nat : \A i \in 1 .. Len(part) : m + i \in DOMAIN plan /\ plan[m + i] = part[i]
  BY <1>4, Placed
<1>7. m + 1 \in DOMAIN plan /\ plan[m + 1] = a
  BY <1>5, <1>6
<1> QED BY <1>7 DEF a, plan

LEMMA ResolverFollows ==
  ASSUME NEW d, Whole(d), Undivided(d), AllWords(d, NameServerAt) # {}
  PROVE  WriteThen(Plan(d.tree), <<"90-clawgress.conf">>, AllWords(d, NameServerAt),
                   Systemctl("restart", <<"systemd-resolved">>))
<1> DEFINE dns == Strings(d.tree, NameServerAt)
           w == Write("/etc/systemd/", <<"90-clawgress.conf">>, dns)
           a == Systemctl("restart", <<"systemd-resolved">>)
           plan == Plan(d.tree)
           part == Resolver(d.tree)
<1>1. Reads(d, NameServerAt, NameServerAt) /\ NameServerAt \in Lists
  BY SystemAt, SettingsDiffer, ReadsSetting
<1>2. Range(dns) = AllWords(d, NameServerAt)
  BY <1>1, ReadList
<1>3. dns # <<>>
  <2>1. Range(<<>>) = {}
    BY DEF Range
  <2> HIDE DEF dns
  <2> QED BY <1>2, <2>1
<1>4. part = <<w, a>>
  BY <1>3, Zenon DEF Resolver, NameServerAt, Service
<1>5. IsSequence(part) /\ IsSequence(plan) /\ Within(part, plan)
  BY PlanSequences, PlanParts
<1>6. w.do = "write" /\ w.name = <<"90-clawgress.conf">> /\ w.what = dns
  BY DEF Write
<1> HIDE DEF w, a, plan, part, dns
<1>7. Len(part) = 2 /\ part[1] = w /\ part[2] = a
  BY <1>4
<1>8. PICK m \in Nat : \A i \in 1 .. Len(part) : m + i \in DOMAIN plan /\ plan[m + i] = part[i]
  BY <1>5, Placed
<1>9. m + 1 \in DOMAIN plan /\ m + 2 \in DOMAIN plan /\ plan[m + 1] = w /\ plan[m + 2] = a /\ m + 1 < m + 2
  BY <1>7, <1>8
<1>10. WriteThen(plan, <<"90-clawgress.conf">>, AllWords(d, NameServerAt), a)
  BY <1>2, <1>6, <1>9 DEF WriteThen
<1> QED BY <1>10 DEF plan, a

LEMMA WholePlanFollows ==
  ASSUME Whole(file.doc)
  PROVE  PlanFollowsCommands
<1> DEFINE d == file.doc
           plan == Plan(d.tree)
<1>1. SUFFICES ASSUME Undivided(d)
      PROVE  /\ \A n \in Range(Names) :
                  /\ "dhcp" \in AllWords(d, AddressAt(n)) <=> Restarts(plan, n)
                  /\ AllWords(d, AddressAt(n)) # {} /\ "dhcp" \notin AllWords(d, AddressAt(n))
                     <=> WriteThen(plan, <<"network", n>>, AllWords(d, AddressAt(n)),
                                   Systemctl("restart", <<"systemd-networkd">>))
             /\ IsWord(LastRaw(d, HostNameAt))
                => \E i \in DOMAIN plan : plan[i] = Hostnamectl(LastRaw(d, HostNameAt))
             /\ AllWords(d, NameServerAt) # {}
                => WriteThen(plan, <<"90-clawgress.conf">>, AllWords(d, NameServerAt),
                             Systemctl("restart", <<"systemd-resolved">>))
  BY Zenon DEF PlanFollowsCommands, Restarts, WriteThen
<1>2. \A n \in Range(Names) :
        /\ "dhcp" \in AllWords(d, AddressAt(n)) <=> Restarts(plan, n)
        /\ AllWords(d, AddressAt(n)) # {} /\ "dhcp" \notin AllWords(d, AddressAt(n))
           <=> WriteThen(plan, <<"network", n>>, AllWords(d, AddressAt(n)),
                         Systemctl("restart", <<"systemd-networkd">>))
  BY <1>1, InterfaceFollows
<1>3. IsWord(LastRaw(d, HostNameAt))
      => \E i \in DOMAIN plan : plan[i] = Hostnamectl(LastRaw(d, HostNameAt))
  BY <1>1, HostFollows
<1>4. AllWords(d, NameServerAt) # {}
      => WriteThen(plan, <<"90-clawgress.conf">>, AllWords(d, NameServerAt),
                   Systemctl("restart", <<"systemd-resolved">>))
  BY <1>1, ResolverFollows
<1> HIDE DEF d, plan
<1> QED BY <1>2, <1>3, <1>4

(* The plan of the candidate (opsplan.go, BuildOpsPlan) carries what was   *)
(* typed, for every schema that keeps its settings apart, by any commands  *)
(* of any shells: dhclient for the interfaces with dhcp among their        *)
(* addresses and for no other, a network file with every address for the   *)
(* others, the host name and the name servers.                             *)
THEOREM PlanFollows == Spec => []PlanFollowsCommands
<1>1. TypeInv => PlanFollowsCommands
  BY WholePlanFollows DEF TypeInv, Candidates
<1> QED BY <1>1, AlwaysTyped, PTL

-----------------------------------------------------------------------------
(* What show prints *)

(* What is kept at the paths of a tree of k commands. *)
FromCommands(t, cmds, k) ==
  /\ IsFiniteSet(DOMAIN t)
  /\ \A keys \in DOMAIN t :
       /\ \/ ~Appends(keys) /\ \E x : t[keys] = One(x)
          \/ Appends(keys) /\ \E D : \E items \in Seq(D) : t[keys] = List(items)
       /\ \A x \in Range(t[keys].items) :
            x = MapItem \/ \E i \in 1 .. k : PathOf(cmds[i]) = keys /\ x = ParseValue(cmds[i].raw)

LEMMA RangeOne ==
  ASSUME NEW x
  PROVE  Range(<<x>>) = {x}
BY DEF Range

(* The value that a command puts at its path. *)
LEMMA EnteredValue ==
  ASSUME NEW t, NEW c, Accepted(c), Grown(t),
         PathOf(c) \in DOMAIN t /\ Appends(PathOf(c))
         => \E D : \E items \in Seq(D) : t[PathOf(c)] = List(items)
  PROVE  \E v :
           /\ Entered(t, c) = Put(t, PathOf(c), v)
           /\ \/ ~Appends(PathOf(c)) /\ v = One(ParseValue(c.raw))
              \/ Appends(PathOf(c)) /\ \E D : \E items \in Seq(D) : v = List(items)
           /\ \A x \in Range(v.items) :
                \/ x \in {MapItem, ParseValue(c.raw)}
                \/ PathOf(c) \in DOMAIN t /\ x \in Range(t[PathOf(c)].items)
<1> DEFINE p == PathOf(c)
           a == ParseValue(c.raw)
           u == Entered(t, c)
<1>1. u = SetByPath(t, p, a)
  BY DEF Entered, AfterSet, PathOf
<1> HIDE DEF p, a, u
<1>2. CASE ~Appends(p)
  <2>1. u = Put(t, p, One(a))
    BY <1>1, <1>2 DEF SetByPath
  <2>2. Range(One(a).items) = {a}
    BY OneIs, RangeOne
  <2> QED BY <1>2, <2>1, <2>2 DEF p, a, u
<1>3. CASE Appends(p) /\ Below(t, p) # {}
  <2> DEFINE items == <<MapItem, a>>
  <2>1. u = Put(t, p, List(items))
    BY <1>1, <1>3 DEF SetByPath
  <2>2. items \in Seq({MapItem, a}) /\ Range(items) \subseteq {MapItem, a}
    BY DEF Range
  <2> HIDE DEF items
  <2>3. List(items).items = items
    BY ListIs
  <2> QED BY <1>3, <2>1, <2>2, <2>3 DEF p, a, u
<1>4. CASE Appends(p) /\ Below(t, p) = {} /\ p \notin DOMAIN t
  <2> DEFINE items == <<a>>
  <2>1. u = Put(t, p, List(items))
    BY <1>1, <1>4 DEF SetByPath
  <2>2. items \in Seq({a}) /\ Range(items) = {a}
    BY RangeOne
  <2> HIDE DEF items
  <2>3. List(items).items = items
    BY ListIs
  <2> QED BY <1>4, <2>1, <2>2, <2>3 DEF p, a, u
<1>5. CASE Appends(p) /\ Below(t, p) = {} /\ p \in DOMAIN t
  <2>1. PICK D : \E items \in Seq(D) : t[p] = List(items)
    BY <1>5 DEF p
  <2>2. PICK items \in Seq(D) : t[p] = List(items)
    BY <2>1
  <2> DEFINE more == Append(items, a)
  <2>3. t[p].items = items
    BY <2>2, ListIs
  <2>4. u = Put(t, p, List(more))
    BY <1>1, <1>5, <2>3 DEF SetByPath
  <2>5. items \in Seq(D \cup {a}) /\ a \in D \cup {a}
    OBVIOUS
  <2>6. more \in Seq(D \cup {a}) /\ Range(more) = Range(items) \cup {a}
    BY <2>5, RangeAppend, AppendProperties
  <2> HIDE DEF more
  <2>7. List(more).items = more
    BY ListIs
  <2> QED BY <1>5, <2>3, <2>4, <2>6, <2>7 DEF p, a, u
<1> QED BY <1>2, <1>3, <1>4, <1>5

LEMMA FromCommandsStep ==
  ASSUME NEW t, NEW cmds, NEW k \in Nat, FromCommands(t, cmds, k), Grown(t), Accepted(cmds[k + 1])
  PROVE  FromCommands(Entered(t, cmds[k + 1]), cmds, k + 1)
<1> DEFINE c == cmds[k + 1]
           p == PathOf(c)
           u == Entered(t, c)
           At1(keys, x, n) == x = MapItem \/ \E i \in 1 .. n : PathOf(cmds[i]) = keys /\ x = ParseValue(cmds[i].raw)
<1>1. PICK v :
        /\ u = Put(t, p, v)
        /\ \/ ~Appends(p) /\ v = One(ParseValue(c.raw))
           \/ Appends(p) /\ \E D : \E items \in Seq(D) : v = List(items)
        /\ \A x \in Range(v.items) :
             x \in {MapItem, ParseValue(c.raw)} \/ (p \in DOMAIN t /\ x \in Range(t[p].items))
  <2>1. p \in DOMAIN t /\ Appends(p) => \E D : \E items \in Seq(D) : t[p] = List(items)
    BY DEF FromCommands
  <2> QED BY <2>1, EnteredValue
<1>2. /\ DOMAIN u \subseteq DOMAIN t \cup {p}
      /\ \A keys \in DOMAIN u : keys # p => keys \in DOMAIN t /\ u[keys] = t[keys]
      /\ p \in DOMAIN u /\ u[p] = v
  BY <1>1 DEF Put
<1>3. /\ k + 1 \in 1 .. (k + 1) /\ \A i \in 1 .. k : i \in 1 .. (k + 1)
  OBVIOUS
<1>4. \A keys \in DOMAIN t : \A x \in Range(t[keys].items) : At1(keys, x, k)
  BY DEF FromCommands
<1>5. \A keys, x : At1(keys, x, k) => At1(keys, x, k + 1)
  BY <1>3
<1>6. At1(p, ParseValue(c.raw), k + 1) /\ At1(p, MapItem, k + 1)
  BY <1>3
<1> HIDE DEF u, p, At1
<1>7. \A keys \in DOMAIN u : \A x \in Range(u[keys].items) : At1(keys, x, k + 1)
  <2> SUFFICES ASSUME NEW keys \in DOMAIN u, NEW x \in Range(u[keys].items) PROVE At1(keys, x, k + 1)
    OBVIOUS
  <2>1. CASE keys # p
    BY <1>2, <1>4, <1>5, <2>1
  <2>2. CASE keys = p
    BY <1>1, <1>2, <1>4, <1>5, <1>6, <2>2
  <2> QED BY <2>1, <2>2
<1>8. IsFiniteSet(DOMAIN u)
  <2>1. IsFiniteSet(DOMAIN t \cup {p})
    BY FS_AddElement DEF FromCommands
  <2> QED BY <1>2, <2>1, FS_Subset
<1>9. \A keys \in DOMAIN u :
        \/ ~Appends(keys) /\ \E x : u[keys] = One(x)
        \/ Appends(keys) /\ \E D : \E items \in Seq(D) : u[keys] = List(items)
  <2> SUFFICES ASSUME NEW keys \in DOMAIN u
               PROVE  \/ ~Appends(keys) /\ \E x : u[keys] = One(x)
                      \/ Appends(keys) /\ \E D : \E items \in Seq(D) : u[keys] = List(items)
    OBVIOUS
  <2>1. CASE keys # p
    BY <1>2, <2>1 DEF FromCommands
  <2>2. CASE keys = p
    BY <1>1, <1>2, <2>2
  <2> QED BY <2>1, <2>2
<1> QED BY <1>7, <1>8, <1>9 DEF FromCommands, At1, u

LEMMA TreeFromCommands ==
  ASSUME NEW cmds \in Seq(Passed)
  PROVE  FromCommands(TreeOf(cmds), cmds, Len(cmds))
<1> DEFINE n == Len(cmds)
           T == {k \in 0 .. n : FromCommands(Made(cmds)[1 .. k], cmds, k) /\ Grown(Made(cmds)[1 .. k])}
<1>1. /\ n \in Nat /\ DOMAIN cmds = 1 .. n /\ \A i \in 1 .. n : Accepted(cmds[i])
  BY DEF Passed
<1>2. /\ Made(cmds)[{}] = EmptyTree
      /\ \A k \in 1 .. n : Made(cmds)[1 .. k] = Entered(Made(cmds)[1 .. (k - 1)], cmds[k])
  BY <1>1, MadeSteps
<1>3. 0 \in T
  <2>1. 1 .. 0 = {} /\ 0 \in 0 .. n /\ DOMAIN EmptyTree = {}
    BY <1>1 DEF EmptyTree
  <2>2. FromCommands(EmptyTree, cmds, 0)
    BY <2>1, FS_EmptySet DEF FromCommands
  <2> QED BY <1>2, <2>1, <2>2, NothingGrown
<1>4. ASSUME NEW k \in 0 .. (n - 1), k \in T PROVE k + 1 \in T
  <2>1. k + 1 \in 1 .. n /\ k \in Nat /\ (k + 1) - 1 = k /\ k + 1 \in 0 .. n
    BY <1>1
  <2>2. Made(cmds)[1 .. (k + 1)] = Entered(Made(cmds)[1 .. k], cmds[k + 1])
    BY <1>2, <2>1
  <2>3. FromCommands(Entered(Made(cmds)[1 .. k], cmds[k + 1]), cmds, k + 1)
    BY <1>1, <1>4, <2>1, FromCommandsStep
  <2>4. Grown(Entered(Made(cmds)[1 .. k], cmds[k + 1]))
    BY <1>4, EnteredGrows
  <2> QED BY <2>1, <2>2, <2>3, <2>4
<1>5. n \in T
  <2>1. \A k \in 0 .. (n - 1) : k \in T => k + 1 \in T
    BY <1>4
  <2> HIDE DEF T
  <2>2. \A k \in 0 .. n : k \in T
    BY <1>1, <1>3, <2>1, Climb
  <2> QED BY <1>1, <2>2
<1> QED BY <1>1, <1>5, TreeOfIsMade

(* A printed command. *)
Shown(keys, x) == [tokens |-> keys, raw |-> x.v]

(* It is read as it was meant, let through and sets what it was printed    *)
(* for.                                                                    *)
Restores(keys, x) ==
  /\ ParseSetPathAndValue(Line(keys, x)) = Shown(keys, x)
  /\ Accepted(Shown(keys, x)) /\ PathOf(Shown(keys, x)) = keys
  /\ ParseValue(Shown(keys, x).raw) = x

LEMMA NormalTwice ==
  ASSUME NEW E, NEW tokens \in Seq(E)
  PROVE  Normal(Normal(tokens)) = Normal(tokens)
<1>1. \A t : Underscored(Underscored(t)) = Underscored(t)
  BY CommandTreeAssumption DEF Underscored
<1> QED BY <1>1 DEF Normal

(* A line whose words have no blanks is split into path and value. *)
LEMMA LineTyped ==
  ASSUME NEW D, NEW keys \in Seq(D), Len(keys) > 0, Range(keys) \cap DOMAIN Spaced = {},
         NEW x, x.v \notin DOMAIN Spaced
  PROVE  ParseSetPathAndValue(Line(keys, x)) = Shown(keys, x)
<1> DEFINE n == Len(keys)
           s == [i \in DOMAIN keys |-> Fields(keys[i])]
           v == x.v
           E == D \cup {v}
           line == keys \o <<v>>
<1>1. n \in Nat /\ n > 0 /\ DOMAIN keys = 1 .. n /\ \A i \in 1 .. n : keys[i] \in D
  OBVIOUS
<1>2. \A i \in 1 .. n : Fields(keys[i]) = <<keys[i]>>
  <2>1. \A i \in 1 .. n : keys[i] \notin DOMAIN Spaced
    BY <1>1 DEF Range
  <2> QED BY <2>1 DEF Fields
<1>3. s = [i \in 1 .. n |-> <<keys[i]>>]
  BY <1>1, <1>2
<1>4. s \in Seq(Seq(D)) /\ Len(s) = n /\ Singles(s, n, keys)
  <2>1. \A i \in 1 .. n : <<keys[i]>> \in Seq(D)
    BY <1>1
  <2>2. \A i \in 1 .. n : s[i] = <<keys[i]>>
    BY <1>3
  <2> HIDE DEF s
  <2>3. s = [i \in 1 .. n |-> s[i]] /\ \A i \in 1 .. n : s[i] \in Seq(D)
    BY <1>3, <2>1, <2>2
  <2>4. s \in Seq(Seq(D)) /\ Len(s) = n
    BY <1>1, <2>3
  <2> QED BY <2>2, <2>4 DEF Singles
<1>5. Fields(v) = <<v>>
  BY DEF Fields
<1>6. Line(keys, x) = FlattenSeq(s) \o <<v>>
  BY <1>5, Zenon DEF Line
<1> HIDE DEF s
<1>7. n \in 1 .. Len(s) /\ s # <<>>
  BY <1>1, <1>4
<1>8. Upto(s)[n] \in Seq(D) /\ FlattenSeq(s) = Upto(s)[n]
  BY <1>4, <1>7, UptoSteps, Flattened
<1>9. Len(Upto(s)[n]) = n /\ \A j \in 1 .. n : Upto(s)[n][j] = keys[j]
  BY <1>4, <1>7, UptoSingles
<1>10. Upto(s)[n] = keys
  BY <1>8, <1>9, SeqEqual
<1>11. Line(keys, x) = line
  BY <1>6, <1>8, <1>10
<1> HIDE DEF v
<1>12. keys \in Seq(E) /\ <<v>> \in Seq(E) /\ Len(<<v>>) = 1 /\ <<v>>[1] = v
  BY <1>1
<1> HIDE DEF E
<1>13. /\ line \in Seq(E) /\ Len(line) = n + 1 /\ line[n + 1] = v
       /\ \A j \in 1 .. n : line[j] = keys[j]
  BY <1>1, <1>12, ConcatProperties
<1> HIDE DEF line
<1>14. Last(line) = v
  BY <1>13 DEF Last
<1>15. Front(line) = keys
  <2> DEFINE front == SubSeq(line, 1, n)
  <2>1. front \in Seq(E) /\ Len(front) = n /\ \A j \in 1 .. n : front[j] = line[j]
    BY <1>1, <1>13
  <2>2. Len(line) - 1 = n
    BY <1>1, <1>13
  <2>3. Front(line) = front
    BY <2>2 DEF Front
  <2> HIDE DEF front
  <2>4. \A j \in 1 .. n : front[j] = keys[j]
    BY <1>13, <2>1
  <2> QED BY <1>12, <2>1, <2>3, <2>4, SeqEqual
<1> QED BY <1>11, <1>14, <1>15 DEF ParseSetPathAndValue, Shown, v

LEMMA ShownAgain ==
  ASSUME NEW c \in Passed, Range(Normal(c.tokens)) \cap (DOMAIN Dotted \cup DOMAIN Spaced) = {},
         c.raw \notin DOMAIN Spaced, c.raw \in DOMAIN Printed => Printed[c.raw] = c.raw,
         ParseValue(c.raw).t \in {"text", "number"}
  PROVE  Restores(PathOf(c), ParseValue(c.raw))
<1> DEFINE x == ParseValue(c.raw)
           keys == Normal(c.tokens)
           again == Shown(keys, x)
<1>1. c.tokens \in Seq(STRING) /\ ValidSet(c.tokens, c.raw) /\ Encodes(c.raw)
  BY DEF Passed, SetCommands, Accepted
<1>2. Len(c.tokens) > 0
  <2>1. PICK p \in Schema : MatchesPattern(Normal(p.tokens), Normal(c.tokens))
    BY <1>1 DEF ValidSet
  <2>2. p.tokens \in Seq(STRING) /\ Len(p.tokens) > 0
    BY CommandTreeAssumption
  <2>3. Len(Normal(p.tokens)) = Len(p.tokens) /\ Len(Normal(c.tokens)) = Len(c.tokens)
    BY <1>1, <2>2, NormalIs
  <2> QED BY <2>1, <2>2, <2>3 DEF MatchesPattern
<1>3. PathOf(c) = keys
  <2>1. Range(Normal(c.tokens)) \cap DOMAIN Dotted = {}
    OBVIOUS
  <2> QED BY <1>1, <1>2, <2>1, PathUndotted DEF PathOf
<1>4. keys \in Seq(Range(keys)) /\ Len(keys) > 0
  BY <1>1, <1>2, NormalIs
<1>5. Normal(keys) = keys
  BY <1>1, NormalTwice
<1>6. x.v = c.raw
  <2>1. Flag("true").t = "flag" /\ Flag("false").t = "flag" /\ NoNumber.t = "nan"
        /\ Text(c.raw).v = c.raw /\ Number(c.raw).v = c.raw
    BY DEF Flag, NoNumber, Text, Number
  <2>2. x \in {Flag("true"), Flag("false"), NoNumber, Text(c.raw)} \/ (c.raw \in DOMAIN Printed /\ x = Number(Printed[c.raw]))
    BY DEF ParseValue
  <2> HIDE DEF x
  <2>3. x = Text(c.raw) \/ x = Number(c.raw)
    BY <2>1, <2>2 DEF x
  <2> QED BY <2>1, <2>3
<1> HIDE DEF x, keys
<1>7. again.tokens = keys /\ again.raw = c.raw
  BY <1>6 DEF Shown
<1> HIDE DEF again
<1>8. ValidSet(keys, c.raw)
  BY <1>1, <1>5 DEF ValidSet, keys
<1>9. KeyPath(keys) = keys
  <2>1. Range(Normal(keys)) \cap DOMAIN Dotted = {}
    BY <1>5 DEF keys
  <2> QED BY <1>4, <1>5, <2>1, PathUndotted
<1>10. Accepted(again) /\ PathOf(again) = keys /\ ParseValue(again.raw) = x
  BY <1>1, <1>7, <1>8, <1>9 DEF Accepted, PathOf, x
<1>11. ParseSetPathAndValue(Line(keys, x)) = again
  <2>1. Range(keys) \cap DOMAIN Spaced = {} /\ x.v \notin DOMAIN Spaced
    BY <1>6 DEF keys
  <2> QED BY <1>4, <2>1, LineTyped DEF again
<1> QED BY <1>3, <1>10, <1>11 DEF Restores, again, x

-----------------------------------------------------------------------------
(* Trees of joined commands *)

LEMMA TypedAfter ==
  ASSUME NEW C, NEW pre \in Seq(C), NEW grp \in Seq(C)
  PROVE  \E f : /\ f[0] = TreeOf(pre) /\ f[Len(grp)] = TreeOf(pre \o grp)
                /\ \A j \in 1 .. Len(grp) : f[j] = Entered(f[j - 1], grp[j])
<1> DEFINE n == Len(grp)
           f == [j \in 0 .. n |-> TreeOf(pre \o SubSeq(grp, 1, j))]
<1>1. n \in Nat /\ 0 \in 0 .. n /\ n \in 0 .. n /\ \A j \in 1 .. n : j \in 0 .. n /\ j - 1 \in 0 .. n /\ grp[j] \in C
  OBVIOUS
<1>2. f[0] = TreeOf(pre)
  <2>1. SubSeq(grp, 1, 0) = <<>> /\ pre \o <<>> = pre
    BY SubSeqEmpty, ConcatEmptySeq
  <2> QED BY <1>1, <2>1
<1>3. f[n] = TreeOf(pre \o grp)
  BY <1>1, SubSeqFull
<1>4. ASSUME NEW j \in 1 .. n PROVE f[j] = Entered(f[j - 1], grp[j])
  <2> DEFINE s == SubSeq(grp, 1, j - 1)
             all == pre \o s
  <2>1. SubSeq(grp, 1, j) = s \o <<grp[j]>>
    <3>1. 1 \in 1 .. Len(grp) /\ j \in 1 .. Len(grp)
      BY <1>1
    <3> QED BY <3>1, SubSeqRecursiveSecond
  <2>2. s \in Seq(C)
    <3>1. \A i \in 1 .. (j - 1) : grp[i] \in C
      BY <1>1
    <3>2. 1 \in Int /\ j - 1 \in Int
      BY <1>1
    <3> QED BY <3>1, <3>2, SubSeqProperties
  <2> HIDE DEF s
  <2>3. all \in Seq(C) /\ Append(all, grp[j]) = all \o <<grp[j]>> /\ <<grp[j]>> \in Seq(C)
    <3>1. all \in Seq(C)
      BY <2>2, ConcatProperties
    <3> HIDE DEF all
    <3>2. grp[j] \in C /\ <<grp[j]>> \in Seq(C)
      BY <1>1
    <3> QED BY <3>1, <3>2, AppendIsConcat
  <2>4. pre \o (s \o <<grp[j]>>) = all \o <<grp[j]>>
    BY <2>2, <2>3, ConcatAssociative
  <2>5. TreeOf(Append(all, grp[j])) = Entered(TreeOf(all), grp[j])
    BY <1>1, <2>3, OneMoreTyped
  <2>6. f[j] = TreeOf(pre \o (s \o <<grp[j]>>)) /\ f[j - 1] = TreeOf(all)
    BY <1>1, <2>1 DEF s
  <2> QED BY <2>3, <2>4, <2>5, <2>6
<1> QED BY <1>2, <1>3, <1>4

(* A path that has nothing to do with those of a tree. *)
Apart(t, keys) == \A p \in DOMAIN t : p # keys /\ ~Related(p, keys)

LEMMA PutApart ==
  ASSUME NEW t, NEW keys, Apart(t, keys)
  PROVE  /\ Below(t, keys) = {} /\ keys \notin DOMAIN t
         /\ \A v : /\ DOMAIN Put(t, keys, v) = DOMAIN t \cup {keys} /\ Put(t, keys, v)[keys] = v
                   /\ \A p \in DOMAIN t : Put(t, keys, v)[p] = t[p]
                   /\ Below(Put(t, keys, v), keys) = {}
         /\ \A v, w : Put(Put(t, keys, v), keys, w) = Put(t, keys, w)
<1>1. Above(t, keys) = {} /\ Below(t, keys) = {} /\ keys \notin DOMAIN t
  BY DEF Apart, Above, Below, Related
<1>2. ASSUME NEW v
      PROVE  Put(t, keys, v) = [p \in DOMAIN t \cup {keys} |-> IF p = keys THEN v ELSE t[p]]
  BY <1>1 DEF Put
<1>3. ~IsStrictPrefix(keys, keys)
  BY DEF IsStrictPrefix
<1>4. ASSUME NEW v
      PROVE  /\ DOMAIN Put(t, keys, v) = DOMAIN t \cup {keys} /\ Put(t, keys, v)[keys] = v
             /\ \A p \in DOMAIN t : Put(t, keys, v)[p] = t[p]
  BY <1>1, <1>2
<1>5. ASSUME NEW v
      PROVE  Above(Put(t, keys, v), keys) = {} /\ Below(Put(t, keys, v), keys) = {}
  BY <1>1, <1>3, <1>4 DEF Above, Below
<1>6. ASSUME NEW v, NEW w
      PROVE  Put(Put(t, keys, v), keys, w) = Put(t, keys, w)
  <2> DEFINE u == Put(t, keys, v)
  <2>1. Put(u, keys, w) = [p \in DOMAIN u \cup {keys} |-> IF p = keys THEN w ELSE u[p]]
    BY <1>5 DEF Put
  <2>2. DOMAIN u \cup {keys} = DOMAIN t \cup {keys} /\ \A p \in DOMAIN t : u[p] = t[p]
    BY <1>4
  <2> HIDE DEF u
  <2>3. Put(u, keys, w) = [p \in DOMAIN t \cup {keys} |-> IF p = keys THEN w ELSE t[p]]
    BY <2>1, <2>2
  <2> QED BY <1>2, <2>3 DEF u
<1> QED BY <1>1, <1>4, <1>5, <1>6

(* What is printed for a path. *)
Printout(keys, items) == [i \in DOMAIN items |-> Shown(keys, items[i])]

(* A value a path may have. *)
Fitting(keys, v) ==
  /\ \/ ~Appends(keys) /\ \E x : v = One(x)
     \/ Appends(keys) /\ \E D : \E items \in Seq(D) : v = List(items)
  /\ \A x \in Range(v.items) : Restores(keys, x)

(* Typing what was printed for a path sets it. *)
LEMMA ListTyped ==
  ASSUME NEW C, NEW pre \in Seq(C), NEW keys, NEW D, NEW items \in Seq(D), items # <<>>, Appends(keys),
         \A x \in Range(items) : Restores(keys, x),
         Apart(TreeOf(pre), keys), Printout(keys, items) \in Seq(C)
  PROVE  TreeOf(pre \o Printout(keys, items)) = Put(TreeOf(pre), keys, List(items))
<1> DEFINE n == Len(items)
           grp == Printout(keys, items)
           u == TreeOf(pre)
           Starts(s, j) == s \in Seq(D) /\ Len(s) = j /\ \A i \in 1 .. j : s[i] = items[i]
<1>1. n \in Nat /\ n # 0 /\ DOMAIN items = 1 .. n /\ \A i \in 1 .. n : items[i] \in D
  OBVIOUS
<1>2. Len(grp) = n /\ \A j \in 1 .. n : grp[j] = Shown(keys, items[j])
  BY <1>1 DEF Printout
<1>3. \A j \in 1 .. n : Restores(keys, items[j])
  BY <1>1 DEF Range
<1> HIDE DEF grp, n
<1>4. PICK f : /\ f[0] = u /\ f[n] = TreeOf(pre \o grp)
               /\ \A j \in 1 .. n : f[j] = Entered(f[j - 1], grp[j])
  <2>1. \E f : /\ f[0] = TreeOf(pre) /\ f[Len(grp)] = TreeOf(pre \o grp)
               /\ \A j \in 1 .. Len(grp) : f[j] = Entered(f[j - 1], grp[j])
    BY TypedAfter DEF grp
  <2> QED BY <1>2, <2>1
<1>5. ASSUME NEW j \in 1 .. n
      PROVE  Entered(f[j - 1], grp[j]) = SetByPath(f[j - 1], keys, items[j])
  <2>1. Restores(keys, items[j])
    BY <1>3
  <2> QED BY <1>2, <2>1 DEF Restores, Entered, AfterSet, PathOf
<1>5a. Apart(u, keys)
  OBVIOUS
<1> HIDE DEF u
<1>6. /\ Below(u, keys) = {} /\ keys \notin DOMAIN u
      /\ \A v : /\ keys \in DOMAIN Put(u, keys, v) /\ Put(u, keys, v)[keys] = v
                /\ Below(Put(u, keys, v), keys) = {}
      /\ \A v, w : Put(Put(u, keys, v), keys, w) = Put(u, keys, w)
  <2>1. /\ Below(u, keys) = {} /\ keys \notin DOMAIN u
        /\ \A v : /\ DOMAIN Put(u, keys, v) = DOMAIN u \cup {keys} /\ Put(u, keys, v)[keys] = v
                  /\ \A p \in DOMAIN u : Put(u, keys, v)[p] = u[p]
                  /\ Below(Put(u, keys, v), keys) = {}
        /\ \A v, w : Put(Put(u, keys, v), keys, w) = Put(u, keys, w)
    BY <1>5a, PutApart
  <2> QED BY <2>1
<1> DEFINE T == {j \in 0 .. n : j # 0 => \E s : Starts(s, j) /\ f[j] = Put(u, keys, List(s))}
<1>7. 0 \in T
  BY <1>1
<1>8. ASSUME NEW j \in 0 .. (n - 1), j \in T PROVE j + 1 \in T
  <2> DEFINE x == items[j + 1]
  <2>1. j + 1 \in 1 .. n /\ (j + 1) - 1 = j /\ j + 1 \in 0 .. n /\ j \in Nat /\ x \in D
    BY <1>1
  <2>2. f[j + 1] = SetByPath(f[j], keys, x)
    BY <1>4, <1>5, <2>1
  <2> HIDE DEF x
  <2>3. CASE j = 0
    <3> DEFINE s == <<x>>
    <3>1. f[j + 1] = Put(u, keys, List(s))
      BY <1>4, <1>6, <2>2, <2>3 DEF SetByPath
    <3>2. s \in Seq(D) /\ Len(s) = 1 /\ s[1] = x
      BY <2>1
    <3> HIDE DEF s
    <3>3. \A i \in 1 .. 1 : i = 1
      OBVIOUS
    <3>4. Starts(s, j + 1)
      BY <2>3, <3>2, <3>3 DEF x
    <3> HIDE DEF Starts
    <3> QED BY <2>1, <3>1, <3>4
  <2>4. CASE j # 0
    <3>1. PICK s : Starts(s, j) /\ f[j] = Put(u, keys, List(s))
      BY <1>8, <2>4
    <3> DEFINE more == Append(s, x)
    <3>2. List(s).items = s
      BY ListIs
    <3>3. f[j + 1] = Put(f[j], keys, List(more))
      <4>1. keys \in DOMAIN f[j] /\ f[j][keys] = List(s) /\ Below(f[j], keys) = {}
        BY <1>6, <3>1
      <4> QED BY <2>2, <3>2, <4>1 DEF SetByPath
    <3>4. f[j + 1] = Put(u, keys, List(more))
      <4> HIDE DEF more
      <4> QED BY <1>6, <3>1, <3>3
    <3>5. /\ more \in Seq(D) /\ Len(more) = j + 1 /\ more[j + 1] = x
          /\ \A i \in 1 .. j : more[i] = items[i]
      BY <2>1, <3>1, AppendProperties
    <3>6. \A i \in 1 .. (j + 1) : i \in 1 .. j \/ i = j + 1
      BY <2>1
    <3> HIDE DEF more
    <3>7. Starts(more, j + 1)
      BY <3>5, <3>6 DEF x
    <3> HIDE DEF Starts
    <3> QED BY <2>1, <3>4, <3>7
  <2> QED BY <2>3, <2>4
<1>9. n \in T
  <2>1. \A j \in 0 .. (n - 1) : j \in T => j + 1 \in T
    BY <1>8
  <2> HIDE DEF T
  <2>2. \A j \in 0 .. n : j \in T
    BY <1>1, <1>7, <2>1, Climb
  <2> QED BY <1>1, <2>2
<1>10. PICK s : Starts(s, n) /\ f[n] = Put(u, keys, List(s))
  BY <1>1, <1>9
<1>11. s = items
  BY <1>10, SeqEqual DEF n
<1> QED BY <1>4, <1>10, <1>11 DEF grp, u

LEMMA OneTyped ==
  ASSUME NEW C, NEW pre \in Seq(C), NEW keys, NEW x, ~Appends(keys), Restores(keys, x),
         Shown(keys, x) \in C
  PROVE  TreeOf(pre \o Printout(keys, <<x>>)) = Put(TreeOf(pre), keys, One(x))
<1> DEFINE c == Shown(keys, x)
<1>1. Printout(keys, <<x>>) = <<c>>
  <2>1. DOMAIN <<x>> = 1 .. 1 /\ <<x>>[1] = x /\ \A i \in 1 .. 1 : i = 1
    OBVIOUS
  <2>2. Printout(keys, <<x>>) = [i \in 1 .. 1 |-> c]
    BY <2>1 DEF Printout
  <2> HIDE DEF c
  <2>3. [i \in 1 .. 1 |-> c] = <<c>>
    OBVIOUS
  <2> QED BY <2>2, <2>3
<1> HIDE DEF c
<1>2. pre \o <<c>> = Append(pre, c)
  BY AppendIsConcat DEF c
<1>3. TreeOf(Append(pre, c)) = Entered(TreeOf(pre), c)
  BY OneMoreTyped DEF c
<1>4. Entered(TreeOf(pre), c) = SetByPath(TreeOf(pre), keys, x)
  BY DEF Restores, Entered, AfterSet, PathOf, c
<1> QED BY <1>1, <1>2, <1>3, <1>4 DEF SetByPath

LEMMA PrintoutTyped ==
  ASSUME NEW C, NEW pre \in Seq(C), NEW keys, NEW v, Leaf(v), Fitting(keys, v),
         Apart(TreeOf(pre), keys), Printout(keys, v.items) \in Seq(C)
  PROVE  TreeOf(pre \o Printout(keys, v.items)) = Put(TreeOf(pre), keys, v)
<1>1. CASE ~Appends(keys)
  <2>1. PICK x : v = One(x)
    BY <1>1 DEF Fitting
  <2>2. v.items = <<x>> /\ Range(<<x>>) = {x}
    BY <2>1, OneIs, RangeOne
  <2>3. Restores(keys, x)
    BY <2>2 DEF Fitting
  <2>4. Shown(keys, x) \in C
    <3> DEFINE grp == Printout(keys, <<x>>)
    <3>1. grp[1] = Shown(keys, x) /\ DOMAIN grp = 1 .. 1
      <4>1. DOMAIN <<x>> = 1 .. 1 /\ <<x>>[1] = x /\ 1 \in 1 .. 1
        OBVIOUS
      <4> QED BY <4>1 DEF Printout
    <3>2. grp \in Seq(C)
      BY <2>2
    <3> HIDE DEF grp
    <3>3. DOMAIN grp = 1 .. Len(grp)
      BY <3>2
    <3>4. 1 \in DOMAIN grp
      BY <3>1
    <3>5. grp[1] \in C
      BY <3>2, <3>3, <3>4
    <3> QED BY <3>1, <3>5
  <2> QED BY <1>1, <2>1, <2>2, <2>3, <2>4, OneTyped
<1>2. CASE Appends(keys)
  <2>1. PICK D : \E items \in Seq(D) : v = List(items)
    BY <1>2 DEF Fitting
  <2>2. PICK items \in Seq(D) : v = List(items)
    BY <2>1
  <2>3. v.items = items /\ items # <<>>
    BY <2>2, ListIs DEF Leaf
  <2>4. \A x \in Range(items) : Restores(keys, x)
    BY <2>3 DEF Fitting
  <2> QED BY <1>2, <2>2, <2>3, <2>4, ListTyped
<1> QED BY <1>1, <1>2

(* What is printed for all of a tree, path by path. *)
Groups(tree) ==
  [k \in DOMAIN SetToSeq(DOMAIN tree) |->
     Printout(SetToSeq(DOMAIN tree)[k], tree[SetToSeq(DOMAIN tree)[k]].items)]

LEMMA ReplayIs ==
  ASSUME NEW tree, SetToSeq(DOMAIN tree) \in Seq(DOMAIN tree),
         \A keys \in DOMAIN tree : Leaf(tree[keys]) /\ Fitting(keys, tree[keys])
  PROVE  Replay(tree) = TreeOf(FlattenSeq(Groups(tree)))
<1> DEFINE lines == Lines(tree)
           paths == SetToSeq(DOMAIN tree)
           Cmds(keys) == [i \in DOMAIN lines[keys] |-> ParseSetPathAndValue(lines[keys][i])]
<1>1. ASSUME NEW keys \in DOMAIN tree PROVE Cmds(keys) = Printout(keys, tree[keys].items)
  <2> DEFINE items == tree[keys].items
             row == lines[keys]
  <2>1. row = [i \in DOMAIN items |-> Line(keys, items[i])]
    BY DEF Lines
  <2>2. \A i \in DOMAIN items : ParseSetPathAndValue(Line(keys, items[i])) = Shown(keys, items[i])
    <3>1. \A x \in Range(items) : Restores(keys, x)
      BY DEF Fitting
    <3> HIDE DEF items
    <3> QED BY <3>1 DEF Range, Restores
  <2> HIDE DEF items, row
  <2>3. [i \in DOMAIN row |-> ParseSetPathAndValue(row[i])] = [i \in DOMAIN items |-> Shown(keys, items[i])]
    BY <2>1, <2>2
  <2> QED BY <2>3 DEF Printout, row, items
<1>2. Replay(tree) = TreeOf(FlattenSeq([k \in DOMAIN paths |-> Cmds(paths[k])]))
  BY Zenon DEF Replay
<1>3. \A k \in DOMAIN paths : paths[k] \in DOMAIN tree
  OBVIOUS
<1> HIDE DEF Cmds
<1>4. [k \in DOMAIN paths |-> Cmds(paths[k])] = Groups(tree)
  BY <1>1, <1>3 DEF Groups
<1> QED BY <1>2, <1>4

(* A finite set in some order. *)
LEMMA InSomeOrder ==
  ASSUME NEW S, IsFiniteSet(S)
  PROVE  /\ SetToSeq(S) \in Seq(S)
         /\ \A x \in S : \E i \in 1 .. Len(SetToSeq(S)) : SetToSeq(S)[i] = x
         /\ \A i, j \in 1 .. Len(SetToSeq(S)) : SetToSeq(S)[i] = SetToSeq(S)[j] => i = j
<1> DEFINE n == Cardinality(S)
           I == 1 .. n
           f == SetToSeq(S)
<1>1. n \in Nat /\ ExistsBijection(I, S)
  BY FS_CardinalityType
<1>2. IsFiniteSet(I) /\ Cardinality(I) = n
  <2>1. 1 \in Int /\ n \in Int /\ (IF 1 > n THEN 0 ELSE n - 1 + 1) = n
    BY <1>1
  <2> QED BY <2>1, FS_Interval
<1>3. \E g \in [I -> S] : IsInjective(g)
  BY <1>1 DEF ExistsBijection, Bijection, Injection
<1>4. f \in [I -> S] /\ IsInjective(f)
  BY <1>3 DEF SetToSeq
<1>5. f \in Injection(I, S)
  BY <1>4 DEF Injection
<1> HIDE DEF f, I
<1>6. f \in Surjection(I, S)
  BY <1>2, <1>5, FS_Injection
<1>7. \A x \in S : \E i \in I : f[i] = x
  BY <1>6 DEF Surjection
<1>8. \A i, j \in I : f[i] = f[j] => i = j
  BY <1>4 DEF IsInjective
<1>9. f \in Seq(S) /\ Len(f) = n
  BY <1>1, <1>4 DEF I
<1> QED BY <1>7, <1>8, <1>9 DEF I, f

(* What is printed for a path says so. *)
LEMMA PrintoutIs ==
  ASSUME NEW keys, NEW v, Leaf(v)
  PROVE  /\ Printout(keys, v.items) \in Seq(Range(Printout(keys, v.items)))
         /\ 1 \in DOMAIN Printout(keys, v.items)
         /\ Printout(keys, v.items)[1].tokens = keys
<1> DEFINE items == v.items
           grp == Printout(keys, items)
<1>1. PICK D : items \in Seq(D) /\ items # <<>>
  BY DEF Leaf
<1> HIDE DEF items
<1>2. Len(items) \in Nat /\ DOMAIN items = 1 .. Len(items) /\ 1 \in DOMAIN items
  BY <1>1
<1>3. DOMAIN grp = 1 .. Len(items) /\ grp[1] = Shown(keys, items[1])
  BY <1>2 DEF Printout
<1>4. grp = [i \in 1 .. Len(items) |-> grp[i]]
  BY <1>2, <1>3 DEF Printout
<1>5. Shown(keys, items[1]).tokens = keys
  BY DEF Shown
<1> HIDE DEF grp
<1>6. grp \in Seq(Range(grp))
  <2>1. \A i \in 1 .. Len(items) : grp[i] \in Range(grp)
    BY <1>3 DEF Range
  <2> QED BY <1>2, <1>4, <2>1
<1> QED BY <1>2, <1>3, <1>5, <1>6 DEF grp, items

(* Typing all that is printed makes the same tree again. *)
LEMMA ReplayRestores ==
  ASSUME NEW tree, IsFiniteSet(DOMAIN tree), Grown(tree),
         \A keys \in DOMAIN tree : Fitting(keys, tree[keys])
  PROVE  /\ DOMAIN Replay(tree) = DOMAIN tree
         /\ \A keys \in DOMAIN tree : Replay(tree)[keys] = tree[keys]
<1> DEFINE seqs == Groups(tree)
           paths == SetToSeq(DOMAIN tree)
           n == Len(paths)
           key(i) == paths[i]
           C == UNION {Range(Printout(keys, tree[keys].items)) : keys \in DOMAIN tree}
           pre(m) == IF m = 0 THEN <<>> ELSE Upto(seqs)[m]
           u(m) == TreeOf(pre(m))
           Restored(m) == /\ DOMAIN u(m) = {key(i) : i \in 1 .. m}
                          /\ \A keys \in DOMAIN u(m) : u(m)[keys] = tree[keys]
           T == {m \in 0 .. n : Restored(m)}
<1>1. \A keys \in DOMAIN tree : Leaf(tree[keys]) /\ \A p \in DOMAIN tree : ~IsStrictPrefix(p, keys)
  BY DEF Grown
<1>2. /\ paths \in Seq(DOMAIN tree)
      /\ \A keys \in DOMAIN tree : \E i \in 1 .. n : paths[i] = keys
      /\ \A i, j \in 1 .. n : paths[i] = paths[j] => i = j
  BY InSomeOrder
<1>3. Replay(tree) = TreeOf(FlattenSeq(seqs))
  BY <1>1, <1>2, ReplayIs
<1>4. n \in Nat /\ Len(seqs) = n /\ DOMAIN seqs = 1 .. n
      /\ \A i \in 1 .. n : key(i) \in DOMAIN tree
  BY <1>2 DEF Groups
<1>5. \A i \in 1 .. n : key(i) \in DOMAIN tree /\ seqs[i] = Printout(key(i), tree[key(i)].items)
  BY <1>2, <1>4 DEF Groups
<1>6. \A i, j \in 1 .. n : key(i) = key(j) => i = j
  BY <1>2
<1>7. \A keys \in DOMAIN tree : \E i \in 1 .. n : key(i) = keys
  BY <1>2
<1>7a. seqs = [k \in 1 .. n |-> seqs[k]]
  BY <1>2, <1>4 DEF Groups
<1> HIDE DEF paths, seqs
<1>8. \A i \in 1 .. n : seqs[i] \in Seq(C)
  <2> SUFFICES ASSUME NEW i \in 1 .. n PROVE seqs[i] \in Seq(C)
    OBVIOUS
  <2> DEFINE k == key(i)
             g == Printout(k, tree[k].items)
  <2>1. seqs[i] = g /\ k \in DOMAIN tree
    BY <1>5
  <2>2. g \in Seq(Range(g))
    BY <1>1, <2>1, PrintoutIs
  <2>3. Range(g) \subseteq C
    BY <2>1
  <2> HIDE DEF C, g
  <2> QED BY <2>1, <2>2, <2>3
<1> HIDE DEF C
<1>9. seqs \in Seq(Seq(C))
  BY <1>4, <1>7a, <1>8
<1>10. \A k \in 1 .. n : /\ Upto(seqs)[k] \in Seq(C)
                         /\ k = 1 => Upto(seqs)[k] = seqs[1]
                         /\ k # 1 => k - 1 \in 1 .. n /\ Upto(seqs)[k] = Upto(seqs)[k - 1] \o seqs[k]
  BY <1>4, <1>9, UptoSteps
<1>11. ASSUME NEW m \in 0 .. n PROVE pre(m) \in Seq(C)
  <2>1. m = 0 \/ m \in 1 .. n
    BY <1>4
  <2>2. <<>> \in Seq(C)
    OBVIOUS
  <2> QED BY <1>10, <2>1, <2>2
<1>12. ASSUME NEW m \in 0 .. (n - 1) PROVE pre(m + 1) = pre(m) \o seqs[m + 1]
  <2>1. m + 1 \in 1 .. n /\ (m + 1) - 1 = m /\ m + 1 # 0 /\ (m = 0 <=> m + 1 = 1) /\ 1 \in 1 .. n
    BY <1>4
  <2>2. seqs[m + 1] \in Seq(C)
    BY <1>4, <1>8, <2>1
  <2>3. CASE m = 0
    <3>1. pre(m + 1) = seqs[m + 1] /\ pre(m) = <<>>
      BY <1>10, <2>1, <2>3
    <3> QED BY <2>2, <3>1, ConcatEmptySeq
  <2>4. CASE m # 0
    BY <1>10, <2>1, <2>4
  <2> QED BY <2>3, <2>4
<1>13. FlattenSeq(seqs) = pre(n)
  BY <1>4, <1>9, Flattened
<1>14. 0 \in T
  <2>1. pre(0) = <<>> /\ DOMAIN EmptyTree = {} /\ 1 .. 0 = {} /\ 0 \in 0 .. n
    BY <1>4 DEF EmptyTree
  <2>2. u(0) = EmptyTree
    BY <2>1, NothingTyped
  <2> QED BY <2>1, <2>2
<1> HIDE DEF pre
<1>15. ASSUME NEW m \in 0 .. (n - 1), m \in T PROVE m + 1 \in T
  <2> DEFINE k == key(m + 1)
             before == u(m)
  <2>1. m + 1 \in 1 .. n /\ m + 1 \in 0 .. n /\ m \in Nat /\ \A i \in 1 .. m : i \in 1 .. n /\ i # m + 1
    BY <1>4
  <2>2. k \in DOMAIN tree /\ seqs[m + 1] = Printout(k, tree[k].items)
    BY <1>5, <2>1
  <2>3. DOMAIN before = {key(i) : i \in 1 .. m} /\ \A keys \in DOMAIN before : before[keys] = tree[keys]
    BY <1>15
  <2>4. \A p \in DOMAIN before : p \in DOMAIN tree /\ p # k
    <3> SUFFICES ASSUME NEW p \in DOMAIN before PROVE p \in DOMAIN tree /\ p # k
      OBVIOUS
    <3>1. PICK i \in 1 .. m : p = key(i)
      BY <2>3
    <3> QED BY <1>5, <1>6, <2>1, <3>1
  <2>5. Apart(before, k)
    BY <1>1, <2>2, <2>4 DEF Apart, Related
  <2>6. pre(m) \in Seq(C) /\ Printout(k, tree[k].items) \in Seq(C)
    BY <1>4, <1>8, <1>11, <2>1, <2>2
  <2>7. u(m + 1) = Put(before, k, tree[k])
    <3>1. u(m + 1) = TreeOf(pre(m) \o Printout(k, tree[k].items))
      BY <1>12, <2>2
    <3>2. Leaf(tree[k]) /\ Fitting(k, tree[k])
      BY <1>1, <2>2
    <3> HIDE DEF k
    <3> QED BY <2>5, <2>6, <3>1, <3>2, PrintoutTyped
  <2>8. /\ DOMAIN u(m + 1) = DOMAIN before \cup {k} /\ u(m + 1)[k] = tree[k]
        /\ \A p \in DOMAIN before : u(m + 1)[p] = before[p]
    <3> DEFINE w == tree[k]
    <3>1. u(m + 1) = Put(before, k, w)
      BY <2>7
    <3> HIDE DEF before, k, w
    <3>2. \A v : /\ DOMAIN Put(before, k, v) = DOMAIN before \cup {k} /\ Put(before, k, v)[k] = v
                 /\ \A p \in DOMAIN before : Put(before, k, v)[p] = before[p]
                 /\ Below(Put(before, k, v), k) = {}
      BY <2>5, PutApart
    <3> QED BY <3>1, <3>2 DEF w
  <2>9. {key(i) : i \in 1 .. (m + 1)} = {key(i) : i \in 1 .. m} \cup {k}
    <3>1. \A i : i \in 1 .. (m + 1) <=> i \in 1 .. m \/ i = m + 1
      BY <2>1
    <3> QED BY <3>1
  <2> HIDE DEF k, before
  <2>10. Restored(m + 1)
    BY <2>3, <2>8, <2>9
  <2> QED BY <2>1, <2>10
<1>16. n \in T
  <2>1. \A m \in 0 .. (n - 1) : m \in T => m + 1 \in T
    BY <1>15
  <2> HIDE DEF T
  <2>2. \A m \in 0 .. n : m \in T
    BY <1>4, <1>14, <2>1, Climb
  <2> QED BY <1>4, <2>2
<1>17. Replay(tree) = u(n)
  BY <1>3, <1>13
<1>18. DOMAIN u(n) = {key(i) : i \in 1 .. n} /\ \A keys \in DOMAIN u(n) : u(n)[keys] = tree[keys]
  BY <1>16
<1>19. {key(i) : i \in 1 .. n} = DOMAIN tree
  BY <1>5, <1>7
<1> QED BY <1>17, <1>18, <1>19

LEMMA WholeFits ==
  ASSUME NEW d, Whole(d),
         \A keys \in DOMAIN d.tree : \A x \in Range(d.tree[keys].items) : x.t \in {"text", "number"},
         \A i \in DOMAIN d.typed :
           /\ Range(Normal(d.typed[i].tokens)) \cap (DOMAIN Dotted \cup DOMAIN Spaced) = {}
           /\ d.typed[i].raw \notin DOMAIN Spaced
           /\ d.typed[i].raw \in DOMAIN Printed => Printed[d.typed[i].raw] = d.typed[i].raw
  PROVE  \A keys \in DOMAIN d.tree : Fitting(keys, d.tree[keys])
<1> SUFFICES ASSUME NEW keys \in DOMAIN d.tree PROVE Fitting(keys, d.tree[keys])
  OBVIOUS
<1> DEFINE v == d.tree[keys]
           cmds == d.typed
<1>1. cmds \in Seq(Passed) /\ FromCommands(d.tree, cmds, Len(cmds))
  BY TreeFromCommands DEF Whole
<1>2. /\ \/ ~Appends(keys) /\ \E x : v = One(x)
         \/ Appends(keys) /\ \E D : \E items \in Seq(D) : v = List(items)
      /\ \A x \in Range(v.items) :
           x = MapItem \/ \E i \in 1 .. Len(cmds) : PathOf(cmds[i]) = keys /\ x = ParseValue(cmds[i].raw)
  BY <1>1 DEF FromCommands
<1>3. ASSUME NEW x \in Range(v.items) PROVE Restores(keys, x)
  <2>1. x.t \in {"text", "number"}
    OBVIOUS
  <2>2. MapItem.t = "map"
    BY DEF MapItem
  <2>3. PICK i \in 1 .. Len(cmds) : PathOf(cmds[i]) = keys /\ x = ParseValue(cmds[i].raw)
    BY <1>2, <2>1, <2>2
  <2>4. i \in DOMAIN cmds /\ cmds[i] \in Passed
    BY <1>1
  <2> DEFINE c == cmds[i]
  <2>5. /\ Range(Normal(c.tokens)) \cap (DOMAIN Dotted \cup DOMAIN Spaced) = {}
        /\ c.raw \notin DOMAIN Spaced
        /\ c.raw \in DOMAIN Printed => Printed[c.raw] = c.raw
    BY <2>4
  <2>6. c \in Passed /\ ParseValue(c.raw).t \in {"text", "number"}
    BY <2>1, <2>3, <2>4
  <2>7. PathOf(c) = keys /\ ParseValue(c.raw) = x
    BY <2>3
  <2> HIDE DEF c
  <2>8. Restores(PathOf(c), ParseValue(c.raw))
    BY <2>5, <2>6, ShownAgain
  <2> QED BY <2>7, <2>8
<1> HIDE DEF v
<1>4. Fitting(keys, v)
  BY <1>2, <1>3 DEF Fitting
<1> QED BY <1>4 DEF v

LEMMA WholeShown ==
  ASSUME Whole(file.doc)
  PROVE  ShownCommandsRestore
<1> DEFINE d == file.doc
<1>1. SUFFICES
        ASSUME \A keys \in DOMAIN d.tree : \A x \in Range(d.tree[keys].items) : x.t \in {"text", "number"},
               \A i \in DOMAIN d.typed :
                 /\ Range(Normal(d.typed[i].tokens)) \cap (DOMAIN Dotted \cup DOMAIN Spaced) = {}
                 /\ d.typed[i].raw \notin DOMAIN Spaced
                 /\ d.typed[i].raw \in DOMAIN Printed => Printed[d.typed[i].raw] = d.typed[i].raw
        PROVE  SameTree(Replay(d.tree), d.tree)
  BY DEF ShownCommandsRestore
<1> HIDE DEF d
<1>2. Whole(d)
  BY DEF d
<1>3. \A keys \in DOMAIN d.tree : Fitting(keys, d.tree[keys])
  BY <1>1, <1>2, WholeFits
<1>4. IsFiniteSet(DOMAIN d.tree) /\ Grown(d.tree)
  BY <1>2, TreeFromCommands, TreeOfGrown DEF Whole, FromCommands
<1> DEFINE tree == d.tree
<1>5. /\ DOMAIN Replay(tree) = DOMAIN tree
      /\ \A keys \in DOMAIN tree : Replay(tree)[keys] = tree[keys]
  <2> HIDE DEF tree
  <2> QED BY <1>3, <1>4, ReplayRestores DEF tree
<1> QED BY <1>5 DEF SameTree

(* What show prints for the candidate (clawgressctl main.go,               *)
(* renderSetCommands) makes the same configuration again when it is typed  *)
(* into an empty one, whatever commands of whatever schema made it: no     *)
(* printed command is refused or read as another one, none takes away what *)
(* another one set, and every list gets all of its items.  Where no value  *)
(* and no name has a blank, the words of a line are the path and the value *)
(* it was printed for.                                                     *)
THEOREM ShownRestores == Spec => []ShownCommandsRestore
<1>1. TypeInv => ShownCommandsRestore
  BY WholeShown DEF TypeInv, Candidates
<1> QED BY <1>1, AlwaysTyped, PTL
=============================================================================
