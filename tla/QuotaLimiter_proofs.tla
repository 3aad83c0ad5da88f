------------------------- MODULE QuotaLimiter_proofs -------------------------
(***************************************************************************)
(* Proofs about QuotaLimiter, for every set of agents and limits, every    *)
(* clock resolution and every bound on time.                               *)
(***************************************************************************)
EXTENDS QuotaLimiter, TLAPS

-----------------------------------------------------------------------------
(* Arithmetic *)

LEMMA Products ==
  ASSUME NEW g \in Nat, NEW x \in Nat
  PROVE  g * x \in Nat /\ x * g \in Nat /\ g * (x + 1) = g * x + g /\ (x + 1) * g = x * g + g
OBVIOUS

LEMMA PositiveProduct ==
  ASSUME NEW g \in Nat, NEW x \in Nat, g > 0, x > 0
  PROVE  g * x > 0
OBVIOUS

LEMMA Units ==
  /\ One \in Nat /\ One > 0
  /\ TicksPerSecond \in Nat /\ SecondsPerMinute \in Nat /\ MaxTime \in Nat
  /\ Limits \subseteq [rps : Nat, rpm : Nat, mode : {"hard_stop", "alert_only"}]
<1>1. /\ TicksPerSecond \in Nat /\ TicksPerSecond > 0
      /\ SecondsPerMinute \in Nat /\ SecondsPerMinute > 0
      /\ Scale \in Nat /\ Scale > 0
  BY LimitAssumption
<1>2. TicksPerSecond * SecondsPerMinute \in Nat /\ TicksPerSecond * SecondsPerMinute > 0
  BY <1>1, Products, PositiveProduct
<1> QED
  BY <1>1, <1>2, LimitAssumption, Products, PositiveProduct DEF One

-----------------------------------------------------------------------------
(* The bucket *)

(* What the bucket would hold if it were refilled at time n.               *)
LevelAt(b, n) ==
  IF b.tokens + (n - b.last) * b.gain > b.cap THEN b.cap ELSE b.tokens + (n - b.last) * b.gain

Filled(b, n) == b \in Buckets /\ b.tokens <= b.cap /\ b.last <= n

LEMMA LevelBounds ==
  ASSUME NEW b, NEW n \in Nat, Filled(b, n)
  PROVE  LevelAt(b, n) \in Nat /\ b.tokens <= LevelAt(b, n) /\ LevelAt(b, n) <= b.cap
<1>1. /\ b.tokens \in Nat /\ b.cap \in Nat /\ b.gain \in Nat /\ b.last \in Nat
      /\ n - b.last \in Nat /\ b.tokens <= b.cap
  BY DEF Filled, Buckets
<1>2. (n - b.last) * b.gain \in Nat
  BY <1>1, Products
<1> QED
  BY <1>1, <1>2 DEF LevelAt

(* Per tick the level rises by what one tick earns, or less.               *)
LEMMA LevelRises ==
  ASSUME NEW b, NEW n \in Nat, Filled(b, n)
  PROVE  LevelAt(b, n + 1) <= LevelAt(b, n) + b.gain
<1>1. /\ b.tokens \in Nat /\ b.cap \in Nat /\ b.gain \in Nat /\ n - b.last \in Nat
      /\ (n + 1) - b.last = (n - b.last) + 1
  BY DEF Filled, Buckets
<1>2. /\ (n - b.last) * b.gain \in Nat
      /\ ((n - b.last) + 1) * b.gain = (n - b.last) * b.gain + b.gain
  BY <1>1, Products
<1> QED
  BY <1>1, <1>2 DEF LevelAt

(* What bucket.allow leaves: the level, less one token if it gave one.     *)
LEMMA ChargedBucket ==
  ASSUME NEW b, now \in Nat, Filled(b, now), b # NoBucket
  PROVE  /\ Filled(Charged(b), now)
         /\ Charged(b).cap = b.cap /\ Charged(b).gain = b.gain
         /\ Allows(b) <=> LevelAt(b, now) >= One
         /\ LevelAt(Charged(b), now) = IF Allows(b) THEN LevelAt(b, now) - One
                                                    ELSE LevelAt(b, now)
<1> DEFINE l == LevelAt(b, now)
           c == Charged(b)
<1>1. l \in Nat /\ l <= b.cap /\ One \in Nat /\ One > 0
  BY LevelBounds, Units
<1>2. Refilled(b) = [b EXCEPT !.tokens = l, !.last = now]
  BY DEF Refilled, LevelAt
<1>3. Refilled(b) \in Buckets /\ Refilled(b).tokens = l /\ Refilled(b).last = now
      /\ Refilled(b).cap = b.cap /\ Refilled(b).gain = b.gain
  BY <1>1, <1>2 DEF Filled, Buckets
<1>4. Allows(b) <=> l >= One
  BY <1>3 DEF Allows
<1>5. /\ c \in Buckets /\ c.last = now /\ c.cap = b.cap /\ c.gain = b.gain
      /\ c.tokens = IF l >= One THEN l - One ELSE l
  <2>1. CASE l >= One
    BY <1>1, <1>3, <2>1 DEF Charged, Buckets
  <2>2. CASE ~(l >= One)
    BY <1>1, <1>3, <2>2 DEF Charged, Buckets
  <2> QED
    BY <2>1, <2>2
<1>6. c.tokens \in Nat /\ c.cap \in Nat /\ c.gain \in Nat /\ c.tokens <= c.cap
  BY <1>1, <1>5 DEF Buckets
<1>7. LevelAt(c, now) = c.tokens
  <2>1. (now - c.last) * c.gain = 0
    BY <1>5, <1>6
  <2> QED
    BY <1>6, <2>1 DEF LevelAt
<1> QED
  BY <1>1, <1>4, <1>5, <1>6, <1>7 DEF Filled

(* A new bucket is full, and there is one exactly for a positive limit.    *)
LEMMA NewBucket ==
  ASSUME NEW l \in Limits \cup {NoLimit}, NEW k \in Kinds, now \in Nat
  PROVE  /\ l[k] \in Nat
         /\ FullBucket(l, k) \in Buckets
         /\ l[k] = 0 => FullBucket(l, k) = NoBucket
         /\ l[k] > 0 => /\ FullBucket(l, k) # NoBucket
                        /\ Filled(FullBucket(l, k), now)
                        /\ FullBucket(l, k).cap = Capacity(l, k) /\ Capacity(l, k) > 0
                        /\ FullBucket(l, k).gain = Gain(l, k)
                        /\ LevelAt(FullBucket(l, k), now) = Capacity(l, k)
<1>1. l.rps \in Nat /\ l.rpm \in Nat /\ l[k] \in Nat
  BY Units DEF NoLimit, Kinds
<1>2. /\ Gain(l, k) \in Nat /\ Capacity(l, k) \in Nat
      /\ l[k] > 0 => Capacity(l, k) > 0
  <2>1. l.rps * SecondsPerMinute \in Nat /\ l[k] * TicksPerSecond \in Nat
    BY <1>1, Units, Products
  <2>2. l[k] > 0 => l[k] * TicksPerSecond > 0
    BY <1>1, Units, PositiveProduct, LimitAssumption
  <2>3. l[k] * TicksPerSecond * SecondsPerMinute \in Nat
    BY <2>1, Units, Products
  <2>4. l[k] > 0 => l[k] * TicksPerSecond * SecondsPerMinute > 0
    BY <2>1, <2>2, Units, PositiveProduct, LimitAssumption
  <2> QED
    BY <1>1, <2>1, <2>3, <2>4 DEF Gain, Capacity
<1>3. NoBucket \in Buckets
  BY DEF NoBucket, Buckets
<1>4. CASE l[k] > 0
  <2> DEFINE b == FullBucket(l, k)
  <2>1. b = [tokens |-> Capacity(l, k), cap |-> Capacity(l, k), gain |-> Gain(l, k), last |-> now]
    BY <1>4 DEF FullBucket
  <2>2. b \in Buckets /\ b.cap > 0
    BY <1>2, <1>4, <2>1 DEF Buckets
  <2>3. b # NoBucket
    BY <2>2 DEF NoBucket
  <2>4. (now - now) * b.gain = 0
    BY <2>2 DEF Buckets
  <2>5. LevelAt(b, now) = Capacity(l, k)
    BY <1>2, <2>1, <2>4 DEF LevelAt
  <2> QED
    BY <1>1, <1>2, <1>4, <2>1, <2>2, <2>3, <2>5 DEF Filled
<1>5. CASE l[k] = 0
  BY <1>1, <1>3, <1>5 DEF FullBucket
<1> QED
  BY <1>1, <1>4, <1>5

-----------------------------------------------------------------------------
(***************************************************************************)
(* The invariant.  Within a window, the tokens a bucket gave plus what it  *)
(* holds now stay within its capacity plus what the window earned, and     *)
(* under hard_stop an admitted request took a token from every bucket.     *)
(***************************************************************************)
Earned(a, k) == Gain(limit[a], k) * (now - window[a])

Matches(b, l, k) == b # NoBucket /\ Filled(b, now) /\ b.cap = Capacity(l, k) /\ b.gain = Gain(l, k)

BucketOK(a, k) ==
  /\ limit[a][k] = 0 => bucket[a][k] = NoBucket
  /\ limit[a][k] > 0 =>
       /\ Matches(bucket[a][k], limit[a], k)
       /\ spent[a][k] * One + LevelAt(bucket[a][k], now) <= Capacity(limit[a], k) + Earned(a, k)
       /\ limit[a].mode = "hard_stop" => admitted[a] <= spent[a][k]

RateInv ==
  /\ \A a \in Agents : window[a] <= now
  /\ \A a \in Agents, k \in Kinds : BucketOK(a, k)

(* Every reachable state has the declared types; in particular a bucket    *)
(* never holds a negative number of tokens.                                *)
LEMMA TypeInit == Init => TypeOK /\ RateInv
<1> SUFFICES ASSUME Init PROVE TypeOK /\ RateInv
  OBVIOUS
<1>1. NoBucket \in Buckets
  BY DEF NoBucket, Buckets
<1>2. \A a \in Agents, k \in Kinds : limit[a][k] = 0
  BY DEF Init, NoLimit, Kinds
<1>3. TypeOK
  BY <1>1, Units DEF Init, TypeOK
<1>4. RateInv
  BY <1>2 DEF Init, RateInv, BucketOK
<1> QED
  BY <1>3, <1>4

LEMMA TickKeeps ==
  ASSUME TypeOK, RateInv, Tick
  PROVE  TypeOK' /\ RateInv'
<1>1. now \in Nat /\ now' = now + 1 /\ now' \in 0 .. MaxTime
  BY Units DEF Tick, TypeOK
<1>2. TypeOK'
  BY <1>1 DEF Tick, TypeOK
<1>3. ASSUME NEW a \in Agents, NEW k \in Kinds PROVE BucketOK(a, k)'
  <2> DEFINE b == bucket[a][k]
             gain == Gain(limit[a], k)
             w == now - window[a]
  <2>1. BucketOK(a, k) /\ w \in Nat /\ limit[a] \in Limits \cup {NoLimit}
    BY <1>1 DEF RateInv, TypeOK
  <2>2. CASE limit[a][k] > 0
    <3>1. Matches(b, limit[a], k) /\ spent[a][k] * One \in Nat /\ b \in Buckets
      BY <2>1, <2>2, Units, Products DEF BucketOK, Matches, Filled, TypeOK
    <3>2. /\ Matches(b, limit[a], k)'
          /\ LevelAt(b, now + 1) <= LevelAt(b, now) + gain
          /\ LevelAt(b, now) \in Nat /\ LevelAt(b, now + 1) \in Nat /\ gain \in Nat
      BY <1>1, <3>1, LevelBounds, LevelRises DEF Matches, Filled, Buckets, Tick
    <3>3. Earned(a, k)' = Earned(a, k) + gain /\ Earned(a, k) \in Nat
      <4>1. now' - window[a] = w + 1
        BY <1>1, <2>1 DEF TypeOK
      <4> QED
        BY <2>1, <3>2, <4>1, Products DEF Earned, Tick
    <3>4. Capacity(limit[a], k) \in Nat
      BY <3>1 DEF Matches, Filled, Buckets
    <3>5. spent[a][k] * One + LevelAt(b, now + 1) <= Capacity(limit[a], k) + Earned(a, k)'
      BY <2>1, <2>2, <3>1, <3>2, <3>3, <3>4 DEF BucketOK
    <3> QED
      BY <1>1, <2>1, <2>2, <3>2, <3>5 DEF BucketOK, Tick
  <2>3. CASE ~(limit[a][k] > 0)
    BY <2>1, <2>3 DEF BucketOK, Tick
  <2> QED
    BY <2>2, <2>3
<1>4. \A a \in Agents : window'[a] <= now'
  BY <1>1 DEF RateInv, Tick, TypeOK
<1> QED
  BY <1>2, <1>3, <1>4 DEF RateInv

LEMMA OpenWindowKeeps ==
  ASSUME TypeOK, RateInv, NEW w \in Agents, OpenWindow(w)
  PROVE  TypeOK' /\ RateInv'
<1>1. now \in Nat
  BY Units DEF TypeOK
<1>2. TypeOK'
  BY <1>1 DEF OpenWindow, TypeOK
<1>3. ASSUME NEW a \in Agents, NEW k \in Kinds PROVE BucketOK(a, k)'
  <2>1. BucketOK(a, k)
    BY DEF RateInv
  <2>2. CASE a # w
    BY <2>1, <2>2 DEF OpenWindow, BucketOK, Matches, Earned, TypeOK
  <2>3. CASE a = w /\ limit[a][k] > 0
    <3>1. Matches(bucket[a][k], limit[a], k)
      BY <2>1, <2>3 DEF BucketOK
    <3>2. /\ LevelAt(bucket[a][k], now) \in Nat
          /\ LevelAt(bucket[a][k], now) <= Capacity(limit[a], k)
          /\ Capacity(limit[a], k) \in Nat /\ Gain(limit[a], k) \in Nat
      BY <1>1, <3>1, LevelBounds DEF Matches, Filled, Buckets
    <3>3. window'[a] = now /\ spent'[a][k] = 0 /\ admitted'[a] = 0 /\ now' = now
          /\ limit' = limit /\ bucket' = bucket
      BY <2>3 DEF OpenWindow, TypeOK
    <3>4. Earned(a, k)' = 0
      BY <1>1, <3>2, <3>3 DEF Earned
    <3>5. spent'[a][k] * One = 0
      BY <3>3, Units
    <3>6. Matches(bucket[a][k], limit[a], k)'
      BY <3>1, <3>3 DEF Matches
    <3> QED
      BY <2>3, <3>2, <3>3, <3>4, <3>5, <3>6 DEF BucketOK
  <2>4. CASE a = w /\ ~(limit[a][k] > 0)
    BY <2>1, <2>4 DEF OpenWindow, BucketOK
  <2> QED
    BY <2>2, <2>3, <2>4
<1>4. \A a \in Agents : window'[a] <= now'
  BY <1>1 DEF RateInv, OpenWindow, TypeOK
<1> QED
  BY <1>2, <1>3, <1>4 DEF RateInv

LEMMA RestartKeeps ==
  ASSUME TypeOK, RateInv, NEW S \in SUBSET Agents,
         NEW l \in [Agents -> Limits \cup {NoLimit}], Restart(S, l),
         \A a \in Agents \ S : l[a] = limit[a]
  PROVE  TypeOK' /\ RateInv'
<1>1. now \in Nat /\ now' = now
  BY Units DEF TypeOK, Restart
<1>2. ASSUME NEW a \in Agents, NEW k \in Kinds
      PROVE  bucket'[a][k] = IF a \in S THEN FullBucket(l[a], k) ELSE bucket[a][k]
  BY DEF Restart, FullBuckets, TypeOK
<1>3. TypeOK'
  <2>1. ASSUME NEW a \in Agents PROVE FullBuckets(l[a]) \in [Kinds -> Buckets]
    BY <1>1, NewBucket DEF FullBuckets
  <2>2. bucket' \in [Agents -> [Kinds -> Buckets]]
    BY <2>1 DEF Restart, TypeOK
  <2>3. /\ spent' \in [Agents -> [Kinds -> Nat]]
        /\ lastSpent' \in [Agents -> [Kinds -> Nat]]
    BY <1>1 DEF Restart, TypeOK
  <2>4. /\ window' \in [Agents -> Nat] /\ admitted' \in [Agents -> Nat]
    BY <1>1 DEF Restart, TypeOK
  <2> QED
    BY <1>1, <2>2, <2>3, <2>4 DEF Restart, TypeOK
<1>4. ASSUME NEW a \in Agents, NEW k \in Kinds PROVE BucketOK(a, k)'
  <2>1. BucketOK(a, k) /\ limit'[a] = l[a] /\ l[a] \in Limits \cup {NoLimit}
    BY DEF RateInv, Restart
  <2>2. CASE a \notin S
    <3>1. /\ bucket'[a][k] = bucket[a][k] /\ limit'[a] = limit[a] /\ window'[a] = window[a]
          /\ spent'[a][k] = spent[a][k] /\ admitted'[a] = admitted[a]
      BY <1>2, <2>1, <2>2 DEF Restart
    <3> QED
      BY <1>1, <2>1, <3>1 DEF BucketOK, Matches, Earned
  <2>3. CASE a \in S
    <3>1. /\ bucket'[a][k] = FullBucket(l[a], k) /\ window'[a] = now
          /\ spent'[a][k] = 0 /\ admitted'[a] = 0
      BY <1>2, <2>3 DEF Restart
    <3>2. l[a][k] > 0 => Matches(bucket[a][k], limit[a], k)'
      BY <1>1, <2>1, <3>1, NewBucket DEF Matches
    <3>3. ASSUME l[a][k] > 0
          PROVE  /\ Earned(a, k)' = 0 /\ spent'[a][k] * One = 0
                 /\ LevelAt(bucket'[a][k], now) = Capacity(l[a], k)
                 /\ Capacity(l[a], k) \in Nat
      <4>1. FullBucket(l[a], k) \in Buckets /\ FullBucket(l[a], k).gain = Gain(l[a], k)
            /\ FullBucket(l[a], k).cap = Capacity(l[a], k)
            /\ LevelAt(FullBucket(l[a], k), now) = Capacity(l[a], k)
        BY <1>1, <2>1, <3>3, NewBucket
      <4>2. Gain(l[a], k) \in Nat /\ Capacity(l[a], k) \in Nat
        BY <4>1 DEF Buckets
      <4>3. Gain(l[a], k) * (now - now) = 0
        BY <1>1, <4>2
      <4> QED
        BY <1>1, <2>1, <3>1, <4>1, <4>2, <4>3, Units DEF Earned
    <3>4. l[a][k] = 0 => bucket'[a][k] = NoBucket
      BY <1>1, <2>1, <3>1, NewBucket
    <3> QED
      BY <1>1, <2>1, <3>1, <3>2, <3>3, <3>4 DEF BucketOK
  <2> QED
    BY <2>2, <2>3
<1>5. \A a \in Agents : window'[a] <= now'
  BY <1>1 DEF RateInv, Restart, TypeOK
<1> QED
  BY <1>3, <1>4, <1>5 DEF RateInv

LEMMA CheckKeeps ==
  ASSUME TypeOK, RateInv, NEW c \in Agents, Check(c)
  PROVE  TypeOK' /\ RateInv'
<1> DEFINE secOK == Allows(bucket[c]["rps"])
           minOK == Allows(bucket[c]["rpm"])
           asked(k) == k = "rps" \/ secOK
           taken(k) == asked(k) /\ bucket[c][k] # NoBucket /\ Allows(bucket[c][k])
           admit == (secOK /\ minOK) \/ limit[c].mode = "alert_only"
<1>1. now \in Nat /\ now' = now /\ limit' = limit /\ window' = window
  BY Units DEF TypeOK, Check
<1>2. ASSUME NEW k \in Kinds
      PROVE  /\ bucket'[c][k] = IF asked(k) THEN Charged(bucket[c][k]) ELSE bucket[c][k]
             /\ spent'[c][k] = IF taken(k) THEN spent[c][k] + 1 ELSE spent[c][k]
  BY DEF Check, TypeOK
<1>3. /\ admitted'[c] = IF admit THEN admitted[c] + 1 ELSE admitted[c]
      /\ admitted[c] \in Nat
  BY DEF Check, TypeOK
<1>4. ASSUME NEW a \in Agents \ {c}
      PROVE  bucket'[a] = bucket[a] /\ spent'[a] = spent[a] /\ admitted'[a] = admitted[a]
  BY DEF Check, TypeOK
<1>5. ASSUME NEW k \in Kinds
      PROVE  /\ bucket[c][k] \in Buckets /\ spent[c][k] \in Nat /\ BucketOK(c, k)
             /\ limit[c][k] \in Nat
             /\ limit[c][k] = 0 => bucket[c][k] = NoBucket
             /\ limit[c][k] > 0 => bucket[c][k] # NoBucket /\ Filled(bucket[c][k], now)
  <2>1. BucketOK(c, k) /\ limit[c] \in Limits \cup {NoLimit}
    BY DEF RateInv, TypeOK
  <2>2. limit[c][k] \in Nat
    BY <1>1, <2>1, NewBucket
  <2> QED
    BY <2>1, <2>2 DEF TypeOK, BucketOK, Matches
<1>6. ASSUME NEW k \in Kinds PROVE Charged(bucket[c][k]) \in Buckets
  <2>1. CASE limit[c][k] > 0
    BY <1>1, <1>5, <2>1, ChargedBucket DEF Filled
  <2>2. CASE limit[c][k] = 0
    BY <1>5, <2>2 DEF Charged
  <2> QED
    BY <1>5, <2>1, <2>2
<1>7. TypeOK'
  <2>1. /\ bucket' \in [Agents -> [Kinds -> Buckets]]
        /\ spent' \in [Agents -> [Kinds -> Nat]]
        /\ lastSpent' \in [Agents -> [Kinds -> Nat]]
    BY <1>1, <1>5, <1>6 DEF Check, TypeOK
  <2>2. admitted' \in [Agents -> Nat]
    BY DEF Check, TypeOK
  <2> QED
    BY <1>1, <2>1, <2>2 DEF TypeOK
<1>8. ASSUME NEW k \in Kinds, limit[c][k] > 0
      PROVE  /\ Matches(bucket[c][k], limit[c], k)'
             /\ spent'[c][k] * One + LevelAt(bucket'[c][k], now)
                  = spent[c][k] * One + LevelAt(bucket[c][k], now)
             /\ taken(k) <=> asked(k) /\ Allows(bucket[c][k])
  <2> DEFINE b == bucket[c][k]
  <2>1. /\ b # NoBucket /\ Filled(b, now) /\ Matches(b, limit[c], k)
        /\ spent[c][k] \in Nat /\ LevelAt(b, now) \in Nat
    BY <1>1, <1>5, <1>8, LevelBounds DEF BucketOK
  <2>2. taken(k) <=> asked(k) /\ Allows(b)
    BY <2>1
  <2>3. CASE asked(k)
    <3>1. bucket'[c][k] = Charged(b) /\ Charged(b) # NoBucket
      <4>1. Charged(b).cap = b.cap
        BY <1>1, <2>1, ChargedBucket
      <4>2. b.cap # 0
        BY <1>1, <1>8, <2>1, NewBucket DEF Matches, TypeOK
      <4> QED
        BY <1>2, <2>3, <4>1, <4>2 DEF NoBucket
    <3>2. Matches(bucket[c][k], limit[c], k)'
      BY <1>1, <2>1, <3>1, ChargedBucket DEF Matches
    <3>3. CASE Allows(b)
      <4>1. spent'[c][k] = spent[c][k] + 1
        BY <1>2, <2>2, <2>3, <3>3
      <4>2. LevelAt(bucket'[c][k], now) = LevelAt(b, now) - One
        BY <1>1, <2>1, <3>1, <3>3, ChargedBucket
      <4>3. (spent[c][k] + 1) * One = spent[c][k] * One + One /\ spent[c][k] * One \in Nat
        BY <2>1, Units, Products
      <4> QED
        BY <2>1, <2>2, <3>2, <4>1, <4>2, <4>3, Units
    <3>4. CASE ~Allows(b)
      <4>1. spent'[c][k] = spent[c][k]
        BY <1>2, <2>2, <3>4
      <4>2. LevelAt(bucket'[c][k], now) = LevelAt(b, now)
        BY <1>1, <2>1, <3>1, <3>4, ChargedBucket
      <4> QED
        BY <2>2, <3>2, <4>1, <4>2
    <3> QED
      BY <3>3, <3>4
  <2>4. CASE ~asked(k)
    BY <1>1, <1>2, <2>1, <2>2, <2>4 DEF Matches
  <2> QED
    BY <2>3, <2>4
<1>9. ASSUME NEW a \in Agents, NEW k \in Kinds PROVE BucketOK(a, k)'
  <2>1. CASE a # c
    <3>1. BucketOK(a, k)
      BY DEF RateInv
    <3> QED
      BY <1>1, <1>4, <2>1, <3>1 DEF BucketOK, Matches, Earned
  <2>2. CASE a = c /\ limit[a][k] = 0
    <3>1. bucket[c][k] = NoBucket /\ Charged(bucket[c][k]) = bucket[c][k]
      BY <1>5, <2>2 DEF Charged
    <3> QED
      BY <1>1, <1>2, <2>2, <3>1 DEF BucketOK
  <2>3. CASE a = c /\ limit[a][k] > 0
    <3>1. /\ spent[c][k] * One + LevelAt(bucket[c][k], now)
               <= Capacity(limit[c], k) + Earned(c, k)
          /\ limit[c].mode = "hard_stop" => admitted[c] <= spent[c][k]
      BY <1>5, <2>3 DEF BucketOK
    <3>2. Earned(c, k)' = Earned(c, k)
      BY <1>1 DEF Earned
    <3>3. ASSUME limit[c].mode = "hard_stop" PROVE admitted'[c] <= spent'[c][k]
      <4>1. CASE admit
        <5>1. secOK /\ minOK
          BY <3>3, <4>1
        <5>2. asked(k) /\ Allows(bucket[c][k])
          BY <5>1 DEF Kinds
        <5> QED
          BY <1>2, <1>3, <1>5, <1>8, <2>3, <3>1, <3>3, <4>1, <5>2
      <4>2. CASE ~admit
        BY <1>2, <1>3, <1>5, <3>1, <3>3, <4>2
      <4> QED
        BY <4>1, <4>2
    <3> QED
      BY <1>1, <1>8, <2>3, <3>1, <3>2, <3>3 DEF BucketOK
  <2> QED
    BY <1>5, <2>1, <2>2, <2>3
<1>10. \A a \in Agents : window'[a] <= now'
  BY <1>1 DEF RateInv
<1> QED
  BY <1>7, <1>9, <1>10 DEF RateInv

LEMMA RateInvNext == TypeOK /\ RateInv /\ [Next]_vars => TypeOK' /\ RateInv'
<1> SUFFICES ASSUME TypeOK, RateInv, [Next]_vars PROVE TypeOK' /\ RateInv'
  OBVIOUS
<1>1. ASSUME NEW a \in Agents, NEW l \in Limits, Set(a, l) PROVE TypeOK' /\ RateInv'
  <2> DEFINE f == [limit EXCEPT ![a] = l]
  <2>1. f \in [Agents -> Limits \cup {NoLimit}] /\ \A b \in Agents \ {a} : f[b] = limit[b]
    BY DEF TypeOK
  <2> QED
    BY <1>1, <2>1, RestartKeeps DEF Set
<1>2. ASSUME NEW a \in Agents, Remove(a) PROVE TypeOK' /\ RateInv'
  <2> DEFINE f == [limit EXCEPT ![a] = NoLimit]
  <2>1. f \in [Agents -> Limits \cup {NoLimit}] /\ \A b \in Agents \ {a} : f[b] = limit[b]
    BY DEF TypeOK
  <2> QED
    BY <1>2, <2>1, RestartKeeps DEF Remove
<1>3. ASSUME NEW file \in [Agents -> Limits \cup {NoLimit}], Load(file)
      PROVE  TypeOK' /\ RateInv'
  BY <1>3, RestartKeeps DEF Load
<1>4. CASE UNCHANGED vars
  <2>1. TypeOK'
    BY <1>4 DEF TypeOK, vars
  <2>2. RateInv'
    BY <1>4 DEF RateInv, BucketOK, Matches, Earned, vars
  <2> QED
    BY <2>1, <2>2
<1> QED
  BY <1>1, <1>2, <1>3, <1>4, TickKeeps, OpenWindowKeeps, CheckKeeps DEF Next

LEMMA RateInvHolds == Spec => [](TypeOK /\ RateInv)
BY TypeInit, RateInvNext, PTL DEF Spec

(* Every reachable state has the declared types: no bucket goes negative   *)
(* or is refilled by a clock that runs backwards.                          *)
THEOREM TypeCorrect == Spec => []TypeOK
BY RateInvHolds, PTL

(* Whatever the limits, the clock and the order of the calls: a hard_stop  *)
(* agent is never admitted more often, in any window of time in which its  *)
(* buckets are not rebuilt, than one full bucket and the rate allow.       *)
THEOREM AdmissionIsBounded == Spec => []AdmittedBound
<1>1. TypeOK /\ RateInv => AdmittedBound
  <2> SUFFICES ASSUME TypeOK, RateInv, NEW a \in Agents, NEW k \in Kinds, HardStopped(a, k)
               PROVE  admitted[a] * One
                        <= Capacity(limit[a], k) + Gain(limit[a], k) * (now - window[a])
    BY DEF AdmittedBound
  <2>1. /\ admitted[a] <= spent[a][k] /\ admitted[a] \in Nat /\ spent[a][k] \in Nat
        /\ spent[a][k] * One + LevelAt(bucket[a][k], now) <= Capacity(limit[a], k) + Earned(a, k)
        /\ Matches(bucket[a][k], limit[a], k) /\ now \in Nat
    BY Units DEF RateInv, BucketOK, HardStopped, TypeOK
  <2>2. LevelAt(bucket[a][k], now) \in Nat /\ Capacity(limit[a], k) \in Nat
    BY <2>1, LevelBounds DEF Matches, Filled, Buckets
  <2>3. Earned(a, k) \in Nat
    <3>1. now - window[a] \in Nat /\ Gain(limit[a], k) \in Nat
      BY <2>1 DEF RateInv, TypeOK, Matches, Filled, Buckets
    <3> QED
      BY <3>1, Products DEF Earned
  <2>4. /\ admitted[a] * One <= spent[a][k] * One
        /\ admitted[a] * One \in Nat /\ spent[a][k] * One \in Nat
    <3>1. spent[a][k] - admitted[a] \in Nat
      BY <2>1
    <3>2. (spent[a][k] - admitted[a]) * One \in Nat
      BY <3>1, Units, Products
    <3>3. (spent[a][k] - admitted[a]) * One = spent[a][k] * One - admitted[a] * One
      BY <2>1, Units
    <3>4. admitted[a] * One \in Nat /\ spent[a][k] * One \in Nat
      BY <2>1, Units, Products
    <3> QED
      BY <3>2, <3>3, <3>4
  <2> QED
    BY <2>1, <2>2, <2>3, <2>4 DEF Earned
<1> QED
  BY <1>1, RateInvHolds, PTL

-----------------------------------------------------------------------------
(***************************************************************************)
(* What was earned is kept: since its last token a bucket has gained all   *)
(* that the time was worth, or it is full.                                 *)
(***************************************************************************)
KeptOK(a, k) ==
  limit[a][k] > 0 =>
    /\ lastSpent[a][k] <= now
    /\ \/ LevelAt(bucket[a][k], now) = bucket[a][k].cap
       \/ LevelAt(bucket[a][k], now) >= Gain(limit[a], k) * (now - lastSpent[a][k])

KeptInv == \A a \in Agents, k \in Kinds : KeptOK(a, k)

(* A level at the capacity stays there, one below it gains the whole rate. *)
LEMMA LevelGains ==
  ASSUME NEW b, NEW n \in Nat, Filled(b, n)
  PROVE  \/ LevelAt(b, n + 1) = b.cap
         \/ LevelAt(b, n) # b.cap /\ LevelAt(b, n + 1) = LevelAt(b, n) + b.gain
<1>1. /\ b.tokens \in Nat /\ b.cap \in Nat /\ b.gain \in Nat /\ n - b.last \in Nat
      /\ (n + 1) - b.last = (n - b.last) + 1 /\ b.tokens <= b.cap
  BY DEF Filled, Buckets
<1>2. /\ (n - b.last) * b.gain \in Nat
      /\ ((n - b.last) + 1) * b.gain = (n - b.last) * b.gain + b.gain
  BY <1>1, Products
<1> QED
  BY <1>1, <1>2 DEF LevelAt

LEMMA BucketHere ==
  ASSUME TypeOK, RateInv, NEW a \in Agents, NEW k \in Kinds, limit[a][k] > 0
  PROVE  /\ now \in Nat /\ lastSpent[a][k] \in Nat
         /\ bucket[a][k] # NoBucket /\ Filled(bucket[a][k], now)
         /\ bucket[a][k].cap = Capacity(limit[a], k) /\ Capacity(limit[a], k) \in Nat
         /\ bucket[a][k].gain = Gain(limit[a], k) /\ Gain(limit[a], k) \in Nat
         /\ LevelAt(bucket[a][k], now) \in Nat
<1>1. now \in Nat /\ lastSpent[a][k] \in Nat
  BY Units DEF TypeOK
<1>2. Matches(bucket[a][k], limit[a], k)
  BY DEF RateInv, BucketOK
<1> QED
  BY <1>1, <1>2, LevelBounds DEF Matches, Filled, Buckets

LEMMA TickKeepsKept == TypeOK /\ RateInv /\ KeptInv /\ Tick => KeptInv'
<1> SUFFICES ASSUME TypeOK, RateInv, KeptInv, Tick, NEW a \in Agents, NEW k \in Kinds,
                    limit[a][k] > 0
             PROVE  KeptOK(a, k)'
  BY DEF KeptInv, KeptOK, Tick
<1> DEFINE b == bucket[a][k]
           g == Gain(limit[a], k)
           d == now - lastSpent[a][k]
<1>1. now' = now + 1 /\ b' = b /\ g' = g /\ lastSpent' = lastSpent /\ limit' = limit
  BY DEF Tick, Gain
<1>2. KeptOK(a, k)
  BY DEF KeptInv
<1>3. d \in Nat /\ now' - lastSpent[a][k] = d + 1
  BY <1>1, <1>2, BucketHere DEF KeptOK
<1>4. g * (d + 1) = g * d + g /\ g * d \in Nat
  BY <1>3, BucketHere, Products
<1>5. \/ LevelAt(b, now + 1) = b.cap
      \/ LevelAt(b, now) # b.cap /\ LevelAt(b, now + 1) = LevelAt(b, now) + g
  BY BucketHere, LevelGains
<1>6. LevelAt(b, now + 1) = b.cap \/ LevelAt(b, now + 1) >= g * (d + 1)
  BY <1>2, <1>4, <1>5, BucketHere DEF KeptOK
<1>7. lastSpent'[a][k] <= now'
  BY <1>1, <1>2, BucketHere DEF KeptOK
<1> QED
  BY <1>1, <1>3, <1>6, <1>7 DEF KeptOK

LEMMA RestartKeepsKept ==
  ASSUME TypeOK, RateInv, KeptInv, NEW S \in SUBSET Agents,
         NEW l \in [Agents -> Limits \cup {NoLimit}], Restart(S, l),
         \A a \in Agents \ S : l[a] = limit[a]
  PROVE  KeptInv'
<1> SUFFICES ASSUME NEW a \in Agents, NEW k \in Kinds PROVE KeptOK(a, k)'
  BY DEF KeptInv
<1>1. now' = now /\ now \in Nat /\ limit' = l
  BY Units DEF Restart, TypeOK
<1>2. CASE a \notin S
  <2>1. bucket'[a] = bucket[a] /\ lastSpent'[a] = lastSpent[a] /\ limit'[a] = limit[a]
    BY <1>1, <1>2 DEF Restart
  <2> QED
    BY <1>1, <2>1 DEF KeptInv, KeptOK
<1>3. CASE a \in S
  <2>1. bucket'[a][k] = FullBucket(l[a], k) /\ lastSpent'[a][k] = now /\ limit'[a] = l[a]
    BY <1>1, <1>3 DEF Restart, FullBuckets
  <2>2. l[a][k] > 0 => LevelAt(FullBucket(l[a], k), now) = FullBucket(l[a], k).cap
    BY <1>1, NewBucket
  <2> QED
    BY <1>1, <2>1, <2>2 DEF KeptOK
<1> QED
  BY <1>2, <1>3

LEMMA CheckKeepsKept ==
  ASSUME TypeOK, RateInv, KeptInv, NEW c \in Agents, Check(c)
  PROVE  KeptInv'
<1> SUFFICES ASSUME NEW a \in Agents, NEW k \in Kinds, limit[a][k] > 0
             PROVE  KeptOK(a, k)'
  BY DEF KeptInv, KeptOK, Check
<1> DEFINE b == bucket[a][k]
           secOK == Allows(bucket[c]["rps"])
           asked(j) == j = "rps" \/ secOK
           taken(j) == asked(j) /\ bucket[c][j] # NoBucket /\ Allows(bucket[c][j])
<1>1. now' = now /\ limit' = limit /\ KeptOK(a, k)
  BY DEF Check, KeptInv
<1>2. CASE a # c
  <2>1. bucket'[a] = bucket[a] /\ lastSpent'[a] = lastSpent[a]
    BY <1>2 DEF Check, TypeOK
  <2> QED
    BY <1>1, <2>1 DEF KeptOK
<1>3. CASE a = c
  <2>1. /\ bucket'[a][k] = IF asked(k) THEN Charged(b) ELSE b
        /\ lastSpent'[a][k] = IF taken(k) THEN now ELSE lastSpent[a][k]
    BY <1>3 DEF Check, TypeOK
  <2>2. /\ Charged(b).cap = b.cap
        /\ ~Allows(b) => LevelAt(Charged(b), now) = LevelAt(b, now)
        /\ Filled(Charged(b), now)
    BY BucketHere, ChargedBucket
  <2>3. CASE taken(k)
    <3>1. bucket'[a][k] = Charged(b) /\ lastSpent'[a][k] = now
      BY <2>1, <2>3
    <3>2. Gain(limit[a], k) * (now - now) = 0 /\ LevelAt(Charged(b), now) \in Nat
      BY <2>2, BucketHere, LevelBounds
    <3> QED
      BY <1>1, <3>1, <3>2, BucketHere DEF KeptOK
  <2>4. CASE ~taken(k)
    <3>1. /\ lastSpent'[a][k] = lastSpent[a][k]
          /\ LevelAt(bucket'[a][k], now) = LevelAt(b, now) /\ bucket'[a][k].cap = b.cap
      BY <1>3, <2>1, <2>2, <2>4, BucketHere
    <3> QED
      BY <1>1, <3>1 DEF KeptOK
  <2> QED
    BY <2>3, <2>4
<1> QED
  BY <1>2, <1>3

LEMMA KeptInvNext == TypeOK /\ RateInv /\ KeptInv /\ [Next]_vars => KeptInv'
<1> SUFFICES ASSUME TypeOK, RateInv, KeptInv, [Next]_vars PROVE KeptInv'
  OBVIOUS
<1>1. ASSUME NEW a \in Agents, NEW l \in Limits, Set(a, l) PROVE KeptInv'
  <2> DEFINE f == [limit EXCEPT ![a] = l]
  <2>1. f \in [Agents -> Limits \cup {NoLimit}] /\ \A b \in Agents \ {a} : f[b] = limit[b]
    BY DEF TypeOK
  <2> QED
    BY <1>1, <2>1, RestartKeepsKept DEF Set
<1>2. ASSUME NEW a \in Agents, Remove(a) PROVE KeptInv'
  <2> DEFINE f == [limit EXCEPT ![a] = NoLimit]
  <2>1. f \in [Agents -> Limits \cup {NoLimit}] /\ \A b \in Agents \ {a} : f[b] = limit[b]
    BY DEF TypeOK
  <2> QED
    BY <1>2, <2>1, RestartKeepsKept DEF Remove
<1>3. ASSUME NEW file \in [Agents -> Limits \cup {NoLimit}], Load(file) PROVE KeptInv'
  BY <1>3, RestartKeepsKept DEF Load
<1>4. ASSUME NEW a \in Agents, OpenWindow(a) PROVE KeptInv'
  BY <1>4 DEF OpenWindow, KeptInv, KeptOK
<1>5. CASE UNCHANGED vars
  BY <1>5 DEF KeptInv, KeptOK, vars
<1> QED
  BY <1>1, <1>2, <1>3, <1>4, <1>5, TickKeepsKept, CheckKeepsKept DEF Next

(* A refused client loses nothing by asking again: whatever the limits, of *)
(* at least one request, the clock and the order of the calls, a bucket    *)
(* allows as soon as one token's time has passed since it gave the last.   *)
THEOREM EarnedTokensAreKept == Spec => []PollingRestores
<1>1. Init => KeptInv
  <2>1. Init => \A a \in Agents, k \in Kinds : limit[a][k] = 0
    BY DEF Init, NoLimit, Kinds
  <2> QED
    BY <2>1 DEF KeptInv, KeptOK
<1>2. TypeOK /\ RateInv /\ KeptInv => PollingRestores
  <2> SUFFICES ASSUME TypeOK, RateInv, KeptInv, NEW a \in Agents, NEW k \in Kinds,
                      limit[a][k] >= Scale,
                      Gain(limit[a], k) * (now - lastSpent[a][k]) >= One
               PROVE  Allows(bucket[a][k])
    BY DEF PollingRestores, Restored
  <2>1. Scale \in Nat /\ Scale > 0 /\ limit[a][k] \in Nat /\ limit[a][k] > 0
    <3>1. limit[a][k] \in Nat
      BY Units, NewBucket DEF TypeOK
    <3> QED
      BY <3>1, LimitAssumption
  <2>2. Capacity(limit[a], k) >= One
    <3>1. One = Scale * TicksPerSecond * SecondsPerMinute
      BY <2>1, Units DEF One
    <3>2. limit[a][k] - Scale \in Nat
      BY <2>1
    <3>3. (limit[a][k] - Scale) * TicksPerSecond \in Nat
      BY <3>2, Units, Products
    <3>4. (limit[a][k] - Scale) * TicksPerSecond * SecondsPerMinute \in Nat
      BY <3>3, Units, Products
    <3>5. (limit[a][k] - Scale) * TicksPerSecond * SecondsPerMinute
            = limit[a][k] * TicksPerSecond * SecondsPerMinute
              - Scale * TicksPerSecond * SecondsPerMinute
      BY <2>1, Units
    <3>6. Scale * TicksPerSecond * SecondsPerMinute \in Nat
      BY <3>1, Units
    <3>7. limit[a][k] * TicksPerSecond * SecondsPerMinute \in Int
      BY <2>1, Units
    <3> QED
      BY <3>1, <3>4, <3>5, <3>6, <3>7 DEF Capacity
  <2>3. LevelAt(bucket[a][k], now) >= One
    <3>1. KeptOK(a, k)
      BY DEF KeptInv
    <3>2. now - lastSpent[a][k] \in Nat
      BY <2>1, <3>1, BucketHere DEF KeptOK
    <3>3. Gain(limit[a], k) * (now - lastSpent[a][k]) \in Nat
      BY <2>1, <3>2, BucketHere, Products
    <3> QED
      BY <2>1, <2>2, <3>1, <3>3, BucketHere, Units DEF KeptOK
  <2> QED
    BY <2>1, <2>3, BucketHere, ChargedBucket
<1> QED
  BY <1>1, <1>2, KeptInvNext, RateInvHolds, PTL DEF Spec
=============================================================================
