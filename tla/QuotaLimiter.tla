---------------------------- MODULE QuotaLimiter ----------------------------
(***************************************************************************)
(* quota.Limiter: for each agent with a limit, a token bucket per second   *)
(* and one per minute, refilled lazily by Check.  Every method holds the   *)
(* mutex, so each is one action; time is an integer clock.                 *)
(*                                                                         *)
(* The float64 tokens are integers in a unit small enough for every amount *)
(* to be exact: a limit is given as an integer v that means v/Scale        *)
(* requests, and a token is One units.  Rounding of float64 is left out.   *)
(***************************************************************************)
EXTENDS Integers

CONSTANTS
  Agents,
  Limits,            \* limits the administrator may set; see LimitAssumption
  TicksPerSecond,    \* resolution of the clock
  SecondsPerMinute,  \* 60 in the code
  Scale,             \* a limit of v means v/Scale requests
  MaxTime,           \* bound: ticks
  MaxAdmitted        \* bound: requests admitted per agent in a window

Kinds == {"rps", "rpm"}

(* A limit is stored by POST /v1/quotas only when a rate is positive.      *)
ASSUME LimitAssumption ==
  /\ TicksPerSecond \in Nat \ {0}
  /\ SecondsPerMinute \in Nat \ {0}
  /\ Scale \in Nat \ {0}
  /\ MaxTime \in Nat /\ MaxAdmitted \in Nat
  /\ Limits \subseteq [rps : Nat, rpm : Nat, mode : {"hard_stop", "alert_only"}]
  /\ \A l \in Limits : l.rps > 0 \/ l.rpm > 0

One == TicksPerSecond * SecondsPerMinute * Scale

VARIABLES
  now,       \* the clock
  limit,     \* limits[agent], or NoLimit
  bucket,    \* buckets[agent].rps and .rpm, or NoBucket
  (* history *)
  window,    \* start of a window an observer watches the agent in
  spent,     \* tokens taken from each bucket since then
  admitted,  \* requests admitted since then
  lastSpent  \* when a bucket gave its last token, or was created

vars == <<now, limit, bucket, window, spent, admitted, lastSpent>>

NoLimit == [rps |-> 0, rpm |-> 0, mode |-> "none"]
NoBucket == [tokens |-> 0, cap |-> 0, gain |-> 0, last |-> 0]

(* Tokens earned per tick: RPS per second, or RPM/60 per second.           *)
Gain(l, k) == IF k = "rps" THEN l.rps * SecondsPerMinute ELSE l.rpm
Capacity(l, k) == l[k] * TicksPerSecond * SecondsPerMinute

FullBucket(l, k) ==
  IF l[k] > 0
  THEN [tokens |-> Capacity(l, k), cap |-> Capacity(l, k), gain |-> Gain(l, k), last |-> now]
  ELSE NoBucket

FullBuckets(l) == [k \in Kinds |-> FullBucket(l, k)]

(* Mutant: the refill is not capped. *)
RefilledUncapped(b) ==
  [b EXCEPT !.tokens = b.tokens + (now - b.last) * b.gain, !.last = now]

(* Mutant: only whole tokens are booked, the rest of the time is lost. *)
RefilledWhole(b) ==
  LET t == b.tokens + ((((now - b.last) * b.gain) \div One) * One) IN
  [b EXCEPT !.tokens = IF t > b.cap THEN b.cap ELSE t, !.last = now]

(* bucket.allow: refill up to the capacity, then take one token if there.  *)
Refilled(b) ==
  LET t == b.tokens + (now - b.last) * b.gain IN
  [b EXCEPT !.tokens = IF t > b.cap THEN b.cap ELSE t, !.last = now]


Allows(b) == b = NoBucket \/ Refilled(b).tokens >= One

(* Mutant: a refused request is charged too. *)
ChargedAlways(b) ==
  IF b = NoBucket THEN b ELSE [Refilled(b) EXCEPT !.tokens = @ - One]

Charged(b) ==
  IF b = NoBucket THEN b
  ELSE IF Refilled(b).tokens >= One
       THEN [Refilled(b) EXCEPT !.tokens = @ - One]
       ELSE Refilled(b)

-----------------------------------------------------------------------------
Init ==
  /\ now = 0
  /\ limit = [a \in Agents |-> NoLimit]
  /\ bucket = [a \in Agents |-> [k \in Kinds |-> NoBucket]]
  /\ spent = [a \in Agents |-> [k \in Kinds |-> 0]]
  /\ window = [a \in Agents |-> 0]
  /\ lastSpent = [a \in Agents |-> [k \in Kinds |-> 0]]
  /\ admitted = [a \in Agents |-> 0]

Tick ==
  /\ now < MaxTime
  /\ now' = now + 1
  /\ UNCHANGED <<limit, bucket, window, spent, admitted, lastSpent>>

(* Not a step of the code: an observer starts counting the agent anew.     *)
OpenWindow(a) ==
  /\ window[a] # now
  /\ window' = [window EXCEPT ![a] = now]
  /\ spent' = [spent EXCEPT ![a] = [k \in Kinds |-> 0]]
  /\ admitted' = [admitted EXCEPT ![a] = 0]
  /\ UNCHANGED <<now, limit, bucket, lastSpent>>

(* Fresh, full buckets for the agents in S under the limits l.             *)
Restart(S, l) ==
  /\ limit' = l
  /\ bucket' = [a \in Agents |-> IF a \in S THEN FullBuckets(l[a]) ELSE bucket[a]]
  /\ window' = [a \in Agents |-> IF a \in S THEN now ELSE window[a]]
  /\ spent' = [a \in Agents |-> IF a \in S THEN [k \in Kinds |-> 0] ELSE spent[a]]
  /\ admitted' = [a \in Agents |-> IF a \in S THEN 0 ELSE admitted[a]]
  /\ lastSpent' = [a \in Agents |-> IF a \in S THEN [k \in Kinds |-> now] ELSE lastSpent[a]]
  /\ UNCHANGED now

(* Set and Remove touch one agent. *)
Set(a, l) == Restart({a}, [limit EXCEPT ![a] = l])
Remove(a) == limit[a] # NoLimit /\ Restart({a}, [limit EXCEPT ![a] = NoLimit])

(* Load builds new buckets for every agent of the file, changed or not.    *)
Load(file) == Restart(Agents, file)

(* Check of an agent: the second's bucket first, the minute's only if that *)
(* one gave a token; alert_only admits without tokens.                     *)
Check(a) ==
  LET secOK == Allows(bucket[a]["rps"])
      minOK == Allows(bucket[a]["rpm"])
      asked(k) == k = "rps" \/ secOK
      taken(k) == asked(k) /\ bucket[a][k] # NoBucket /\ Allows(bucket[a][k])
      admit == (secOK /\ minOK) \/ limit[a].mode = "alert_only"
  IN
  /\ limit[a] # NoLimit
  /\ admitted[a] < MaxAdmitted
  /\ bucket' = [bucket EXCEPT ![a] =
       [k \in Kinds |-> IF asked(k) THEN Charged(bucket[a][k]) ELSE bucket[a][k]]]
  /\ spent' = [spent EXCEPT ![a] =
       [k \in Kinds |-> IF taken(k) THEN spent[a][k] + 1 ELSE spent[a][k]]]
  /\ lastSpent' = [lastSpent EXCEPT ![a] =
       [k \in Kinds |-> IF taken(k) THEN now ELSE lastSpent[a][k]]]
  /\ admitted' = [admitted EXCEPT ![a] = IF admit THEN admitted[a] + 1 ELSE admitted[a]]
  /\ UNCHANGED <<now, limit, window>>

Next ==
  \/ Tick
  \/ \E a \in Agents : Check(a) \/ OpenWindow(a) \/ Remove(a) \/ \E l \in Limits : Set(a, l)
  \/ \E file \in [Agents -> Limits \cup {NoLimit}] : Load(file)

Spec == Init /\ [][Next]_vars

-----------------------------------------------------------------------------
Buckets == [tokens : Nat, cap : Nat, gain : Nat, last : Nat]

TypeOK ==
  /\ now \in 0 .. MaxTime
  /\ limit \in [Agents -> Limits \cup {NoLimit}]
  /\ bucket \in [Agents -> [Kinds -> Buckets]]
  /\ spent \in [Agents -> [Kinds -> Nat]]
  /\ window \in [Agents -> Nat]
  /\ lastSpent \in [Agents -> [Kinds -> Nat]]
  /\ admitted \in [Agents -> Nat]

HardStopped(a, k) == limit[a].mode = "hard_stop" /\ limit[a][k] > 0

(* Under hard_stop, the requests admitted in any window of time between    *)
(* two reloads never exceed a full bucket plus what the rate earns in the  *)
(* window, by the second and by the minute at once, whatever was asked and *)
(* refused before and in it (MVPv1.md: "Per-agent limits apply             *)
(* correctly").                                                            *)
AdmittedBound ==
  \A a \in Agents, k \in Kinds : HardStopped(a, k) =>
    admitted[a] * One <= Capacity(limit[a], k) + Gain(limit[a], k) * (now - window[a])

(* A refused client gets the earned token however often it polled in the   *)
(* meantime: once one token's worth of time has passed since the last one  *)
(* was taken, the bucket allows (bucket_test.go: "should recover after     *)
(* waiting"), for limits of at least one request.                          *)
Restored(a, k) ==
  Gain(limit[a], k) * (now - lastSpent[a][k]) >= One => Allows(bucket[a][k])

PollingRestores ==
  \A a \in Agents, k \in Kinds : limit[a][k] >= Scale => Restored(a, k)
=============================================================================
