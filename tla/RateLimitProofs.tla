--------------------------- MODULE RateLimitProofs ---------------------------
(***************************************************************************)
(* Proofs about RateLimit, for any routes, workers, rates, capacities,     *)
(* header values and penalties.                                            *)
(***************************************************************************)
EXTENDS RateLimit, TLAPS

USE NoneAssumption, RatesAssumption, TimesAssumption, InputsAssumption

-----------------------------------------------------------------------------
(* Arithmetic *)

LEMMA ProductMonotone ==
  ASSUME NEW r \in Nat, NEW x \in Int, NEW y \in Int, x <= y
  PROVE r * x <= r * y
  OBVIOUS

(* The quotient rounded up is the least number of steps of d that reach a. *)
LEMMA CeilDivExact ==
  ASSUME NEW a \in Int, NEW d \in Nat \ {0}
  PROVE /\ CeilDiv(a, d) \in Int
        /\ a <= d * CeilDiv(a, d)
        /\ d * (CeilDiv(a, d) - 1) < a
        /\ a > 0 => CeilDiv(a, d) >= 1
<1> DEFINE q == (a + d - 1) \div d
           m == (a + d - 1) % d
<1>1. /\ q \in Int /\ m \in 0..(d - 1)
      /\ a + d - 1 = d * q + m
  OBVIOUS
<1> HIDE DEF q, m
<1>2. a <= d * q /\ d * q - d < a
  BY <1>1
<1>3. d * (q - 1) = d * q - d
  BY <1>1
<1>4. a > 0 => q >= 1
  <2>1. SUFFICES ASSUME a > 0, q <= 0 PROVE FALSE
    BY <1>1
  <2>2. d * q <= d * 0
    BY <1>1, <2>1, ProductMonotone
  <2>3. d * 0 = 0
    OBVIOUS
  <2> QED BY <1>1, <1>2, <2>1, <2>2, <2>3
<1> QED BY <1>1, <1>2, <1>3, <1>4 DEF CeilDiv, q

LEMMA RateTypes ==
  ASSUME NEW b \in Buckets
  PROVE /\ Rate(b) \in Nat \ {0} /\ Capacity(b) \in Nat \ {0}
        /\ Full(b) \in Nat /\ TicksPerSecond <= Full(b)
        /\ CeilDiv(Full(b), Rate(b)) \in Nat
        /\ Full(b) <= Rate(b) * CeilDiv(Full(b), Rate(b))
<1>1. Rate(b) \in Nat \ {0} /\ Capacity(b) \in Nat \ {0}
  BY DEF Rate, Capacity
<1>2. Full(b) \in Nat /\ TicksPerSecond * 1 <= TicksPerSecond * Capacity(b)
  BY <1>1, ProductMonotone DEF Full
<1>3. TicksPerSecond <= Full(b)
  BY <1>1, <1>2 DEF Full
<1>4. /\ CeilDiv(Full(b), Rate(b)) \in Int /\ CeilDiv(Full(b), Rate(b)) >= 1
      /\ Full(b) <= Rate(b) * CeilDiv(Full(b), Rate(b))
  <2>1. Full(b) > 0
    BY <1>2, <1>3
  <2>2. Full(b) \in Int
    BY <1>2
  <2> QED BY <1>1, <2>1, <2>2, CeilDivExact, Zenon
<1> QED BY <1>1, <1>2, <1>3, <1>4

-----------------------------------------------------------------------------
(* Types *)

(* A take that is under way has read the clock at most MaxLag ago. *)
InTime(w) ==
    worker[w].pc \in {"global", "route"} =>
        worker[w].now <= clock /\ clock <= worker[w].now + MaxLag

RouteKnown(w) == worker[w].pc # "idle" => worker[w].route \in Routes

TypeInv == TypeOK /\ \A w \in Workers : InTime(w) /\ RouteKnown(w)

LEMMA TypeInit == Init => TypeInv
<1> SUFFICES ASSUME Init PROVE TypeInv
  OBVIOUS
<1>1. Idle \in WorkerRec /\ Idle.pc = "idle"
  BY DEF Idle, WorkerRec
<1>2. TypeOK
  BY <1>1 DEF Init, TypeOK
<1>3. \A w \in Workers : worker[w].pc = "idle"
  BY <1>1 DEF Init
<1> QED BY <1>2, <1>3 DEF TypeInv, InTime, RouteKnown

LEMMA RefilledType ==
  ASSUME TypeOK, NEW b \in Buckets, NEW now \in Int
  PROVE /\ Refilled(b, now) \in Int
        /\ Refilled(b, now) <= Full(b)
        /\ bucket[b] = None => Refilled(b, now) = Full(b)
        /\ bucket[b] # None =>
             /\ bucket[b] \in BucketRec
             /\ Refilled(b, now) <=
                  bucket[b].tokens + Rate(b) * (now - bucket[b].last)
             /\ Refilled(b, now) < Full(b) =>
                  Refilled(b, now) =
                    bucket[b].tokens + Rate(b) * (now - bucket[b].last)
<1>1. CASE bucket[b] = None
  BY <1>1, RateTypes DEF Refilled
<1>2. CASE bucket[b] # None
  <2> DEFINE t == bucket[b].tokens
             gain == Rate(b) * (now - bucket[b].last)
  <2>1. bucket[b] \in BucketRec
    BY <1>2 DEF TypeOK
  <2>2. t \in Nat /\ bucket[b].last \in Nat
    BY <2>1 DEF BucketRec
  <2>3. /\ gain \in Int
        /\ (now - bucket[b].last) * Rate(b) = gain
    BY <2>2, RateTypes
  <2>4. Refilled(b, now) = AtMost(Full(b), t + gain)
    BY <1>2, <2>3 DEF Refilled
  <2> HIDE DEF t, gain
  <2>5. Full(b) \in Int
    BY RateTypes
  <2>6. /\ Refilled(b, now) \in Int /\ Refilled(b, now) <= Full(b)
        /\ Refilled(b, now) <= t + gain
        /\ Refilled(b, now) < Full(b) => Refilled(b, now) = t + gain
    BY <2>2, <2>3, <2>4, <2>5 DEF AtMost
  <2> QED BY <1>2, <2>1, <2>6 DEF t, gain
<1> QED BY <1>1, <1>2

LEMMA TakeType ==
  ASSUME TypeOK, NEW b \in Buckets, NEW now \in Nat, Take(b, now)
  PROVE /\ bucket' \in [Buckets -> BucketRec \cup {None}]
        /\ granted' \in [Buckets -> Nat]
        /\ since' \in [Buckets -> Nat] /\ newest' \in [Buckets -> Nat]
<1> DEFINE fill == CeilDiv(Full(b), Rate(b))
<1>1. Refilled(b, now) - TicksPerSecond \in Nat
  <2>1. Refilled(b, now) \in Int
    BY RefilledType
  <2> QED BY <2>1 DEF Take, Allows
<1>2. fill \in Nat
  BY RateTypes
<1> HIDE DEF fill
<1>3. clock + fill + TakeBuffer \in Nat
  BY <1>2 DEF TypeOK
<1>4. [tokens |-> Refilled(b, now) - TicksPerSecond, last |-> now,
       expires |-> clock + fill + TakeBuffer] \in BucketRec
  BY <1>1, <1>3 DEF BucketRec
<1>5. bucket' \in [Buckets -> BucketRec \cup {None}]
  BY <1>4 DEF Take, TypeOK, fill
<1>6. Earlier(since[b], now) \in Nat /\ Later(newest[b], now) \in Nat
  BY DEF TypeOK, Earlier, Later
<1>7. granted' \in [Buckets -> Nat] /\ since' \in [Buckets -> Nat]
  BY <1>6 DEF Take, TypeOK
<1>8. newest' \in [Buckets -> Nat]
  BY <1>6 DEF Take, TypeOK
<1> QED BY <1>5, <1>7, <1>8

(* A worker whose task is put off is idle. *)
LEMMA SleepType ==
  ASSUME TypeOK, NEW w \in Workers, NEW d \in Int, Sleep(w, d)
  PROVE /\ worker' \in [Workers -> WorkerRec] /\ worker'[w].pc = "idle"
        /\ \A v \in Workers \ {w} : worker'[v] = worker[v]
<1>1. clock + RetryDelay(d) \in Nat
  BY DEF RetryDelay, TypeOK
<1>2. [Idle EXCEPT !.wake = clock + RetryDelay(d)] \in WorkerRec
  BY <1>1 DEF Idle, WorkerRec
<1>3. [Idle EXCEPT !.wake = clock + RetryDelay(d)].pc = "idle"
  BY DEF Idle
<1> QED BY <1>2, <1>3 DEF Sleep, TypeOK

LEMMA WaitType ==
  ASSUME TypeOK, NEW b \in Buckets, NEW now \in Int
  PROVE Wait(b, now) \in Nat
<1>1. TicksPerSecond - Refilled(b, now) \in Int
  BY RefilledType
<1>2. Rate(b) \in Nat \ {0}
  BY RateTypes
<1>3. CeilDiv(TicksPerSecond - Refilled(b, now), Rate(b)) \in Int
  BY <1>1, <1>2, CeilDivExact, Zenon
<1> QED BY <1>3 DEF Wait

LEMMA PenaltyType ==
  ASSUME TypeOK, NEW d \in Nat \ {0}
  PROVE /\ AtMost(MaxPenalty, d) \in Nat \ {0}
        /\ Penalized(d) \in BucketRec
        /\ Penalized(d).tokens = 0
        /\ Penalized(d).last = clock + AtMost(MaxPenalty, d)
        /\ Penalized(d).expires =
             clock + AtMost(MaxPenalty, d) + PenaltyBuffer
<1>1. AtMost(MaxPenalty, d) \in Nat \ {0}
  BY DEF AtMost
<1> QED BY <1>1 DEF Penalized, BucketRec, TypeOK

(* What a take and its refusal do to the worker: it goes on, or sleeps. *)
LEMMA TakeStepEffect ==
  ASSUME TypeInv, NEW w \in Workers, TakeGlobal(w) \/ TakeRoute(w)
  PROVE \E b \in Buckets :
          /\ worker[w].now \in Nat /\ worker[w].now <= clock
          /\ clock <= worker[w].now + MaxLag
          /\ Take(b, worker[w].now) \/ UNCHANGED <<bucket, windowVars>>
          /\ UNCHANGED <<clock, frozen>>
          /\ worker' \in [Workers -> WorkerRec]
          /\ \A v \in Workers \ {w} : worker'[v] = worker[v]
          /\ worker'[w].pc # "idle" => worker'[w].route = worker[w].route
          /\ worker'[w].pc \in {"global", "route"} => worker'[w].now = clock
<1>1. worker[w] \in WorkerRec /\ clock \in Nat /\ worker[w].now \in Nat
  BY DEF TypeInv, TypeOK, WorkerRec
<1>2. /\ worker[w].now <= clock /\ clock <= worker[w].now + MaxLag
      /\ worker[w].route \in Routes /\ worker[w].pc \in {"global", "route"}
  BY DEF TypeInv, InTime, RouteKnown, TakeGlobal, TakeRoute
<1>3. CASE TakeGlobal(w)
  <2>1. "global" \in Buckets
    BY DEF Buckets
  <2>2. CASE /\ Take("global", worker[w].now)
             /\ worker' = [worker EXCEPT ![w].pc = "route", ![w].now = clock]
    <3>1. /\ worker' \in [Workers -> WorkerRec]
          /\ worker'[w].route = worker[w].route /\ worker'[w].now = clock
          /\ \A v \in Workers \ {w} : worker'[v] = worker[v]
      BY <1>1, <2>2 DEF TypeInv, TypeOK, WorkerRec
    <3> QED BY <1>1, <1>2, <1>3, <2>1, <2>2, <3>1 DEF TakeGlobal
  <2>3. CASE Take("global", worker[w].now) /\ Sleep(w, 0)
    BY <1>1, <1>2, <1>3, <2>1, <2>3, SleepType DEF TakeGlobal, TypeInv
  <2>4. CASE Refuse(w, "global")
    BY <1>1, <1>2, <1>3, <2>1, <2>4, SleepType, WaitType
       DEF TakeGlobal, Refuse, TypeInv
  <2> QED BY <1>3, <2>2, <2>3, <2>4 DEF TakeGlobal
<1>4. CASE TakeRoute(w)
  <2>1. worker[w].route \in Buckets
    BY <1>2 DEF Buckets
  <2>2. CASE /\ Take(worker[w].route, worker[w].now)
             /\ worker' = [worker EXCEPT ![w].pc = "call", ![w].now = 0]
    <3>1. /\ worker' \in [Workers -> WorkerRec]
          /\ worker'[w].route = worker[w].route /\ worker'[w].pc = "call"
          /\ \A v \in Workers \ {w} : worker'[v] = worker[v]
      BY <1>1, <2>2 DEF TypeInv, TypeOK, WorkerRec
    <3> QED BY <1>1, <1>2, <1>4, <2>1, <2>2, <3>1 DEF TakeRoute
  <2>3. CASE Take(worker[w].route, worker[w].now) /\ Sleep(w, 0)
    BY <1>1, <1>2, <1>4, <2>1, <2>3, SleepType DEF TakeRoute, TypeInv
  <2>4. CASE Refuse(w, worker[w].route)
    BY <1>1, <1>2, <1>4, <2>1, <2>4, SleepType, WaitType
       DEF TakeRoute, Refuse, TypeInv
  <2> QED BY <1>4, <2>2, <2>3, <2>4 DEF TakeRoute
<1> QED BY <1>3, <1>4

(* A 429 freezes some buckets for d ticks, and the worker sleeps. *)
LEMMA Handle429Effect ==
  ASSUME TypeInv, NEW w \in Workers, NEW told \in RetryAfters,
         Handle429(w, told)
  PROVE /\ \E freeze \in SUBSET Buckets, d \in Nat \ {0} :
             /\ bucket' = [b \in Buckets |-> IF b \in freeze THEN Penalized(d)
                                              ELSE bucket[b]]
             /\ frozen' = [b \in Buckets |-> IF b \in freeze
                                              THEN clock + AtMost(MaxPenalty, d)
                                              ELSE frozen[b]]
        /\ UNCHANGED <<clock, windowVars>>
        /\ worker' \in [Workers -> WorkerRec] /\ worker'[w].pc = "idle"
        /\ \A v \in Workers \ {w} : worker'[v] = worker[v]
<1> DEFINE d == IF told <= 0 THEN DefaultRetryAfter ELSE told
<1>1. d \in Nat \ {0}
  OBVIOUS
<1>2. worker[w].route \in Routes
  BY DEF Handle429, TypeInv, RouteKnown
<1>3. /\ PenalizeUntil(worker[w].route, d) /\ Sleep(w, d)
      /\ UNCHANGED <<clock, windowVars>>
  BY DEF Handle429
<1> HIDE DEF d
<1>4. PICK hit \in {{}, {"global"}, {"global", worker[w].route}} :
        /\ bucket' = [b \in Buckets |-> IF b \in hit THEN Penalized(d)
                                         ELSE bucket[b]]
        /\ frozen' = [b \in Buckets |-> IF b \in hit
                                         THEN clock + AtMost(MaxPenalty, d)
                                         ELSE frozen[b]]
  <2>1. ~(d <= 0)
    BY <1>1
  <2> QED BY <1>3, <2>1 DEF PenalizeUntil
<1>5. hit \in SUBSET Buckets
  BY <1>2 DEF Buckets
<1>6. /\ worker' \in [Workers -> WorkerRec] /\ worker'[w].pc = "idle"
      /\ \A v \in Workers \ {w} : worker'[v] = worker[v]
  BY <1>1, <1>3, SleepType DEF TypeInv
<1> QED BY <1>1, <1>3, <1>4, <1>5, <1>6

(* What the headers of a response leave of a route's bucket. *)
LEMMA HeadersEffect ==
  ASSUME TypeOK, NEW route \in Routes, NEW remaining \in Remainings,
         NEW reset \in Resets, UpdateFromHeaders(route, remaining, reset)
  PROVE /\ route \in Buckets
        /\ bucket' \in [Buckets -> BucketRec \cup {None}]
        /\ frozen' \in [Buckets -> Nat] /\ granted' \in [Buckets -> Nat]
        /\ since' \in [Buckets -> Nat] /\ newest' \in [Buckets -> Nat]
        /\ frozen'[route] = 0 /\ granted'[route] = 0
        /\ since'[route] = 0 /\ newest'[route] = 0
        /\ \A b \in Buckets \ {route} :
             /\ bucket'[b] = bucket[b] /\ frozen'[b] = frozen[b]
             /\ granted'[b] = granted[b] /\ since'[b] = since[b]
             /\ newest'[b] = newest[b]
<1> DEFINE left == reset + HeaderBuffer
           ttl == AtMost(MaxPenalty, IF left <= 0 THEN HeaderBuffer ELSE left)
<1>1. route \in Buckets
  BY DEF Buckets
<1>2. ttl \in Nat
  BY DEF AtMost
<1>3. Later(remaining, 0) * TicksPerSecond \in Nat
  <2>1. Later(remaining, 0) \in Nat
    BY DEF Later
  <2> QED BY <2>1
<1> HIDE DEF ttl
<1>4. [tokens |-> Later(remaining, 0) * TicksPerSecond, last |-> clock,
       expires |-> clock + ttl] \in BucketRec
  BY <1>2, <1>3 DEF BucketRec, TypeOK
<1>5. /\ bucket' \in [Buckets -> BucketRec \cup {None}]
      /\ \A b \in Buckets \ {route} : bucket'[b] = bucket[b]
  BY <1>1, <1>4 DEF UpdateFromHeaders, TypeOK, ttl
<1>6. /\ frozen' \in [Buckets -> Nat] /\ frozen'[route] = 0
      /\ \A b \in Buckets \ {route} : frozen'[b] = frozen[b]
  BY <1>1 DEF UpdateFromHeaders, TypeOK
<1> QED BY <1>1, <1>5, <1>6 DEF UpdateFromHeaders, Observe, TypeOK

LEMMA TickEffect ==
  ASSUME TypeOK, Tick
  PROVE /\ clock' = clock + 1
        /\ bucket' \in [Buckets -> BucketRec \cup {None}]
        /\ \A b \in Buckets :
             \/ bucket'[b] = bucket[b]
                /\ (bucket[b] # None => bucket[b].expires > clock + 1)
             \/ /\ bucket'[b] = None /\ bucket[b] # None
                /\ bucket[b].expires <= clock + 1
        /\ UNCHANGED <<worker, frozen, windowVars>>
<1>1. \A b \in Buckets : bucket[b] # None =>
                            bucket[b] \in BucketRec /\ bucket[b].expires \in Nat
  BY DEF TypeOK, BucketRec
<1> QED BY <1>1 DEF Tick, Expired, TypeOK

LEMMA TypeNext == TypeInv /\ [Next]_vars => TypeInv'
<1> SUFFICES ASSUME TypeInv, [Next]_vars PROVE TypeInv'
  OBVIOUS
<1> USE DEF InTime, RouteKnown
<1>1. ASSUME NEW w \in Workers, NEW route \in Routes, Begin(w, route)
      PROVE TypeInv'
  <2> DEFINE rec == [Idle EXCEPT !.pc = "global", !.route = route, !.now = clock]
  <2>1. /\ rec \in WorkerRec /\ rec.pc = "global" /\ rec.route = route
        /\ rec.now = clock
    BY DEF TypeInv, TypeOK, Idle, WorkerRec
  <2> HIDE DEF rec
  <2>2. /\ worker' \in [Workers -> WorkerRec] /\ worker'[w] = rec
        /\ \A v \in Workers \ {w} : worker'[v] = worker[v]
        /\ UNCHANGED <<clock, bucket, frozen, windowVars>>
    BY <1>1, <2>1 DEF Begin, TypeInv, TypeOK, rec
  <2>3. TypeOK'
    BY <2>2 DEF TypeInv, TypeOK, windowVars
  <2>4. InTime(w)' /\ RouteKnown(w)'
    BY <2>1, <2>2 DEF TypeInv, TypeOK
  <2>5. \A v \in Workers \ {w} : InTime(v)' /\ RouteKnown(v)'
    BY <2>2 DEF TypeInv
  <2> QED BY <2>3, <2>4, <2>5 DEF TypeInv
<1>2. ASSUME NEW w \in Workers, TakeGlobal(w) \/ TakeRoute(w)
      PROVE TypeInv'
  <2>1. PICK b \in Buckets :
          /\ worker[w].now \in Nat /\ worker[w].now <= clock
          /\ clock <= worker[w].now + MaxLag
          /\ Take(b, worker[w].now) \/ UNCHANGED <<bucket, windowVars>>
          /\ UNCHANGED <<clock, frozen>>
          /\ worker' \in [Workers -> WorkerRec]
          /\ \A v \in Workers \ {w} : worker'[v] = worker[v]
          /\ worker'[w].pc # "idle" => worker'[w].route = worker[w].route
          /\ worker'[w].pc \in {"global", "route"} => worker'[w].now = clock
    BY <1>2, TakeStepEffect
  <2>2. /\ bucket' \in [Buckets -> BucketRec \cup {None}]
        /\ granted' \in [Buckets -> Nat]
        /\ since' \in [Buckets -> Nat] /\ newest' \in [Buckets -> Nat]
    <3>1. CASE Take(b, worker[w].now)
      BY <2>1, <3>1, TakeType DEF TypeInv
    <3>2. CASE UNCHANGED <<bucket, windowVars>>
      BY <3>2 DEF TypeInv, TypeOK, windowVars
    <3> QED BY <2>1, <3>1, <3>2
  <2>3. TypeOK'
    BY <2>1, <2>2 DEF TypeInv, TypeOK
  <2>4. InTime(w)' /\ RouteKnown(w)'
    <3>1. worker[w].route \in Routes
      BY <1>2 DEF TypeInv, TakeGlobal, TakeRoute
    <3> QED BY <2>1, <3>1 DEF TypeInv, TypeOK
  <2>5. \A v \in Workers \ {w} : InTime(v)' /\ RouteKnown(v)'
    BY <2>1 DEF TypeInv
  <2> QED BY <2>3, <2>4, <2>5 DEF TypeInv
<1>3. ASSUME NEW w \in Workers, CallSucceeds(w) PROVE TypeInv'
  <2>1. Idle \in WorkerRec /\ Idle.pc = "idle"
    BY DEF Idle, WorkerRec
  <2>2. /\ worker' \in [Workers -> WorkerRec] /\ worker'[w] = Idle
        /\ \A v \in Workers \ {w} : worker'[v] = worker[v]
        /\ UNCHANGED <<clock, bucket, frozen, windowVars>>
    BY <1>3, <2>1 DEF CallSucceeds, TypeInv, TypeOK
  <2>3. TypeOK'
    BY <2>2 DEF TypeInv, TypeOK, windowVars
  <2> QED BY <2>1, <2>2, <2>3 DEF TypeInv
<1>4. ASSUME NEW w \in Workers, NEW told \in RetryAfters, Handle429(w, told)
      PROVE TypeInv'
  <2>1. PICK freeze \in SUBSET Buckets, d \in Nat \ {0} :
             /\ bucket' = [b \in Buckets |-> IF b \in freeze THEN Penalized(d)
                                              ELSE bucket[b]]
             /\ frozen' = [b \in Buckets |-> IF b \in freeze
                                              THEN clock + AtMost(MaxPenalty, d)
                                              ELSE frozen[b]]
    BY <1>4, Handle429Effect
  <2>2. /\ UNCHANGED <<clock, windowVars>>
        /\ worker' \in [Workers -> WorkerRec] /\ worker'[w].pc = "idle"
        /\ \A v \in Workers \ {w} : worker'[v] = worker[v]
    BY <1>4, Handle429Effect
  <2>3. Penalized(d) \in BucketRec /\ AtMost(MaxPenalty, d) \in Nat
    BY PenaltyType DEF TypeInv
  <2>4. /\ bucket' \in [Buckets -> BucketRec \cup {None}]
        /\ frozen' \in [Buckets -> Nat]
    BY <2>1, <2>3 DEF TypeInv, TypeOK
  <2>5. TypeOK'
    BY <2>2, <2>4 DEF TypeInv, TypeOK, windowVars
  <2> QED BY <2>2, <2>5 DEF TypeInv
<1>5. ASSUME NEW route \in Routes, NEW remaining \in Remainings,
             NEW reset \in Resets, UpdateFromHeaders(route, remaining, reset)
      PROVE TypeInv'
  <2>1. UNCHANGED <<clock, worker>>
    BY <1>5 DEF UpdateFromHeaders
  <2>2. TypeOK'
    BY <1>5, <2>1, HeadersEffect DEF TypeInv, TypeOK
  <2> QED BY <2>1, <2>2 DEF TypeInv
<1>6. ASSUME NEW b \in Buckets, StartWindow(b) PROVE TypeInv'
  <2>1. UNCHANGED <<clock, worker, bucket, frozen>>
    BY <1>6 DEF StartWindow
  <2>2. TypeOK'
    BY <1>6, <2>1 DEF TypeInv, TypeOK, StartWindow, Observe
  <2> QED BY <2>1, <2>2 DEF TypeInv
<1>7. CASE Tick
  <2>1. TypeOK'
    BY <1>7, TickEffect DEF TypeInv, TypeOK, windowVars
  <2>2. \A w \in Workers : InTime(w)' /\ RouteKnown(w)'
    BY <1>7, TickEffect DEF TypeInv, TypeOK, Tick, WorkerRec
  <2> QED BY <2>1, <2>2 DEF TypeInv
<1>8. CASE UNCHANGED vars
  BY <1>8 DEF vars, windowVars, TypeInv, TypeOK
<1> QED BY <1>1, <1>2, <1>3, <1>4, <1>5, <1>6, <1>7, <1>8 DEF Next, WorkerStep

(* The limiter keeps its types: in particular no bucket is ever stored with *)
(* a debt, whatever headers, penalties and late takes do to it.             *)
THEOREM TypeCorrect == Spec => []TypeOK
<1>1. TypeInv => TypeOK
  BY DEF TypeInv
<1> QED BY <1>1, TypeInit, TypeNext, PTL DEF Spec

-----------------------------------------------------------------------------
(* The wait that a refusal tells *)

LEMMA WaitStep == TypeInv => WaitIsExact
<1> SUFFICES ASSUME TypeInv PROVE WaitIsExact
  OBVIOUS
<1>0. SUFFICES ASSUME NEW b \in Buckets, ~Allows(b, clock)
               PROVE /\ Allows(b, clock + Wait(b, clock))
                     /\ ~Allows(b, (clock + Wait(b, clock)) - 1)
  <2>1. clock \in Nat /\ \A b \in Buckets : Wait(b, clock) \in Nat
    BY WaitType DEF TypeInv, TypeOK
  <2> QED BY <1>0, <2>1 DEF WaitIsExact
<1> DEFINE R == Refilled(b, clock)
           r == Rate(b)
           q == CeilDiv(TicksPerSecond - R, r)
           t == bucket[b].tokens
           last == bucket[b].last
<1>1. clock \in Nat
  BY DEF TypeInv, TypeOK
<1>2. r \in Nat \ {0} /\ Full(b) \in Nat /\ TicksPerSecond <= Full(b)
  BY RateTypes
<1>3. R \in Int /\ R < TicksPerSecond
  BY <1>0, <1>1, RefilledType DEF TypeInv, Allows
<1>4. /\ bucket[b] # None /\ bucket[b] \in BucketRec
      /\ R = t + r * (clock - last)
  BY <1>1, <1>2, <1>3, RefilledType DEF TypeInv
<1>5. t \in Nat /\ last \in Nat
  BY <1>4 DEF BucketRec
<1>6. TicksPerSecond - R \in Int /\ TicksPerSecond - R > 0
  BY <1>3
<1>7. /\ q \in Int /\ TicksPerSecond - R <= r * q
      /\ r * (q - 1) < TicksPerSecond - R /\ q >= 1
  BY <1>2, <1>6, CeilDivExact, Zenon
<1>8. Wait(b, clock) = q
  BY <1>7 DEF Wait
<1> HIDE DEF R, r, q, t, last
<1>9. ASSUME NEW n \in Int
      PROVE Refilled(b, clock + n) = AtMost(Full(b), R + r * n)
  <2>1. (clock + n - last) * r = r * (clock - last) + r * n
    BY <1>1, <1>2, <1>5
  <2>2. Refilled(b, clock + n) =
          AtMost(Full(b), t + (clock + n - last) * r)
    <3>1. bucket[b] # None
      BY <1>4
    <3> QED BY <1>1, <1>2, <1>5, <3>1 DEF Refilled, t, last, r
  <2>3. r * (clock - last) \in Int /\ r * n \in Int
    BY <1>1, <1>2, <1>5
  <2> QED BY <1>4, <1>5, <2>1, <2>2, <2>3
<1>10. Allows(b, clock + q)
  <2>1. r * q \in Int /\ R + r * q >= TicksPerSecond
    BY <1>2, <1>3, <1>7
  <2>2. AtMost(Full(b), R + r * q) >= TicksPerSecond
    BY <1>2, <1>3, <2>1 DEF AtMost
  <2> QED BY <1>7, <1>9, <2>2 DEF Allows
<1>11. ~Allows(b, clock + q - 1)
  <2>1. clock + q - 1 = clock + (q - 1) /\ q - 1 \in Int
    BY <1>1, <1>7
  <2>2. r * (q - 1) \in Int /\ R + r * (q - 1) < TicksPerSecond
    BY <1>2, <1>3, <1>7
  <2>3. ~(AtMost(Full(b), R + r * (q - 1)) >= TicksPerSecond)
    BY <1>2, <1>3, <2>2 DEF AtMost
  <2> QED BY <1>9, <2>1, <2>3 DEF Allows
<1> QED BY <1>1, <1>7, <1>8, <1>10, <1>11

(* The wait that the script answers with is the time at which the bucket as *)
(* it is grants again, and never a tick too long, for any rate, capacity    *)
(* and stamp, one in the future included.                                   *)
THEOREM WaitsExact == Spec => []WaitIsExact
  BY TypeInit, TypeNext, WaitStep, PTL DEF Spec

-----------------------------------------------------------------------------
(* Penalties *)

(* While a penalty lasts, the key is there, empty and stamped with its end. *)
FrozenStamp(b) ==
    clock < frozen[b] =>
        /\ bucket[b] # None
        /\ bucket[b].tokens = 0 /\ bucket[b].last = frozen[b]
        /\ bucket[b].expires >= frozen[b]

FrozenInv == TypeInv /\ \A b \in Buckets : FrozenStamp(b)

(* No caller whose clock is behind the end of the penalty gets a token. *)
LEMMA FrozenRefuses ==
  ASSUME FrozenInv, NEW b \in Buckets, NEW now \in Nat, now <= clock,
         clock < frozen[b]
  PROVE ~Allows(b, now)
<1> DEFINE last == bucket[b].last
<1>1. /\ bucket[b] # None /\ bucket[b].tokens = 0 /\ last = frozen[b]
      /\ last \in Nat /\ clock \in Nat
  BY DEF FrozenInv, FrozenStamp, TypeInv, TypeOK
<1>2. /\ Refilled(b, now) \in Int
      /\ Refilled(b, now) <= 0 + Rate(b) * (now - last)
  BY <1>1, RefilledType DEF FrozenInv, TypeInv
<1> HIDE DEF last
<1>3. Rate(b) \in Nat
  BY RateTypes
<1>4. Rate(b) * (now - last) <= Rate(b) * 0 /\ Rate(b) * 0 = 0
  <2>1. now - last <= 0 /\ now - last \in Int
    BY <1>1
  <2> QED BY <1>3, <2>1, ProductMonotone
<1>5. Rate(b) * (now - last) \in Int
  BY <1>1, <1>3
<1>6. Refilled(b, now) <= 0
  BY <1>2, <1>4, <1>5
<1> QED BY <1>2, <1>6 DEF Allows

LEMMA FrozenInit == Init => FrozenInv
  BY TypeInit DEF Init, FrozenInv, FrozenStamp

LEMMA FrozenNext == FrozenInv /\ [Next]_vars => FrozenInv'
<1> SUFFICES ASSUME FrozenInv, [Next]_vars PROVE FrozenInv'
  OBVIOUS
<1>0. TypeInv /\ TypeInv' /\ TypeOK /\ TypeOK'
  BY TypeNext DEF FrozenInv, TypeInv
<1> SUFFICES \A b \in Buckets : FrozenStamp(b)'
  BY <1>0 DEF FrozenInv
<1> SUFFICES ASSUME NEW b \in Buckets, clock' < frozen'[b]
             PROVE /\ bucket'[b] # None
                   /\ bucket'[b].tokens = 0 /\ bucket'[b].last = frozen'[b]
                   /\ bucket'[b].expires >= frozen'[b]
  BY DEF FrozenStamp
<1>1. ASSUME UNCHANGED <<clock, bucket, frozen>>
      PROVE  FrozenStamp(b)'
  BY <1>1 DEF FrozenInv, FrozenStamp
<1>2. ASSUME NEW w \in Workers, TakeGlobal(w) \/ TakeRoute(w)
      PROVE FrozenStamp(b)'
  <2>1. PICK c \in Buckets :
          /\ worker[w].now \in Nat /\ worker[w].now <= clock
          /\ Take(c, worker[w].now) \/ UNCHANGED <<bucket, windowVars>>
          /\ UNCHANGED <<clock, frozen>>
    BY <1>0, <1>2, TakeStepEffect
  <2>2. CASE Take(c, worker[w].now)
    <3>1. Allows(c, worker[w].now)
      BY <2>2 DEF Take
    <3>2. c # b
      BY <2>1, <3>1, FrozenRefuses
    <3>3. bucket'[b] = bucket[b]
      BY <1>0, <2>2, <3>2 DEF Take, TypeOK
    <3> QED BY <2>1, <3>3 DEF FrozenInv, FrozenStamp
  <2>3. CASE UNCHANGED <<bucket, windowVars>>
    BY <2>1, <2>3 DEF FrozenInv, FrozenStamp
  <2> QED BY <2>1, <2>2, <2>3
<1>3. ASSUME NEW w \in Workers, NEW told \in RetryAfters, Handle429(w, told)
      PROVE FrozenStamp(b)'
  <2>1. PICK freeze \in SUBSET Buckets, d \in Nat \ {0} :
             /\ bucket' = [c \in Buckets |-> IF c \in freeze THEN Penalized(d)
                                              ELSE bucket[c]]
             /\ frozen' = [c \in Buckets |-> IF c \in freeze
                                              THEN clock + AtMost(MaxPenalty, d)
                                              ELSE frozen[c]]
    BY <1>0, <1>3, Handle429Effect
  <2>2. UNCHANGED clock
    BY <1>0, <1>3, Handle429Effect
  <2>3. CASE b \in freeze
    <3>1. bucket'[b] = Penalized(d) /\ frozen'[b] = clock + AtMost(MaxPenalty, d)
      BY <2>1, <2>3
    <3>2. Penalized(d) # None
      BY <1>0, PenaltyType
    <3> QED BY <1>0, <3>1, <3>2, PenaltyType DEF FrozenStamp, TypeOK
  <2>4. CASE b \notin freeze
    BY <2>1, <2>2, <2>4 DEF FrozenInv, FrozenStamp
  <2> QED BY <2>3, <2>4
<1>4. ASSUME NEW route \in Routes, NEW remaining \in Remainings,
             NEW reset \in Resets, UpdateFromHeaders(route, remaining, reset)
      PROVE FrozenStamp(b)'
  <2>1. clock \in Nat /\ clock' = clock
    BY <1>0, <1>4 DEF UpdateFromHeaders, TypeOK
  <2>2. b # route
    BY <1>0, <1>4, <2>1, HeadersEffect
  <2> QED BY <1>0, <1>4, <2>1, <2>2, HeadersEffect DEF FrozenInv, FrozenStamp
<1>5. ASSUME Tick PROVE FrozenStamp(b)'
  <2>1. /\ clock \in Nat /\ clock' = clock + 1 /\ frozen' = frozen
        /\ frozen[b] \in Nat
    BY <1>0, <1>5, TickEffect DEF TypeOK
  <2>2. FrozenStamp(b) /\ clock < frozen[b]
    BY <2>1 DEF FrozenInv
  <2>3. bucket[b] # None /\ bucket[b].expires >= frozen[b]
    BY <2>2 DEF FrozenStamp
  <2>4. bucket[b].expires \in Nat
    BY <1>0, <2>3 DEF TypeOK, BucketRec
  <2>5. bucket'[b] = bucket[b]
    BY <1>0, <1>5, <2>1, <2>3, <2>4, TickEffect
  <2> QED BY <2>1, <2>2, <2>5 DEF FrozenStamp
<1>6. UNCHANGED <<clock, bucket, frozen>> => FrozenStamp(b)'
  BY <1>1
<1>7. ASSUME NEW w \in Workers, WorkerStep(w) PROVE FrozenStamp(b)'
  BY <1>2, <1>3, <1>6, <1>7 DEF WorkerStep, Begin, CallSucceeds
<1>8. ASSUME NEW c \in Buckets, StartWindow(c) PROVE FrozenStamp(b)'
  BY <1>6, <1>8 DEF StartWindow
<1>9. ASSUME UNCHANGED vars PROVE FrozenStamp(b)'
  BY <1>6, <1>9 DEF vars
<1>10. FrozenStamp(b)'
  BY <1>4, <1>5, <1>7, <1>8, <1>9 DEF Next
<1> QED BY <1>10 DEF FrozenStamp

(* A penalized bucket grants nothing before the penalty is over, whatever   *)
(* late takes, retries and expiring keys do, unless a later penalty or a    *)
(* header update replaces it.                                               *)
THEOREM PenaltiesHold == Spec => []PenaltyHolds
<1>1. FrozenInv => PenaltyHolds
  <2> SUFFICES ASSUME FrozenInv, NEW b \in Buckets, clock < frozen[b]
               PROVE ~Allows(b, clock)
    BY DEF PenaltyHolds
  <2>1. clock \in Nat /\ clock <= clock
    BY DEF FrozenInv, TypeInv, TypeOK
  <2> QED BY <2>1, FrozenRefuses
<1> QED BY <1>1, FrozenInit, FrozenNext, PTL DEF Spec

-----------------------------------------------------------------------------
(* The budget *)

Fill(b) == CeilDiv(Full(b), Rate(b))

(* What was granted, and the tokens still there, are paid for by a full     *)
(* bucket and the refill up to the bucket's stamp, wherever that stamp is.  *)
Paid(b) ==
    bucket[b] # None =>
        granted[b] * TicksPerSecond + bucket[b].tokens
            <= Full(b) + Rate(b) * (bucket[b].last - since[b])

(* A key lives until the bucket would be full again, for the latest caller. *)
Outlived(b) ==
    /\ bucket[b] # None => newest[b] + Fill(b) + MaxLag <= bucket[b].expires
    /\ bucket[b] = None => newest[b] + Fill(b) + MaxLag <= clock

Budget(b) ==
    granted[b] * TicksPerSecond <= Full(b) + Rate(b) * (newest[b] - since[b])

BudgetOf(b) ==
    IF granted[b] = 0 THEN since[b] = 0 /\ newest[b] = 0
    ELSE /\ since[b] <= newest[b] /\ newest[b] <= clock
         /\ Paid(b) /\ Outlived(b) /\ Budget(b)

BudgetInv == TypeInv /\ \A b \in Buckets : BudgetOf(b)

LEMMA BudgetInit == Init => BudgetInv
  BY TypeInit DEF Init, BudgetInv, BudgetOf

(* The first take of a window. *)
LEMMA FirstTake ==
  ASSUME BudgetInv, NEW b \in Buckets, NEW now \in Nat, now <= clock,
         Take(b, now), clock' = clock, granted[b] = 0
  PROVE BudgetOf(b)'
<1> DEFINE K == TicksPerSecond
           R == Refilled(b, now)
<1>1. /\ TypeOK /\ clock \in Nat
      /\ Rate(b) \in Nat /\ Full(b) \in Nat /\ Fill(b) \in Nat
  BY RateTypes DEF BudgetInv, TypeInv, TypeOK, Fill
<1>2. R \in Int /\ R <= Full(b)
  BY <1>1, RefilledType
<1>3. /\ granted'[b] = 1 /\ since'[b] = now /\ newest'[b] = now
      /\ bucket'[b] = [tokens |-> R - K, last |-> now,
                       expires |-> clock + Fill(b) + TakeBuffer]
  BY <1>1 DEF Take, TypeOK, Fill
<1>4. /\ bucket'[b] # None
      /\ bucket'[b].tokens = R - K /\ bucket'[b].last = now
      /\ bucket'[b].expires = clock + Fill(b) + TakeBuffer
  <2>1. R - K \in Nat
    BY <1>2 DEF Take, Allows
  <2>2. bucket'[b] \in BucketRec
    BY <1>1, <1>3, <2>1 DEF BucketRec
  <2> QED BY <1>3, <2>2
<1> HIDE DEF K, R
<1>5. Rate(b) * (now - now) = 0 /\ 1 * TicksPerSecond = TicksPerSecond
  BY <1>1
<1>6. Paid(b)' /\ Budget(b)'
  BY <1>1, <1>2, <1>3, <1>4, <1>5, RateTypes DEF Paid, Budget, K
<1>7. Outlived(b)'
  BY <1>1, <1>3, <1>4, BuffersAssumption DEF Outlived
<1> QED BY <1>1, <1>3, <1>6, <1>7 DEF BudgetOf

(* What a bucket offers a take is paid for up to the take's own stamp. *)
LEMMA OfferPaid ==
  ASSUME BudgetInv, NEW b \in Buckets, NEW now \in Nat,
         clock <= now + MaxLag, granted[b] # 0
  PROVE granted[b] * TicksPerSecond + Refilled(b, now)
          <= Full(b) + Rate(b) * (now - since[b])
<1> DEFINE g == granted[b] * TicksPerSecond
           R == Refilled(b, now)
           r == Rate(b)
<1>1. /\ TypeOK /\ clock \in Nat /\ since[b] \in Nat /\ newest[b] \in Nat
      /\ granted[b] \in Nat
  BY DEF BudgetInv, TypeInv, TypeOK
<1>2. /\ r \in Nat /\ Full(b) \in Nat /\ Fill(b) \in Nat
      /\ Full(b) <= r * Fill(b)
  BY RateTypes DEF Fill
<1>3. R \in Int
  BY <1>1, RefilledType
<1>4. g \in Int
  BY <1>1
<1>5. Paid(b) /\ Outlived(b) /\ Budget(b)
  BY DEF BudgetInv, BudgetOf
<1>6. CASE bucket[b] # None
  <2> DEFINE t == bucket[b].tokens
             last == bucket[b].last
  <2>1. /\ bucket[b] \in BucketRec /\ R <= t + r * (now - last)
    BY <1>1, <1>6, RefilledType
  <2>2. t \in Nat /\ last \in Nat
    BY <2>1 DEF BucketRec
  <2>3. g + t <= Full(b) + r * (last - since[b])
    BY <1>5, <1>6 DEF Paid
  <2> HIDE DEF g, R, r, t, last
  <2>4. /\ r * (now - last) + r * (last - since[b]) = r * (now - since[b])
        /\ r * (now - last) \in Int /\ r * (last - since[b]) \in Int
    BY <1>1, <1>2, <2>2
  <2>5. g + R <= Full(b) + r * (now - since[b])
    BY <1>2, <1>3, <1>4, <2>1, <2>2, <2>3, <2>4
  <2> QED BY <2>5 DEF g, R, r
<1>7. CASE bucket[b] = None
  <2>1. R = Full(b)
    BY <1>1, <1>7, RefilledType
  <2>2. g <= Full(b) + r * (newest[b] - since[b])
    BY <1>5 DEF Budget
  <2>3. Fill(b) <= now - newest[b]
    BY <1>1, <1>2, <1>5, <1>7 DEF Outlived
  <2> HIDE DEF g, R, r
  <2>4. r * Fill(b) <= r * (now - newest[b])
    BY <1>1, <1>2, <2>3, ProductMonotone
  <2>5. /\ r * (now - newest[b]) + r * (newest[b] - since[b])
             = r * (now - since[b])
        /\ r * (now - newest[b]) \in Int /\ r * (newest[b] - since[b]) \in Int
        /\ r * Fill(b) \in Int
    BY <1>1, <1>2
  <2>6. g + R <= Full(b) + r * (now - since[b])
    BY <1>2, <1>3, <1>4, <2>1, <2>2, <2>4, <2>5
  <2> QED BY <2>6 DEF g, R, r
<1> QED BY <1>6, <1>7

LEMMA LaterTake ==
  ASSUME BudgetInv, NEW b \in Buckets, NEW now \in Nat, now <= clock,
         clock <= now + MaxLag, Take(b, now), clock' = clock, granted[b] # 0
  PROVE BudgetOf(b)'
<1> DEFINE g == granted[b] * TicksPerSecond
           R == Refilled(b, now)
           r == Rate(b)
           s == Earlier(since[b], now)
           n == Later(newest[b], now)
<1>1. /\ TypeOK /\ clock \in Nat /\ since[b] \in Nat /\ newest[b] \in Nat
      /\ granted[b] \in Nat /\ g \in Int
  BY DEF BudgetInv, TypeInv, TypeOK
<1>2. r \in Nat /\ Full(b) \in Nat /\ Fill(b) \in Nat
  BY RateTypes DEF Fill
<1>3. R \in Int /\ R - TicksPerSecond \in Nat
  <2>1. R \in Int
    BY <1>1, RefilledType
  <2> QED BY <2>1 DEF Take, Allows
<1>4. /\ granted'[b] = granted[b] + 1 /\ since'[b] = s /\ newest'[b] = n
      /\ bucket'[b] = [tokens |-> R - TicksPerSecond, last |-> now,
                       expires |-> clock + Fill(b) + TakeBuffer]
  BY <1>1 DEF Take, TypeOK, Fill
<1>5. /\ bucket'[b] # None
      /\ bucket'[b].tokens = R - TicksPerSecond /\ bucket'[b].last = now
      /\ bucket'[b].expires = clock + Fill(b) + TakeBuffer
  <2>1. bucket'[b] \in BucketRec
    BY <1>1, <1>2, <1>3, <1>4 DEF BucketRec
  <2> QED BY <1>4, <2>1
<1>6. newest[b] <= clock /\ since[b] <= newest[b]
  BY DEF BudgetInv, BudgetOf
<1>7. /\ s \in Nat /\ n \in Nat /\ s <= since[b] /\ s <= now
      /\ now <= n /\ n <= clock
  BY <1>1, <1>6 DEF Earlier, Later
<1>8. g + R <= Full(b) + r * (now - since[b])
  BY OfferPaid
<1>9. granted'[b] * TicksPerSecond = g + TicksPerSecond
  BY <1>1, <1>4
<1> HIDE DEF g, R, r, s, n
<1>10. r * (now - since[b]) <= r * (now - s) /\ r * (now - s) <= r * (n - s)
  BY <1>1, <1>2, <1>7, ProductMonotone
<1>11. /\ r * (now - since[b]) \in Int /\ r * (now - s) \in Int
       /\ r * (n - s) \in Int
  BY <1>1, <1>2, <1>7
<1>12. g + TicksPerSecond + (R - TicksPerSecond) <= Full(b) + r * (now - s)
  BY <1>1, <1>2, <1>3, <1>8, <1>10, <1>11
<1>13. g + TicksPerSecond <= Full(b) + r * (n - s)
  BY <1>1, <1>2, <1>3, <1>10, <1>11, <1>12
<1>14. Paid(b)'
  BY <1>4, <1>5, <1>9, <1>12 DEF Paid, r
<1>15. Budget(b)'
  BY <1>4, <1>9, <1>13 DEF Budget, r
<1>16. Outlived(b)'
  BY <1>1, <1>2, <1>4, <1>5, <1>7, BuffersAssumption DEF Outlived
<1>17. granted'[b] # 0 /\ since'[b] <= newest'[b] /\ newest'[b] <= clock'
  BY <1>1, <1>4, <1>7
<1> QED BY <1>14, <1>15, <1>16, <1>17 DEF BudgetOf

(* A penalty empties the bucket and stamps it later than any take. *)
LEMMA PenaltyPaid ==
  ASSUME BudgetInv, NEW b \in Buckets, NEW d \in Nat \ {0},
         bucket'[b] = Penalized(d), UNCHANGED <<clock, windowVars>>
  PROVE BudgetOf(b)'
<1> DEFINE g == granted[b] * TicksPerSecond
           r == Rate(b)
           last == clock + AtMost(MaxPenalty, d)
<1>1. /\ TypeOK /\ clock \in Nat /\ since[b] \in Nat /\ newest[b] \in Nat
      /\ granted[b] \in Nat /\ g \in Int
  BY DEF BudgetInv, TypeInv, TypeOK
<1>2. r \in Nat /\ Full(b) \in Nat /\ Fill(b) \in Nat
  BY RateTypes DEF Fill
<1>3. /\ bucket'[b] # None /\ bucket'[b].tokens = 0 /\ bucket'[b].last = last
      /\ bucket'[b].expires = last + PenaltyBuffer
      /\ last \in Nat /\ clock <= last
  BY <1>1, PenaltyType
<1>4. CASE granted[b] = 0
  BY <1>4 DEF BudgetInv, BudgetOf, windowVars
<1>5. CASE granted[b] # 0
  <2>1. /\ since[b] <= newest[b] /\ newest[b] <= clock /\ Budget(b)
    BY <1>5 DEF BudgetInv, BudgetOf
  <2>2. g <= Full(b) + r * (newest[b] - since[b])
    BY <2>1 DEF Budget
  <2> HIDE DEF g, r, last
  <2>3. /\ r * (newest[b] - since[b]) <= r * (last - since[b])
        /\ r * (newest[b] - since[b]) \in Int /\ r * (last - since[b]) \in Int
    BY <1>1, <1>2, <1>3, <2>1, ProductMonotone
  <2>4. g + 0 <= Full(b) + r * (last - since[b])
    BY <1>1, <1>2, <2>2, <2>3
  <2>5. Paid(b)'
    BY <1>3, <2>4 DEF Paid, windowVars, g, r
  <2>6. Budget(b)'
    BY <2>2 DEF Budget, windowVars, g, r
  <2>7. Outlived(b)'
    <3>1. PenaltyBuffer >= MaxLag + Fill(b)
      BY BuffersAssumption DEF Fill
    <3> QED BY <1>1, <1>2, <1>3, <2>1, <3>1 DEF Outlived, windowVars
  <2> QED BY <1>5, <2>1, <2>5, <2>6, <2>7 DEF BudgetOf, windowVars
<1> QED BY <1>4, <1>5

(* The budget of b, and with it all it is about, is as before. *)
SameBucket(b) ==
    /\ bucket'[b] = bucket[b] /\ granted'[b] = granted[b]
    /\ since'[b] = since[b] /\ newest'[b] = newest[b]

LEMMA BudgetFrame ==
  ASSUME BudgetInv, NEW b \in Buckets, SameBucket(b), clock' = clock
  PROVE BudgetOf(b)'
<1>1. BudgetOf(b)
  BY DEF BudgetInv
<1> QED BY <1>1 DEF BudgetOf, Paid, Outlived, Budget, SameBucket

LEMMA BudgetTick ==
  ASSUME BudgetInv, NEW b \in Buckets, Tick
  PROVE BudgetOf(b)'
<1>1. /\ TypeOK /\ clock \in Nat /\ newest[b] \in Nat /\ BudgetOf(b)
      /\ Fill(b) \in Nat
  BY RateTypes DEF BudgetInv, TypeInv, TypeOK, Fill
<1>2. /\ clock' = clock + 1 /\ UNCHANGED windowVars
      /\ \/ bucket'[b] = bucket[b]
         \/ /\ bucket'[b] = None /\ bucket[b] # None
            /\ bucket[b].expires <= clock + 1
  BY <1>1, TickEffect
<1>3. CASE granted[b] = 0
  BY <1>1, <1>2, <1>3 DEF BudgetOf, windowVars
<1>4. CASE granted[b] # 0
  <2>1. /\ since[b] <= newest[b] /\ newest[b] <= clock
        /\ Paid(b) /\ Outlived(b) /\ Budget(b)
    BY <1>1, <1>4 DEF BudgetOf
  <2>2. Paid(b)' /\ Budget(b)'
    BY <1>2, <2>1 DEF Paid, Budget, windowVars
  <2>3. Outlived(b)'
    <3>1. bucket[b] # None => bucket[b].expires \in Nat
      BY <1>1 DEF TypeOK, BucketRec
    <3> QED BY <1>1, <1>2, <2>1, <3>1 DEF Outlived, windowVars
  <2>4. since'[b] <= newest'[b] /\ newest'[b] <= clock' /\ granted'[b] # 0
    BY <1>1, <1>2, <1>4, <2>1 DEF windowVars
  <2> QED BY <2>2, <2>3, <2>4 DEF BudgetOf
<1> QED BY <1>3, <1>4

LEMMA BudgetNext == BudgetInv /\ [Next]_vars => BudgetInv'
<1> SUFFICES ASSUME BudgetInv, [Next]_vars PROVE BudgetInv'
  OBVIOUS
<1>0. TypeInv /\ TypeInv' /\ TypeOK
  BY TypeNext DEF BudgetInv, TypeInv
<1> SUFFICES ASSUME NEW b \in Buckets PROVE BudgetOf(b)'
  BY <1>0 DEF BudgetInv
<1>1. ASSUME UNCHANGED <<clock, bucket, windowVars>> PROVE BudgetOf(b)'
  BY <1>1, BudgetFrame DEF SameBucket, windowVars
<1>2. ASSUME NEW w \in Workers, TakeGlobal(w) \/ TakeRoute(w)
      PROVE BudgetOf(b)'
  <2>1. PICK c \in Buckets :
          /\ worker[w].now \in Nat /\ worker[w].now <= clock
          /\ clock <= worker[w].now + MaxLag
          /\ Take(c, worker[w].now) \/ UNCHANGED <<bucket, windowVars>>
          /\ UNCHANGED <<clock, frozen>>
    BY <1>0, <1>2, TakeStepEffect
  <2>2. CASE UNCHANGED <<bucket, windowVars>>
    BY <1>1, <2>1, <2>2
  <2>3. CASE Take(c, worker[w].now) /\ b = c
    BY <2>1, <2>3, FirstTake, LaterTake
  <2>4. CASE Take(c, worker[w].now) /\ b # c
    <3>1. SameBucket(b)
      BY <1>0, <2>4 DEF Take, SameBucket, TypeOK
    <3> QED BY <2>1, <3>1, BudgetFrame
  <2> QED BY <2>1, <2>2, <2>3, <2>4
<1>3. ASSUME NEW w \in Workers, NEW told \in RetryAfters, Handle429(w, told)
      PROVE BudgetOf(b)'
  <2>1. PICK freeze \in SUBSET Buckets, d \in Nat \ {0} :
             bucket' = [c \in Buckets |-> IF c \in freeze THEN Penalized(d)
                                          ELSE bucket[c]]
    BY <1>0, <1>3, Handle429Effect
  <2>2. UNCHANGED <<clock, windowVars>>
    BY <1>0, <1>3, Handle429Effect
  <2>3. CASE b \in freeze
    BY <2>1, <2>2, <2>3, PenaltyPaid
  <2>4. CASE b \notin freeze
    BY <2>1, <2>2, <2>4, BudgetFrame DEF SameBucket, windowVars
  <2> QED BY <2>3, <2>4
<1>4. ASSUME NEW route \in Routes, NEW remaining \in Remainings,
             NEW reset \in Resets, UpdateFromHeaders(route, remaining, reset)
      PROVE BudgetOf(b)'
  <2>1. clock' = clock
    BY <1>4 DEF UpdateFromHeaders
  <2>2. CASE b = route
    BY <1>0, <1>4, <2>2, HeadersEffect DEF BudgetOf
  <2>3. CASE b # route
    BY <1>0, <1>4, <2>1, <2>3, HeadersEffect, BudgetFrame DEF SameBucket
  <2> QED BY <2>2, <2>3
<1>5. ASSUME NEW c \in Buckets, StartWindow(c) PROVE BudgetOf(b)'
  <2>1. CASE b = c
    BY <1>0, <1>5, <2>1 DEF StartWindow, Observe, BudgetOf, TypeOK
  <2>2. CASE b # c
    <3>1. SameBucket(b) /\ clock' = clock
      BY <1>0, <1>5, <2>2 DEF StartWindow, Observe, SameBucket, TypeOK
    <3> QED BY <3>1, BudgetFrame
  <2> QED BY <2>1, <2>2
<1>6. ASSUME NEW w \in Workers, WorkerStep(w) PROVE BudgetOf(b)'
  BY <1>1, <1>2, <1>3, <1>6 DEF WorkerStep, Begin, CallSucceeds
<1>7. ASSUME UNCHANGED vars PROVE BudgetOf(b)'
  BY <1>1, <1>7 DEF vars
<1> QED BY <1>4, <1>5, <1>6, <1>7, BudgetTick DEF Next

(* The limiter keeps its promise: in no window does a bucket grant more     *)
(* than its capacity and the refill between the first and the last stamp,   *)
(* however many workers take, in whatever order their stamps arrive, and    *)
(* whether or not the key expires or is penalized meanwhile.                *)
THEOREM BudgetKept == Spec => []WithinBudget
<1>1. BudgetInv => WithinBudget
  <2> SUFFICES ASSUME BudgetInv, NEW b \in Buckets PROVE Budget(b)
    BY DEF WithinBudget, Budget
  <2>1. CASE granted[b] # 0
    BY <2>1 DEF BudgetInv, BudgetOf
  <2>2. CASE granted[b] = 0
    <3>1. since[b] = 0 /\ newest[b] = 0 /\ Rate(b) \in Nat /\ Full(b) \in Nat
      BY <2>2, RateTypes DEF BudgetInv, BudgetOf
    <3>2. Rate(b) * (0 - 0) = 0 /\ 0 * TicksPerSecond = 0
      BY <3>1
    <3> QED BY <2>2, <3>1, <3>2 DEF Budget
  <2> QED BY <2>1, <2>2
<1> QED BY <1>1, BudgetInit, BudgetNext, PTL DEF Spec

-----------------------------------------------------------------------------
(* The ideal bucket *)

(* What the slowest caller finds: the balance of the ideal bucket. *)
Balance(b) == Refilled(b, clock - MaxLag)

(* A bucket stored as tokens and a stamp, for a caller at time now. *)
LEMMA RefilledStored ==
  ASSUME TypeOK, NEW b \in Buckets, NEW now \in Int, bucket[b] # None
  PROVE /\ bucket[b].tokens \in Nat /\ bucket[b].last \in Nat
        /\ bucket[b].expires \in Nat
        /\ Refilled(b, now) = AtMost(Full(b),
             bucket[b].tokens + Rate(b) * (now - bucket[b].last))
<1>1. /\ bucket[b].tokens \in Nat /\ bucket[b].last \in Nat
      /\ bucket[b].expires \in Nat
  BY DEF TypeOK, BucketRec
<1>2. Rate(b) \in Nat
  BY RateTypes
<1>3. (now - bucket[b].last) * Rate(b) = Rate(b) * (now - bucket[b].last)
  BY <1>1, <1>2
<1> QED BY <1>1, <1>3 DEF Refilled

(* Time passes for the balance as for the stored bucket: a caller that is   *)
(* lead ticks ahead of the slowest one finds what those refill, too.        *)
LEMMA RefilledAhead ==
  ASSUME TypeOK, NEW b \in Buckets, NEW now \in Int, NEW lead \in Nat
  PROVE Refilled(b, now + lead) =
          AtMost(Full(b), Refilled(b, now) + lead * Rate(b))
<1> DEFINE r == Rate(b)
           gain == lead * r
<1>1. r \in Nat /\ Full(b) \in Nat
  BY RateTypes
<1>2. gain \in Nat
  BY <1>1
<1>3. CASE bucket[b] = None
  BY <1>1, <1>2, <1>3 DEF Refilled, AtMost
<1>4. CASE bucket[b] # None
  <2> DEFINE t == bucket[b].tokens
             last == bucket[b].last
  <2>1. /\ t \in Nat /\ last \in Nat
        /\ Refilled(b, now) = AtMost(Full(b), t + r * (now - last))
        /\ Refilled(b, now + lead) =
             AtMost(Full(b), t + r * (now + lead - last))
    <3>1. now + lead \in Int
      OBVIOUS
    <3> QED BY <1>4, <3>1, RefilledStored
  <2> HIDE DEF r, t, last, gain
  <2>2. r * (now + lead - last) = r * (now - last) + gain
    BY <1>1, <2>1 DEF gain
  <2>3. r * (now - last) \in Int
    BY <1>1, <2>1
  <2>4. AtMost(Full(b), t + r * (now + lead - last)) =
          AtMost(Full(b), AtMost(Full(b), t + r * (now - last)) + gain)
    BY <1>1, <1>2, <2>1, <2>2, <2>3 DEF AtMost
  <2> QED BY <2>1, <2>4 DEF gain, r
<1> QED BY <1>3, <1>4

LEMMA IdealFound ==
  ASSUME NEW b \in Buckets, NEW lead \in Nat
  PROVE /\ b \in Ideal!Buckets
        /\ Ideal!Found(b, lead) = AtMost(Full(b), Balance(b) + lead * Rate(b))
  BY DEF Ideal!Found, Ideal!Buckets, Buckets, Balance, AtMost

(* A take is a take of the ideal bucket. *)
LEMMA TakeIsIdeal ==
  ASSUME TypeInv, NEW b \in Buckets, NEW now \in Nat, now <= clock,
         clock <= now + MaxLag, Take(b, now), clock' = clock
  PROVE \E lead \in 0..MaxLag : Ideal!Take(b, lead)
<1> DEFINE K == TicksPerSecond
           R == Refilled(b, now)
           r == Rate(b)
           lead == now - (clock - MaxLag)
<1>1. TypeOK /\ clock \in Nat /\ lead \in 0..MaxLag
  BY DEF TypeInv, TypeOK
<1>2. /\ r \in Nat \ {0} /\ Full(b) \in Nat /\ Fill(b) \in Nat
      /\ Full(b) <= r * Fill(b)
  BY RateTypes DEF Fill
<1>3. R = AtMost(Full(b), Balance(b) + lead * r)
  <2>1. clock - MaxLag \in Int /\ lead \in Nat /\ (clock - MaxLag) + lead = now
    BY <1>1
  <2> HIDE DEF lead
  <2> QED BY <1>1, <2>1, RefilledAhead DEF Balance
<1>4. R \in Int /\ R <= Full(b) /\ R >= K
  BY <1>1, RefilledType DEF Take, Allows
<1>5. Ideal!Found(b, lead) = R
  <2>1. lead \in Nat
    BY <1>1
  <2> HIDE DEF lead
  <2> QED BY <1>3, <2>1, IdealFound
<1>6. /\ bucket'[b] = [tokens |-> R - K, last |-> now,
                       expires |-> clock + Fill(b) + TakeBuffer]
      /\ bucket'[b] # None
      /\ \A c \in Buckets \ {b} : bucket'[c] = bucket[c]
  <2>1. bucket'[b] = [tokens |-> R - K, last |-> now,
                       expires |-> clock + Fill(b) + TakeBuffer]
    BY <1>1 DEF Take, TypeOK, Fill
  <2>2. bucket'[b] \in BucketRec
    BY <1>1, <1>2, <1>4, <2>1 DEF BucketRec
  <2> QED BY <1>1, <2>1, <2>2 DEF Take, TypeOK
<1> HIDE DEF R, K
<1>7. Balance(b)' = R - K - lead * r
  <2>1. lead * r \in Nat /\ (clock - MaxLag - now) * r = -(lead * r)
    <3>1. clock - MaxLag - now = -lead /\ lead \in Nat
      BY <1>1
    <3> HIDE DEF lead
    <3> QED BY <1>2, <3>1
  <2>2. Balance(b)' = AtMost(Full(b), R - K + (clock - MaxLag - now) * r)
    BY <1>1, <1>6 DEF Balance, Refilled
  <2> HIDE DEF lead, r
  <2> QED BY <1>2, <1>4, <2>1, <2>2 DEF AtMost, K
<1>8. \A c \in Buckets \ {b} : Balance(c)' = Balance(c)
  BY <1>6 DEF Balance, Refilled
<1>9. ~Fades(b)'
  <2>1. Fill(b) <= clock + Fill(b) + TakeBuffer - MaxLag - now
    BY <1>1, <1>2, BuffersAssumption
  <2> DEFINE n == clock + Fill(b) + TakeBuffer - MaxLag - now
  <2>2. n \in Int /\ r * Fill(b) <= r * n /\ n * r = r * n /\ r * n \in Int
    BY <1>1, <1>2, <2>1, ProductMonotone
  <2>3. /\ bucket'[b].tokens = R - K /\ bucket'[b].last = now
        /\ bucket'[b].expires = clock + Fill(b) + TakeBuffer
    BY <1>6
  <2> HIDE DEF n, r
  <2>4. ~(R - K + n * r < Full(b))
    BY <1>2, <1>4, <2>2 DEF K
  <2>5. bucket'[b].expires - MaxLag - bucket'[b].last = n
    BY <1>1, <1>2, <2>3 DEF n
  <2> QED BY <2>3, <2>4, <2>5 DEF Fades, r
<1>10. \A c \in Buckets \ {b} : Fades(c)' <=> Fades(c)
  BY <1>6 DEF Fades
<1> HIDE DEF lead, r
<1>11. [c \in Buckets |-> Balance(c)]' =
         [[c \in Buckets |-> Balance(c)] EXCEPT ![b] = R - K - lead * Rate(b)]
  BY <1>7, <1>8 DEF r
<1>12. {c \in Buckets : Fades(c)}' = {c \in Buckets : Fades(c)} \ {b}
  BY <1>9, <1>10
<1>13. Ideal!Take(b, lead)
  BY <1>4, <1>5, <1>11, <1>12 DEF Ideal!Take, Balance, K
<1> QED BY <1>1, <1>13

(* A penalty is a freeze of the ideal buckets. *)
LEMMA PenaltyIsIdeal ==
  ASSUME TypeInv, NEW freeze \in SUBSET Buckets, NEW d \in Nat \ {0},
         bucket' = [b \in Buckets |-> IF b \in freeze THEN Penalized(d)
                                       ELSE bucket[b]],
         clock' = clock
  PROVE Ideal!Freeze(freeze, AtMost(MaxPenalty, d))
<1> DEFINE p == AtMost(MaxPenalty, d)
<1>1. TypeOK /\ clock \in Nat /\ p \in Nat
  BY PenaltyType DEF TypeInv, TypeOK
<1> HIDE DEF p
<1>2. ASSUME NEW b \in freeze
      PROVE Balance(b)' = -((p + MaxLag) * Rate(b)) /\ ~Fades(b)'
  <2> DEFINE r == Rate(b)
  <2>1. /\ bucket'[b] # None /\ bucket'[b].tokens = 0
        /\ bucket'[b].last = clock + p
        /\ bucket'[b].expires = clock + p + PenaltyBuffer
    BY <1>1, PenaltyType DEF p
  <2>2. /\ r \in Nat \ {0} /\ Full(b) \in Nat /\ Fill(b) \in Nat
        /\ Full(b) <= r * Fill(b)
    BY RateTypes DEF Fill
  <2>3. PenaltyBuffer - MaxLag >= Fill(b)
    BY <2>2, BuffersAssumption DEF Fill
  <2>4. /\ (p + MaxLag) * r \in Nat
        /\ (clock - MaxLag - (clock + p)) * r = -((p + MaxLag) * r)
    <3>1. clock - MaxLag - (clock + p) = -(p + MaxLag) /\ p + MaxLag \in Nat
      BY <1>1
    <3> QED BY <2>2, <3>1
  <2>5. /\ r * Fill(b) <= r * (PenaltyBuffer - MaxLag)
        /\ (PenaltyBuffer - MaxLag) * r = r * (PenaltyBuffer - MaxLag)
        /\ r * Fill(b) \in Int /\ r * (PenaltyBuffer - MaxLag) \in Int
    BY <2>2, <2>3, ProductMonotone
  <2>6. clock + p + PenaltyBuffer - MaxLag - (clock + p) = PenaltyBuffer - MaxLag
    BY <1>1
  <2> HIDE DEF r
  <2>7. AtMost(Full(b), 0 + -((p + MaxLag) * r)) = -((p + MaxLag) * r)
    BY <2>2, <2>4 DEF AtMost
  <2>8. Balance(b)' = -((p + MaxLag) * r)
    BY <2>1, <2>4, <2>7 DEF Balance, Refilled, r
  <2>9. ~(0 + (PenaltyBuffer - MaxLag) * r < Full(b))
    BY <2>2, <2>5
  <2>10. ~Fades(b)'
    <3>1. bucket'[b].expires - MaxLag - bucket'[b].last
            = PenaltyBuffer - MaxLag
      BY <1>1, <2>1, <2>6
    <3> QED BY <2>1, <2>9, <3>1 DEF Fades, r
  <2> QED BY <2>8, <2>10 DEF r
<1>3. ASSUME NEW b \in Buckets \ freeze
      PROVE Balance(b)' = Balance(b) /\ (Fades(b)' <=> Fades(b))
  BY <1>3 DEF Balance, Refilled, Fades
<1>4. [b \in Buckets |-> Balance(b)]' =
        [b \in Buckets |-> IF b \in freeze
                            THEN -((p + MaxLag) * Rate(b)) ELSE Balance(b)]
  BY <1>2, <1>3
<1>5. {b \in Buckets : Fades(b)}' = {b \in Buckets : Fades(b)} \ freeze
  BY <1>2, <1>3
<1>6. Ideal!Freeze(freeze, p)
  BY <1>4, <1>5 DEF Ideal!Freeze, Ideal!Buckets, Buckets, Balance
<1> QED BY <1>6 DEF p

(* A header update is a report to the ideal bucket. *)
LEMMA HeadersAreIdeal ==
  ASSUME TypeInv, NEW route \in Routes, NEW remaining \in Remainings,
         NEW reset \in Resets, UpdateFromHeaders(route, remaining, reset)
  PROVE Ideal!Report(route, Later(remaining, 0))
<1> DEFINE n == Later(remaining, 0)
           r == Rate(route)
           rest == [b \in Buckets |-> Balance(b)]
<1>1. TypeOK /\ clock \in Nat /\ clock' = clock /\ route \in Buckets
  BY DEF TypeInv, TypeOK, Buckets, UpdateFromHeaders
<1>2. n \in Nat /\ r \in Nat /\ Full(route) \in Nat
  BY <1>1, RateTypes DEF Later
<1>3. \A b \in Buckets \ {route} : bucket'[b] = bucket[b]
  BY <1>1, HeadersEffect
<1>4. /\ bucket'[route] # None
      /\ bucket'[route].tokens = n * TicksPerSecond
      /\ bucket'[route].last = clock
  <2> DEFINE left == reset + HeaderBuffer
             ttl == AtMost(MaxPenalty, IF left <= 0 THEN HeaderBuffer ELSE left)
  <2>1. ttl \in Nat /\ n * TicksPerSecond \in Nat
    BY <1>2 DEF AtMost
  <2>2. bucket'[route] = [tokens |-> n * TicksPerSecond, last |-> clock,
                          expires |-> clock + ttl]
    BY <1>1 DEF UpdateFromHeaders, TypeOK
  <2> HIDE DEF n, ttl
  <2>3. bucket'[route] \in BucketRec
    BY <1>1, <2>1, <2>2 DEF BucketRec
  <2> QED BY <2>2, <2>3
<1> HIDE DEF n
<1>5. Balance(route)' =
        IF n * TicksPerSecond - MaxLag * r > Full(route) THEN Full(route)
        ELSE n * TicksPerSecond - MaxLag * r
  <2>1. Balance(route)' = AtMost(Full(route), n * TicksPerSecond
                                                + (clock - MaxLag - clock) * r)
    BY <1>1, <1>4 DEF Balance, Refilled
  <2>2. (clock - MaxLag - clock) * r = -(MaxLag * r) /\ MaxLag * r \in Int
    <3>1. clock - MaxLag - clock = -MaxLag
      BY <1>1
    <3> QED BY <1>2, <3>1
  <2>3. n * TicksPerSecond \in Int
    BY <1>2
  <2> HIDE DEF r
  <2> QED BY <1>2, <2>1, <2>2, <2>3 DEF AtMost
<1>6. ASSUME NEW b \in Buckets \ {route}
      PROVE Balance(b)' = Balance(b) /\ (Fades(b)' <=> Fades(b))
  BY <1>1, <1>3 DEF Balance, Refilled, Fades
<1>7. rest' = [rest EXCEPT ![route] =
                 IF n * TicksPerSecond - MaxLag * r > Full(route)
                 THEN Full(route) ELSE n * TicksPerSecond - MaxLag * r]
  BY <1>1, <1>5, <1>6
<1>8. {b \in Buckets : Fades(b)}' \in
        {{b \in Buckets : Fades(b)} \cup {route},
         {b \in Buckets : Fades(b)} \ {route}}
  <2>1. CASE Fades(route)'
    BY <1>1, <1>6, <2>1
  <2>2. CASE ~Fades(route)'
    BY <1>1, <1>6, <2>2
  <2> QED BY <2>1, <2>2
<1> QED BY <1>1, <1>7, <1>8 DEF Ideal!Report, Balance, n

(* A tick refills the ideal buckets; a key that expires was full, or faded. *)
LEMMA TickIsIdeal ==
  ASSUME TypeInv, Tick
  PROVE Ideal!Refill
<1> DEFINE fades == {b \in Buckets : Fades(b)}
<1> DEFINE gone == {b \in Buckets : Fades(b) /\ bucket'[b] = None}
<1>1. TypeOK /\ clock \in Nat /\ clock' = clock + 1
  BY TickEffect DEF TypeInv, TypeOK
<1>2. ASSUME NEW b \in Buckets, bucket'[b] = bucket[b]
      PROVE /\ Balance(b)' = AtMost(Full(b), Balance(b) + 1 * Rate(b))
            /\ Fades(b)' <=> Fades(b)
  <2>1. Balance(b)' = Refilled(b, (clock - MaxLag) + 1)
    <3>1. clock' - MaxLag = (clock - MaxLag) + 1
      BY <1>1
    <3> QED BY <1>2, <3>1 DEF Balance, Refilled
  <2>2. Refilled(b, (clock - MaxLag) + 1) =
          AtMost(Full(b), Refilled(b, clock - MaxLag) + 1 * Rate(b))
    <3>1. clock - MaxLag \in Int
      BY <1>1
    <3> QED BY <1>1, <3>1, RefilledAhead
  <2> QED BY <1>2, <2>1, <2>2 DEF Balance, Fades
<1>3. ASSUME NEW b \in Buckets, bucket'[b] = None
      PROVE Balance(b)' = Full(b) /\ ~Fades(b)'
  BY <1>3 DEF Balance, Refilled, Fades
<1>4. ASSUME NEW b \in Buckets, bucket'[b] = None, bucket[b] # None,
             bucket[b].expires <= clock + 1, ~Fades(b)
      PROVE AtMost(Full(b), Balance(b) + 1 * Rate(b)) = Full(b)
  <2> DEFINE t == bucket[b].tokens
             last == bucket[b].last
             e == bucket[b].expires
             r == Rate(b)
  <2>1. r \in Nat /\ Full(b) \in Nat
    BY RateTypes
  <2>2. /\ t \in Nat /\ last \in Nat /\ e \in Nat
        /\ Refilled(b, (clock - MaxLag) + 1) =
             AtMost(Full(b), t + r * ((clock - MaxLag) + 1 - last))
    <3>1. (clock - MaxLag) + 1 \in Int
      BY <1>1
    <3> QED BY <1>1, <1>4, <3>1, RefilledStored
  <2>3. ~(t + (e - MaxLag - last) * r < Full(b))
    BY <1>4 DEF Fades
  <2>4. e <= clock + 1
    BY <1>4
  <2>5. Refilled(b, (clock - MaxLag) + 1) =
          AtMost(Full(b), Balance(b) + 1 * r)
    <3>1. clock - MaxLag \in Int
      BY <1>1
    <3> QED BY <1>1, <3>1, RefilledAhead DEF Balance
  <2> HIDE DEF t, last, e, r
  <2>6. /\ (e - MaxLag - last) * r = r * (e - MaxLag - last)
        /\ r * (e - MaxLag - last) <= r * ((clock - MaxLag) + 1 - last)
        /\ r * (e - MaxLag - last) \in Int
        /\ r * ((clock - MaxLag) + 1 - last) \in Int
    BY <1>1, <2>1, <2>2, <2>4, ProductMonotone
  <2>7. AtMost(Full(b), t + r * ((clock - MaxLag) + 1 - last)) = Full(b)
    BY <2>1, <2>2, <2>3, <2>6 DEF AtMost
  <2> QED BY <2>2, <2>5, <2>7 DEF r
<1>5. \A b \in Buckets :
        \/ bucket'[b] = bucket[b]
        \/ /\ bucket'[b] = None /\ bucket[b] # None
           /\ bucket[b].expires <= clock + 1
  BY <1>1, TickEffect
<1>6. ASSUME NEW b \in Buckets
      PROVE /\ Balance(b)' = IF b \in gone THEN Full(b)
                            ELSE AtMost(Full(b), Balance(b) + 1 * Rate(b))
            /\ Fades(b)' <=> Fades(b) /\ b \notin gone
  <2>1. CASE bucket'[b] = bucket[b] /\ bucket[b] # None
    BY <1>2, <2>1
  <2>2. CASE bucket'[b] = None /\ Fades(b)
    BY <1>3, <2>2
  <2>3. CASE bucket'[b] = None /\ bucket[b] # None /\ ~Fades(b)
    BY <1>3, <1>4, <1>5, <2>3
  <2>4. CASE bucket'[b] = None /\ bucket[b] = None
    <3>1. ~Fades(b)
      BY <2>4 DEF Fades
    <3> QED BY <1>2, <2>4, <3>1
  <2> QED BY <1>5, <2>1, <2>2, <2>3, <2>4
<1> HIDE DEF gone
<1>7. [b \in Buckets |-> Balance(b)]' =
        [b \in Buckets |-> IF b \in gone THEN Full(b)
                            ELSE Ideal!Found(b, 1)]
  BY <1>6, IdealFound
<1>8. gone \in SUBSET fades
  BY DEF gone
<1>9. fades' = fades \ gone
  BY <1>6
<1>10. Ideal!Buckets = Buckets
  BY DEF Ideal!Buckets, Buckets
<1> QED BY <1>7, <1>8, <1>9, <1>10 DEF Ideal!Refill, Balance

(* The limiter implements TokenBucket: whatever order the stamps of takes   *)
(* arrive in, through expiring keys and stamps in the future, every step is *)
(* one of the ideal bucket's or leaves it alone, for any rates, capacities, *)
(* lags, penalties and headers. The one thing the buckets forget too early  *)
(* is what headers reported.                                                *)
THEOREM ImplementsTokenBucket == Spec => IsTokenBucket
<1>1. Init => Ideal!Init
  <2> SUFFICES ASSUME Init PROVE Ideal!Init
    OBVIOUS
  <2>1. \A b \in Buckets : bucket[b] = None
    BY DEF Init
  <2>2. \A b \in Buckets : Balance(b) = Full(b) /\ ~Fades(b)
    BY <2>1 DEF Balance, Refilled, Fades
  <2> QED BY <2>2 DEF Ideal!Init, Ideal!Buckets, Buckets, Balance
<1>2. TypeInv /\ [Next]_vars =>
        [Ideal!Next]_<<[b \in Buckets |-> Refilled(b, clock - MaxLag)],
                       {b \in Buckets : Fades(b)}>>
  <2> SUFFICES ASSUME TypeInv, [Next]_vars
               PROVE Ideal!Next
    OBVIOUS
  <2>1. ASSUME UNCHANGED <<clock, bucket>> PROVE Ideal!Next
    BY <2>1 DEF Ideal!Next, Ideal!Refuse, Refilled, Fades
  <2>2. ASSUME NEW w \in Workers, TakeGlobal(w) \/ TakeRoute(w)
        PROVE Ideal!Next
    <3>1. PICK b \in Buckets :
            /\ worker[w].now \in Nat /\ worker[w].now <= clock
            /\ clock <= worker[w].now + MaxLag
            /\ Take(b, worker[w].now) \/ UNCHANGED <<bucket, windowVars>>
            /\ UNCHANGED <<clock, frozen>>
      BY <2>2, TakeStepEffect
    <3>2. CASE Take(b, worker[w].now)
      <4>1. \E lead \in 0..MaxLag : Ideal!Take(b, lead)
        BY <3>1, <3>2, TakeIsIdeal
      <4>2. b \in Ideal!Buckets
        BY DEF Ideal!Buckets, Buckets
      <4> QED BY <4>1, <4>2 DEF Ideal!Next
    <3>3. CASE UNCHANGED <<bucket, windowVars>>
      BY <2>1, <3>1, <3>3
    <3> QED BY <3>1, <3>2, <3>3
  <2>3. ASSUME NEW w \in Workers, NEW told \in RetryAfters, Handle429(w, told)
        PROVE Ideal!Next
    <3> DEFINE d == IF told <= 0 THEN DefaultRetryAfter ELSE told
    <3>1. d \in Nat \ {0} /\ AtMost(MaxPenalty, d) \in 1..MaxPenalty
      BY DEF AtMost
    <3>2. worker[w].route \in Routes
      BY <2>3 DEF Handle429, TypeInv, RouteKnown
    <3>3. PenalizeUntil(worker[w].route, d) /\ clock' = clock
      BY <2>3 DEF Handle429
    <3> HIDE DEF d
    <3>4. PICK hit \in {{}, {"global"}, {"global", worker[w].route}} :
            bucket' = [b \in Buckets |-> IF b \in hit THEN Penalized(d)
                                          ELSE bucket[b]]
      <4>1. ~(d <= 0)
        BY <3>1
      <4> QED BY <3>3, <4>1 DEF PenalizeUntil
    <3>5. CASE hit = {}
      <4>1. bucket' = bucket
        BY <3>4, <3>5 DEF TypeInv, TypeOK
      <4> QED BY <2>1, <3>3, <4>1
    <3>6. CASE hit # {}
      <4>1. hit \in SUBSET Buckets
        BY <3>2, <3>4 DEF Buckets
      <4>2. Ideal!Freeze(hit, AtMost(MaxPenalty, d))
        BY <3>1, <3>3, <3>4, <4>1, PenaltyIsIdeal
      <4>3. hit = {"global"} \/ hit = {"global", worker[w].route}
        BY <3>4, <3>6
      <4>4. \E route \in Routes, penalty \in 1..MaxPenalty :
               \/ Ideal!Freeze({"global"}, penalty)
               \/ Ideal!Freeze({"global", route}, penalty)
        <5>1. CASE hit = {"global"}
          BY <3>1, <3>2, <4>2, <5>1, Zenon
        <5>2. CASE hit = {"global", worker[w].route}
          BY <3>1, <3>2, <4>2, <5>2, Zenon
        <5> QED BY <4>3, <5>1, <5>2
      <4> QED BY <4>4, Zenon DEF Ideal!Next
    <3> QED BY <3>5, <3>6
  <2>4. ASSUME NEW route \in Routes, NEW remaining \in Remainings,
               NEW reset \in Resets, UpdateFromHeaders(route, remaining, reset)
        PROVE Ideal!Next
    <3>1. Ideal!Report(route, Later(remaining, 0))
      BY <2>4, HeadersAreIdeal
    <3>2. Later(remaining, 0) \in {Later(x, 0) : x \in Remainings}
      OBVIOUS
    <3> QED BY <3>1, <3>2 DEF Ideal!Next
  <2>5. CASE Tick
    BY <2>5, TickIsIdeal DEF Ideal!Next
  <2>6. ASSUME NEW b \in Buckets, StartWindow(b) PROVE Ideal!Next
    BY <2>1, <2>6 DEF StartWindow
  <2>7. ASSUME NEW w \in Workers, WorkerStep(w) PROVE Ideal!Next
    BY <2>1, <2>2, <2>3, <2>7 DEF WorkerStep, Begin, CallSucceeds
  <2>8. CASE UNCHANGED vars
    BY <2>1, <2>8 DEF vars
  <2> QED BY <2>4, <2>5, <2>6, <2>7, <2>8 DEF Next
<1> QED BY <1>1, <1>2, TypeInit, TypeNext, PTL
        DEF Spec, IsTokenBucket, Ideal!Spec
=============================================================================
