------------------------------ MODULE RateLimit ------------------------------
(***************************************************************************)
(* The Valkey token buckets of ratelimit.go and the workers that take from *)
(* them: the global bucket, one per route, and their freezing after a 429. *)
(*                                                                         *)
(* A tick is 1/TicksPerSecond of a second, the code's millisecond. Tokens  *)
(* are counted in that fraction too, so that a bucket that refills at rate *)
(* tokens per second gains rate units per tick, and a take costs           *)
(* TicksPerSecond units.                                                   *)
(***************************************************************************)
EXTENDS Integers

CONSTANTS
    Routes,          \* per-route buckets
    Workers,         \* handler goroutines, of any worker process
    None,            \* no such key, no expiry, no route, no stamp
    TicksPerSecond,
    GlobalCapacity, GlobalRefillRate, DefaultRouteCapacity,
    TakeBuffer, HeaderBuffer, PenaltyBuffer,  \* ticks added to each TTL
    MaxPenalty,      \* maxPenaltyDuration, in ticks
    RetryAfters,     \* Retry-After values of 429s, in ticks
    DefaultRetryAfter,  \* of a 429 without one
    Remainings,      \* X-RateLimit-Remaining values
    Resets,          \* ticks until X-RateLimit-Reset
    MaxLag,          \* ticks between a take's reading of the clock and its EVAL
    MaxTime          \* bound: ticks

Buckets == Routes \cup {"global"}

(* A bucket's hash, and when its key expires. *)
BucketRec == [tokens : Nat, last : Nat, expires : Nat]

ASSUME NoneAssumption ==
    /\ None \notin Int /\ None \notin Buckets /\ None \notin BucketRec
    /\ "global" \notin Routes
ASSUME RatesAssumption ==
    /\ TicksPerSecond \in Nat \ {0}
    /\ GlobalCapacity \in Nat \ {0} /\ GlobalRefillRate \in Nat \ {0}
    /\ DefaultRouteCapacity \in Nat \ {0}
ASSUME TimesAssumption ==
    /\ TakeBuffer \in Nat /\ HeaderBuffer \in Nat \ {0}
    /\ PenaltyBuffer \in Nat /\ MaxPenalty \in Nat \ {0}
    /\ DefaultRetryAfter \in Nat \ {0}
    /\ MaxLag \in Nat /\ MaxTime \in Nat
ASSUME InputsAssumption ==
    RetryAfters \subseteq Int /\ Remainings \subseteq Int /\ Resets \subseteq Int

Capacity(b) == IF b = "global" THEN GlobalCapacity ELSE DefaultRouteCapacity
Rate(b) == IF b = "global" THEN GlobalRefillRate ELSE DefaultRouteCapacity
Full(b) == Capacity(b) * TicksPerSecond
CeilDiv(a, d) == (a + d - 1) \div d
AtMost(limit, n) == IF n > limit THEN limit ELSE n

(* Buckets outlive what they have to remember: a key is gone only when the  *)
(* bucket would be full, even for a take that read the clock a while ago.   *)
(* (The code: 5 and 10 seconds for buckets that fill in one.)               *)
ASSUME BuffersAssumption ==
    /\ TakeBuffer >= MaxLag
    /\ \A b \in Buckets : PenaltyBuffer >= MaxLag + CeilDiv(Full(b), Rate(b))

VARIABLES
    clock,     \* wall clock, in ticks
    bucket,    \* Valkey: hash and TTL of each bucket; None: no such key
    worker,    \* local state of each goroutine
    frozen,    \* history: the end of the bucket's last penalty
    granted,   \* history: tokens granted in the window under observation
    since,     \* history: the earliest stamp, and
    newest     \* ... the latest stamp of those takes

windowVars == <<granted, since, newest>>
vars == <<clock, bucket, worker, frozen, windowVars>>

-----------------------------------------------------------------------------
(* Types *)

WorkerRec ==
    [pc : {"idle", "global", "route", "call"}, route : Routes \cup {None},
     now : Nat, wake : Nat]
Idle == [pc |-> "idle", route |-> None, now |-> 0, wake |-> 0]

(* Type invariant: every variable stays in its declared set; in particular  *)
(* no stored bucket is in debt.                                             *)
TypeOK ==
    /\ clock \in Nat
    /\ bucket \in [Buckets -> BucketRec \cup {None}]
    /\ worker \in [Workers -> WorkerRec]
    /\ frozen \in [Buckets -> Nat]
    /\ granted \in [Buckets -> Nat]
    /\ since \in [Buckets -> Nat] /\ newest \in [Buckets -> Nat]

Init ==
    /\ clock = 0
    /\ bucket = [b \in Buckets |-> None]
    /\ worker = [w \in Workers |-> Idle]
    /\ frozen = [b \in Buckets |-> 0]
    /\ granted = [b \in Buckets |-> 0]
    /\ since = [b \in Buckets |-> 0] /\ newest = [b \in Buckets |-> 0]

-----------------------------------------------------------------------------
(* The take script *)

(* Mutant: a refill without a ceiling. *)
RefilledUncapped(b, now) ==
    IF bucket[b] = None THEN Full(b)
    ELSE bucket[b].tokens + (now - bucket[b].last) * Rate(b)

(* The tokens of b for a caller that read the clock at now; below zero if   *)
(* the bucket was stamped with a later time.                                *)
Refilled(b, now) ==
    IF bucket[b] = None THEN Full(b)
    ELSE AtMost(Full(b), bucket[b].tokens + (now - bucket[b].last) * Rate(b))

Allows(b, now) == Refilled(b, now) >= TicksPerSecond

(* Mutant: rounded down. *)
WaitFloor(b, now) ==
    LET wait == (TicksPerSecond - Refilled(b, now)) \div Rate(b)
    IN IF wait < 1 THEN 1 ELSE wait

(* wait_ms, at least a millisecond: the RetryAfter of a refusal. *)
Wait(b, now) ==
    LET wait == CeilDiv(TicksPerSecond - Refilled(b, now), Rate(b))
    IN IF wait < 1 THEN 1 ELSE wait

Earlier(a, b) == IF a < b THEN a ELSE b
Later(a, b) == IF a < b THEN b ELSE a

(* Mutant: the key lives for the buffer alone. *)
TakeShortLived(b, now) ==
    /\ Allows(b, now)
    /\ bucket' = [bucket EXCEPT ![b] =
                    [tokens |-> Refilled(b, now) - TicksPerSecond,
                     last |-> now, expires |-> clock + TakeBuffer]]
    /\ granted' = [granted EXCEPT ![b] = @ + 1]
    /\ since' = [since EXCEPT ![b] = IF granted[b] = 0 THEN now
                                     ELSE Earlier(@, now)]
    /\ newest' = [newest EXCEPT ![b] = IF granted[b] = 0 THEN now
                                       ELSE Later(@, now)]

(* EVAL: a take that is refused writes nothing. *)
Take(b, now) ==
    /\ Allows(b, now)
    /\ bucket' = [bucket EXCEPT ![b] =
                    [tokens |-> Refilled(b, now) - TicksPerSecond,
                     last |-> now,
                     expires |-> clock + CeilDiv(Full(b), Rate(b))
                                       + TakeBuffer]]
    /\ granted' = [granted EXCEPT ![b] = @ + 1]
    /\ since' = [since EXCEPT ![b] = IF granted[b] = 0 THEN now
                                     ELSE Earlier(@, now)]
    /\ newest' = [newest EXCEPT ![b] = IF granted[b] = 0 THEN now
                                       ELSE Later(@, now)]

-----------------------------------------------------------------------------
(* takeTokens and handle429 *)

(* A worker with a task that is due wants to call a route, and reads the    *)
(* clock for TakeGlobal.                                                    *)
Begin(w, route) ==
    /\ worker[w].pc = "idle" /\ worker[w].wake <= clock
    /\ worker' = [worker EXCEPT ![w] = [Idle EXCEPT !.pc = "global",
                                          !.route = route, !.now = clock]]
    /\ UNCHANGED <<clock, bucket, frozen, windowVars>>

(* RetryDelayFunc: what a rate limit says; for any other error a second at  *)
(* least (it doubles with each attempt: Begin may come as late as it likes).*)
RetryDelay(retryAfter) ==
    IF retryAfter > 0 THEN retryAfter ELSE TicksPerSecond

(* The task is put off. *)
Sleep(w, retryAfter) ==
    worker' = [worker EXCEPT ![w] =
                 [Idle EXCEPT !.wake = clock + RetryDelay(retryAfter)]]

(* The bucket is empty. *)
Refuse(w, b) ==
    /\ ~Allows(b, worker[w].now)
    /\ Sleep(w, Wait(b, worker[w].now))
    /\ UNCHANGED <<bucket, windowVars>>

(* A take whose reply is lost has taken its token. *)
TakeGlobal(w) ==
    /\ worker[w].pc = "global"
    /\ \/ /\ Take("global", worker[w].now)
          /\ \/ worker' = [worker EXCEPT ![w].pc = "route", ![w].now = clock]
             \/ Sleep(w, 0)
       \/ Refuse(w, "global")
    /\ UNCHANGED <<clock, frozen>>

(* A refusal does not give the global token back. *)
TakeRoute(w) ==
    /\ worker[w].pc = "route"
    /\ \/ /\ Take(worker[w].route, worker[w].now)
          /\ \/ worker' = [worker EXCEPT ![w].pc = "call", ![w].now = 0]
             \/ Sleep(w, 0)
       \/ Refuse(w, worker[w].route)
    /\ UNCHANGED <<clock, frozen>>

(* Discord answers the call. *)
CallSucceeds(w) ==
    /\ worker[w].pc = "call"
    /\ worker' = [worker EXCEPT ![w] = Idle]
    /\ UNCHANGED <<clock, bucket, frozen, windowVars>>

(* Mutant: the stamp is the present. *)
PenalizedNow(retryAfter) ==
    [tokens |-> 0, last |-> clock,
     expires |-> clock + AtMost(MaxPenalty, retryAfter) + PenaltyBuffer]

Penalized(retryAfter) ==
    LET penalty == AtMost(MaxPenalty, retryAfter)
    IN [tokens |-> 0, last |-> clock + penalty,
        expires |-> clock + penalty + PenaltyBuffer]

(* The pipeline may break after the global bucket's commands, or before. *)
PenalizeUntil(route, retryAfter) ==
    \E hit \in {{}, {"global"}, {"global", route}} :
        LET freeze == IF retryAfter <= 0 THEN {} ELSE hit IN
        /\ bucket' = [b \in Buckets |-> IF b \in freeze
                                        THEN Penalized(retryAfter)
                                        ELSE bucket[b]]
        /\ frozen' = [b \in Buckets |-> IF b \in freeze
                                        THEN clock
                                             + AtMost(MaxPenalty, retryAfter)
                                        ELSE frozen[b]]

(* Discord answers 429. The task waits as long as it was told to, even if   *)
(* the buckets are frozen for less.                                         *)
Handle429(w, told) ==
    LET retryAfter == IF told <= 0 THEN DefaultRetryAfter ELSE told IN
    /\ worker[w].pc = "call"
    /\ PenalizeUntil(worker[w].route, retryAfter)
    /\ Sleep(w, retryAfter)
    /\ UNCHANGED <<clock, windowVars>>

(* History: the takes of b are counted from now on. *)
Observe(b) ==
    /\ granted' = [granted EXCEPT ![b] = 0]
    /\ since' = [since EXCEPT ![b] = 0]
    /\ newest' = [newest EXCEPT ![b] = 0]

(* Mutant: a negative remaining is believed. *)
UpdateFromHeadersUnclamped(route, remaining, reset) ==
    /\ bucket' = [bucket EXCEPT ![route] =
                    [tokens |-> remaining * TicksPerSecond,
                     last |-> clock, expires |-> clock + HeaderBuffer]]
    /\ frozen' = [frozen EXCEPT ![route] = 0]
    /\ Observe(route)
    /\ UNCHANGED <<clock, worker>>

(* UpdateFromHeaders sets the tokens of a route to what Discord says, and   *)
(* ends a penalty. The limit it stores is read by nobody. The observation   *)
(* of the route's takes begins again.                                       *)
UpdateFromHeaders(route, remaining, reset) ==
    LET left == reset + HeaderBuffer
        ttl == AtMost(MaxPenalty, IF left <= 0 THEN HeaderBuffer ELSE left) IN
    /\ bucket' = [bucket EXCEPT ![route] =
                    [tokens |-> Later(remaining, 0) * TicksPerSecond,
                     last |-> clock, expires |-> clock + ttl]]
    /\ frozen' = [frozen EXCEPT ![route] = 0]
    /\ Observe(route)
    /\ UNCHANGED <<clock, worker>>

-----------------------------------------------------------------------------
(* Time *)

Expired(b) == bucket[b] # None /\ bucket[b].expires <= clock + 1

(* No script is evaluated more than MaxLag after its clock was read. *)
Tick ==
    /\ clock < MaxTime
    /\ \A w \in Workers : worker[w].pc \in {"global", "route"} =>
                             clock < worker[w].now + MaxLag
    /\ clock' = clock + 1
    /\ bucket' = [b \in Buckets |-> IF Expired(b) THEN None ELSE bucket[b]]
    /\ UNCHANGED <<worker, frozen, windowVars>>

(* Any moment may be the first of a window. *)
StartWindow(b) ==
    /\ granted[b] > 0
    /\ Observe(b)
    /\ UNCHANGED <<clock, bucket, worker, frozen>>

-----------------------------------------------------------------------------

WorkerStep(w) ==
    \/ \E route \in Routes : Begin(w, route)
    \/ TakeGlobal(w) \/ TakeRoute(w) \/ CallSucceeds(w)
    \/ \E told \in RetryAfters : Handle429(w, told)

Next ==
    \/ \E w \in Workers : WorkerStep(w)
    \/ \E route \in Routes, remaining \in Remainings, reset \in Resets :
         UpdateFromHeaders(route, remaining, reset)
    \/ \E b \in Buckets : StartWindow(b)
    \/ Tick

Spec == Init /\ [][Next]_vars

-----------------------------------------------------------------------------
(* Properties *)

(* Whatever takes are evaluated in whatever order of their stamps, and      *)
(* however often the key expires: in no window does a bucket grant more     *)
(* than its capacity and what it refills between the first and the last     *)
(* stamp. (For a route, between two header updates.)                        *)
WithinBudget ==
    \A b \in Buckets :
        granted[b] * TicksPerSecond
            <= Full(b) + Rate(b) * (newest[b] - since[b])

(* A penalized bucket grants nothing until the penalty is over, not even    *)
(* after its key expired, unless another penalty or an update replaces it.  *)
PenaltyHolds ==
    \A b \in Buckets : clock < frozen[b] => ~Allows(b, clock)

(* A refused caller is told when to come back: at that time, and at none    *)
(* before it, the bucket as it is has a token.                              *)
WaitIsExact ==
    \A b \in Buckets : ~Allows(b, clock) =>
        LET again == clock + Wait(b, clock) IN
        Allows(b, again) /\ ~Allows(b, again - 1)

(* A key that expires before the bucket is full for the slowest caller. *)
Fades(b) ==
    /\ bucket[b] # None
    /\ bucket[b].tokens
         + (bucket[b].expires - MaxLag - bucket[b].last) * Rate(b) < Full(b)

Ideal == INSTANCE TokenBucket WITH
    Cost <- TicksPerSecond,
    MaxBalance <- [b \in Buckets |-> Full(b)],
    Gain <- [b \in Buckets |-> Rate(b)],
    Reports <- {Later(remaining, 0) : remaining \in Remainings},
    balance <- [b \in Buckets |-> Refilled(b, clock - MaxLag)],
    fading <- {b \in Buckets : Fades(b)}

(* The stamps, the expiring keys and the stamps in the future implement the *)
(* buckets of TokenBucket: takes whose stamps arrive in any order, by any   *)
(* number of workers, find and leave what its takes do, and no key expires  *)
(* early but one that headers wrote.                                        *)
IsTokenBucket == Ideal!Spec
=============================================================================
