----------------------------- MODULE TokenBucket -----------------------------
(***************************************************************************)
(* What the rate limiter promises, whatever stamps, hashes and expiring    *)
(* keys it is made of: a token bucket per route and a global one.          *)
(*                                                                         *)
(* A bucket is its balance, refilled with every tick and never fuller than *)
(* its capacity; a take costs a token. A caller may have read the clock up *)
(* to MaxLag ticks ago. The balance is the one that the slowest caller     *)
(* finds; one that is lead ticks ahead of it finds what those refill, too. *)
(* (Without a lag this is the bucket of the textbooks.)                    *)
(***************************************************************************)
EXTENDS Integers

CONSTANTS
    Routes,
    Cost,           \* of a take
    MaxBalance,     \* of each bucket: its capacity, and
    Gain,           \* ... what a tick refills
    Reports,        \* tokens that Discord may report
    MaxLag, MaxPenalty

VARIABLES
    balance,
    fading          \* buckets whose balance will be forgotten

Buckets == Routes \cup {"global"}

Found(b, lead) ==
    LET sum == balance[b] + lead * Gain[b]
    IN IF sum > MaxBalance[b] THEN MaxBalance[b] ELSE sum

Init ==
    /\ balance = [b \in Buckets |-> MaxBalance[b]]
    /\ fading = {}

Take(b, lead) ==
    /\ Found(b, lead) >= Cost
    /\ balance' = [balance EXCEPT ![b] =
                     Found(b, lead) - Cost - lead * Gain[b]]
    /\ fading' = fading \ {b}

(* Frozen buckets have a debt that takes as long as the penalty to pay. *)
Freeze(frozen, penalty) ==
    /\ balance' = [b \in Buckets |-> IF b \in frozen
                                     THEN -((penalty + MaxLag) * Gain[b])
                                     ELSE balance[b]]
    /\ fading' = fading \ frozen

(* What Discord reports replaces the balance of a route, for a while that   *)
(* is Discord's to choose.                                                  *)
Report(route, tokens) ==
    LET sum == tokens * Cost - MaxLag * Gain[route] IN
    /\ balance' = [balance EXCEPT ![route] =
                     IF sum > MaxBalance[route] THEN MaxBalance[route] ELSE sum]
    /\ fading' \in {fading \cup {route}, fading \ {route}}

(* A tick. Only a fading bucket can be full before it was refilled. *)
Refill ==
    \E forgotten \in SUBSET fading :
        /\ balance' = [b \in Buckets |-> IF b \in forgotten
                                         THEN MaxBalance[b] ELSE Found(b, 1)]
        /\ fading' = fading \ forgotten

(* A caller that finds too little is refused, and leaves no trace. *)
Refuse == UNCHANGED <<balance, fading>>

Next ==
    \/ Refuse
    \/ \E b \in Buckets, lead \in 0..MaxLag : Take(b, lead)
    \/ \E route \in Routes, penalty \in 1..MaxPenalty :
         Freeze({"global"}, penalty) \/ Freeze({"global", route}, penalty)
    \/ \E route \in Routes, tokens \in Reports : Report(route, tokens)
    \/ Refill

Spec == Init /\ [][Next]_<<balance, fading>>
=============================================================================
