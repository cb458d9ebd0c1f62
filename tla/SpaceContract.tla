---------------------------- MODULE SpaceContract ----------------------------
(***************************************************************************)
(* What provisioning promises about a row of spaces, whatever the outbox,  *)
(* the queue, the lock and the worker do to keep the promise:              *)
(*   - a space is committed once, pending and without a channel;           *)
(*   - a channel id appears together with acl_state applied, in one step,  *)
(*     and both are final;                                                 *)
(*   - until then the space may only move between pending and the two      *)
(*     fail-closed states, and a failed attempt may still be followed by a *)
(*     successful one.                                                     *)
(***************************************************************************)
CONSTANTS Merchants, Channels, NoChannel

VARIABLES acl, channel

FailClosedStates == {"degraded", "failed"}

Init ==
    /\ acl = [m \in Merchants |-> "absent"]
    /\ channel = [m \in Merchants |-> NoChannel]

Commit(m) ==
    /\ acl[m] = "absent"
    /\ acl' = [acl EXCEPT ![m] = "pending"]
    /\ UNCHANGED channel

FailClosed(m, state) ==
    /\ acl[m] \in {"pending"} \cup FailClosedStates
    /\ acl' = [acl EXCEPT ![m] = state]
    /\ UNCHANGED channel

Apply(m, c) ==
    /\ acl[m] \in {"pending"} \cup FailClosedStates
    /\ acl' = [acl EXCEPT ![m] = "applied"]
    /\ channel' = [channel EXCEPT ![m] = c]

Next ==
    \E m \in Merchants :
        \/ Commit(m)
        \/ \E state \in FailClosedStates : FailClosed(m, state)
        \/ \E c \in Channels \ {NoChannel} : Apply(m, c)

Spec == Init /\ [][Next]_<<acl, channel>>
=============================================================================
