---------------------------- MODULE MCMembership ----------------------------
(***************************************************************************)
(* Instances of Membership for TLC. The .cfg files choose the users,       *)
(* accounts, goroutines and bounds.                                        *)
(***************************************************************************)
EXTENDS Membership, TLC

CONSTANTS u1, u2, d1, d2, d3

OwnAccounts == {<<u1, d1>>, <<u2, d2>>}   \* everyone has one account

(* Everyone may also link the same third account, after the other lost it. *)
SharedAccount == OwnAccounts \cup {<<u1, d3>>, <<u2, d3>>}

Symmetry == Permutations(Workers)
=============================================================================
