----------------------------- MODULE MCWelcome -----------------------------
(***************************************************************************)
(* Instances of Welcome for TLC. The .cfg file chooses the requests, the   *)
(* workers and the bounds.                                                 *)
(***************************************************************************)
EXTENDS Welcome, TLC

(* Requests, workers and texts are told apart by nothing but their names. *)
Symmetry ==
    Permutations(Requests) \cup Permutations(Workers) \cup Permutations(Texts)
=============================================================================
