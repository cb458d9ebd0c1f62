---------------------------- MODULE MCRateLimit ----------------------------
(***************************************************************************)
(* Instances of RateLimit for TLC. The .cfg file chooses the rates and the *)
(* bounds.                                                                 *)
(***************************************************************************)
EXTENDS RateLimit, TLC

(* Workers are told apart by nothing but their names. *)
Symmetry == Permutations(Workers)

(* Headers, malformed ones included. *)
SomeRemainings == {-1, 2}
SomeResets == {-1, 4}
=============================================================================
