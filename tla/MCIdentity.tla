----------------------------- MODULE MCIdentity -----------------------------
(***************************************************************************)
(* Instances of Identity for TLC. The .cfg file chooses the rows, accounts *)
(* and requests.                                                           *)
(***************************************************************************)
EXTENDS Identity, TLC

(* Every name and suffix of up to six runes, for a limit of four. *)
RuneStrings == UNION {[1..n -> Runes] : n \in 0..6}

Symmetry == Permutations(Requests) \cup Permutations(Workers)
            \cup Permutations(Accounts) \cup Permutations(States)
            \cup Permutations(Users)
=============================================================================
