----------------------------- MODULE MCLifecycle -----------------------------
(* Lifecycle with a few requests and goroutines. *)
EXTENDS Lifecycle, TLC

Symmetry == Permutations(Requests) \cup Permutations(Workers)
=============================================================================
