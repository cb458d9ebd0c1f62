--------------------------- MODULE MCProvisioning ---------------------------
(***************************************************************************)
(* Instances of Provisioning for TLC. The .cfg files choose the merchants, *)
(* goroutines, relays and bounds.                                          *)
(***************************************************************************)
EXTENDS Provisioning, TLC

(* Goroutines and relays are interchangeable (safety runs only). *)
Symmetry == Permutations(Workers) \cup Permutations(Relays)
=============================================================================
