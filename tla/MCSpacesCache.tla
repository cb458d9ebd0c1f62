--------------------------- MODULE MCSpacesCache ---------------------------
(***************************************************************************)
(* Instances of SpacesCache for TLC. The .cfg file chooses the readers and *)
(* bounds.                                                                 *)
(***************************************************************************)
EXTENDS SpacesCache
=============================================================================
