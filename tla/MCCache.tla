------------------------------ MODULE MCCache -------------------------------
(***************************************************************************)
(* Instances of Cache for TLC.                                             *)
(***************************************************************************)
EXTENDS Cache, TLC

(* Clients and parts of a sector are interchangeable. *)
Symmetry == Permutations(Clients) \cup Permutations(Parts)
=============================================================================
