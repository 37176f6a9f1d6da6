------------------------------ MODULE MCResponse ------------------------------
(* Response with lists of up to MaxBuildpacks; names and keys may coincide. *)
EXTENDS Response

CONSTANTS custom, ruby, other
=============================================================================
