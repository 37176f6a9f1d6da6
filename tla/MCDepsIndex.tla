----------------------------- MODULE MCDepsIndex -----------------------------
(* DepsIndex up to and around the powers of ten. *)
EXTENDS DepsIndex

MCSizes == (1 .. 20) \union (98 .. 102) \union (998 .. 1002)
=============================================================================
