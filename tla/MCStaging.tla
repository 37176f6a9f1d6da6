------------------------------ MODULE MCStaging ------------------------------
(* Staging with the executor's real exit codes. *)
EXTENDS Staging

MCScriptFails == {222, 223, 224, 225, 227}
=============================================================================
