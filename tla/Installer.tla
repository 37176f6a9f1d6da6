------------------------------ MODULE Installer ------------------------------
(***************************************************************************)
(* What an Installer (models.go) or an extraction promises: it works for a *)
(* while, and returns without an error only if what it was asked for is    *)
(* then completely in place.                                               *)
(***************************************************************************)
VARIABLES
  result,  \* "running", "ok" or "failed"
  whole    \* what was asked for is completely in place

vars == <<result, whole>>

Init == /\ result = "running"
        /\ whole \in BOOLEAN

Work == /\ result = "running"
        /\ whole' \in BOOLEAN
        /\ UNCHANGED result

\* The last file may be finished in the step that returns.
Return == /\ result = "running"
          /\ whole' \in BOOLEAN
          /\ result' \in {"ok", "failed"}
          /\ result' = "ok" => whole'

Next == Work \/ Return

Spec == Init /\ [][Next]_vars /\ WF_vars(Return)
=============================================================================
