-------------------------------- MODULE Build --------------------------------
(***************************************************************************)
(* What the executor container promises to the one that runs after it: the *)
(* three files appear complete one after the other, it exits with 0 only   *)
(* when all three are there, and a failure that a buildpack is to blame    *)
(* for is reported before anything was written.                            *)
(***************************************************************************)
EXTENDS Naturals

CONSTANTS
  SystemFail,  \* exit code of a failure of the system, not 0
  ScriptFails  \* exit codes of failures of the buildpacks' scripts, none of
               \* them 0 or SystemFail: the modules that use this one assume so

VARIABLES
  written,  \* the files that are complete
  code,     \* the exit code to be
  exited    \* the container has stopped

vars == <<written, code, exited>>

Files == {"result", "droplet", "cache"}

\* What must be complete before a file is begun.
Before(file) == CASE file = "result" -> {}
                  [] file = "droplet" -> {"result"}
                  [] file = "cache" -> {"result", "droplet"}

Init == /\ written = {}
        /\ code = 0
        /\ exited = FALSE

Write(file) ==
  /\ ~exited
  /\ code = 0
  /\ written = Before(file)
  /\ written' = written \union {file}
  /\ UNCHANGED <<code, exited>>

Fail(c) ==
  /\ ~exited
  /\ code = 0
  /\ c \in ScriptFails => written = {}
  /\ code' = c
  /\ UNCHANGED <<written, exited>>

Exit ==
  /\ ~exited
  /\ code = 0 => written = Files
  /\ exited' = TRUE
  /\ UNCHANGED <<written, code>>

Next == \/ \E file \in Files : Write(file)
        \/ \E c \in {SystemFail} \union ScriptFails : Fail(c)
        \/ Exit

Spec == Init /\ [][Next]_vars /\ WF_vars(Next)
=============================================================================
