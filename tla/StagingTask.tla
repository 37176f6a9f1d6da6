----------------------------- MODULE StagingTask -----------------------------
(***************************************************************************)
(* What a staging task promises to eirini and Cloud Controller: it gives   *)
(* at most one answer, it answers success only when the droplet, and the   *)
(* buildpack cache if one is wanted, are stored, and it comes to an end,   *)
(* perhaps without having answered.                                        *)
(***************************************************************************)
VARIABLES
  wanted,  \* the files to be stored
  stored,  \* the files that the blobstore has
  answer,  \* "none", "failure" or "success"
  over     \* the task has ended

vars == <<wanted, stored, answer, over>>

Init == /\ wanted \in {{"droplet"}, {"droplet", "cache"}}
        /\ stored = {}
        /\ answer = "none"
        /\ over = FALSE

Store(file) ==
  /\ ~over
  /\ answer = "none"
  /\ stored' = stored \union {file}
  /\ UNCHANGED <<wanted, answer, over>>

Answer(kind) ==
  /\ ~over
  /\ answer = "none"
  /\ kind = "success" => stored = wanted
  /\ answer' = kind
  /\ UNCHANGED <<wanted, stored, over>>

End ==
  /\ ~over
  /\ over' = TRUE
  /\ UNCHANGED <<wanted, stored, answer>>

Next == \/ \E file \in wanted : Store(file)
        \/ \E kind \in {"failure", "success"} : Answer(kind)
        \/ End

Spec == Init /\ [][Next]_vars /\ WF_vars(End)
=============================================================================
