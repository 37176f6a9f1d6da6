------------------------------- MODULE Response -------------------------------
(***************************************************************************)
(* Preparing the success response: Responder.PrepareSuccessResponse reads  *)
(* the executor's result.json and replaces each buildpack's name by the    *)
(* key that Cloud Controller has for it (staging_result_modifier.go).      *)
(*                                                                         *)
(* Runner writes names where result.json says "key"; a key may look like   *)
(* the name of another buildpack, and names may repeat.                    *)
(***************************************************************************)
EXTENDS Integers, Sequences

CONSTANTS
  Strings,        \* names and keys of buildpacks
  MaxBuildpacks   \* bound on the length of a list

ASSUME ResponseAssumption == MaxBuildpacks \in Nat \ {0}

VARIABLES
  provided,  \* $EIRINI_BUILDPACKS, as it was given to the downloader
  parses,    \* it is valid JSON
  names,     \* the names in result.json, the last is the detected buildpack's
  pc,        \* the step that comes next
  i,         \* index of the loop of modifyBuildpacks
  key,       \* LifecycleMetadata.BuildpackKey
  keys,      \* the Key fields of LifecycleMetadata.Buildpacks
  faulty     \* a file could not be read or was no result

vars == <<provided, parses, names, pc, i, key, keys, faulty>>

-----------------------------------------------------------------------------

Lists(S) == UNION {[1 .. n -> S] : n \in 0 .. MaxBuildpacks}

Init ==
  /\ provided \in Lists([name : Strings, key : Strings])
  /\ parses \in BOOLEAN
  /\ names \in Lists(Strings) \ {<<>>}
  /\ pc = "read"
  /\ i = 1
  /\ key = names[Len(names)]
  /\ keys = names
  /\ faulty = FALSE

Goto(label) == pc' = label /\ UNCHANGED faulty

\* getStagingResult
ReadResult ==
  /\ pc = "read"
  /\ \/ Goto("provided")
     \/ pc' = "failed" /\ faulty' = TRUE
  /\ UNCHANGED <<provided, parses, names, i, key, keys>>

GetProvided ==
  /\ pc = "provided"
  /\ Goto(IF parses THEN "key" ELSE "failed")
  /\ UNCHANGED <<provided, parses, names, i, key, keys>>

Known(name) == \E b \in DOMAIN provided : provided[b].name = name

\* getBuildpackKey of a name that is known: the first match
GetBuildpackKey(name) ==
  provided[CHOOSE b \in DOMAIN provided :
             /\ provided[b].name = name
             /\ \A c \in 1 .. b - 1 : provided[c].name # name].key

\* Slips: every operator named Slip... is the definition after it with one
\* mistake in it, and a property stated below tells the two apart.
SlipModifyBuildpackKey ==
  /\ pc = "key"
  /\ IF Known(key)
     THEN /\ key' = GetBuildpackKey(key)
          /\ keys' = [keys EXCEPT ![Len(keys)] = key']
          /\ Goto("buildpacks")
     ELSE Goto("failed") /\ UNCHANGED <<key, keys>>
  /\ UNCHANGED <<provided, parses, names, i>>

ModifyBuildpackKey ==
  /\ pc = "key"
  /\ IF Known(key)
     THEN key' = GetBuildpackKey(key) /\ Goto("buildpacks")
     ELSE Goto("failed") /\ UNCHANGED key
  /\ UNCHANGED <<provided, parses, names, i, keys>>

SlipModifyBuildpack ==
  /\ pc = "buildpacks"
  /\ i <= Len(keys)
  /\ IF Known(key)
     THEN /\ keys' = [keys EXCEPT ![i] = GetBuildpackKey(key)]
          /\ i' = i + 1
          /\ Goto("buildpacks")
     ELSE Goto("failed") /\ UNCHANGED <<i, keys>>
  /\ UNCHANGED <<provided, parses, names, key>>

SlipModifyBuildpackAppends ==
  /\ pc = "buildpacks"
  /\ i <= Len(keys)
  /\ IF Known(keys[i])
     THEN /\ keys' = Append(keys, GetBuildpackKey(keys[i]))
          /\ i' = i + 1
          /\ Goto("buildpacks")
     ELSE Goto("failed") /\ UNCHANGED <<i, keys>>
  /\ UNCHANGED <<provided, parses, names, key>>

\* One iteration of modifyBuildpacks
ModifyBuildpack ==
  /\ pc = "buildpacks"
  /\ i <= Len(keys)
  /\ IF Known(keys[i])
     THEN /\ keys' = [keys EXCEPT ![i] = GetBuildpackKey(keys[i])]
          /\ i' = i + 1
          /\ Goto("buildpacks")
     ELSE Goto("failed") /\ UNCHANGED <<i, keys>>
  /\ UNCHANGED <<provided, parses, names, key>>

Prepared ==
  /\ pc = "buildpacks"
  /\ i > Len(keys)
  /\ Goto("ok")
  /\ UNCHANGED <<provided, parses, names, i, key, keys>>

Done == pc \in {"ok", "failed"} /\ UNCHANGED vars

Modify == GetProvided \/ ModifyBuildpackKey \/ ModifyBuildpack \/ Prepared

Next == ReadResult \/ Modify \/ Done

Spec == Init /\ [][Next]_vars /\ WF_vars(Next)

-----------------------------------------------------------------------------
(* Properties *)

\* Every variable has its type.
TypeOK ==
  /\ provided \in Seq([name : Strings, key : Strings])
  /\ parses \in BOOLEAN
  /\ names \in Seq(Strings) /\ names # <<>>
  /\ pc \in {"read", "provided", "key", "buildpacks", "ok", "failed"}
  /\ i \in 1 .. Len(names) + 1
  /\ key \in Strings
  /\ keys \in Seq(Strings) /\ Len(keys) = Len(names)
  /\ faulty \in BOOLEAN

\* A response is refused only for a reason: result.json or the list is no
\* good, or a name is not in the list.  The names that Runner writes always
\* are, so a build is not lost here.
FailsForAReason ==
  pc = "failed" => \/ faulty
                   \/ ~parses
                   \/ \E n \in DOMAIN names : ~Known(names[n])

\* A response has the keys of exactly the buildpacks that result.json names,
\* in their order, and the detected buildpack is the last of them.  When a
\* name stands for two keys it has one of them, the same everywhere.
KeysAsProvided ==
  pc = "ok" =>
    /\ key = keys[Len(keys)]
    /\ \A n \in DOMAIN names :
         /\ \E b \in DOMAIN provided : provided[b] = [name |-> names[n], key |-> keys[n]]
         /\ \A m \in DOMAIN names : names[m] = names[n] => keys[m] = keys[n]
=============================================================================
