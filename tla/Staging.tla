------------------------------- MODULE Staging -------------------------------
(***************************************************************************)
(* A staging task: the main functions of cmd/downloader, cmd/executor and  *)
(* cmd/uploader run one after the other in containers that share their     *)
(* directories, and the outcome is reported to eirini with one PUT         *)
(* (responder.go).  The executor's build is Build.                         *)
(*                                                                         *)
(* External: the orchestrator starts a container when the one before it    *)
(* exited with 0 and never restarts one; it, or the kernel, may kill a     *)
(* container at any step.  Eirini and the blobstore may do what a request  *)
(* asks for and have their answer lost; they do not confirm (a status      *)
(* below 400) what they have not done.                                     *)
(***************************************************************************)
EXTENDS Integers, Sequences

CONSTANTS
  SystemFail,  \* exit code of a failure that is not a buildpack's
  ScriptFails, \* exit codes of the buildpacks' failures
  KilledCode   \* exit code of a killed container

ASSUME StagingAssumption ==
  /\ SystemFail \in Nat \ {0}
  /\ ScriptFails \subseteq Nat \ {0, SystemFail}
  /\ KilledCode \in Nat \ {0}

VARIABLES
  env,        \* the configuration of the three containers
  container,  \* the container that runs
  pc,         \* the step of its main that comes next
  exit,       \* its exit code to be
  installed,  \* what the downloader has put into the shared directories
  cacheGood,  \* the downloaded cache archive matches its checksum
  unpacked,   \* the archive was untarred into the cache directory
  written,    \* the complete output files of the executor (Build)
  code,       \* the error code of the build (Build)
  exited,     \* the build has returned (Build)
  stored,     \* the files that the blobstore has
  sent,       \* the callbacks sent to eirini
  received    \* those that eirini has got

download == <<installed, cacheGood, unpacked>>
build == <<written, code, exited>>
callbacks == <<sent, received>>
vars == <<env, container, pc, exit, installed, cacheGood, unpacked, written,
          code, exited, stored, sent, received>>

Builder == INSTANCE Build

-----------------------------------------------------------------------------

\* What differs between tasks: containers whose required environment
\* variables are not all set, whether the certificates for Cloud Controller
\* are good, whether there is a cache to download, whether its checksum is
\* given and in the supported algorithm, and whether to upload a cache.
Environments == [unset : SUBSET {"downloader", "executor", "uploader"},
                 certs : BOOLEAN, cacheURI : BOOLEAN, sha256 : BOOLEAN,
                 cacheUpload : BOOLEAN]

\* The files the uploader is to store.
Wanted == {"droplet"} \union (IF env.cacheUpload THEN {"cache"} ELSE {})

Init ==
  /\ env \in Environments
  /\ container = "downloader"
  /\ pc = "downloaderSetup"
  /\ exit = 0
  /\ installed = {}
  /\ cacheGood = FALSE
  /\ unpacked = FALSE
  /\ Builder!Init
  /\ stored = {}
  /\ sent = <<>>
  /\ received = <<>>

-----------------------------------------------------------------------------
(* How a step of a main function ends *)

Goto(label) == pc' = label /\ UNCHANGED exit

\* log.Fatal without a callback
Fatal == pc' = "exit" /\ exit' = SystemFail

\* responder.RespondWithFailure, followed by exit code c
FailAndTell(c) == pc' = "respondWithFailure" /\ exit' = c

\* A step that does nothing the model keeps, or fails and is reported.
StepOrTell(next) == Goto(next) \/ FailAndTell(SystemFail)

-----------------------------------------------------------------------------
(* cmd/downloader/downloader.go *)

\* MustGetEnv and MkdirAll of the cache directory; CreateResponder cannot fail
DownloaderSetup ==
  /\ pc = "downloaderSetup"
  /\ IF "downloader" \in env.unset THEN Fatal ELSE Goto("downloaderClient") \/ Fatal
  /\ UNCHANGED <<env, container, download, build, stored, callbacks>>

DownloaderClient ==
  /\ pc = "downloaderClient"
  /\ IF env.certs THEN Goto("checksumAlgorithm") ELSE FailAndTell(SystemFail)
  /\ UNCHANGED <<env, container, download, build, stored, callbacks>>

\* The algorithm is looked up, for a cache, before anything is downloaded.
ChecksumAlgorithm ==
  /\ pc = "checksumAlgorithm"
  /\ IF env.cacheURI /\ ~env.sha256 THEN Fatal ELSE Goto("installBuildpacks")
  /\ UNCHANGED <<env, container, download, build, stored, callbacks>>

\* Slips: every operator named Slip... is the definition after it with one
\* mistake in it, and a property stated below tells the two apart.
SlipInstallPackage(item, next) ==
  /\ installed' \in {installed, installed \union {item}}
  /\ Goto(next)
  /\ UNCHANGED <<env, container, cacheGood, unpacked, build, stored, callbacks>>

\* BuildpackManager.Install and PackageInstaller.Install of the app bits
InstallPackage(item, next) ==
  /\ \/ installed' = installed \union {item} /\ Goto(next)
     \/ UNCHANGED installed /\ FailAndTell(SystemFail)
  /\ UNCHANGED <<env, container, cacheGood, unpacked, build, stored, callbacks>>

InstallBuildpacks == pc = "installBuildpacks" /\ InstallPackage("buildpacks", "installApp")

InstallApp ==
  /\ pc = "installApp"
  /\ InstallPackage("app", IF env.cacheURI THEN "installCache" ELSE "exit")

\* PackageInstaller.Install through a VerifyingReader: the archive does not
\* arrive, or as it was stored, or damaged, and a damaged one is an error.
InstallCache ==
  /\ pc = "installCache"
  /\ \/ /\ installed' = installed \union {"cache"}
        /\ cacheGood' \in BOOLEAN
        /\ IF cacheGood' THEN StepOrTell("untarCache") ELSE FailAndTell(SystemFail)
     \/ UNCHANGED <<installed, cacheGood>> /\ FailAndTell(SystemFail)
  /\ UNCHANGED <<env, container, unpacked, build, stored, callbacks>>

\* untarCache; its failure is fatal without a callback
UntarCache ==
  /\ pc = "untarCache"
  /\ \/ unpacked' = TRUE /\ Goto("exit")
     \/ unpacked' \in BOOLEAN /\ Fatal
  /\ UNCHANGED <<env, container, installed, cacheGood, build, stored, callbacks>>

-----------------------------------------------------------------------------
(* cmd/executor/executor.go *)

ExecutorSetup ==
  /\ pc = "executorSetup"
  /\ IF "executor" \in env.unset THEN Fatal ELSE Goto("extract")
  /\ UNCHANGED <<env, container, download, build, stored, callbacks>>

SlipExtract ==
  /\ pc = "extract"
  /\ Goto("initBuildpacks") \/ Fatal
  /\ UNCHANGED <<env, container, download, build, stored, callbacks>>

\* extract of the app bits, then InitBuildpacks
Extract ==
  /\ pc = "extract"
  /\ StepOrTell("initBuildpacks")
  /\ UNCHANGED <<env, container, download, build, stored, callbacks>>

InitBuildpacks ==
  /\ pc = "initBuildpacks"
  /\ StepOrTell("execute")
  /\ UNCHANGED <<env, container, download, build, stored, callbacks>>

\* A step of the build (execute: runner.Run and runner.CleanUp)
Execute ==
  /\ pc = "execute"
  /\ Builder!Next
  /\ UNCHANGED <<env, container, pc, exit, download, stored, callbacks>>

\* The build has returned: its error gives the exit code.
ExecuteReturns ==
  /\ pc = "execute"
  /\ exited
  /\ IF code = 0 THEN Goto("exit") ELSE FailAndTell(code)
  /\ UNCHANGED <<env, container, download, build, stored, callbacks>>

-----------------------------------------------------------------------------
(* cmd/uploader/uploader.go *)

UploaderSetup ==
  /\ pc = "uploaderSetup"
  /\ IF "uploader" \in env.unset THEN Fatal ELSE Goto("uploaderClient")
  /\ UNCHANGED <<env, container, download, build, stored, callbacks>>

UploaderClient ==
  /\ pc = "uploaderClient"
  /\ IF env.certs THEN Goto("uploadDroplet") ELSE FailAndTell(SystemFail)
  /\ UNCHANGED <<env, container, download, build, stored, callbacks>>

SlipUpload(file, next) ==
  /\ stored' \in {stored, stored \union {file}}
  /\ Goto(next)
  /\ UNCHANGED <<env, container, download, build, callbacks>>

\* DropletUploader.Upload: an error, perhaps after the file was stored
Upload(file, next) ==
  /\ \/ stored' = stored \union {file} /\ Goto(next)
     \/ stored' \in {stored, stored \union {file}} /\ FailAndTell(SystemFail)
  /\ UNCHANGED <<env, container, download, build, callbacks>>

SlipUploadDroplet == pc = "uploadDroplet" /\ Upload("droplet", "uploadCache")

UploadDroplet ==
  /\ pc = "uploadDroplet"
  /\ Upload("droplet", IF env.cacheUpload THEN "uploadCache" ELSE "prepareResponse")

UploadCache == pc = "uploadCache" /\ Upload("cache", "prepareResponse")

\* PrepareSuccessResponse: reads result.json and sets the buildpack keys
PrepareResponse ==
  /\ pc = "prepareResponse"
  /\ StepOrTell("respondWithSuccess")
  /\ UNCHANGED <<env, container, download, build, stored, callbacks>>

-----------------------------------------------------------------------------
(* responder.go: one PUT, whose failure is not retried *)

Put(kind) ==
  /\ sent' = Append(sent, kind)
  /\ received' \in {received, Append(received, kind)}

SlipRespondWithFailure ==
  /\ pc = "respondWithFailure"
  /\ Put("failure")
  /\ Fatal
  /\ UNCHANGED <<env, container, download, build, stored>>

\* The error of the PUT is only logged.
RespondWithFailure ==
  /\ pc = "respondWithFailure"
  /\ Put("failure")
  /\ Goto("exit")
  /\ UNCHANGED <<env, container, download, build, stored>>

SlipRespondWithSuccess ==
  /\ pc = "respondWithSuccess"
  /\ Put("success")
  /\ \/ received' # received /\ Goto("exit")
     \/ FailAndTell(SystemFail)
  /\ UNCHANGED <<env, container, download, build, stored>>

\* An error of the PUT is fatal, also when only the answer was lost.
RespondWithSuccess ==
  /\ pc = "respondWithSuccess"
  /\ Put("success")
  /\ \/ received' # received /\ Goto("exit")
     \/ Fatal
  /\ UNCHANGED <<env, container, download, build, stored>>

-----------------------------------------------------------------------------
(* The orchestrator *)

StartNext ==
  /\ pc = "exit"
  /\ exit = 0
  /\ \/ container = "downloader" /\ container' = "executor" /\ Goto("executorSetup")
     \/ container = "executor" /\ container' = "uploader" /\ Goto("uploaderSetup")
  /\ UNCHANGED <<env, download, build, stored, callbacks>>

EndTask ==
  /\ pc = "exit"
  /\ exit # 0 \/ container = "uploader"
  /\ pc' = "ended"
  /\ UNCHANGED <<env, container, exit, download, build, stored, callbacks>>

Kill ==
  /\ pc # "ended"
  /\ pc' = "ended"
  /\ exit' = KilledCode
  /\ UNCHANGED <<env, container, download, build, stored, callbacks>>

Ended == pc = "ended" /\ UNCHANGED vars

-----------------------------------------------------------------------------

Download == \/ DownloaderSetup \/ DownloaderClient \/ ChecksumAlgorithm
            \/ InstallBuildpacks \/ InstallApp \/ InstallCache \/ UntarCache
ExecuteRecipe == \/ ExecutorSetup \/ Extract \/ InitBuildpacks
                 \/ Execute \/ ExecuteReturns
UploadFiles == \/ UploaderSetup \/ UploaderClient \/ UploadDroplet \/ UploadCache
               \/ PrepareResponse
Respond == RespondWithFailure \/ RespondWithSuccess

Run == Download \/ ExecuteRecipe \/ UploadFiles \/ Respond \/ StartNext \/ EndTask

Next == Run \/ Kill \/ Ended

\* The containers run, and the servers they call answer or drop the
\* connection; a container need not be killed.
Spec == Init /\ [][Next]_vars /\ WF_vars(Run)

-----------------------------------------------------------------------------
(* Properties *)

Labels == {"downloaderSetup", "downloaderClient", "checksumAlgorithm",
           "installBuildpacks", "installApp", "installCache", "untarCache",
           "executorSetup", "extract", "initBuildpacks", "execute",
           "uploaderSetup", "uploaderClient", "uploadDroplet", "uploadCache",
           "prepareResponse", "respondWithFailure", "respondWithSuccess",
           "exit", "ended"}

Answers == {"failure", "success"}

\* Every variable has its type.
TypeOK ==
  /\ env \in Environments
  /\ container \in {"downloader", "executor", "uploader"}
  /\ pc \in Labels
  /\ exit \in {0, SystemFail, KilledCode} \union ScriptFails
  /\ installed \subseteq {"buildpacks", "app", "cache"}
  /\ cacheGood \in BOOLEAN
  /\ unpacked \in BOOLEAN
  /\ written \subseteq Builder!Files
  /\ code \in {0, SystemFail} \union ScriptFails
  /\ exited \in BOOLEAN
  /\ stored \subseteq Wanted
  /\ sent \in Seq(Answers)
  /\ received \in Seq(Answers)

\* Eirini is never asked twice to complete a staging: no callback follows
\* one that was sent, not even a failure after a success that got no answer.
AtMostOneCallback == Len(sent) <= 1

\* Eirini hears of a success only when the build was complete and the files
\* are stored.
SuccessIsTrue ==
  \A k \in DOMAIN received : received[k] = "success" =>
    written = Builder!Files /\ stored = Wanted

\* What the executor works on has arrived whole, and a cache archive that
\* does not match its checksum is never unpacked for the buildpacks.
InputsReady ==
  container # "downloader" =>
    /\ {"buildpacks", "app"} \subseteq installed
    /\ env.cacheURI => unpacked /\ cacheGood

\* The task ends well only when eirini has got the success, and each failure
\* is told, except those of the steps that call log.Fatal without responding
\* (a required variable is not set, the cache directory cannot be made, the
\* checksum algorithm is unknown, the cache cannot be untarred), a success
\* callback that failed, and a kill.
Quiet ==
  \/ container \in env.unset
  \/ container = "downloader" /\ installed = {}
  \/ container = "downloader" /\ "cache" \in installed /\ cacheGood
EndIsKnown ==
  pc = "ended" =>
    /\ exit = 0 => received = <<"success">>
    /\ exit \notin {0, KilledCode} /\ sent = <<>> => Quiet

\* The exit code of the executor is that of its build, also after the
\* callback, whose own failure must not hide it.
ExitCodeKept ==
  container = "executor" /\ pc = "ended" /\ exited =>
    exit \in {code, KilledCode} /\ exit # 0

\* The task implements the promise made to eirini.
Task == INSTANCE StagingTask WITH
  wanted <- Wanted,
  answer <- IF received = <<>> THEN "none" ELSE received[1],
  over <- pc = "ended"

\* Each step is a step of StagingTask or invisible to it, and the task ends
\* unless a server leaves a request hanging.
ImplementsStagingTask == Task!Spec

\* An unsupported checksum algorithm is reported to eirini, as the
\* integration test for it expects (integration/staging_test.go).
UnsupportedAlgorithmTold ==
  [][pc = "checksumAlgorithm" /\ exit' = SystemFail => pc' = "respondWithFailure"]_vars
=============================================================================
