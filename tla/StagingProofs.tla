---------------------------- MODULE StagingProofs ----------------------------
(***************************************************************************)
(* Theorems about Staging, for every exit code of the system and of the    *)
(* buildpacks' scripts.                                                    *)
(***************************************************************************)
EXTENDS Staging, TLAPS

DownloaderSteps == {"downloaderSetup", "downloaderClient", "checksumAlgorithm",
                    "installBuildpacks", "installApp", "installCache", "untarCache"}
ExecutorSteps == {"executorSetup", "extract", "initBuildpacks", "execute"}
UploaderSteps == {"uploaderSetup", "uploaderClient", "uploadDroplet", "uploadCache",
                  "prepareResponse", "respondWithSuccess"}

\* The label belongs to the container that runs, and the exit code is 0 as
\* long as nothing has failed.
ControlInv ==
  /\ pc \in DownloaderSteps => container = "downloader"
  /\ pc \in ExecutorSteps => container = "executor"
  /\ pc \in UploaderSteps => container = "uploader"
  /\ pc \notin {"exit", "ended", "respondWithFailure"} => exit = 0
  /\ pc = "respondWithFailure" => exit # 0

\* What has been downloaded by the time the downloader is done.
InputsInv ==
  /\ pc \in {"installApp", "installCache", "untarCache"} => "buildpacks" \in installed
  /\ pc \in {"installCache", "untarCache"} => "app" \in installed
  /\ pc = "untarCache" => cacheGood
  /\ pc = "exit" /\ exit = 0 => InputsReady /\ {"buildpacks", "app"} \subseteq installed
                                /\ (env.cacheURI => unpacked /\ cacheGood)
  /\ InputsReady

\* What the executor and the uploader have done.
FilesInv ==
  /\ exited /\ code = 0 => written = Builder!Files
  /\ container = "uploader" => written = Builder!Files
  /\ container = "executor" /\ pc = "exit" /\ exit = 0 => written = Builder!Files
  /\ pc = "uploadCache" => env.cacheUpload /\ "droplet" \in stored
  /\ pc \in {"prepareResponse", "respondWithSuccess"} => stored = Wanted

\* No callback is sent before the last step of a container, and none of
\* those received is a success that is not true.
CallbackInv ==
  /\ pc \notin {"exit", "ended"} => sent = <<>>
  /\ pc = "exit" /\ exit = 0 /\ container # "uploader" => sent = <<>>
  /\ sent = <<>> => received = <<>>
  /\ AtMostOneCallback
  /\ SuccessIsTrue

TaskInv == TypeOK /\ ControlInv /\ InputsInv /\ FilesInv /\ CallbackInv

\* Nothing has been done at first.
LEMMA TaskInit ==
  ASSUME Init
  PROVE  TaskInv
<1> USE DEF Init, Builder!Init
<1>1. TypeOK
  <2>1. env \in Environments /\ stored \subseteq Wanted
    OBVIOUS
  <2>2. /\ container \in {"downloader", "executor", "uploader"}
        /\ pc \in Labels
        /\ exit \in {0, SystemFail, KilledCode} \union ScriptFails
    BY DEF Labels
  <2>3. installed \subseteq {"buildpacks", "app", "cache"}
    OBVIOUS
  <2>4. cacheGood \in BOOLEAN /\ unpacked \in BOOLEAN /\ exited \in BOOLEAN
    OBVIOUS
  <2>5. written \subseteq Builder!Files
    OBVIOUS
  <2>6. code \in {0, SystemFail} \union ScriptFails
    OBVIOUS
  <2>7. sent \in Seq(Answers) /\ received \in Seq(Answers)
    OBVIOUS
  <2> QED
    BY <2>1, <2>2, <2>3, <2>4, <2>5, <2>6, <2>7 DEF TypeOK
<1>2. ControlInv /\ InputsInv
  BY DEF ControlInv, InputsInv, InputsReady, DownloaderSteps, ExecutorSteps, UploaderSteps
<1>3. FilesInv
  BY DEF FilesInv, Builder!Files
<1>4. CallbackInv
  BY DEF CallbackInv, AtMostOneCallback, SuccessIsTrue
<1> QED
  BY <1>1, <1>2, <1>3, <1>4 DEF TaskInv

\* Only the build changes what Build describes, and it keeps its promise.
LEMMA BuilderStep ==
  ASSUME TaskInv, Builder!Next
  PROVE  /\ written' \subseteq Builder!Files
         /\ code' \in {0, SystemFail} \union ScriptFails
         /\ exited' \in BOOLEAN
         /\ exited' /\ code' = 0 => written' = Builder!Files
<1> USE DEF TaskInv, TypeOK, FilesInv
<1>1. CASE \E file \in Builder!Files : Builder!Write(file)
  BY <1>1 DEF Builder!Write
<1>2. CASE \E c \in {SystemFail} \union ScriptFails : Builder!Fail(c)
  BY <1>2 DEF Builder!Fail
<1>3. CASE Builder!Exit
  BY <1>3 DEF Builder!Exit
<1> QED
  BY <1>1, <1>2, <1>3 DEF Builder!Next

\* The environment never changes.
LEMMA EnvUnchanged ==
  ASSUME [Next]_vars
  PROVE  env' = env /\ Wanted' = Wanted
BY DEF Next, Run, Download, ExecuteRecipe, UploadFiles, Respond, vars, Wanted, Ended,
  DownloaderSetup, DownloaderClient, ChecksumAlgorithm, InstallBuildpacks, InstallApp,
  InstallPackage, InstallCache, UntarCache, ExecutorSetup, Extract, InitBuildpacks,
  Execute, ExecuteReturns, UploaderSetup, UploaderClient, UploadDroplet, UploadCache,
  Upload, PrepareResponse, RespondWithFailure, RespondWithSuccess, StartNext, EndTask,
  Kill

\* The first callback, if eirini gets it, is all that eirini gets.
LEMMA FirstPut ==
  ASSUME sent = <<>>, received = <<>>, NEW kind \in Answers, Put(kind)
  PROVE  /\ sent' \in Seq(Answers) /\ received' \in Seq(Answers)
         /\ sent' # <<>> /\ Len(sent') <= 1
         /\ \A k \in DOMAIN received' : received'[k] = kind
<1>1. sent' = <<kind>>
  BY DEF Put
<1>2. received' = <<>> \/ received' = <<kind>>
  BY DEF Put
<1>3. CASE received' = <<>>
  BY <1>1, <1>3
<1>4. CASE received' = <<kind>>
  BY <1>1, <1>4
<1> QED
  BY <1>2, <1>3, <1>4

\* TaskInv is inductive.
LEMMA TaskStep ==
  ASSUME TaskInv, [Next]_vars
  PROVE  TaskInv'
<1>1. env' = env /\ Wanted' = Wanted
  BY EnvUnchanged
<1> USE <1>1, StagingAssumption
    DEF TaskInv, TypeOK, ControlInv, InputsInv, FilesInv, CallbackInv, InputsReady,
        Labels, DownloaderSteps, ExecutorSteps, UploaderSteps, Goto, Fatal,
        FailAndTell, StepOrTell, download, build, callbacks, Answers,
        AtMostOneCallback, SuccessIsTrue
<1>2. CASE Download
  <2>1. CASE DownloaderSetup
    BY <2>1 DEF DownloaderSetup
  <2>6. CASE DownloaderClient
    BY <2>6 DEF DownloaderClient
  <2>7. CASE ChecksumAlgorithm
    BY <2>7 DEF ChecksumAlgorithm
  <2>2. CASE InstallBuildpacks
    BY <2>2 DEF InstallBuildpacks, InstallPackage
  <2>3. CASE InstallApp
    BY <2>3 DEF InstallApp, InstallPackage
  <2>4. CASE InstallCache
    BY <2>4 DEF InstallCache
  <2>5. CASE UntarCache
    BY <2>5 DEF UntarCache
  <2> QED
    BY <1>2, <2>1, <2>2, <2>3, <2>4, <2>5, <2>6, <2>7 DEF Download
<1>3. CASE ExecuteRecipe
  <2>1. CASE ExecutorSetup
    BY <2>1 DEF ExecutorSetup
  <2>4. CASE Extract
    BY <2>4 DEF Extract
  <2>5. CASE InitBuildpacks
    BY <2>5 DEF InitBuildpacks
  <2>2. CASE Execute
    BY <2>2, BuilderStep DEF Execute
  <2>3. CASE ExecuteReturns
    BY <2>3 DEF ExecuteReturns
  <2> QED
    BY <1>3, <2>1, <2>2, <2>3, <2>4, <2>5 DEF ExecuteRecipe
<1>4. CASE UploadFiles
  <2>1. CASE UploaderSetup \/ UploaderClient \/ PrepareResponse
    BY <2>1 DEF UploaderSetup, UploaderClient, PrepareResponse
  <2>2. CASE UploadDroplet
    BY <2>2 DEF UploadDroplet, Upload, Wanted
  <2>3. CASE UploadCache
    BY <2>3 DEF UploadCache, Upload, Wanted
  <2> QED
    BY <1>4, <2>1, <2>2, <2>3 DEF UploadFiles
<1>5. CASE Respond
  <2>1. sent = <<>> /\ received = <<>>
    BY <1>5 DEF Respond, RespondWithFailure, RespondWithSuccess
  <2>2. CASE RespondWithFailure
    BY <2>1, <2>2, FirstPut DEF RespondWithFailure
  <2>3. CASE RespondWithSuccess
    BY <2>1, <2>3, FirstPut DEF RespondWithSuccess
  <2> QED
    BY <1>5, <2>2, <2>3 DEF Respond
<1>6. CASE StartNext
  BY <1>6 DEF StartNext
<1>7. CASE EndTask
  BY <1>7 DEF EndTask
<1>8. CASE Kill
  BY <1>8 DEF Kill
<1>9. CASE UNCHANGED vars
  <2> USE <1>9 DEF vars
  <2>1. TypeOK'
    OBVIOUS
  <2>2. ControlInv' /\ InputsInv' /\ FilesInv'
    OBVIOUS
  <2>3. CallbackInv'
    OBVIOUS
  <2> QED
    BY <2>1, <2>2, <2>3
<1> QED
  BY <1>2, <1>3, <1>4, <1>5, <1>6, <1>7, <1>8, <1>9 DEF Next, Run, Ended

\* TaskInv holds in every state.
LEMMA TaskAlways == Spec => []TaskInv
<1>1. Init => TaskInv
  BY TaskInit
<1>2. TaskInv /\ [Next]_vars => TaskInv'
  BY TaskStep
<1> QED
  BY <1>1, <1>2, PTL DEF Spec

\* Every variable keeps its type.
THEOREM TypeCorrect == Spec => []TypeOK
<1>1. TaskInv => TypeOK
  BY DEF TaskInv
<1> QED
  BY <1>1, TaskAlways, PTL

\* A task sends at most one callback, whichever container fails where.
THEOREM OneCallback == Spec => []AtMostOneCallback
<1>1. TaskInv => AtMostOneCallback
  BY DEF TaskInv, CallbackInv, AtMostOneCallback
<1> QED
  BY <1>1, TaskAlways, PTL

\* Eirini gets a success only for a complete build whose files are stored.
THEOREM SuccessNeverLies == Spec => []SuccessIsTrue
<1>1. TaskInv => SuccessIsTrue
  BY DEF TaskInv, CallbackInv, SuccessIsTrue
<1> QED
  BY <1>1, TaskAlways, PTL

\* The executor starts with the buildpacks, the application and, if there is
\* a cache, a verified one.
THEOREM InputsAlwaysReady == Spec => []InputsReady
<1>1. TaskInv => InputsReady
  BY DEF TaskInv, InputsInv
<1> QED
  BY <1>1, TaskAlways, PTL

-----------------------------------------------------------------------------
(* How a task ends *)

\* Where a failure without a callback can come from, and whose exit code a
\* container has when it has failed.
EndInv ==
  /\ pc \in {"downloaderSetup", "downloaderClient", "checksumAlgorithm"} => installed = {}
  /\ pc = "untarCache" => "cache" \in installed
  /\ pc = "exit" /\ exit = 0 /\ container = "uploader" => received = <<"success">>
  /\ pc = "exit" /\ exit # 0 => sent # <<>> \/ Quiet
  /\ container = "downloader" => ~exited
  /\ pc \in {"executorSetup", "extract", "initBuildpacks"} => ~exited
  /\ container = "executor" /\ exited /\ pc \in {"respondWithFailure", "exit"} => exit = code
  /\ EndIsKnown
  /\ ExitCodeKept

\* EndInv is inductive relative to TaskInv.
LEMMA EndStep ==
  ASSUME TaskInv, EndInv, [Next]_vars
  PROVE  EndInv'
<1>1. env' = env
  BY EnvUnchanged
<1> USE <1>1, StagingAssumption
    DEF EndInv, EndIsKnown, ExitCodeKept, Quiet, ControlInv, DownloaderSteps,
        ExecutorSteps, UploaderSteps, Goto, Fatal, FailAndTell, StepOrTell,
        download, build, callbacks
<1>0. /\ ControlInv
      /\ pc = "untarCache" => cacheGood
      /\ pc \notin {"exit", "ended"} => sent = <<>> /\ received = <<>>
  BY DEF TaskInv, InputsInv, CallbackInv
<1>2. CASE Download
  <2>1. CASE DownloaderSetup \/ DownloaderClient \/ ChecksumAlgorithm
    BY <1>0, <2>1 DEF DownloaderSetup, DownloaderClient, ChecksumAlgorithm
  <2>2. CASE InstallBuildpacks \/ InstallApp
    BY <1>0, <2>2 DEF InstallBuildpacks, InstallApp, InstallPackage
  <2>3. CASE InstallCache
    BY <1>0, <2>3 DEF InstallCache
  <2>4. CASE UntarCache
    BY <1>0, <2>4 DEF UntarCache
  <2> QED
    BY <1>2, <2>1, <2>2, <2>3, <2>4 DEF Download
<1>3. CASE ExecuteRecipe
  <2>1. CASE ExecutorSetup \/ Extract \/ InitBuildpacks
    BY <1>0, <2>1 DEF ExecutorSetup, Extract, InitBuildpacks
  <2>2. CASE Execute
    BY <1>0, <2>2 DEF Execute
  <2>3. CASE ExecuteReturns
    BY <1>0, <2>3 DEF ExecuteReturns
  <2> QED
    BY <1>3, <2>1, <2>2, <2>3 DEF ExecuteRecipe
<1>4. CASE UploadFiles
  BY <1>0, <1>4 DEF UploadFiles, UploaderSetup, UploaderClient, UploadDroplet,
    UploadCache, Upload, PrepareResponse
<1>5. CASE RespondWithFailure
  <2>1. sent' # <<>>
    BY <1>0, <1>5, FirstPut DEF RespondWithFailure, Answers
  <2> QED
    BY <1>0, <1>5, <2>1 DEF RespondWithFailure
<1>6. CASE RespondWithSuccess
  <2>1. sent' # <<>>
    BY <1>0, <1>6, FirstPut DEF RespondWithSuccess, Answers
  <2>2. received' # received => received' = <<"success">>
    BY <1>0, <1>6 DEF RespondWithSuccess, Put
  <2> QED
    BY <1>0, <1>6, <2>1, <2>2 DEF RespondWithSuccess
<1>7. CASE StartNext
  BY <1>0, <1>7 DEF StartNext
<1>8. CASE EndTask
  BY <1>8 DEF EndTask
<1>9. CASE Kill
  BY <1>9 DEF Kill
<1>10. CASE UNCHANGED vars
  BY <1>10 DEF vars
<1> QED
  BY <1>2, <1>3, <1>4, <1>5, <1>6, <1>7, <1>8, <1>9, <1>10 DEF Next, Run, Ended, Respond

\* EndInv holds in every state.
LEMMA EndAlways == Spec => []EndInv
<1>1. Init => EndInv
  BY DEF Init, Builder!Init, EndInv, EndIsKnown, ExitCodeKept
<1>2. TaskInv /\ EndInv /\ [Next]_vars => EndInv'
  BY EndStep
<1> QED
  BY <1>1, <1>2, TaskAlways, PTL DEF Spec

\* A task that ends well has told eirini so, and one that fails has told it
\* too, except from the few places that Quiet lists.
THEOREM EndIsAlwaysKnown == Spec => []EndIsKnown
<1>1. EndInv => EndIsKnown
  BY DEF EndInv
<1> QED
  BY <1>1, EndAlways, PTL

\* The executor exits with the code of its build, whatever happens to the
\* callback in between.
THEOREM ExitCodeIsKept == Spec => []ExitCodeKept
<1>1. EndInv => ExitCodeKept
  BY DEF EndInv
<1> QED
  BY <1>1, EndAlways, PTL

-----------------------------------------------------------------------------
(* The task as StagingTask *)

\* A step is an answer, a file stored, the end, or none of StagingTask's
\* concern: an answer is given once, and a success when all is stored.
LEMMA TaskRefined ==
  ASSUME TaskInv, TaskInv', [Next]_vars
  PROVE  [Task!Next]_(Task!vars)
<1>1. env' = env /\ Wanted' = Wanted
  BY EnvUnchanged
<1>2. pc \notin {"exit", "ended"} => sent = <<>> /\ received = <<>>
  BY DEF TaskInv, CallbackInv
<1> USE <1>1 DEF Task!Next, Task!vars
<1>3. ASSUME UNCHANGED <<stored, received>>, pc # "ended", pc' # "ended"
      PROVE  UNCHANGED Task!vars
  BY <1>3
<1>4. ASSUME UNCHANGED <<stored, received>>, pc # "ended", pc' = "ended"
      PROVE  Task!Next
  BY <1>4 DEF Task!End
<1>5. ASSUME NEW file \in Wanted, pc \in {"uploadDroplet", "uploadCache"}, pc' # "ended",
             stored' = stored \union {file}, UNCHANGED received
      PROVE  Task!Next
  BY <1>2, <1>5 DEF Task!Store
<1>6. ASSUME NEW kind \in Answers, pc \notin {"exit", "ended"}, pc' # "ended",
             Put(kind), UNCHANGED stored, kind = "success" => stored = Wanted
      PROVE  [Task!Next]_(Task!vars)
  <2>1. received = <<>> /\ received' \in {<<>>, Append(<<>>, kind)}
    BY <1>2, <1>6 DEF Put
  <2>2. CASE received' = <<>>
    BY <1>3, <1>6, <2>1, <2>2
  <2>3. CASE received' = Append(<<>>, kind)
    <3>1. received' # <<>> /\ received'[1] = kind
      BY <2>3
    <3> QED
      BY <1>6, <2>1, <3>1 DEF Task!Answer, Answers
  <2> QED
    BY <2>1, <2>2, <2>3
<1> USE DEF Goto, Fatal, FailAndTell, StepOrTell, download, build, callbacks
<1>7. CASE Download
  BY <1>3, <1>7 DEF Download, DownloaderSetup, DownloaderClient, ChecksumAlgorithm,
    InstallBuildpacks, InstallApp, InstallPackage, InstallCache, UntarCache
<1>8. CASE ExecuteRecipe
  BY <1>3, <1>8 DEF ExecuteRecipe, ExecutorSetup, Extract, InitBuildpacks, Execute, ExecuteReturns
<1>9. CASE UploaderSetup \/ UploaderClient \/ PrepareResponse \/ StartNext
  BY <1>3, <1>9 DEF UploaderSetup, UploaderClient, PrepareResponse, StartNext
<1>10. CASE UploadDroplet
  BY <1>3, <1>5, <1>10 DEF UploadDroplet, Upload, Wanted
<1>11. CASE UploadCache
  <2>1. "cache" \in Wanted
    BY <1>11 DEF UploadCache, TaskInv, FilesInv, Wanted
  <2> QED
    BY <1>3, <1>5, <1>11, <2>1 DEF UploadCache, Upload
<1>12. CASE RespondWithFailure
  BY <1>6, <1>12 DEF RespondWithFailure, Answers
<1>13. CASE RespondWithSuccess
  <2>1. stored = Wanted
    BY <1>13 DEF RespondWithSuccess, TaskInv, FilesInv
  <2> QED
    BY <1>6, <1>13, <2>1 DEF RespondWithSuccess, Answers
<1>14. CASE EndTask \/ Kill
  BY <1>4, <1>14 DEF EndTask, Kill
<1>15. CASE UNCHANGED vars
  BY <1>15 DEF vars
<1> QED
  BY <1>7, <1>8, <1>9, <1>10, <1>11, <1>12, <1>13, <1>14, <1>15
  DEF Next, Run, UploadFiles, Respond, Ended

\* The containers together keep the promise of StagingTask, as far as it is
\* about safety.
THEOREM StagingImplementsStagingTask ==
  Spec => Task!Init /\ [][Task!Next]_(Task!vars)
<1>1. Init => Task!Init
  BY DEF Init, Builder!Init, Task!Init, Wanted
<1>2. TaskInv /\ TaskInv' /\ [Next]_vars => [Task!Next]_(Task!vars)
  BY TaskRefined
<1> QED
  BY <1>1, <1>2, TaskAlways, PTL DEF Spec
=============================================================================
