------------------------------- MODULE Runner -------------------------------
(***************************************************************************)
(* One staging build: builder/runner.go (Run and CleanUp), with the        *)
(* configuration of builder/config.go and the exit code that               *)
(* cmd/executor/executor.go derives from the error Run returns.            *)
(*                                                                         *)
(* The buildpacks' scripts are external programs.  What they do to the     *)
(* application directory is abstracted to the sequence "ran" of the runs   *)
(* made so far, with their arguments: two directories are equal when the   *)
(* same scripts ran on them in the same order.  A script may exit non-zero *)
(* after having changed the directory, and supply and finalize may or may  *)
(* not write deps/<index>/config.yml.                                      *)
(***************************************************************************)
EXTENDS Integers, Sequences

CONSTANTS
  Buildpacks,     \* names of buildpacks (the "name" of $EIRINI_BUILDPACKS)
  MaxBuildpacks,  \* bound on the length of the buildpack list
  Layouts,        \* what a buildpack's directory may hold, sets of scripts
  Leftovers,      \* other entries of the cache directory (app.zip, ...)
  ProcTypes,      \* names of process types
  Web,            \* the process type that gives the start command
  None,           \* a file, directory or name that is not there
  Partial         \* a file whose writing was interrupted by an error

\* "bin" is absent from the layout of a malformed buildpack, which has then
\* no script; an md5 directory name is never "final" (helpers.go).
ASSUME RunnerAssumption ==
  /\ MaxBuildpacks \in Nat \ {0}
  /\ Layouts \subseteq SUBSET {"bin", "detect", "supply", "finalize"}
  /\ \A l \in Layouts : l # {} => "bin" \in l
  /\ Web \in ProcTypes
  /\ Buildpacks \intersect Leftovers = {}
  /\ "final" \notin Buildpacks \union Leftovers
  /\ None # Partial
  /\ None \notin Buildpacks

SystemFailCode   == 1
DetectFailCode   == 222
CompileFailCode  == 223
ReleaseFailCode  == 224
SupplyFailCode   == 225
FinalizeFailCode == 227

\* The executor's exit codes: 0 unless execute() returned an error.
ExitCodes == {0, SystemFailCode, DetectFailCode, CompileFailCode,
              ReleaseFailCode, SupplyFailCode, FinalizeFailCode}

VARIABLES
  order,       \* Config.BuildpackOrder
  skipDetect,  \* Config.SkipDetect
  scripts,     \* what is in each buildpack's directory
  pc,          \* the step of Run that comes next
  i,           \* index of the loop over the buildpacks
  final,       \* index in order of the buildpack that finalizes, 0 if unknown
  cacheDirs,   \* entries of the build artifacts cache directory
  contents,    \* the temporary directory that becomes the droplet
  ran,         \* the script runs made on the application directory
  metadata,    \* buildpackMetadata of Run
  procTypes,   \* releaseInfo.DefaultProcessTypes
  result,      \* the file OutputMetadataLocation (result.json)
  droplet,     \* the file OutputDropletLocation
  cacheTgz,    \* the file OutputBuildArtifactsCache
  exitCode     \* exitCode of the executor's main

config == <<order, skipDetect, scripts>>
progress == <<i, final, ran, metadata, procTypes>>
outputs == <<result, droplet, cacheTgz>>
vars == <<order, skipDetect, scripts, pc, i, final, cacheDirs, contents, ran,
          metadata, procTypes, result, droplet, cacheTgz, exitCode>>

-----------------------------------------------------------------------------
(* Values *)

CacheEntries == Buildpacks \union {"final"} \union Leftovers
DepsIndexes == 0 .. MaxBuildpacks - 1

\* Where a buildpack's displayed name comes from: its config.yml or the
\* output of its detect script.
Names == {"config", "detect"} \X Buildpacks

\* A script run with its arguments; None for one the script does not get.
Runs == [script : {"detect", "supply", "finalize", "compile", "release"},
         of : Buildpacks,
         cache : Buildpacks \union {"final", None},
         deps : DepsIndexes \union {None}]

Metadata == [key : Buildpacks, name : Names \union {None}]
Commands == {"none", "buildpack", "procfile"}
StagingInfo == [name : Names \union {None}, start : Commands]

Contents == [deps : SUBSET DepsIndexes,
             config : [DepsIndexes -> Names \union {None}],
             info : StagingInfo \union {None},
             app : Seq(Runs) \union {None}]

Results == [key : Buildpacks, name : Names \union {None},
            buildpacks : Seq(Metadata), procTypes : [ProcTypes -> Commands]]

\* The archived cache.
Archives == [entries : SUBSET CacheEntries]

\* A file that is absent or partial is not a complete one.
ASSUME AbsentAssumption ==
  /\ None \notin StagingInfo
  /\ \A file \in {None, Partial} :
       file \notin Contents \union Results \union Archives

\* The lists of buildpacks Cloud Controller may send.
BuildpackLists ==
  UNION {[1 .. n -> [name : Buildpacks, skip : BOOLEAN]] : n \in 0 .. MaxBuildpacks}

-----------------------------------------------------------------------------
(* Configuration *)

\* Slips: every operator named Slip... is the definition after it with one
\* mistake in it, and a property stated below tells the two apart.
SlipInitBuildpacks(buildpacks) ==
  /\ order = [k \in DOMAIN buildpacks |-> buildpacks[k].name]
  /\ skipDetect = \A k \in DOMAIN buildpacks : buildpacks[k].skip

\* Config.InitBuildpacks
InitBuildpacks(buildpacks) ==
  /\ order = [k \in DOMAIN buildpacks |-> buildpacks[k].name]
  /\ skipDetect = /\ Len(buildpacks) > 0
                  /\ \A k \in DOMAIN buildpacks : buildpacks[k].skip

\* len(Config.SupplyBuildpacks()): all but the last buildpack, when every
\* one of them skips detection.
NumSupply == IF ~skipDetect \/ Len(order) = 0 THEN 0 ELSE Len(order) - 1

\* The cache entries of this build: one per supply buildpack and "final".
NeededCacheDirs == {"final"} \union {order[k] : k \in 1 .. NumSupply}

Has(k, script) == script \in scripts[order[k]]

\* buildpackPath succeeds
Resolves(k) == Has(k, "bin")

\* buildpacksMetadata: names come from deps/<index>/config.yml, where index
\* is the position in the list of keys
BuildpacksMetadata(keys) ==
  [k \in DOMAIN keys |-> [key |-> keys[k], name |-> contents.config[k - 1]]]

Init ==
  /\ \E buildpacks \in BuildpackLists : InitBuildpacks(buildpacks)
  /\ scripts \in [Buildpacks -> Layouts]
  /\ cacheDirs \in SUBSET CacheEntries
  /\ pc = "makeDirectories"
  /\ i = 1
  /\ final = 0
  /\ contents = None
  /\ ran = <<>>
  /\ metadata = <<>>
  /\ procTypes = [t \in ProcTypes |-> "none"]
  /\ result = None
  /\ droplet = None
  /\ cacheTgz = None
  /\ exitCode = 0

-----------------------------------------------------------------------------
(* Steps of Run.  Every step that can fail ends the build with Fail.       *)

Goto(label) == pc' = label /\ UNCHANGED exitCode

\* Run returns an error and the executor turns it into its exit code.
Fail(code) == pc' = "cleanUp" /\ exitCode' = code

\* A script is run on the application directory.
RunScript(script, k, cache, deps) ==
  ran' = Append(ran, [script |-> script, of |-> order[k],
                      cache |-> cache, deps |-> deps])

\* supply and finalize may (re)write the config.yml of their deps directory.
WriteConfig(k, d) ==
  \E name \in {contents.config[d], <<"config", order[k]>>} :
    contents' = [contents EXCEPT !.config[d] = name]

\* The contents directory once deps/0 .. deps/(n-1) have been made.
NewContents(n) == [deps |-> 0 .. n - 1, config |-> [d \in DepsIndexes |-> None],
                   info |-> None, app |-> None]

SlipMakeDirectories ==
  /\ pc = "makeDirectories"
  /\ cacheDirs' = cacheDirs \union NeededCacheDirs
  /\ contents' = NewContents(NumSupply + 2)
  /\ Goto("cleanCacheDir")
  /\ UNCHANGED <<config, progress, outputs>>

MakeDirectories ==
  /\ pc = "makeDirectories"
  /\ cacheDirs' = cacheDirs \union NeededCacheDirs
  /\ contents' = NewContents(NumSupply + 1)
  /\ Goto("cleanCacheDir")
  /\ UNCHANGED <<config, progress, outputs>>

\* One MkdirAll or TempDir of makeDirectories fails after n succeeded.
MakeDirectoriesFails ==
  /\ pc = "makeDirectories"
  /\ \/ \E n \in 0 .. NumSupply :
          /\ cacheDirs' \in {cacheDirs, cacheDirs \union {"final"}
                                         \union {order[k] : k \in 1 .. n}}
          /\ UNCHANGED contents
     \/ \E n \in 0 .. NumSupply + 1 :
          /\ cacheDirs' = cacheDirs \union NeededCacheDirs
          /\ contents' = NewContents(n)
  /\ Fail(SystemFailCode)
  /\ UNCHANGED <<config, progress, outputs>>

SlipCleanCacheKeepsFiles ==
  /\ pc = "cleanCacheDir"
  /\ cacheDirs' = cacheDirs \intersect (NeededCacheDirs \union Leftovers)
  /\ Goto(IF skipDetect THEN "validate" ELSE "detect")
  /\ UNCHANGED <<config, progress, contents, outputs>>

SlipCleanCacheForgetsFinal ==
  /\ pc = "cleanCacheDir"
  /\ cacheDirs' = cacheDirs \intersect (NeededCacheDirs \ {"final"})
  /\ Goto(IF skipDetect THEN "validate" ELSE "detect")
  /\ UNCHANGED <<config, progress, contents, outputs>>

CleanCacheDir ==
  /\ pc = "cleanCacheDir"
  /\ cacheDirs' = cacheDirs \intersect NeededCacheDirs
  /\ Goto(IF skipDetect THEN "validate" ELSE "detect")
  /\ UNCHANGED <<config, progress, contents, outputs>>

\* ReadDir or a RemoveAll fails when some entries are already gone.
CleanCacheDirFails ==
  /\ pc = "cleanCacheDir"
  /\ \E removed \in SUBSET (cacheDirs \ NeededCacheDirs) :
       cacheDirs' = cacheDirs \ removed
  /\ Fail(SystemFailCode)
  /\ UNCHANGED <<config, progress, contents, outputs>>

SlipValidateSupply ==
  /\ pc = "validate"
  /\ IF i < NumSupply
     THEN /\ Resolves(i)
          /\ Has(i, "supply")
          /\ i' = i + 1
          /\ Goto("validate")
     ELSE i' = 1 /\ Goto("supply")
  /\ UNCHANGED <<config, final, ran, metadata, procTypes, cacheDirs, contents, outputs>>

\* One iteration of validateSupplyBuildpacks, or its end.
ValidateSupply ==
  /\ pc = "validate"
  /\ IF i <= NumSupply
     THEN /\ Resolves(i)
          /\ Has(i, "supply")
          /\ i' = i + 1
          /\ Goto("validate")
     ELSE i' = 1 /\ Goto("supply")
  /\ UNCHANGED <<config, final, ran, metadata, procTypes, cacheDirs, contents, outputs>>

\* The buildpack is malformed, has no supply script, or stat fails.
ValidateSupplyFails ==
  /\ pc = "validate"
  /\ i <= NumSupply
  /\ Fail(SupplyFailCode)
  /\ UNCHANGED <<config, progress, cacheDirs, contents, outputs>>

SlipSupply ==
  /\ pc = "supply"
  /\ i <= NumSupply
  /\ Resolves(i)
  /\ Has(i, "supply")
  /\ RunScript("supply", i, order[i], i)
  /\ \/ WriteConfig(i, i) /\ i' = i + 1 /\ Goto("supply")
     \/ Fail(SupplyFailCode) /\ UNCHANGED <<i, contents>>
  /\ UNCHANGED <<config, final, metadata, procTypes, cacheDirs, outputs>>

\* One iteration of the loop of runSupplyBuildpacks.
Supply ==
  /\ pc = "supply"
  /\ i <= NumSupply
  /\ Resolves(i)
  /\ Has(i, "supply")
  /\ RunScript("supply", i, order[i], i - 1)
  /\ \/ /\ WriteConfig(i, i - 1)
        /\ i' = i + 1
        /\ Goto("supply")
     \/ /\ Fail(SupplyFailCode)
        /\ UNCHANGED <<i, contents>>
  /\ UNCHANGED <<config, final, metadata, procTypes, cacheDirs, outputs>>

\* buildpackPath fails, or the supply script cannot be started
SupplyNotStarted ==
  /\ pc = "supply"
  /\ i <= NumSupply
  /\ Fail(SupplyFailCode)
  /\ UNCHANGED <<config, progress, cacheDirs, contents, outputs>>

\* The end of runSupplyBuildpacks: the last buildpack is the final one.
ChooseFinal ==
  /\ pc = "supply"
  /\ i > NumSupply
  /\ IF Resolves(NumSupply + 1)
     THEN /\ final' = NumSupply + 1
          /\ metadata' = BuildpacksMetadata(order)
          /\ Goto("runFinalize")
     ELSE /\ Fail(SupplyFailCode)
          /\ UNCHANGED <<final, metadata>>
  /\ UNCHANGED <<config, i, ran, procTypes, cacheDirs, contents, outputs>>

SlipDetectSkips ==
  /\ pc = "detect"
  /\ i <= Len(order)
  /\ ~Resolves(i) \/ ~Has(i, "detect")
  /\ Goto("detect")
  /\ UNCHANGED <<config, progress, cacheDirs, contents, outputs>>

\* detect: a buildpack whose directory or detect script cannot be found
DetectSkips ==
  /\ pc = "detect"
  /\ i <= Len(order)
  /\ ~Resolves(i) \/ ~Has(i, "detect")
  /\ i' = i + 1
  /\ Goto("detect")
  /\ UNCHANGED <<config, final, ran, metadata, procTypes, cacheDirs, contents, outputs>>

\* The metadata of the detected buildpack; the name is what the detect
\* script printed unless the buildpack has a config.yml.
DetectedMetadata(k, output) ==
  LET found == BuildpacksMetadata(<<order[k]>>)[1]
  IN  <<IF found.name = None THEN [found EXCEPT !.name = output] ELSE found>>

\* detect: the script runs; the first one that succeeds selects its buildpack
Detect ==
  /\ pc = "detect"
  /\ i <= Len(order)
  /\ Resolves(i)
  /\ Has(i, "detect")
  /\ RunScript("detect", i, None, None)
  /\ \/ /\ \E output \in {None, <<"detect", order[i]>>} :
             metadata' = DetectedMetadata(i, output)
        /\ final' = i
        /\ Goto("runFinalize")
        /\ UNCHANGED i
     \/ /\ i' = i + 1
        /\ Goto("detect")
        /\ UNCHANGED <<final, metadata>>
  /\ UNCHANGED <<config, procTypes, cacheDirs, contents, outputs>>

NothingDetected ==
  /\ pc = "detect"
  /\ i > Len(order)
  /\ Fail(DetectFailCode)
  /\ UNCHANGED <<config, progress, cacheDirs, contents, outputs>>

SlipRunFinalize ==
  /\ pc = "runFinalize"
  /\ Goto(IF Has(final, "finalize") THEN "handleSupply" ELSE "compile")
  /\ UNCHANGED <<config, progress, cacheDirs, contents, outputs>>

\* runFinalize: whether the buildpack has a finalize script decides how it
\* is run; deps/<last index> is removed when it has none (handleNoFinalize)
RunFinalize ==
  /\ pc = "runFinalize"
  /\ IF Has(final, "finalize")
     THEN Goto("handleSupply") /\ UNCHANGED contents
     ELSE /\ contents' = [contents EXCEPT !.deps = @ \ {NumSupply},
                                          !.config[NumSupply] = None]
          /\ Goto("compile")
  /\ UNCHANGED <<config, progress, cacheDirs, outputs>>

\* stat fails, or the deps directory cannot be removed
RunFinalizeFails ==
  /\ pc = "runFinalize"
  /\ \/ Fail(FinalizeFailCode)
     \/ ~Has(final, "finalize") /\ Fail(CompileFailCode)
  /\ UNCHANGED <<config, progress, cacheDirs, contents, outputs>>

SlipHandleSupply ==
  /\ pc = "handleSupply"
  /\ Goto("finalize")
  /\ UNCHANGED <<config, progress, cacheDirs, contents, outputs>>

\* handleSupply: the final buildpack's own supply script, if there is one
HandleSupply ==
  /\ pc = "handleSupply"
  /\ IF Has(final, "supply")
     THEN /\ RunScript("supply", final, "final", NumSupply)
          /\ WriteConfig(final, NumSupply)
     ELSE UNCHANGED <<ran, contents>>
  /\ Goto("finalize")
  /\ UNCHANGED <<config, i, final, metadata, procTypes, cacheDirs, outputs>>

HandleSupplyFails ==
  /\ pc = "handleSupply"
  /\ \/ UNCHANGED ran  \* stat fails
     \/ Has(final, "supply") /\ RunScript("supply", final, "final", NumSupply)
  /\ Fail(SupplyFailCode)
  /\ UNCHANGED <<config, i, final, metadata, procTypes, cacheDirs, contents, outputs>>

SlipFinalize ==
  /\ pc = "finalize"
  /\ RunScript("finalize", final, "final", NumSupply)
  /\ \/ WriteConfig(final, NumSupply) /\ Goto("reevaluate")
     \/ UNCHANGED contents /\ Fail(CompileFailCode)
  /\ UNCHANGED <<config, i, final, metadata, procTypes, cacheDirs, outputs>>

Finalize ==
  /\ pc = "finalize"
  /\ RunScript("finalize", final, "final", NumSupply)
  /\ \/ WriteConfig(final, NumSupply) /\ Goto("reevaluate")
     \/ UNCHANGED contents /\ Fail(FinalizeFailCode)
  /\ UNCHANGED <<config, i, final, metadata, procTypes, cacheDirs, outputs>>

Compile ==
  /\ pc = "compile"
  /\ RunScript("compile", final, "final", None)
  /\ Goto("reevaluate") \/ Fail(CompileFailCode)
  /\ UNCHANGED <<config, i, final, metadata, procTypes, cacheDirs, contents, outputs>>

SlipReevaluateMetadata ==
  /\ pc = "reevaluate"
  /\ Goto("release")
  /\ UNCHANGED <<config, progress, cacheDirs, contents, outputs>>

\* Run, after runFinalize: with several buildpacks the names are read again,
\* now that the last one has written its config.yml.
ReevaluateMetadata ==
  /\ pc = "reevaluate"
  /\ metadata' = IF skipDetect THEN BuildpacksMetadata(order) ELSE metadata
  /\ Goto("release")
  /\ UNCHANGED <<config, i, final, ran, procTypes, cacheDirs, contents, outputs>>

\* The process types: the Procfile's commands replace the buildpack's.
ReleaseTypes(procfile, released) ==
  IF procfile = {} THEN [t \in ProcTypes |-> IF t \in released THEN "buildpack" ELSE "none"]
  ELSE IF released = {} THEN [t \in ProcTypes |-> IF t \in procfile THEN "procfile" ELSE "none"]
  ELSE [t \in ProcTypes |-> IF t \in procfile THEN "procfile"
                            ELSE IF t \in released THEN "buildpack" ELSE "none"]

Release ==
  /\ pc = "release"
  /\ RunScript("release", final, None, None)
  /\ \E procfile, released \in SUBSET ProcTypes :
       procTypes' = ReleaseTypes(procfile, released)
  /\ Goto("stagingInfo")
  /\ UNCHANGED <<config, i, final, metadata, cacheDirs, contents, outputs>>

\* An unreadable or invalid Procfile is found before the script runs; the
\* script may fail or print invalid YAML.
ReleaseFails ==
  /\ pc = "release"
  /\ UNCHANGED ran \/ RunScript("release", final, None, None)
  /\ Fail(ReleaseFailCode)
  /\ UNCHANGED <<config, i, final, metadata, procTypes, cacheDirs, contents, outputs>>

SlipWriteStagingInfo ==
  /\ pc = "stagingInfo"
  /\ contents' = [contents EXCEPT
       !.info = [name |-> metadata[1].name, start |-> procTypes[Web]]]
  /\ Goto("findTar")
  /\ UNCHANGED <<config, progress, cacheDirs, outputs>>

\* writeStagingInfoYML.  Without any metadata the index below panics, and
\* the executor's deferred os.Exit would report success: see NoPanic.
WriteStagingInfo ==
  /\ pc = "stagingInfo"
  /\ contents' = [contents EXCEPT
       !.info = [name |-> metadata[Len(metadata)].name, start |-> procTypes[Web]]]
  /\ Goto("findTar")
  /\ UNCHANGED <<config, progress, cacheDirs, outputs>>

FindTar ==
  /\ pc = "findTar"
  /\ Goto("saveInfo")
  /\ UNCHANGED <<config, progress, cacheDirs, contents, outputs>>

\* A step fails before it has changed a file: Create of staging_info.yml,
\* LookPath of tar, Create of the result, MkdirAll or cp of createArtifacts,
\* MkdirAll of createCache.
StepFails ==
  /\ pc \in {"stagingInfo", "findTar", "saveInfo", "copyApp", "createCache"}
  /\ Fail(SystemFailCode)
  /\ UNCHANGED <<config, progress, cacheDirs, contents, outputs>>

\* saveInfo, the first step of createArtifacts; encoding may fail half way
SaveInfo ==
  /\ pc = "saveInfo"
  /\ \/ /\ result' = [key |-> metadata[Len(metadata)].key,
                      name |-> metadata[Len(metadata)].name,
                      buildpacks |-> metadata,
                      procTypes |-> procTypes]
        /\ Goto("copyApp")
     \/ result' = Partial /\ Fail(SystemFailCode)
  /\ UNCHANGED <<config, progress, cacheDirs, contents, droplet, cacheTgz>>

\* createArtifacts: the application directory is copied into the contents
CopyApp ==
  /\ pc = "copyApp"
  /\ contents' = [contents EXCEPT !.app = ran]
  /\ Goto("packDroplet")
  /\ UNCHANGED <<config, progress, cacheDirs, outputs>>

SlipPackDroplet ==
  /\ pc = "packDroplet"
  /\ droplet' \in {contents, Partial}
  /\ Goto("createCache")
  /\ UNCHANGED <<config, progress, cacheDirs, contents, result, cacheTgz>>

\* createArtifacts: tar of the contents directory
PackDroplet ==
  /\ pc = "packDroplet"
  /\ \/ droplet' = contents /\ Goto("createCache")
     \/ droplet' \in {None, Partial} /\ Fail(SystemFailCode)
  /\ UNCHANGED <<config, progress, cacheDirs, contents, result, cacheTgz>>

SlipCreateCache ==
  /\ pc = "createCache"
  /\ cacheTgz' \in {[entries |-> cacheDirs], Partial}
  /\ Goto("cleanUp")
  /\ UNCHANGED <<config, progress, cacheDirs, contents, result, droplet>>

\* createCache: tar of the cache directory
CreateCache ==
  /\ pc = "createCache"
  /\ \/ cacheTgz' = [entries |-> cacheDirs] /\ Goto("cleanUp")
     \/ cacheTgz' = Partial /\ Fail(SystemFailCode)
  /\ UNCHANGED <<config, progress, cacheDirs, contents, result, droplet>>

\* The deferred CleanUp, after which the executor exits with exitCode.
CleanUp ==
  /\ pc = "cleanUp"
  /\ contents' = None
  /\ Goto("exited")
  /\ UNCHANGED <<config, progress, cacheDirs, outputs>>

Exited == pc = "exited" /\ UNCHANGED vars

-----------------------------------------------------------------------------

Prepare == \/ MakeDirectories \/ MakeDirectoriesFails
           \/ CleanCacheDir \/ CleanCacheDirFails

SupplyOrDetect == \/ ValidateSupply \/ ValidateSupplyFails
                  \/ Supply \/ SupplyNotStarted \/ ChooseFinal
                  \/ DetectSkips \/ Detect \/ NothingDetected

FinalizeApp == \/ RunFinalize \/ RunFinalizeFails
               \/ HandleSupply \/ HandleSupplyFails \/ Finalize \/ Compile

PackageApp == \/ ReevaluateMetadata \/ Release \/ ReleaseFails
              \/ WriteStagingInfo \/ FindTar \/ SaveInfo \/ CopyApp
              \/ PackDroplet \/ CreateCache \/ StepFails

Next == Prepare \/ SupplyOrDetect \/ FinalizeApp \/ PackageApp \/ CleanUp \/ Exited

\* Run is one thread: it always takes its next step, provided that every
\* script it waits for exits.
Spec == Init /\ [][Next]_vars /\ WF_vars(Next)

-----------------------------------------------------------------------------
(* Properties *)

Labels == {"makeDirectories", "cleanCacheDir", "validate", "supply", "detect",
           "runFinalize", "handleSupply", "finalize", "compile", "reevaluate",
           "release", "stagingInfo", "findTar", "saveInfo", "copyApp",
           "packDroplet", "createCache", "cleanUp", "exited"}

\* Every variable has its type.
TypeOK ==
  /\ order \in Seq(Buildpacks)
  /\ Len(order) <= MaxBuildpacks
  /\ skipDetect \in BOOLEAN
  /\ scripts \in [Buildpacks -> Layouts]
  /\ pc \in Labels
  /\ i \in 1 .. MaxBuildpacks + 1
  /\ final \in 0 .. Len(order)
  /\ cacheDirs \subseteq CacheEntries
  /\ contents \in Contents \union {None}
  /\ ran \in Seq(Runs)
  /\ metadata \in Seq(Metadata)
  /\ procTypes \in [ProcTypes -> Commands]
  /\ result \in Results \union {None, Partial}
  /\ droplet \in Contents \union {None, Partial}
  /\ cacheTgz \in Archives \union {None, Partial}
  /\ exitCode \in ExitCodes

Written(file) == file \notin {None, Partial}
Succeeded == pc = "exited" /\ exitCode = 0

\* When the executor exits with 0 all three files are complete, and the
\* droplet holds the application directory as the last script left it.
\* The uploader container relies on nothing but this exit code.
ExitZeroMeansBuilt ==
  Succeeded => /\ Written(result)
               /\ Written(cacheTgz)
               /\ Written(droplet)
               /\ droplet.app = ran
               /\ droplet.info # None

\* The same fact is written twice, by writeStagingInfoYML into the droplet
\* and by saveInfo into result.json: the two never disagree.
OutputsAgree ==
  Written(result) /\ Written(droplet) =>
    /\ droplet.info.name = result.name
    /\ droplet.info.start = result.procTypes[Web]

\* With several buildpacks the names reported are those of the config.yml
\* files shipped in the droplet, also when finalize rewrote the last one.
NamesFresh ==
  Written(droplet) /\ skipDetect =>
    /\ Len(result.buildpacks) = Len(order)
    /\ \A k \in DOMAIN order :
         /\ result.buildpacks[k].key = order[k]
         /\ result.buildpacks[k].name = droplet.config[k - 1]

\* A reported name belongs to the buildpack it is reported for: nobody else
\* wrote the config.yml it was read from.
NamesMatchKeys ==
  \A k \in DOMAIN metadata :
    metadata[k].name # None => metadata[k].name[2] = metadata[k].key

\* The run that the contract asks of supply buildpack k, and the detect run.
SupplyRun(k) == [script |-> "supply", of |-> order[k], cache |-> order[k], deps |-> k - 1]
DetectRun(k) == [script |-> "detect", of |-> order[k], cache |-> None, deps |-> None]

\* The runs of the detect scripts found among the first k buildpacks.
DetectRuns[k \in 0 .. Len(order)] ==
  IF k = 0 THEN <<>>
  ELSE IF {"bin", "detect"} \subseteq scripts[order[k]]
       THEN Append(DetectRuns[k - 1], DetectRun(k))
       ELSE DetectRuns[k - 1]

\* The runs that select the final buildpack: every supply script in order,
\* or the detect scripts found up to the one that succeeded.
SelectionRuns == IF skipDetect THEN [k \in 1 .. final - 1 |-> SupplyRun(k)]
                 ELSE DetectRuns[final]

\* The runs of the final buildpack.
FinalRuns ==
  LET run(script, cache, deps) == <<[script |-> script, of |-> order[final],
                                     cache |-> cache, deps |-> deps]>>
      last == IF skipDetect THEN Len(order) - 1 ELSE 0
  IN  (IF ~Has(final, "finalize") THEN run("compile", "final", None)
       ELSE (IF Has(final, "supply") THEN run("supply", "final", last) ELSE <<>>)
            \o run("finalize", "final", last))
      \o run("release", None, None)

\* A droplet was built by exactly the script runs the buildpack contract
\* asks for, in its order, each once, with its own deps and cache directory.
BuiltAsSpecified ==
  Written(droplet) => droplet.app = SelectionRuns \o FinalRuns

\* No script touches the application before every supply buildpack was
\* found to have a supply script (validateSupplyBuildpacks).
ValidatedFirst ==
  skipDetect /\ ran # <<>> =>
    \A k \in 1 .. Len(order) - 1 : {"bin", "supply"} \subseteq scripts[order[k]]

\* The archived cache has the entries this build used and nothing that an
\* earlier staging, or the downloader's app.zip, left in the directory.
CacheExact ==
  Succeeded => cacheTgz.entries = {"final"} \union
                 (IF skipDetect THEN {order[k] : k \in 1 .. Len(order) - 1} ELSE {})

\* The deps directories in the droplet: one per buildpack, without the one
\* of a final buildpack that cannot use it.
DepsExact ==
  Written(droplet) =>
    droplet.deps = {d \in 0 .. final - 1 : skipDetect \/ d = 0}
                   \ (IF Has(final, "finalize") THEN {} ELSE {NumSupply})

\* The exit code tells which phase failed: what had run by then.
ScriptsRun == {ran[k].script : k \in DOMAIN ran}
ExitCodeTellsPhase ==
  /\ exitCode = DetectFailCode => ~skipDetect /\ ScriptsRun \subseteq {"detect"}
  /\ exitCode = SupplyFailCode => ScriptsRun \subseteq {"detect", "supply"}
  /\ exitCode = FinalizeFailCode => ScriptsRun \intersect {"compile", "release"} = {}
  /\ exitCode = CompileFailCode => ScriptsRun \intersect {"finalize", "release"} = {}
  /\ exitCode = ReleaseFailCode => ScriptsRun \intersect {"compile", "finalize"} # {}

\* The two unguarded indexings, BuildpackOrder[len(SupplyBuildpacks())] and
\* buildpacks[len(buildpacks)-1], never panic.  A panic would run the
\* deferred os.Exit(exitCode) of the executor with 0: a failure reported as
\* success and without a callback.
NoPanic ==
  /\ pc = "supply" /\ i > NumSupply => order # <<>>
  /\ pc = "stagingInfo" => metadata # <<>>

\* No step removes what the cache holds for a buildpack of this build.
NeededCacheKept ==
  [][cacheDirs \intersect NeededCacheDirs \subseteq cacheDirs']_vars

\* The loops end: the executor exits whatever fails.
Terminates == <>(pc = "exited")

\* The executor implements the promise of Build.
Executor == INSTANCE Build WITH
  SystemFail <- SystemFailCode,
  ScriptFails <- ExitCodes \ {0, SystemFailCode},
  written <- {file \in {"result", "droplet", "cache"} :
                CASE file = "result" -> Written(result)
                  [] file = "droplet" -> Written(droplet)
                  [] file = "cache" -> Written(cacheTgz)},
  code <- exitCode,
  exited <- pc = "exited"

\* Each step of Run is a step of Build or changes nothing that Build sees,
\* and the executor exits.
ImplementsBuild == Executor!Spec
=============================================================================
