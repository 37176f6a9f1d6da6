---------------------------- MODULE RunnerProofs ----------------------------
(***************************************************************************)
(* Theorems about Runner, for every set of buildpacks, every bound on the  *)
(* length of the list and every layout of the buildpacks' directories.     *)
(***************************************************************************)
EXTENDS Runner, TLAPS, WellFoundedInduction

-----------------------------------------------------------------------------
(* The inductive invariant that type correctness rests on. *)

\* The labels at which the contents directory exists, and those at which
\* the final buildpack is known.
Working == Labels \ {"makeDirectories", "cleanUp", "exited"}
Selected == Working \ {"cleanCacheDir", "validate", "supply", "detect"}

\* All buildpacks skip detection only if there is one; from then on the label
\* tells which of the two ways is taken.
ConfigInv ==
  /\ skipDetect => order # <<>>
  /\ pc \in {"validate", "supply"} => skipDetect
  /\ pc = "detect" => ~skipDetect

\* What each phase may rely on.
PhaseInv ==
  /\ pc \in Working => contents \in Contents
  /\ pc \in Selected => final \in 1 .. Len(order) /\ metadata # <<>>

TypeInv == TypeOK /\ ConfigInv /\ PhaseInv

\* The number of supply buildpacks leaves room for the final one.
LEMMA NumSupplyType ==
  ASSUME TypeOK, ConfigInv
  PROVE  /\ NumSupply \in 0 .. MaxBuildpacks - 1
         /\ skipDetect => NumSupply + 1 = Len(order)
         /\ NumSupply <= Len(order)
         /\ order # <<>> => NumSupply + 1 \in 1 .. Len(order)
<1>1. Len(order) \in Nat /\ Len(order) <= MaxBuildpacks /\ MaxBuildpacks \in Nat \ {0}
  BY RunnerAssumption DEF TypeOK
<1>2. order # <<>> => Len(order) # 0
  BY DEF TypeOK
<1>3. skipDetect => order # <<>>
  BY DEF ConfigInv
<1> QED
  BY <1>1, <1>2, <1>3 DEF NumSupply

\* A script run is recorded with arguments of the right types.
LEMMA RunScriptType ==
  ASSUME NEW script \in {"detect", "supply", "finalize", "compile", "release"},
         NEW k \in 1 .. Len(order), NEW cache \in Buildpacks \union {"final", None},
         NEW deps \in DepsIndexes \union {None},
         order \in Seq(Buildpacks), ran \in Seq(Runs), RunScript(script, k, cache, deps)
  PROVE  ran' \in Seq(Runs)
<1>1. order[k] \in Buildpacks
  OBVIOUS
<1> QED
  BY <1>1 DEF RunScript, Runs

\* Metadata has one entry per key, in the order of the keys.
LEMMA BuildpacksMetadataType ==
  ASSUME contents \in Contents, NEW keys \in Seq(Buildpacks),
         Len(keys) <= MaxBuildpacks
  PROVE  /\ BuildpacksMetadata(keys) \in Seq(Metadata)
         /\ Len(BuildpacksMetadata(keys)) = Len(keys)
         /\ \A k \in 1 .. Len(keys) : BuildpacksMetadata(keys)[k] =
              [key |-> keys[k], name |-> contents.config[k - 1]]
<1>1. Len(keys) \in Nat /\ DOMAIN keys = 1 .. Len(keys)
  OBVIOUS
<1>2. ASSUME NEW k \in 1 .. Len(keys)
      PROVE  [key |-> keys[k], name |-> contents.config[k - 1]] \in Metadata
  <2>1. k - 1 \in DepsIndexes
    BY <1>1, RunnerAssumption DEF DepsIndexes
  <2>2. contents.config[k - 1] \in Names \union {None}
    BY <2>1 DEF Contents
  <2> QED
    BY <2>2 DEF Metadata
<1> QED
  BY <1>1, <1>2 DEF BuildpacksMetadata

\* Writing a config.yml changes nothing else in the contents directory.
LEMMA WriteConfigType ==
  ASSUME contents \in Contents, NEW k \in 1 .. Len(order), NEW d \in DepsIndexes,
         order \in Seq(Buildpacks), WriteConfig(k, d)
  PROVE  /\ contents' \in Contents
         /\ contents'.deps = contents.deps
         /\ contents'.info = contents.info
         /\ contents'.app = contents.app
         /\ \A e \in DepsIndexes \ {d} : contents'.config[e] = contents.config[e]
         /\ contents'.config[d] \in {contents.config[d], <<"config", order[k]>>}
<1>1. <<"config", order[k]>> \in Names /\ contents.config[d] \in Names \union {None}
  BY DEF Names, Contents
<1>2. PICK name \in {contents.config[d], <<"config", order[k]>>} :
        contents' = [contents EXCEPT !.config[d] = name]
  BY DEF WriteConfig
<1> QED
  BY <1>1, <1>2 DEF Contents

\* The directory made by TempDir and the MkdirAlls after it.
LEMMA NewContentsType ==
  ASSUME NEW n \in 0 .. MaxBuildpacks
  PROVE  NewContents(n) \in Contents
<1>1. 0 .. n - 1 \subseteq DepsIndexes
  BY RunnerAssumption DEF DepsIndexes
<1> QED
  BY <1>1 DEF NewContents, Contents

\* A function on an initial interval is a sequence.
LEMMA FunctionIsSeq ==
  ASSUME NEW S, NEW n \in Nat, NEW f \in [1 .. n -> S]
  PROVE  f \in Seq(S) /\ Len(f) = n
OBVIOUS

\* Initially nothing has been made and the configuration is well formed.
LEMMA TypeInit ==
  ASSUME Init
  PROVE  TypeInv
<1>1. PICK buildpacks \in BuildpackLists : InitBuildpacks(buildpacks)
  BY DEF Init
<1>2. PICK n \in 0 .. MaxBuildpacks :
        buildpacks \in [1 .. n -> [name : Buildpacks, skip : BOOLEAN]]
  BY <1>1 DEF BuildpackLists
<1>3. /\ order \in Seq(Buildpacks)
      /\ Len(order) = n
      /\ Len(buildpacks) = n
  <2>1. /\ DOMAIN buildpacks = 1 .. n
        /\ order = [k \in 1 .. n |-> buildpacks[k].name]
        /\ n \in Nat
    BY <1>1, <1>2, RunnerAssumption DEF InitBuildpacks
  <2>2. \A k \in 1 .. n : buildpacks[k].name \in Buildpacks
    BY <1>2
  <2>4. order \in [1 .. n -> Buildpacks]
    BY <2>1, <2>2
  <2>5. Len(buildpacks) = n
    BY <1>2, <2>1, FunctionIsSeq
  <2> QED
    BY <2>1, <2>4, <2>5, FunctionIsSeq
<1>4. skipDetect \in BOOLEAN /\ (skipDetect => order # <<>>)
  BY <1>1, <1>3 DEF InitBuildpacks
<1>5. n \in Nat /\ n <= MaxBuildpacks
  BY RunnerAssumption
<1>6. ConfigInv /\ PhaseInv
  BY <1>4 DEF Init, ConfigInv, PhaseInv, Working, Selected, Labels
<1>7. TypeOK
  BY <1>3, <1>4, <1>5, RunnerAssumption
  DEF Init, TypeOK, Labels, Commands, ExitCodes, SystemFailCode, DetectFailCode,
      CompileFailCode, ReleaseFailCode, SupplyFailCode, FinalizeFailCode
<1> QED
  BY <1>6, <1>7 DEF TypeInv

\* The configuration never changes.
LEMMA ConfigUnchanged ==
  ASSUME [Next]_vars
  PROVE  UNCHANGED config
BY DEF Next, vars, config, progress, Prepare, SupplyOrDetect, FinalizeApp, PackageApp,
  MakeDirectories, MakeDirectoriesFails, CleanCacheDir, CleanCacheDirFails,
  ValidateSupply, ValidateSupplyFails, Supply, SupplyNotStarted, ChooseFinal,
  DetectSkips, Detect, NothingDetected, RunFinalize, RunFinalizeFails,
  HandleSupply, HandleSupplyFails, Finalize, Compile, ReevaluateMetadata,
  Release, ReleaseFails, WriteStagingInfo, FindTar, StepFails, SaveInfo,
  CopyApp, PackDroplet, CreateCache, CleanUp, Exited

\* TypeInv is inductive.
LEMMA TypeStep ==
  ASSUME TypeInv, [Next]_vars
  PROVE  TypeInv'
<1>1. UNCHANGED config
  BY ConfigUnchanged
<1>n. /\ NumSupply \in 0 .. MaxBuildpacks - 1
      /\ skipDetect => NumSupply + 1 = Len(order)
      /\ NumSupply <= Len(order)
      /\ order # <<>> => NumSupply + 1 \in 1 .. Len(order)
      /\ Len(order) \in Nat /\ Len(order) <= MaxBuildpacks
      /\ MaxBuildpacks \in Nat \ {0}
      /\ order \in Seq(Buildpacks)
  BY NumSupplyType, RunnerAssumption DEF TypeInv, TypeOK
<1>d. NumSupply \in DepsIndexes
  BY <1>n DEF DepsIndexes
<1> USE DEF TypeInv, TypeOK, ConfigInv, PhaseInv, config, progress, outputs, Goto,
            Fail, Working, Selected, Labels, ExitCodes
<1>2. CASE MakeDirectories
  <2>1. NewContents(NumSupply + 1) \in Contents
    BY <1>n, NewContentsType
  <2>2. NeededCacheDirs \subseteq CacheEntries
    BY <1>n DEF NeededCacheDirs, CacheEntries
  <2> QED
    BY <1>1, <1>2, <2>1, <2>2 DEF MakeDirectories
<1>3. CASE MakeDirectoriesFails
  <2>1. \A n \in 0 .. NumSupply + 1 : NewContents(n) \in Contents
    BY <1>n, NewContentsType
  <2>2. NeededCacheDirs \subseteq CacheEntries
    BY <1>n DEF NeededCacheDirs, CacheEntries
  <2>3. \A n \in 0 .. NumSupply :
          {"final"} \union {order[k] : k \in 1 .. n} \subseteq CacheEntries
    BY <1>n DEF CacheEntries
  <2>4. contents' \in Contents \union {None} /\ cacheDirs' \subseteq CacheEntries
    BY <1>3, <2>1, <2>2, <2>3 DEF MakeDirectoriesFails
  <2> QED
    BY <1>1, <1>3, <2>4 DEF MakeDirectoriesFails

<1>4. CASE CleanCacheDir
  BY <1>1, <1>4 DEF CleanCacheDir
<1>5. CASE CleanCacheDirFails
  BY <1>1, <1>5 DEF CleanCacheDirFails
<1>6. CASE ValidateSupply
  BY <1>1, <1>6, <1>n DEF ValidateSupply
<1>7. CASE ValidateSupplyFails
  BY <1>1, <1>7 DEF ValidateSupplyFails
<1>8. CASE Supply
  <2>1. i \in 1 .. Len(order) /\ i - 1 \in DepsIndexes /\ i + 1 \in 1 .. MaxBuildpacks + 1
    BY <1>8, <1>n DEF Supply, DepsIndexes
  <2>2. order[i] \in Buildpacks
    BY <2>1, <1>n
  <2>3. ran' \in Seq(Runs)
    BY <1>8, <1>n, <2>1, <2>2, RunScriptType DEF Supply
  <2>4. CASE WriteConfig(i, i - 1) /\ i' = i + 1 /\ Goto("supply")
    <3>1. contents' \in Contents
      BY <1>8, <1>n, <2>1, <2>4, WriteConfigType DEF Supply
    <3> QED
      BY <1>1, <1>8, <2>1, <2>3, <2>4, <3>1 DEF Supply
  <2>5. CASE Fail(SupplyFailCode) /\ UNCHANGED <<i, contents>>
    BY <1>1, <1>8, <2>3, <2>5 DEF Supply
  <2> QED
    BY <1>8, <2>4, <2>5 DEF Supply
<1>9. CASE SupplyNotStarted
  BY <1>1, <1>9 DEF SupplyNotStarted
<1>10. CASE ChooseFinal
  <2>1. /\ BuildpacksMetadata(order) \in Seq(Metadata)
        /\ Len(BuildpacksMetadata(order)) = Len(order)
    BY <1>10, <1>n, BuildpacksMetadataType DEF ChooseFinal
  <2>2. BuildpacksMetadata(order) # <<>> /\ NumSupply + 1 \in 1 .. Len(order)
    BY <1>10, <1>n, <2>1 DEF ChooseFinal
  <2> QED
    BY <1>1, <1>10, <1>n, <2>1, <2>2 DEF ChooseFinal
<1>11. CASE DetectSkips
  BY <1>1, <1>11, <1>n DEF DetectSkips
<1>12. CASE Detect
  <2>1. i \in 1 .. Len(order) /\ i + 1 \in 1 .. MaxBuildpacks + 1
    BY <1>12, <1>n DEF Detect
  <2>2. ran' \in Seq(Runs)
    BY <1>12, <1>n, <2>1, RunScriptType DEF Detect
  <2>3. ASSUME NEW output \in {None, <<"detect", order[i]>>}
        PROVE  /\ DetectedMetadata(i, output) \in Seq(Metadata)
               /\ DetectedMetadata(i, output) # <<>>
    <3>1. order[i] \in Buildpacks /\ output \in Names \union {None}
      BY <2>1, <1>n DEF Names
    <3>2. <<order[i]>> \in Seq(Buildpacks) /\ Len(<<order[i]>>) = 1
      BY <3>1
    <3>3. BuildpacksMetadata(<<order[i]>>)[1] \in Metadata
      <4>1. contents \in Contents /\ Len(<<order[i]>>) <= MaxBuildpacks
        BY <1>12, <1>n, <3>2 DEF Detect
      <4> HIDE DEF TypeInv
      <4>2. /\ BuildpacksMetadata(<<order[i]>>) \in Seq(Metadata)
            /\ Len(BuildpacksMetadata(<<order[i]>>)) = 1
        BY <3>2, <4>1, BuildpacksMetadataType
      <4> QED
        BY <4>2
    <3> DEFINE found == BuildpacksMetadata(<<order[i]>>)[1]
    <3>4. (IF found.name = None THEN [found EXCEPT !.name = output] ELSE found) \in Metadata
      BY <3>1, <3>3 DEF Metadata
    <3> QED
      BY <3>4 DEF DetectedMetadata
  <2>4. CASE /\ \E output \in {None, <<"detect", order[i]>>} :
                  metadata' = DetectedMetadata(i, output)
             /\ final' = i
             /\ Goto("runFinalize")
             /\ UNCHANGED i
    BY <1>1, <1>12, <2>1, <2>2, <2>3, <2>4 DEF Detect
  <2>5. CASE i' = i + 1 /\ Goto("detect") /\ UNCHANGED <<final, metadata>>
    BY <1>1, <1>12, <2>1, <2>2, <2>5 DEF Detect
  <2> QED
    BY <1>12, <2>4, <2>5 DEF Detect
<1>13. CASE NothingDetected
  BY <1>1, <1>13 DEF NothingDetected
<1>14. CASE RunFinalize
  <2>1. [contents EXCEPT !.deps = @ \ {NumSupply}, !.config[NumSupply] = None] \in Contents
    <3>1. [contents.config EXCEPT ![NumSupply] = None] \in [DepsIndexes -> Names \union {None}]
      BY <1>14, <1>d DEF RunFinalize, Contents
    <3>2. contents.deps \ {NumSupply} \in SUBSET DepsIndexes
      BY <1>14 DEF RunFinalize, Contents
    <3> QED
      BY <1>14, <3>1, <3>2 DEF RunFinalize, Contents
  <2> QED
    BY <1>1, <1>14, <2>1 DEF RunFinalize
<1>15. CASE RunFinalizeFails
  BY <1>1, <1>15 DEF RunFinalizeFails
<1>16. CASE HandleSupply
  <2>1. CASE Has(final, "supply")
    <3>1. ran' \in Seq(Runs) /\ contents' \in Contents
      BY <1>16, <1>n, <1>d, <2>1, RunScriptType, WriteConfigType DEF HandleSupply
    <3> QED
      BY <1>1, <1>16, <3>1 DEF HandleSupply
  <2>2. CASE ~Has(final, "supply")
    BY <1>1, <1>16, <2>2 DEF HandleSupply
  <2> QED
    BY <2>1, <2>2
<1>17. CASE HandleSupplyFails
  <2>1. ran' \in Seq(Runs)
    BY <1>17, <1>n, <1>d, RunScriptType DEF HandleSupplyFails
  <2> QED
    BY <1>1, <1>17, <2>1 DEF HandleSupplyFails
<1>18. CASE Finalize
  <2>1. ran' \in Seq(Runs)
    BY <1>18, <1>n, <1>d, RunScriptType DEF Finalize
  <2>2. contents' \in Contents
    BY <1>18, <1>n, <1>d, WriteConfigType DEF Finalize
  <2> QED
    BY <1>1, <1>18, <2>1, <2>2 DEF Finalize
<1>19. CASE Compile
  <2>1. ran' \in Seq(Runs)
    BY <1>19, <1>n, RunScriptType DEF Compile
  <2> QED
    BY <1>1, <1>19, <2>1 DEF Compile
<1>20. CASE ReevaluateMetadata
  <2>1. metadata' \in Seq(Metadata) /\ metadata' # <<>>
    <3>1. CASE skipDetect
      BY <1>20, <1>n, <3>1, BuildpacksMetadataType DEF ReevaluateMetadata
    <3>2. CASE ~skipDetect
      BY <1>20, <3>2 DEF ReevaluateMetadata
    <3> QED
      BY <3>1, <3>2
  <2> QED
    BY <1>1, <1>20, <2>1 DEF ReevaluateMetadata
<1>21. CASE Release
  <2>1. ran' \in Seq(Runs)
    BY <1>21, <1>n, RunScriptType DEF Release
  <2>2. procTypes' \in [ProcTypes -> Commands]
    BY <1>21 DEF Release, ReleaseTypes, Commands
  <2> QED
    BY <1>1, <1>21, <2>1, <2>2 DEF Release
<1>22. CASE ReleaseFails
  <2>1. ran' \in Seq(Runs)
    BY <1>22, <1>n, RunScriptType DEF ReleaseFails
  <2> QED
    BY <1>1, <1>22, <2>1 DEF ReleaseFails
<1>23. CASE WriteStagingInfo
  <2>1. metadata[Len(metadata)] \in Metadata
    BY <1>23 DEF WriteStagingInfo
  <2>2. [name |-> metadata[Len(metadata)].name, start |-> procTypes[Web]] \in StagingInfo
    BY <2>1, RunnerAssumption DEF Metadata, StagingInfo
  <2>3. contents' \in Contents
    BY <1>23, <2>2 DEF WriteStagingInfo, Contents
  <2> QED
    BY <1>1, <1>23, <2>3 DEF WriteStagingInfo
<1>24. CASE FindTar
  BY <1>1, <1>24 DEF FindTar
<1>25. CASE StepFails
  BY <1>1, <1>25 DEF StepFails
<1>26. CASE SaveInfo
  <2>1. metadata[Len(metadata)] \in Metadata
    BY <1>26 DEF SaveInfo
  <2>2. result' \in Results \union {Partial}
    BY <1>26, <2>1 DEF SaveInfo, Metadata, Results
  <2> QED
    BY <1>1, <1>26, <2>2 DEF SaveInfo
<1>27. CASE CopyApp
  <2>1. contents' \in Contents
    BY <1>27 DEF CopyApp, Contents
  <2> QED
    BY <1>1, <1>27, <2>1 DEF CopyApp
<1>28. CASE PackDroplet
  BY <1>1, <1>28 DEF PackDroplet
<1>29. CASE CreateCache
  BY <1>1, <1>29 DEF CreateCache, Archives
<1>30. CASE CleanUp
  BY <1>1, <1>30 DEF CleanUp
<1>31. CASE Exited \/ UNCHANGED vars
  BY <1>31 DEF Exited, vars
<1> QED
  BY <1>2, <1>3, <1>4, <1>5, <1>6, <1>7, <1>8, <1>9, <1>10, <1>11, <1>12, <1>13,
     <1>14, <1>15, <1>16, <1>17, <1>18, <1>19, <1>20, <1>21, <1>22, <1>23, <1>24,
     <1>25, <1>26, <1>27, <1>28, <1>29, <1>30, <1>31
  DEF Next, Prepare, SupplyOrDetect, FinalizeApp, PackageApp


\* Every variable keeps its type, whatever fails and whatever the scripts do.
THEOREM TypeCorrect == Spec => []TypeOK
<1>1. Init => TypeInv
  BY TypeInit
<1>2. TypeInv /\ [Next]_vars => TypeInv'
  BY TypeStep
<1>3. TypeInv => TypeOK
  BY DEF TypeInv
<1> QED
  BY <1>1, <1>2, <1>3, PTL DEF Spec

\* Neither unguarded indexing of runner.go panics: the list of buildpacks is
\* not empty where its last element is taken, nor is the metadata.
THEOREM NeverPanics == Spec => []NoPanic
<1>1. Init => TypeInv
  BY TypeInit
<1>2. TypeInv /\ [Next]_vars => TypeInv'
  BY TypeStep
<1>3. TypeInv => NoPanic
  BY DEF TypeInv, ConfigInv, PhaseInv, NoPanic, Selected, Working, Labels
<1> QED
  BY <1>1, <1>2, <1>3, PTL DEF Spec

-----------------------------------------------------------------------------
(* The inductive invariant about the three files. *)

\* What writeStagingInfoYML and saveInfo write for the present metadata.
InfoNow == [name |-> metadata[Len(metadata)].name, start |-> procTypes[Web]]
ResultNow == [key |-> metadata[Len(metadata)].key,
              name |-> metadata[Len(metadata)].name,
              buildpacks |-> metadata, procTypes |-> procTypes]

Ended == {"cleanUp", "exited"}

\* Which files can exist at which label, and with which exit code.
ExistInv ==
  /\ pc \notin Ended => exitCode = 0
  /\ pc \notin Ended \union {"copyApp", "packDroplet", "createCache"} => result = None
  /\ pc \notin Ended \union {"createCache"} => droplet = None
  /\ pc \notin Ended => cacheTgz = None
  /\ exitCode > SystemFailCode => result = None /\ droplet = None /\ cacheTgz = None

\* What has been put into the contents directory and the cache so far.
ContentsInv ==
  /\ pc = "cleanCacheDir" => NeededCacheDirs \subseteq cacheDirs
  /\ pc \in Working \ {"cleanCacheDir"} => cacheDirs = NeededCacheDirs
  /\ pc \in {"findTar", "saveInfo", "copyApp", "packDroplet", "createCache"} =>
       contents.info = InfoNow
  /\ pc \in {"packDroplet", "createCache"} => contents.app = ran
  /\ pc \in {"copyApp", "packDroplet", "createCache"} => result = ResultNow

\* What the complete files hold.
FilesInv ==
  /\ pc = "createCache" => Written(droplet)
  /\ Written(droplet) => /\ metadata # <<>>
                         /\ result = ResultNow
                         /\ droplet.info = InfoNow
                         /\ droplet.app = ran
  /\ Written(cacheTgz) => Written(droplet) /\ cacheTgz.entries = NeededCacheDirs
  /\ pc \in Ended /\ exitCode = 0 => Written(cacheTgz)

BuiltInv == TypeInv /\ ExistInv /\ ContentsInv /\ FilesInv

\* Nothing is written at first.
LEMMA BuiltInit ==
  ASSUME Init
  PROVE  BuiltInv
<1>1. TypeInv
  BY TypeInit
<1> QED
  BY <1>1 DEF Init, BuiltInv, ExistInv, ContentsInv, FilesInv, Ended, Written, Working,
    Labels, SystemFailCode

\* The steps up to runFinalize and of the buildpacks' scripts write no file
\* and leave the cache directory as cleanCacheDir left it.
LEMMA BuiltStepBefore ==
  ASSUME BuiltInv, TypeInv', UNCHANGED config,
         Prepare \/ SupplyOrDetect \/ FinalizeApp
  PROVE  BuiltInv'
<1>1. /\ UNCHANGED outputs
      /\ pc \notin Ended \union {"reevaluate", "release", "stagingInfo", "findTar",
                                 "saveInfo", "copyApp", "packDroplet", "createCache"}
      /\ \/ pc' \notin {"release", "stagingInfo", "findTar", "saveInfo", "copyApp",
                        "packDroplet", "createCache", "cleanUp", "exited"}
            /\ UNCHANGED exitCode
         \/ (pc' = "cleanUp" /\ exitCode' \in ExitCodes \ {0})
  BY DEF Prepare, SupplyOrDetect, FinalizeApp, outputs, Goto, Fail, Ended, ExitCodes,
    SystemFailCode, DetectFailCode, CompileFailCode, ReleaseFailCode, SupplyFailCode,
    FinalizeFailCode,
    MakeDirectories, MakeDirectoriesFails, CleanCacheDir, CleanCacheDirFails,
    ValidateSupply, ValidateSupplyFails, Supply, SupplyNotStarted, ChooseFinal,
    DetectSkips, Detect, NothingDetected, RunFinalize, RunFinalizeFails,
    HandleSupply, HandleSupplyFails, Finalize, Compile
<1>2. /\ pc' \in Working \ {"cleanCacheDir"} => cacheDirs' = NeededCacheDirs
      /\ pc' = "cleanCacheDir" => NeededCacheDirs \subseteq cacheDirs'
  <2> USE DEF BuiltInv, TypeInv, TypeOK, ContentsInv, Working, Labels, Goto, Fail, config
  <2>1. CASE Prepare
    BY <2>1 DEF Prepare, MakeDirectories, MakeDirectoriesFails, CleanCacheDir,
      CleanCacheDirFails
  <2>2. CASE SupplyOrDetect
    BY <2>2 DEF SupplyOrDetect, ValidateSupply, ValidateSupplyFails, Supply,
      SupplyNotStarted, ChooseFinal, DetectSkips, Detect, NothingDetected
  <2>3. CASE FinalizeApp
    BY <2>3 DEF FinalizeApp, RunFinalize, RunFinalizeFails, HandleSupply,
      HandleSupplyFails, Finalize, Compile
  <2> QED
    BY <2>1, <2>2, <2>3
<1>3. NeededCacheDirs' = NeededCacheDirs
  BY DEF NeededCacheDirs, NumSupply, config
<1>4. ExistInv'
  BY <1>1 DEF BuiltInv, ExistInv, outputs, Ended
<1>5. ContentsInv'
  BY <1>1, <1>2, <1>3 DEF ContentsInv
<1>6. FilesInv'
  BY <1>1 DEF BuiltInv, ExistInv, FilesInv, outputs, Ended, Written, ExitCodes
<1> QED
  BY <1>4, <1>5, <1>6 DEF BuiltInv


\* The steps after the scripts: each file is written from what the steps
\* before it left, and a failure leaves exit code 0 behind.
LEMMA BuiltStepAfter ==
  ASSUME BuiltInv, TypeInv', UNCHANGED config, PackageApp
  PROVE  BuiltInv'
<1>1. NeededCacheDirs' = NeededCacheDirs
  BY DEF NeededCacheDirs, NumSupply, config
<1> USE <1>1 DEF BuiltInv, ExistInv, ContentsInv, FilesInv, Written, Ended, Working, Labels,
      Goto, Fail, outputs, progress, InfoNow, ResultNow, SystemFailCode
<1>2. CASE ReevaluateMetadata
  BY <1>2 DEF ReevaluateMetadata
<1>3. CASE Release
  BY <1>3 DEF Release
<1>4. CASE ReleaseFails
  BY <1>4 DEF ReleaseFails, ReleaseFailCode
<1>5. CASE WriteStagingInfo
  BY <1>5 DEF WriteStagingInfo, TypeInv, PhaseInv, Contents
<1>6. CASE FindTar
  BY <1>6 DEF FindTar
<1>7. CASE SaveInfo
  BY <1>7, RunnerAssumption DEF SaveInfo
<1>8. CASE CopyApp
  BY <1>8 DEF CopyApp, TypeInv, PhaseInv, Contents
<1>9. CASE PackDroplet
  <2>1. contents \notin {None, Partial}
    BY <1>9, AbsentAssumption DEF PackDroplet, TypeInv, PhaseInv
  <2>2. metadata # <<>>
    BY <1>9 DEF PackDroplet, TypeInv, PhaseInv, Selected
  <2> QED
    BY <1>9, <2>1, <2>2 DEF PackDroplet
<1>10. CASE CreateCache
  <2>1. [entries |-> cacheDirs] \notin {None, Partial}
    BY <1>10, AbsentAssumption DEF CreateCache, TypeInv, TypeOK, Archives
  <2> QED
    BY <1>10, <2>1 DEF CreateCache
<1>11. CASE StepFails
  BY <1>11 DEF StepFails
<1> QED
  BY <1>2, <1>3, <1>4, <1>5, <1>6, <1>7, <1>8, <1>9, <1>10, <1>11 DEF PackageApp

\* BuiltInv is inductive.
LEMMA BuiltStep ==
  ASSUME BuiltInv, [Next]_vars
  PROVE  BuiltInv'
<1>1. TypeInv' /\ UNCHANGED config
  BY TypeStep, ConfigUnchanged DEF BuiltInv
<1>2. CASE Prepare \/ SupplyOrDetect \/ FinalizeApp
  BY <1>1, <1>2, BuiltStepBefore
<1>3. CASE PackageApp
  BY <1>1, <1>3, BuiltStepAfter
<1>4. CASE CleanUp
  <2> USE DEF Ended, Working, Labels, Goto, outputs, progress, config, Written, CleanUp
  <2>1. ExistInv'
    BY <1>4 DEF BuiltInv, ExistInv
  <2>2. ContentsInv'
    BY <1>4 DEF ContentsInv
  <2>3. FilesInv'
    BY <1>4 DEF BuiltInv, FilesInv, InfoNow, ResultNow, NeededCacheDirs, NumSupply
  <2> QED
    BY <1>1, <2>1, <2>2, <2>3 DEF BuiltInv
<1>5. CASE Exited \/ UNCHANGED vars
  BY <1>1, <1>5 DEF Exited, vars, BuiltInv, ExistInv, ContentsInv, FilesInv, InfoNow,
    ResultNow, NeededCacheDirs, NumSupply, Written
<1> QED
  BY <1>2, <1>3, <1>4, <1>5 DEF Next

\* BuiltInv holds in every state.
LEMMA BuiltAlways == Spec => []BuiltInv
<1>1. Init => BuiltInv
  BY BuiltInit
<1>2. BuiltInv /\ [Next]_vars => BuiltInv'
  BY BuiltStep
<1> QED
  BY <1>1, <1>2, PTL DEF Spec

\* Exit code 0 is never a lie: the droplet, result.json and the cache archive
\* are complete, and no script touched the application after it was packed.
THEOREM ExitZeroIsHonest == Spec => []ExitZeroMeansBuilt
<1>1. BuiltInv => ExitZeroMeansBuilt
  <2> SUFFICES ASSUME BuiltInv, Succeeded
               PROVE  /\ Written(result) /\ Written(cacheTgz) /\ Written(droplet)
                      /\ droplet.app = ran /\ droplet.info # None
    BY DEF ExitZeroMeansBuilt
  <2>1. Written(cacheTgz) /\ Written(droplet)
    BY DEF BuiltInv, FilesInv, Succeeded, Ended
  <2>2. result = ResultNow /\ droplet.info = InfoNow /\ droplet.app = ran
    BY <2>1 DEF BuiltInv, FilesInv
  <2>3. metadata[Len(metadata)] \in Metadata
    BY <2>1 DEF BuiltInv, FilesInv, TypeInv, TypeOK
  <2>4. result \in Results
    BY <2>2, <2>3 DEF ResultNow, Results, Metadata, BuiltInv, TypeInv, TypeOK
  <2>5. droplet.info \in StagingInfo
    BY <2>2, <2>3, RunnerAssumption
    DEF InfoNow, StagingInfo, Metadata, BuiltInv, TypeInv, TypeOK
  <2> QED
    BY <2>1, <2>2, <2>4, <2>5, AbsentAssumption DEF Written
<1> QED
  BY <1>1, BuiltAlways, PTL

\* The two copies of the metadata, staging_info.yml inside the droplet and
\* result.json beside it, name the same buildpack and start command.
THEOREM OutputsAlwaysAgree == Spec => []OutputsAgree
<1>1. BuiltInv => OutputsAgree
  BY DEF BuiltInv, FilesInv, OutputsAgree, InfoNow, ResultNow
<1> QED
  BY <1>1, BuiltAlways, PTL

\* The archived cache has exactly the entries this build needs.
THEOREM CacheIsExact == Spec => []CacheExact
<1>1. BuiltInv => CacheExact
  BY DEF BuiltInv, TypeInv, ConfigInv, TypeOK, FilesInv, CacheExact, Succeeded, Ended,
    NeededCacheDirs, NumSupply
<1> QED
  BY <1>1, BuiltAlways, PTL


\* No step removes a cache entry that belongs to a buildpack of this build.
THEOREM NeededCacheIsKept == Spec => NeededCacheKept
<1>1. [Next]_vars => (cacheDirs \intersect NeededCacheDirs \subseteq cacheDirs')
  <2> SUFFICES ASSUME [Next]_vars
               PROVE  cacheDirs \intersect NeededCacheDirs \subseteq cacheDirs'
    OBVIOUS
  <2>1. CASE Prepare
    BY <2>1 DEF Prepare, MakeDirectories, MakeDirectoriesFails, CleanCacheDir,
      CleanCacheDirFails
  <2>2. CASE SupplyOrDetect
    BY <2>2 DEF SupplyOrDetect, ValidateSupply, ValidateSupplyFails, Supply,
      SupplyNotStarted, ChooseFinal, DetectSkips, Detect, NothingDetected
  <2>3. CASE FinalizeApp
    BY <2>3 DEF FinalizeApp, RunFinalize, RunFinalizeFails, HandleSupply,
      HandleSupplyFails, Finalize, Compile
  <2>4. CASE PackageApp
    BY <2>4 DEF PackageApp, ReevaluateMetadata, Release, ReleaseFails,
      WriteStagingInfo, FindTar, SaveInfo, CopyApp, PackDroplet, CreateCache, StepFails
  <2>5. CASE CleanUp \/ Exited \/ UNCHANGED vars
    BY <2>5 DEF CleanUp, Exited, vars
  <2> QED
    BY <2>1, <2>2, <2>3, <2>4, <2>5 DEF Next
<1> QED
  BY <1>1, PTL DEF Spec, NeededCacheKept


-----------------------------------------------------------------------------
(* The executor implements Build. *)

\* The files that Build sees.
Complete == {file \in {"result", "droplet", "cache"} :
               CASE file = "result" -> Written(result)
                 [] file = "droplet" -> Written(droplet)
                 [] file = "cache" -> Written(cacheTgz)}

\* The files that are complete, as Build names them.
LEMMA CompleteElements ==
  /\ Complete \subseteq {"result", "droplet", "cache"}
  /\ "result" \in Complete <=> Written(result)
  /\ "droplet" \in Complete <=> Written(droplet)
  /\ "cache" \in Complete <=> Written(cacheTgz)
BY DEF Complete

\* The same after a step.
LEMMA CompleteElementsNext ==
  /\ Complete' \subseteq {"result", "droplet", "cache"}
  /\ "result" \in Complete' <=> Written(result)'
  /\ "droplet" \in Complete' <=> Written(droplet)'
  /\ "cache" \in Complete' <=> Written(cacheTgz)'
BY DEF Complete

\* A complete result.json is there from saveInfo on.
LEMMA ResultComplete ==
  ASSUME BuiltInv, pc \in {"copyApp", "packDroplet", "createCache"} \/ Written(droplet)
  PROVE  Written(result)
<1>1. metadata # <<>> /\ result = ResultNow
  BY DEF BuiltInv, FilesInv, ContentsInv, TypeInv, PhaseInv, Selected, Working, Labels
<1>2. metadata[Len(metadata)] \in Metadata
  BY <1>1 DEF BuiltInv, TypeInv, TypeOK
<1>3. result \in Results
  BY <1>1, <1>2 DEF ResultNow, Results, Metadata, BuiltInv, TypeInv, TypeOK
<1> QED
  BY <1>3, AbsentAssumption DEF Written

\* Failing before a file is complete is a failure that Build allows.
LEMMA FailImplements ==
  ASSUME BuiltInv, pc \notin Ended, NEW c \in ExitCodes \ {0}, Fail(c),
         Complete' = Complete, c # SystemFailCode => Complete = {}
  PROVE  Executor!Next
<1>1. exitCode = 0 /\ exitCode' = c /\ pc # "exited" /\ pc' # "exited"
  BY DEF BuiltInv, ExistInv, Ended, Fail
<1>2. Executor!Fail(c)
  BY <1>1 DEF Executor!Fail, Complete
<1> QED
  BY <1>2 DEF Executor!Next

\* The steps that run no further than the scripts are invisible or fail.
LEMMA StepBeforeImplements ==
  ASSUME BuiltInv, Prepare \/ SupplyOrDetect \/ FinalizeApp
  PROVE  Executor!Next \/ UNCHANGED Executor!vars
<1>1. /\ UNCHANGED outputs
      /\ pc \notin Ended \union {"copyApp", "packDroplet", "createCache"}
      /\ \/ pc' # "exited" /\ UNCHANGED exitCode
         \/ \E c \in ExitCodes \ {0} : Fail(c)
  BY DEF Prepare, SupplyOrDetect, FinalizeApp, outputs, Goto, Fail, Ended, ExitCodes,
    SystemFailCode, DetectFailCode, CompileFailCode, ReleaseFailCode, SupplyFailCode,
    FinalizeFailCode,
    MakeDirectories, MakeDirectoriesFails, CleanCacheDir, CleanCacheDirFails,
    ValidateSupply, ValidateSupplyFails, Supply, SupplyNotStarted, ChooseFinal,
    DetectSkips, Detect, NothingDetected, RunFinalize, RunFinalizeFails,
    HandleSupply, HandleSupplyFails, Finalize, Compile
<1>2. Complete' = Complete
  BY <1>1 DEF Complete, Written, outputs
<1>3. Complete = {}
  BY <1>1, CompleteElements DEF BuiltInv, ExistInv, Written
<1>4. CASE pc' # "exited" /\ UNCHANGED exitCode
  BY <1>1, <1>2, <1>4 DEF Executor!vars, Complete, Ended
<1>5. CASE \E c \in ExitCodes \ {0} : Fail(c)
  BY <1>1, <1>2, <1>3, <1>5, FailImplements
<1> QED
  BY <1>1, <1>4, <1>5

\* The steps after the scripts write one file each, in Build's order.
LEMMA StepAfterImplements ==
  ASSUME BuiltInv, BuiltInv', PackageApp
  PROVE  Executor!Next \/ UNCHANGED Executor!vars
<1>0. pc \notin Ended /\ exitCode = 0 /\ pc # "exited" /\ pc' # "exited"
  BY DEF PackageApp, Ended, BuiltInv, ExistInv, Goto, Fail, ReevaluateMetadata, Release,
    ReleaseFails, WriteStagingInfo, FindTar, SaveInfo, CopyApp, PackDroplet,
    CreateCache, StepFails
<1>c. SystemFailCode \in ExitCodes \ {0} /\ ReleaseFailCode \in ExitCodes \ {0}
  BY DEF ExitCodes, SystemFailCode, ReleaseFailCode
<1>1. CASE ReevaluateMetadata \/ Release \/ WriteStagingInfo \/ FindTar \/ CopyApp
  <2>1. UNCHANGED outputs /\ UNCHANGED exitCode
    BY <1>1 DEF ReevaluateMetadata, Release, WriteStagingInfo, FindTar, CopyApp, Goto, outputs
  <2>2. Complete' = Complete
    BY <2>1 DEF Complete, Written, outputs
  <2> QED
    BY <1>0, <2>1, <2>2 DEF Executor!vars, Complete
<1>2. CASE ReleaseFails \/ StepFails
  <2>1. /\ UNCHANGED outputs
        /\ Fail(SystemFailCode) \/ (Fail(ReleaseFailCode) /\ pc = "release")
    BY <1>2 DEF ReleaseFails, StepFails, outputs
  <2>2. Complete' = Complete
    BY <2>1 DEF Complete, Written, outputs
  <2>3. pc = "release" => Complete = {}
    BY CompleteElements DEF BuiltInv, ExistInv, Written, Ended
  <2> QED
    BY <1>0, <1>c, <2>1, <2>2, <2>3, FailImplements
<1>3. CASE SaveInfo
  <2>1. Complete = {}
    BY <1>3, CompleteElements DEF SaveInfo, BuiltInv, ExistInv, Written, Ended
  <2>2. CASE Goto("copyApp")
    <3>1. Written(result)'
      <4>1. result' \in Results \union {None, Partial} /\ pc' = "copyApp"
        BY <2>2 DEF BuiltInv, TypeInv, TypeOK, Goto
      <4>2. metadata[Len(metadata)] \in Metadata
        BY <1>3 DEF SaveInfo, BuiltInv, TypeInv, TypeOK, PhaseInv, Selected, Working, Labels
      <4>3. result' \in Results
        BY <1>3, <2>2, <4>2
        DEF SaveInfo, Goto, Fail, Results, Metadata, BuiltInv, TypeInv, TypeOK
      <4> QED
        BY <4>3, AbsentAssumption DEF Written
    <3>2. Complete' = {"result"}
      BY <1>3, <3>1, <2>1, CompleteElements, CompleteElementsNext DEF SaveInfo, Written
    <3>3. Executor!Write("result")
      BY <1>0, <2>1, <2>2, <3>2 DEF Executor!Write, Executor!Before, Complete, Goto
    <3> QED
      BY <3>3 DEF Executor!Next, Executor!Files
  <2>3. CASE result' = Partial /\ Fail(SystemFailCode)
    <3>1. Complete' = Complete
      BY <1>3, <2>1, <2>3, CompleteElements, CompleteElementsNext DEF SaveInfo, Written
    <3> QED
      BY <1>0, <1>c, <2>3, <3>1, FailImplements
  <2> QED
    BY <1>3, <2>2, <2>3 DEF SaveInfo
<1>4. CASE PackDroplet
  <2>1. Complete = {"result"}
    BY <1>4, CompleteElements, ResultComplete DEF PackDroplet, BuiltInv, ExistInv, Written, Ended
  <2>2. CASE droplet' = contents /\ Goto("createCache")
    <3>1. Written(droplet)'
      BY <2>2 DEF BuiltInv, FilesInv, Goto
    <3>2. Complete' = {"result", "droplet"}
      BY <1>4, <3>1, <2>1, CompleteElements, CompleteElementsNext DEF PackDroplet, Written
    <3>3. Executor!Write("droplet")
      BY <1>0, <2>1, <2>2, <3>2 DEF Executor!Write, Executor!Before, Complete, Goto
    <3> QED
      BY <3>3 DEF Executor!Next, Executor!Files
  <2>3. CASE droplet' \in {None, Partial} /\ Fail(SystemFailCode)
    <3>1. Complete' = Complete
      BY <1>4, <2>1, <2>3, CompleteElements, CompleteElementsNext DEF PackDroplet, Written
    <3> QED
      BY <1>0, <1>c, <2>3, <3>1, FailImplements
  <2> QED
    BY <1>4, <2>2, <2>3 DEF PackDroplet
<1>5. CASE CreateCache
  <2>0. Written(droplet) /\ cacheTgz = None
    BY <1>5 DEF CreateCache, BuiltInv, FilesInv, ExistInv, Ended
  <2>1. Complete = {"result", "droplet"}
    BY <1>5, <2>0, CompleteElements, ResultComplete DEF CreateCache, Written
  <2>2. CASE cacheTgz' = [entries |-> cacheDirs] /\ Goto("cleanUp")
    <3>1. Written(cacheTgz)'
      BY <1>0, <2>2 DEF BuiltInv, FilesInv, Goto, Ended
    <3>2. Complete' = {"result", "droplet", "cache"}
      BY <1>5, <3>1, <2>1, CompleteElements, CompleteElementsNext DEF CreateCache, Written
    <3>3. Executor!Write("cache")
      BY <1>0, <2>1, <2>2, <3>2 DEF Executor!Write, Executor!Before, Complete, Goto
    <3> QED
      BY <3>3 DEF Executor!Next, Executor!Files
  <2>3. CASE cacheTgz' = Partial /\ Fail(SystemFailCode)
    <3>1. Complete' = Complete
      BY <1>5, <2>0, <2>1, <2>3, CompleteElements, CompleteElementsNext
      DEF CreateCache, Written
    <3> QED
      BY <1>0, <1>c, <2>3, <3>1, FailImplements
  <2> QED
    BY <1>5, <2>2, <2>3 DEF CreateCache
<1> QED
  BY <1>1, <1>2, <1>3, <1>4, <1>5 DEF PackageApp

\* Every step of Run is a step of Build or invisible to it: the safety part
\* of ImplementsBuild, for every value of the constants.
THEOREM RunImplementsBuild == Spec => Executor!Init /\ [][Executor!Next]_(Executor!vars)
<1>1. Init => Executor!Init
  <2> SUFFICES ASSUME Init PROVE Executor!Init
    OBVIOUS
  <2>1. Complete = {}
    BY CompleteElements DEF Init, Written
  <2> QED
    BY <2>1 DEF Executor!Init, Complete, Init
<1>2. BuiltInv /\ BuiltInv' /\ [Next]_vars => [Executor!Next]_(Executor!vars)
  <2> SUFFICES ASSUME BuiltInv, BuiltInv', [Next]_vars
               PROVE  Executor!Next \/ UNCHANGED Executor!vars
    OBVIOUS
  <2>1. CASE Prepare \/ SupplyOrDetect \/ FinalizeApp
    BY <2>1, StepBeforeImplements
  <2>2. CASE PackageApp
    BY <2>2, StepAfterImplements
  <2>3. CASE CleanUp
    <3>1. exitCode = 0 => Complete = {"result", "droplet", "cache"}
      BY <2>3, CompleteElements, ResultComplete DEF CleanUp, BuiltInv, FilesInv, Ended
    <3>2. Complete' = Complete
      BY <2>3 DEF CleanUp, outputs, Complete, Written
    <3>3. Executor!Exit
      BY <2>3, <3>1, <3>2 DEF CleanUp, Goto, Executor!Exit, Executor!Files, Complete
    <3> QED
      BY <3>3 DEF Executor!Next
  <2>4. CASE Exited \/ UNCHANGED vars
    <3>1. UNCHANGED <<pc, exitCode, result, droplet, cacheTgz>>
      BY <2>4 DEF Exited, vars
    <3>2. Complete' = Complete
      BY <3>1 DEF Complete, Written
    <3> QED
      BY <3>1, <3>2 DEF Executor!vars, Complete
  <2> QED
    BY <2>1, <2>2, <2>3, <2>4 DEF Next
<1> QED
  BY <1>1, <1>2, BuiltAlways, PTL DEF Spec


-----------------------------------------------------------------------------
(* Supply scripts are validated before the first one runs. *)

\* The labels before any script has run, and what validateSupplyBuildpacks
\* looks for in a supply buildpack.
Early == {"makeDirectories", "cleanCacheDir", "validate"}
CanSupply(k) == {"bin", "supply"} \subseteq scripts[order[k]]

\* Nothing has run before the validation is over, and it goes from the first
\* supply buildpack to the last.
ValidInv ==
  /\ pc \in Early => ran = <<>>
  /\ pc \in {"makeDirectories", "cleanCacheDir"} => i = 1
  /\ pc = "validate" => \A k \in 1 .. NumSupply : k < i => CanSupply(k)
  /\ skipDetect /\ (pc \notin Early \union Ended \/ ran # <<>>) =>
       \A k \in 1 .. NumSupply : CanSupply(k)

\* ValidInv is inductive relative to TypeInv.
LEMMA ValidStep ==
  ASSUME TypeInv, ValidInv, [Next]_vars
  PROVE  ValidInv'
<1>1. /\ NumSupply \in Nat /\ NumSupply' = NumSupply /\ i \in Nat
      /\ \A k : CanSupply(k)' = CanSupply(k)
      /\ UNCHANGED skipDetect
  BY ConfigUnchanged, NumSupplyType, RunnerAssumption
  DEF TypeInv, TypeOK, config, NumSupply, CanSupply
<1> USE <1>1 DEF ValidInv, Early, Ended, Goto, Fail, progress
<1>2. CASE Prepare
  BY <1>2 DEF Prepare, MakeDirectories, MakeDirectoriesFails, CleanCacheDir,
    CleanCacheDirFails
<1>3. CASE ValidateSupply
  <2>1. CASE i <= NumSupply
    <3>1. CanSupply(i) /\ i' = i + 1 /\ pc' = "validate" /\ UNCHANGED ran
      BY <1>3, <2>1 DEF ValidateSupply, Resolves, Has, CanSupply
    <3> QED
      BY <1>3, <3>1 DEF ValidateSupply
  <2>2. CASE i > NumSupply
    BY <1>3, <2>2 DEF ValidateSupply
  <2> QED
    BY <2>1, <2>2
<1>4. CASE ValidateSupplyFails
  BY <1>4 DEF ValidateSupplyFails
<1>5. ASSUME pc \notin Early \union Ended, pc' \notin Early PROVE ValidInv'
  BY <1>5
<1>6. CASE Supply \/ SupplyNotStarted \/ ChooseFinal \/ DetectSkips \/ Detect \/ NothingDetected
  BY <1>5, <1>6 DEF Supply, SupplyNotStarted, ChooseFinal, DetectSkips, Detect, NothingDetected
<1>7. CASE FinalizeApp
  BY <1>5, <1>7 DEF FinalizeApp, RunFinalize, RunFinalizeFails, HandleSupply,
    HandleSupplyFails, Finalize, Compile
<1>8. CASE PackageApp
  BY <1>5, <1>8 DEF PackageApp, ReevaluateMetadata, Release, ReleaseFails,
    WriteStagingInfo, FindTar, SaveInfo, CopyApp, PackDroplet, CreateCache, StepFails
<1>9. CASE CleanUp \/ Exited \/ UNCHANGED vars
  BY <1>9 DEF CleanUp, Exited, vars
<1> QED
  BY <1>2, <1>3, <1>4, <1>6, <1>7, <1>8, <1>9 DEF Next, SupplyOrDetect

\* No script touches the application before every supply buildpack is known
\* to have a supply script.
THEOREM SupplyIsValidated == Spec => []ValidatedFirst
<1>1. Init => ValidInv
  BY DEF Init, ValidInv, Early, Ended
<1>2. TypeInv /\ ValidInv /\ [Next]_vars => ValidInv'
  BY ValidStep
<1>3. TypeInv /\ ValidInv => ValidatedFirst
  <2>1. TypeInv /\ skipDetect => NumSupply = Len(order) - 1
    BY NumSupplyType DEF TypeInv, TypeOK, ConfigInv, NumSupply
  <2> QED
    BY <2>1 DEF ValidInv, ValidatedFirst, CanSupply
<1>4. BuiltInv => TypeInv
  BY DEF BuiltInv
<1> QED
  BY <1>1, <1>2, <1>3, <1>4, BuiltAlways, PTL DEF Spec

-----------------------------------------------------------------------------
(* The exit code and the scripts that have run *)

\* A run adds its script to those that have run.
LEMMA RunAdds ==
  ASSUME ran \in Seq(Runs), NEW script, NEW k, NEW cache, NEW deps,
         RunScript(script, k, cache, deps)
  PROVE  ScriptsRun' = ScriptsRun \union {script}
<1> DEFINE r == [script |-> script, of |-> order[k], cache |-> cache, deps |-> deps]
<1>1. ran' = Append(ran, r) /\ Len(ran) \in Nat
  BY DEF RunScript
<1>2. /\ DOMAIN ran' = DOMAIN ran \union {Len(ran) + 1}
      /\ \A j \in DOMAIN ran : ran'[j] = ran[j]
      /\ ran'[Len(ran) + 1] = r
  <2> HIDE DEF r
  <2> QED
    BY <1>1
<1>3. r.script = script
  OBVIOUS
<1> QED
  BY <1>2, <1>3 DEF ScriptsRun

\* The scripts that can have run at each label.
ScriptsInv ==
  /\ pc \in Early => ScriptsRun = {}
  /\ pc = "detect" => ScriptsRun \subseteq {"detect"}
  /\ pc \in {"supply", "runFinalize", "handleSupply", "finalize", "compile"} =>
       ScriptsRun \subseteq {"detect", "supply"}
  /\ pc \in {"reevaluate", "release"} => ScriptsRun \intersect {"compile", "finalize"} # {}
  /\ ExitCodeTellsPhase

\* ScriptsInv is inductive relative to BuiltInv.
LEMMA ScriptsStep ==
  ASSUME BuiltInv, ScriptsInv, [Next]_vars
  PROVE  ScriptsInv'
<1>1. ran \in Seq(Runs) /\ UNCHANGED skipDetect /\ (pc = "detect" => ~skipDetect)
  BY ConfigUnchanged DEF BuiltInv, TypeInv, TypeOK, ConfigInv, config
<1>2. pc \notin Ended => exitCode = 0
  BY DEF BuiltInv, ExistInv
<1>3. ran' = ran => ScriptsRun' = ScriptsRun
  BY DEF ScriptsRun
<1>4. \A script, k, cache, deps :
        RunScript(script, k, cache, deps) => ScriptsRun' = ScriptsRun \union {script}
  BY <1>1, RunAdds
<1> HIDE DEF ScriptsRun
<1> USE <1>1, <1>2, <1>3, <1>4
    DEF ScriptsInv, ExitCodeTellsPhase, Early, Ended, Goto, Fail, progress,
        SystemFailCode, DetectFailCode, CompileFailCode, ReleaseFailCode,
        SupplyFailCode, FinalizeFailCode
<1>5. CASE Prepare
  BY <1>5 DEF Prepare, MakeDirectories, MakeDirectoriesFails, CleanCacheDir,
    CleanCacheDirFails
<1>6. CASE ValidateSupply \/ ValidateSupplyFails \/ SupplyNotStarted \/ ChooseFinal
  BY <1>6 DEF ValidateSupply, ValidateSupplyFails, SupplyNotStarted, ChooseFinal
<1>7. CASE Supply
  BY <1>7 DEF Supply
<1>8. CASE DetectSkips \/ NothingDetected
  BY <1>8 DEF DetectSkips, NothingDetected
<1>9. CASE Detect
  BY <1>9 DEF Detect
<1>10. CASE RunFinalize \/ RunFinalizeFails
  BY <1>10 DEF RunFinalize, RunFinalizeFails
<1>11. CASE HandleSupply \/ HandleSupplyFails
  BY <1>11 DEF HandleSupply, HandleSupplyFails
<1>12. CASE Finalize
  BY <1>12 DEF Finalize
<1>13. CASE Compile
  BY <1>13 DEF Compile
<1>14. CASE ReevaluateMetadata
  BY <1>14 DEF ReevaluateMetadata
<1>15. CASE Release \/ ReleaseFails
  BY <1>15 DEF Release, ReleaseFails
<1>16. CASE WriteStagingInfo \/ FindTar \/ SaveInfo \/ CopyApp \/ PackDroplet
            \/ CreateCache \/ StepFails
  BY <1>16 DEF WriteStagingInfo, FindTar, SaveInfo, CopyApp, PackDroplet, CreateCache,
    StepFails
<1>17. CASE CleanUp \/ Exited \/ UNCHANGED vars
  BY <1>17 DEF CleanUp, Exited, vars
<1> QED
  BY <1>5, <1>6, <1>7, <1>8, <1>9, <1>10, <1>11, <1>12, <1>13, <1>14, <1>15, <1>16, <1>17
  DEF Next, SupplyOrDetect, FinalizeApp, PackageApp

\* The code that eirini gets names the phase in which the build has failed.
THEOREM ExitCodeIsTelling == Spec => []ExitCodeTellsPhase
<1>1. Init => ScriptsInv
  <2>1. Init => ScriptsRun = {}
    BY DEF Init, ScriptsRun
  <2> QED
    BY <2>1 DEF Init, ScriptsInv, ExitCodeTellsPhase, DetectFailCode, CompileFailCode,
      ReleaseFailCode, SupplyFailCode, FinalizeFailCode
<1>2. BuiltInv /\ ScriptsInv /\ [Next]_vars => ScriptsInv'
  BY ScriptsStep
<1>3. ScriptsInv => ExitCodeTellsPhase
  BY DEF ScriptsInv
<1> QED
  BY <1>1, <1>2, <1>3, BuiltAlways, PTL DEF Spec

-----------------------------------------------------------------------------
(* The deps directories and the names in them *)

\* The configuration, the number of supply buildpacks and the types that
\* the lemmas below rest on.
LEMMA Facts ==
  ASSUME BuiltInv, [Next]_vars
  PROVE  /\ UNCHANGED <<order, skipDetect, scripts>>
         /\ NumSupply' = NumSupply
         /\ NumSupply \in Nat /\ NumSupply \in DepsIndexes
         /\ order \in Seq(Buildpacks) /\ Len(order) \in Nat
         /\ skipDetect => NumSupply + 1 = Len(order)
         /\ ~skipDetect => NumSupply = 0
         /\ pc \in Working => contents \in Contents
         /\ pc \in Selected => final \in 1 .. Len(order)
         /\ pc \notin Ended \union {"createCache"} => droplet = None
<1>1. UNCHANGED <<order, skipDetect, scripts>>
  BY ConfigUnchanged DEF config
<1>2. NumSupply \in 0 .. MaxBuildpacks - 1 /\ (skipDetect => NumSupply + 1 = Len(order))
  BY NumSupplyType DEF BuiltInv, TypeInv
<1> QED
  BY <1>1, <1>2, RunnerAssumption
  DEF BuiltInv, TypeInv, TypeOK, PhaseInv, ExistInv, NumSupply, DepsIndexes

\* The steps that may change the deps directories or what is in them
Changers == {"makeDirectories", "supply", "runFinalize", "handleSupply", "finalize"}

\* No other step does, while the contents directory is there.
LEMMA DepsUnchanged ==
  ASSUME BuiltInv, [Next]_vars, pc \notin Changers, pc' \in Working
  PROVE  /\ contents'.deps = contents.deps /\ contents'.config = contents.config
         /\ pc \in Working
<1>1. pc \in Working => contents \in Contents
  BY DEF BuiltInv, TypeInv, PhaseInv
<1> USE DEF Changers, Working, Labels, Goto, Fail
<1>2. CASE Prepare \/ SupplyOrDetect \/ FinalizeApp
  BY <1>2 DEF Prepare, SupplyOrDetect, FinalizeApp,
    MakeDirectories, MakeDirectoriesFails, CleanCacheDir, CleanCacheDirFails,
    ValidateSupply, ValidateSupplyFails, Supply, SupplyNotStarted, ChooseFinal,
    DetectSkips, Detect, NothingDetected, RunFinalize, RunFinalizeFails,
    HandleSupply, HandleSupplyFails, Finalize, Compile
<1>3. CASE PackageApp
  BY <1>1, <1>3 DEF PackageApp, ReevaluateMetadata, Release, ReleaseFails,
    WriteStagingInfo, FindTar, SaveInfo, CopyApp, PackDroplet, CreateCache, StepFails,
    Contents
<1>4. CASE CleanUp \/ Exited \/ UNCHANGED vars
  BY <1>4 DEF CleanUp, Exited, vars
<1> QED
  BY <1>2, <1>3, <1>4 DEF Next

\* The final buildpack is the last one unless it was detected.
FinalInv == skipDetect /\ (pc \in Selected \/ Written(droplet)) => final = NumSupply + 1

\* final does not change once it is chosen.
LEMMA FinalStep ==
  ASSUME BuiltInv, FinalInv, [Next]_vars
  PROVE  FinalInv'
<1>1. /\ skipDetect' = skipDetect /\ NumSupply' = NumSupply
      /\ pc \notin Ended \union {"createCache"} => droplet = None
      /\ pc = "detect" => ~skipDetect
  BY Facts DEF BuiltInv, TypeInv, ConfigInv
<1> USE <1>1 DEF FinalInv, Selected, Working, Labels, Written, Ended, Goto, Fail, progress, outputs
<1>2. CASE Prepare
  BY <1>2 DEF Prepare, MakeDirectories, MakeDirectoriesFails, CleanCacheDir,
    CleanCacheDirFails
<1>3. CASE SupplyOrDetect
  BY <1>3 DEF SupplyOrDetect, ValidateSupply, ValidateSupplyFails, Supply,
    SupplyNotStarted, ChooseFinal, DetectSkips, Detect, NothingDetected
<1>4. CASE FinalizeApp
  BY <1>4 DEF FinalizeApp, RunFinalize, RunFinalizeFails, HandleSupply,
    HandleSupplyFails, Finalize, Compile
<1>5. CASE PackageApp
  BY <1>5 DEF PackageApp, ReevaluateMetadata, Release, ReleaseFails,
    WriteStagingInfo, FindTar, SaveInfo, CopyApp, PackDroplet, CreateCache, StepFails
<1>6. CASE CleanUp \/ Exited \/ UNCHANGED vars
  BY <1>6 DEF CleanUp, Exited, vars
<1> QED
  BY <1>2, <1>3, <1>4, <1>5, <1>6 DEF Next

\* FinalInv holds in every state.
LEMMA FinalAlways == Spec => []FinalInv
<1>1. Init => FinalInv
  BY DEF Init, FinalInv, Selected, Working, Labels, Written
<1>2. BuiltInv /\ FinalInv /\ [Next]_vars => FinalInv'
  BY FinalStep
<1> QED
  BY <1>1, <1>2, BuiltAlways, PTL DEF Spec

\* The deps directories that are left for the droplet
FinalDeps == 0 .. NumSupply \ (IF Has(final, "finalize") THEN {} ELSE {NumSupply})

\* The deps directories at each label and in the droplet
DepsInv ==
  /\ pc \in {"cleanCacheDir", "validate", "supply", "detect", "runFinalize"} =>
       contents.deps = 0 .. NumSupply
  /\ pc \in {"handleSupply", "finalize", "compile", "reevaluate", "release", "stagingInfo",
             "findTar", "saveInfo", "copyApp", "packDroplet", "createCache"} =>
       contents.deps = FinalDeps
  /\ Written(droplet) => droplet.deps = FinalDeps /\ final \in 1 .. Len(order)

\* DepsInv is inductive relative to BuiltInv.
LEMMA DepsStep ==
  ASSUME BuiltInv, DepsInv, [Next]_vars
  PROVE  DepsInv'
<1>1. /\ UNCHANGED <<order, skipDetect, scripts>>
      /\ NumSupply' = NumSupply
      /\ NumSupply \in DepsIndexes
      /\ order \in Seq(Buildpacks)
      /\ pc \in Working => contents \in Contents
      /\ pc \in Selected => final \in 1 .. Len(order)
      /\ pc \notin Ended \union {"createCache"} => droplet = None
  BY Facts
<1>2. final' = final => FinalDeps' = FinalDeps
  BY <1>1 DEF FinalDeps, Has
<1> USE <1>1, <1>2 DEF DepsInv, Selected, Working, Labels, Written, Ended, Goto, Fail,
          progress, outputs
<1>3. CASE MakeDirectories
  <2>1. contents'.deps = 0 .. NumSupply
    BY <1>3 DEF MakeDirectories, NewContents, DepsIndexes
  <2> QED
    BY <1>3, <2>1 DEF MakeDirectories
<1>4. CASE pc' = "cleanUp" /\ UNCHANGED <<final, droplet>>
  BY <1>4
<1>5. CASE CleanCacheDir \/ ValidateSupply \/ DetectSkips
  BY <1>5 DEF CleanCacheDir, ValidateSupply, DetectSkips
<1>6. CASE Supply
  <2>1. CASE Goto("supply") /\ WriteConfig(i, i - 1)
    <3>1. contents'.deps = contents.deps
      BY <1>6, <2>1 DEF Supply, WriteConfig, Contents
    <3> QED
      BY <1>6, <2>1, <3>1 DEF Supply
  <2> QED
    BY <1>4, <1>6, <2>1 DEF Supply
<1>7. CASE ChooseFinal \/ Detect
  BY <1>7 DEF ChooseFinal, Detect
<1>8. CASE RunFinalize
  <2>1. CASE Has(final, "finalize")
    BY <1>8, <2>1 DEF RunFinalize, FinalDeps
  <2>2. CASE ~Has(final, "finalize")
    <3>1. contents'.deps = contents.deps \ {NumSupply}
      BY <1>8, <2>2 DEF RunFinalize, Contents
    <3> QED
      BY <1>8, <2>2, <3>1 DEF RunFinalize, FinalDeps
  <2> QED
    BY <2>1, <2>2
<1>9. CASE HandleSupply
  <2>1. contents'.deps = contents.deps
    BY <1>9 DEF HandleSupply, WriteConfig, Contents
  <2> QED
    BY <1>9, <2>1 DEF HandleSupply
<1>10. CASE Finalize
  <2>1. CASE Goto("reevaluate") /\ WriteConfig(final, NumSupply)
    <3>1. contents'.deps = contents.deps
      BY <1>10, <2>1 DEF Finalize, WriteConfig, Contents
    <3> QED
      BY <1>10, <2>1, <3>1 DEF Finalize
  <2> QED
    BY <1>4, <1>10, <2>1 DEF Finalize
<1>11. CASE Compile \/ ReevaluateMetadata \/ Release \/ FindTar \/ SaveInfo
  BY <1>11 DEF Compile, ReevaluateMetadata, Release, FindTar, SaveInfo
<1>12. CASE WriteStagingInfo \/ CopyApp
  <2>1. contents'.deps = contents.deps
    BY <1>12 DEF WriteStagingInfo, CopyApp, Contents
  <2> QED
    BY <1>12, <2>1 DEF WriteStagingInfo, CopyApp
<1>13. CASE PackDroplet
  BY <1>13 DEF PackDroplet
<1>14. CASE CreateCache
  BY <1>14 DEF CreateCache
<1>15. CASE \/ MakeDirectoriesFails \/ CleanCacheDirFails \/ ValidateSupplyFails
            \/ SupplyNotStarted \/ NothingDetected \/ RunFinalizeFails \/ HandleSupplyFails
            \/ ReleaseFails \/ StepFails
  BY <1>4, <1>15 DEF MakeDirectoriesFails, CleanCacheDirFails, ValidateSupplyFails,
    SupplyNotStarted, NothingDetected, RunFinalizeFails, HandleSupplyFails,
    ReleaseFails, StepFails
<1>16. CASE CleanUp \/ Exited \/ UNCHANGED vars
  BY <1>16 DEF CleanUp, Exited, vars
<1> QED
  BY <1>3, <1>5, <1>6, <1>7, <1>8, <1>9, <1>10, <1>11, <1>12, <1>13, <1>14, <1>15, <1>16
  DEF Next, Prepare, SupplyOrDetect, FinalizeApp, PackageApp

\* The droplet has a deps directory for each buildpack that may use one.
THEOREM DepsAreExact == Spec => []DepsExact
<1>1. Init => DepsInv
  BY DEF Init, DepsInv, Written
<1>2. BuiltInv /\ DepsInv /\ [Next]_vars => DepsInv'
  BY DepsStep
<1>3. BuiltInv /\ FinalInv /\ DepsInv => DepsExact
  <2> SUFFICES ASSUME BuiltInv, FinalInv, DepsInv, Written(droplet)
               PROVE  FinalDeps = {d \in 0 .. final - 1 : skipDetect \/ d = 0}
                                  \ (IF Has(final, "finalize") THEN {} ELSE {NumSupply})
    BY DEF DepsExact, DepsInv
  <2>1. final \in 1 .. Len(order) /\ NumSupply \in Nat
    BY NumSupplyType DEF DepsInv, BuiltInv, TypeInv
  <2>2. CASE skipDetect
    BY <2>1, <2>2 DEF FinalDeps, FinalInv
  <2>3. CASE ~skipDetect
    BY <2>1, <2>3 DEF FinalDeps, NumSupply
  <2> QED
    BY <2>2, <2>3
<1> QED
  BY <1>1, <1>2, <1>3, BuiltAlways, FinalAlways, PTL DEF Spec

-----------------------------------------------------------------------------
(* The names of the buildpacks *)

\* A config.yml was written by the buildpack its directory is for: the one
\* at its place in the list, or the detected one.
OwnerInv ==
  pc \in Working =>
    \A d \in DepsIndexes :
      \/ contents.config[d] = None
      \/ skipDetect /\ contents.config[d] = <<"config", order[d + 1]>>
      \/ /\ ~skipDetect
         /\ pc \in Selected
         /\ contents.config[d] = <<"config", order[final]>>

\* OwnerInv is inductive relative to BuiltInv and FinalInv.
LEMMA OwnerStep ==
  ASSUME BuiltInv, FinalInv, OwnerInv, [Next]_vars
  PROVE  OwnerInv'
<1>1. /\ UNCHANGED <<order, skipDetect>>
      /\ NumSupply \in DepsIndexes /\ NumSupply \in Nat
      /\ order \in Seq(Buildpacks) /\ Len(order) \in Nat
      /\ skipDetect => NumSupply + 1 = Len(order)
      /\ pc \in Working => contents \in Contents
      /\ pc \in Selected => final \in 1 .. Len(order)
  BY Facts
<1>2. ASSUME pc' \in Working, pc \in Working, contents'.config = contents.config,
             pc \in Selected => pc' \in Selected /\ final' = final
      PROVE  OwnerInv'
  BY <1>1, <1>2 DEF OwnerInv
<1>3. ASSUME NEW d \in DepsIndexes, NEW k \in 1 .. Len(order), WriteConfig(k, d),
             pc \in Working, pc' \in Working, final' = final,
             pc \in Selected => pc' \in Selected,
             skipDetect => k = d + 1,
             ~skipDetect => pc \in Selected /\ k = final
      PROVE  OwnerInv'
  <2>1. /\ \A e \in DepsIndexes \ {d} : contents'.config[e] = contents.config[e]
        /\ contents'.config[d] \in {contents.config[d], <<"config", order[k]>>}
    BY <1>1, <1>3, WriteConfigType
  <2> QED
    BY <1>1, <1>3, <2>1 DEF OwnerInv
<1>4. CASE MakeDirectories
  <2>1. \A d \in DepsIndexes : contents'.config[d] = None
    BY <1>4 DEF MakeDirectories, NewContents
  <2> QED
    BY <2>1 DEF OwnerInv
<1>5. CASE Supply
  <2>1. CASE Goto("supply") /\ WriteConfig(i, i - 1)
    <3>1. /\ i \in 1 .. Len(order) /\ i - 1 \in DepsIndexes /\ skipDetect
          /\ i = (i - 1) + 1
      BY <1>1, <1>5, RunnerAssumption
      DEF Supply, BuiltInv, TypeInv, TypeOK, ConfigInv, DepsIndexes
    <3> QED
      BY <1>3, <1>5, <2>1, <3>1 DEF Supply, Goto, Working, Selected, Labels
  <2>2. CASE Fail(SupplyFailCode)
    BY <2>2 DEF Fail, OwnerInv, Working
  <2> QED
    BY <1>5, <2>1, <2>2 DEF Supply
<1>6. CASE RunFinalize
  <2>1. CASE Has(final, "finalize")
    BY <1>2, <1>6, <2>1 DEF RunFinalize, Goto, progress, Working, Selected, Labels
  <2>2. CASE ~Has(final, "finalize")
    <3>1. \A d \in DepsIndexes :
            contents'.config[d] = IF d = NumSupply THEN None ELSE contents.config[d]
      BY <1>1, <1>6, <2>2 DEF RunFinalize, Working, Labels, Contents
    <3> QED
      BY <1>1, <1>6, <2>2, <3>1 DEF OwnerInv, RunFinalize, Goto, progress, Working, Selected, Labels
  <2> QED
    BY <2>1, <2>2
<1>7. skipDetect /\ pc \in Selected => final = NumSupply + 1
  BY DEF FinalInv
<1>8. CASE HandleSupply
  <2>1. pc \in Selected /\ pc \in Working /\ pc' = "finalize" /\ final' = final
    BY <1>8 DEF HandleSupply, Goto, Selected, Working, Labels
  <2>2. CASE WriteConfig(final, NumSupply)
    BY <1>1, <1>3, <1>7, <2>1, <2>2 DEF Selected, Working, Labels
  <2>3. CASE UNCHANGED contents
    BY <1>2, <2>1, <2>3 DEF Selected, Working, Labels
  <2> QED
    BY <1>8, <2>2, <2>3 DEF HandleSupply
<1>9. CASE Finalize
  <2>1. pc \in Selected /\ pc \in Working /\ final' = final
    BY <1>9 DEF Finalize, Selected, Working, Labels
  <2>2. CASE WriteConfig(final, NumSupply) /\ Goto("reevaluate")
    BY <1>1, <1>3, <1>7, <2>1, <2>2 DEF Goto, Selected, Working, Labels
  <2>3. CASE Fail(FinalizeFailCode)
    BY <2>3 DEF Fail, OwnerInv, Working
  <2> QED
    BY <1>9, <2>2, <2>3 DEF Finalize
<1>10. CASE \/ pc' \notin Working \/ pc \notin Changers
  <2>1. CASE pc' \notin Working
    BY <2>1 DEF OwnerInv
  <2>2. CASE pc' \in Working /\ pc \notin Changers
    <3>1. contents'.config = contents.config /\ pc \in Working
      BY <2>2, DepsUnchanged
    <3>2. pc \in Selected => pc' \in Selected /\ final' = final
      BY <2>2 DEF Next, vars, progress, Goto, Fail, Changers, Selected, Working, Labels,
        Prepare, MakeDirectories, MakeDirectoriesFails, CleanCacheDir, CleanCacheDirFails,
        SupplyOrDetect, ValidateSupply, ValidateSupplyFails, Supply, SupplyNotStarted,
        ChooseFinal, DetectSkips, Detect, NothingDetected, FinalizeApp, RunFinalize,
        RunFinalizeFails, HandleSupply, HandleSupplyFails, Finalize, Compile, PackageApp,
        ReevaluateMetadata, Release, ReleaseFails, WriteStagingInfo, FindTar, SaveInfo,
        CopyApp, PackDroplet, CreateCache, StepFails, CleanUp, Exited
    <3> QED
      BY <1>2, <2>2, <3>1, <3>2
  <2> QED
    BY <1>10, <2>1, <2>2
<1>11. CASE ChooseFinal
  BY <1>2, <1>11 DEF ChooseFinal, Goto, Fail, OwnerInv, Working, Selected, Labels
<1>12. CASE UNCHANGED vars
  BY <1>12 DEF vars, OwnerInv
<1>13. [Next]_vars /\ pc \in Changers /\ pc' \in Working =>
         MakeDirectories \/ Supply \/ ChooseFinal \/ RunFinalize \/ HandleSupply \/ Finalize
         \/ UNCHANGED vars
  BY DEF Next, Changers, Working, Labels, Goto, Fail,
    Prepare, MakeDirectoriesFails, CleanCacheDir, CleanCacheDirFails,
    SupplyOrDetect, ValidateSupply, ValidateSupplyFails, SupplyNotStarted,
    DetectSkips, Detect, NothingDetected, FinalizeApp, RunFinalizeFails,
    HandleSupplyFails, Compile, PackageApp, ReevaluateMetadata, Release, ReleaseFails,
    WriteStagingInfo, FindTar, SaveInfo, CopyApp, PackDroplet, CreateCache, StepFails,
    CleanUp, Exited
<1> QED
  BY <1>4, <1>5, <1>6, <1>8, <1>9, <1>10, <1>11, <1>12, <1>13

\* OwnerInv holds in every state.
LEMMA OwnerAlways == Spec => []OwnerInv
<1>1. Init => OwnerInv
  BY DEF Init, OwnerInv, Working
<1>2. BuiltInv /\ FinalInv /\ OwnerInv /\ [Next]_vars => OwnerInv'
  BY OwnerStep
<1> QED
  BY <1>1, <1>2, BuiltAlways, FinalAlways, PTL DEF Spec

\* The metadata changes when it is read, and nowhere else.
LEMMA MetadataUnchanged ==
  ASSUME [Next]_vars
  PROVE  ChooseFinal \/ Detect \/ ReevaluateMetadata \/ UNCHANGED metadata
BY DEF Next, vars, progress, Prepare, SupplyOrDetect, FinalizeApp, PackageApp,
  MakeDirectories, MakeDirectoriesFails, CleanCacheDir, CleanCacheDirFails,
  ValidateSupply, ValidateSupplyFails, Supply, SupplyNotStarted,
  DetectSkips, NothingDetected, RunFinalize, RunFinalizeFails,
  HandleSupply, HandleSupplyFails, Finalize, Compile,
  Release, ReleaseFails, WriteStagingInfo, FindTar, StepFails, SaveInfo,
  CopyApp, PackDroplet, CreateCache, CleanUp, Exited

\* NamesMatchKeys is inductive relative to OwnerInv.
LEMMA MatchStep ==
  ASSUME BuiltInv, OwnerInv, NamesMatchKeys, [Next]_vars
  PROVE  NamesMatchKeys'
<1>1. /\ order \in Seq(Buildpacks) /\ Len(order) \in Nat /\ Len(order) <= MaxBuildpacks
      /\ pc \in Working => contents \in Contents
      /\ pc \in {"supply", "reevaluate", "detect"} => pc \in Working
      /\ pc \in {"supply", "detect"} => pc \notin Selected
      /\ pc = "supply" => skipDetect
      /\ pc = "detect" => ~skipDetect
      /\ MaxBuildpacks \in Nat \ {0}
  BY Facts, RunnerAssumption
  DEF BuiltInv, TypeInv, TypeOK, ConfigInv, Working, Selected, Labels
<1>2. ASSUME skipDetect, pc \in {"supply", "reevaluate"}, metadata' = BuildpacksMetadata(order)
      PROVE  NamesMatchKeys'
  <2>1. /\ DOMAIN metadata' = 1 .. Len(order)
        /\ \A k \in 1 .. Len(order) : metadata'[k] =
             [key |-> order[k], name |-> contents.config[k - 1]]
    BY <1>1, <1>2 DEF BuildpacksMetadata
  <2>2. ASSUME NEW k \in 1 .. Len(order), contents.config[k - 1] # None
        PROVE  contents.config[k - 1] = <<"config", order[k]>>
    <3>1. k - 1 \in DepsIndexes /\ (k - 1) + 1 = k
      BY <1>1 DEF DepsIndexes
    <3> QED
      BY <1>1, <1>2, <2>2, <3>1 DEF OwnerInv
  <2> QED
    BY <2>1, <2>2 DEF NamesMatchKeys
<1>3. CASE ChooseFinal
  BY <1>1, <1>2, <1>3 DEF ChooseFinal, NamesMatchKeys
<1>4. CASE ReevaluateMetadata
  BY <1>1, <1>2, <1>4 DEF ReevaluateMetadata, NamesMatchKeys
<1>5. CASE Detect
  <2>1. CASE UNCHANGED metadata
    BY <2>1 DEF NamesMatchKeys
  <2>2. ASSUME NEW output \in {None, <<"detect", order[i]>>},
               metadata' = DetectedMetadata(i, output)
        PROVE  NamesMatchKeys'
    <3>1. 0 \in DepsIndexes
      BY <1>1 DEF DepsIndexes
    <3>2. contents.config[0] = None
      BY <1>1, <1>5, <3>1 DEF OwnerInv, Detect
    <3>3. BuildpacksMetadata(<<order[i]>>)[1] = [key |-> order[i], name |-> None]
      BY <3>2 DEF BuildpacksMetadata
    <3>4. DetectedMetadata(i, output) = <<[key |-> order[i], name |-> output]>>
      BY <3>3 DEF DetectedMetadata
    <3> QED
      BY <2>2, <3>4 DEF NamesMatchKeys
  <2> QED
    BY <1>5, <2>1, <2>2 DEF Detect
<1>6. CASE UNCHANGED metadata
  BY <1>6 DEF NamesMatchKeys
<1> QED
  BY <1>3, <1>4, <1>5, <1>6, MetadataUnchanged

\* No buildpack is reported under the name another one has written.
THEOREM NamesAlwaysMatchKeys == Spec => []NamesMatchKeys
<1>1. Init => NamesMatchKeys
  BY DEF Init, NamesMatchKeys
<1>2. BuiltInv /\ OwnerInv /\ NamesMatchKeys /\ [Next]_vars => NamesMatchKeys'
  BY MatchStep
<1> QED
  BY <1>1, <1>2, BuiltAlways, OwnerAlways, PTL DEF Spec

\* The labels after the names are read for the last time
Named == {"release", "stagingInfo", "findTar", "saveInfo", "copyApp", "packDroplet",
          "createCache"}

\* With several buildpacks the metadata is what the config.yml files say.
FreshInv ==
  skipDetect =>
    /\ pc \in Named => metadata = BuildpacksMetadata(order)
    /\ Written(droplet) =>
         metadata = [k \in DOMAIN order |-> [key |-> order[k], name |-> droplet.config[k - 1]]]

\* FreshInv is inductive relative to BuiltInv.
LEMMA FreshStep ==
  ASSUME BuiltInv, FreshInv, [Next]_vars
  PROVE  FreshInv'
<1>1. /\ UNCHANGED <<order, skipDetect>>
      /\ pc \in Working => contents \in Contents
      /\ pc \notin Ended \union {"createCache"} => droplet = None
  BY Facts
<1>2. pc \in Named /\ pc' \in Named => BuildpacksMetadata(order)' = BuildpacksMetadata(order)
  <2> SUFFICES ASSUME pc \in Named, pc' \in Named
               PROVE  BuildpacksMetadata(order)' = BuildpacksMetadata(order)
    OBVIOUS
  <2>1. contents'.config = contents.config
    BY DepsUnchanged DEF Named, Changers, Working, Labels
  <2> QED
    BY <1>1, <2>1 DEF BuildpacksMetadata
<1>3. CASE ReevaluateMetadata
  <2>1. BuildpacksMetadata(order)' = BuildpacksMetadata(order)
    BY <1>1, <1>3 DEF ReevaluateMetadata, BuildpacksMetadata
  <2> QED
    BY <1>1, <1>3, <2>1 DEF ReevaluateMetadata, FreshInv, Written, Ended, outputs, Goto
<1>4. CASE PackDroplet
  <2>1. CASE droplet' = contents /\ Goto("createCache")
    BY <1>1, <1>2, <1>4, <2>1
    DEF PackDroplet, FreshInv, BuildpacksMetadata, Named, progress, Goto
  <2>2. CASE droplet' \in {None, Partial} /\ Fail(SystemFailCode)
    BY <2>2 DEF FreshInv, Fail, Named, Written
  <2> QED
    BY <1>4, <2>1, <2>2 DEF PackDroplet
<1>5. CASE /\ ~ReevaluateMetadata
           /\ ~PackDroplet
  <2>1. UNCHANGED droplet
    BY <1>5 DEF Next, vars, outputs, Prepare, SupplyOrDetect, FinalizeApp, PackageApp,
      MakeDirectories, MakeDirectoriesFails, CleanCacheDir, CleanCacheDirFails,
      ValidateSupply, ValidateSupplyFails, Supply, SupplyNotStarted, ChooseFinal,
      DetectSkips, Detect, NothingDetected, RunFinalize, RunFinalizeFails,
      HandleSupply, HandleSupplyFails, Finalize, Compile,
      Release, ReleaseFails, WriteStagingInfo, FindTar, StepFails, SaveInfo,
      CopyApp, CreateCache, CleanUp, Exited
  <2>2. pc' \in Named => pc \in Named
    BY <1>5 DEF Next, vars, Named, Goto, Fail, Prepare, SupplyOrDetect, FinalizeApp, PackageApp,
      MakeDirectories, MakeDirectoriesFails, CleanCacheDir, CleanCacheDirFails,
      ValidateSupply, ValidateSupplyFails, Supply, SupplyNotStarted, ChooseFinal,
      DetectSkips, Detect, NothingDetected, RunFinalize, RunFinalizeFails,
      HandleSupply, HandleSupplyFails, Finalize, Compile,
      Release, ReleaseFails, WriteStagingInfo, FindTar, StepFails, SaveInfo,
      CopyApp, CreateCache, CleanUp, Exited
  <2>3. ChooseFinal \/ Detect => pc \notin Ended \union {"createCache"} /\ pc \notin Named
    BY DEF ChooseFinal, Detect, Ended, Named
  <2>4. UNCHANGED metadata \/ (pc \notin Ended \union {"createCache"} /\ pc \notin Named)
    BY <1>5, <2>3, MetadataUnchanged
  <2>5. (pc \in Named => metadata = BuildpacksMetadata(order)) /\ skipDetect
          => (pc' \in Named => metadata' = BuildpacksMetadata(order)')
    BY <1>2, <2>2, <2>4
  <2>6. FreshInv /\ skipDetect /\ Written(droplet)' => UNCHANGED metadata
    BY <1>1, <2>1, <2>4 DEF Written
  <2>7. /\ skipDetect /\ Written(droplet)' =>
             metadata' = [k \in DOMAIN order |-> [key |-> order[k], name |-> droplet'.config[k - 1]]]
    BY <2>1, <2>6 DEF FreshInv, Written
  <2> QED
    BY <1>1, <2>5, <2>7 DEF FreshInv
<1> QED
  BY <1>3, <1>4, <1>5

\* The names in result.json are those of the config.yml files in the droplet.
THEOREM NamesAreFresh == Spec => []NamesFresh
<1>1. Init => FreshInv
  BY DEF Init, FreshInv, Named, Written
<1>2. BuiltInv /\ FreshInv /\ [Next]_vars => FreshInv'
  BY FreshStep
<1>3. BuiltInv /\ FreshInv => NamesFresh
  <2> SUFFICES ASSUME BuiltInv, FreshInv, Written(droplet), skipDetect
               PROVE  /\ Len(metadata) = Len(order)
                      /\ \A k \in DOMAIN order : /\ metadata[k].key = order[k]
                                                 /\ metadata[k].name = droplet.config[k - 1]
    BY DEF NamesFresh, BuiltInv, FilesInv, ResultNow
  <2>1. order \in Seq(Buildpacks)
    BY DEF BuiltInv, TypeInv, TypeOK
  <2> QED
    BY <2>1 DEF FreshInv
<1> QED
  BY <1>1, <1>2, <1>3, BuiltAlways, PTL DEF Spec


-----------------------------------------------------------------------------
(* The runs that the droplet is built by *)

\* A set of naturals that is not empty has a least element.
LEMMA LeastElement ==
  ASSUME NEW S \in SUBSET Nat, S # {}
  PROVE  \E b \in S : \A c \in S : b <= c
<1>1. PICK b \in S : \A c \in S : ~(<<c, b>> \in OpToRel(<, Nat))
  BY NatLessThanWellFounded, WFMin, Zenon
<1>2. \A c \in S : ~(c < b)
  BY <1>1 DEF OpToRel
<1> QED
  BY <1>2

\* g satisfies the equation of DetectRuns on the first n buildpacks.
CountsDetects(g, n) ==
  g = [k \in 0 .. n |->
         IF k = 0 THEN <<>>
         ELSE IF {"bin", "detect"} \subseteq scripts[order[k]]
              THEN Append(g[k - 1], DetectRun(k))
              ELSE g[k - 1]]

\* There is such a function for every n: otherwise there is a least n without
\* one, and the function for n - 1 extends to it.
LEMMA CountsDetectsExist == \A n \in Nat : \E g : CountsDetects(g, n)
<1> DEFINE Bad == {n \in Nat : ~\E g : CountsDetects(g, n)}
<1> SUFFICES ASSUME Bad # {} PROVE FALSE
  OBVIOUS
<1>1. PICK n \in Bad : \A c \in Bad : n <= c
  <2> Bad \in SUBSET Nat
    OBVIOUS
  <2> HIDE DEF Bad
  <2> QED
    BY LeastElement
<1>2. CASE n = 0
  <2>1. CountsDetects([k \in 0 .. 0 |-> <<>>], 0)
    BY DEF CountsDetects
  <2> QED
    BY <1>2, <2>1
<1>3. CASE n # 0
  <2>1. n - 1 \in Nat /\ n - 1 \notin Bad
    BY <1>1, <1>3
  <2>2. PICK g : CountsDetects(g, n - 1)
    BY <2>1
  <2> DEFINE h == [k \in 0 .. n |->
                     IF k # n THEN g[k]
                     ELSE IF {"bin", "detect"} \subseteq scripts[order[k]]
                          THEN Append(g[k - 1], DetectRun(k))
                          ELSE g[k - 1]]
  <2>3. \A k \in 0 .. n - 1 : h[k] = g[k]
    BY <2>1
  <2>4. \A k \in 0 .. n - 1 :
          g[k] = IF k = 0 THEN <<>>
                 ELSE IF {"bin", "detect"} \subseteq scripts[order[k]]
                      THEN Append(g[k - 1], DetectRun(k))
                      ELSE g[k - 1]
    BY <2>2 DEF CountsDetects
  <2>5. ASSUME NEW k \in 0 .. n
        PROVE  h[k] = IF k = 0 THEN <<>>
                      ELSE IF {"bin", "detect"} \subseteq scripts[order[k]]
                           THEN Append(h[k - 1], DetectRun(k))
                           ELSE h[k - 1]
    <3>1. k # 0 => k - 1 \in 0 .. n - 1
      OBVIOUS
    <3>2. CASE k = n
      BY <1>3, <2>3, <3>1, <3>2
    <3>3. CASE k # n
      <4>1. k \in 0 .. n - 1
        BY <3>3
      <4> HIDE DEF h
      <4> QED
        BY <2>3, <2>4, <3>1, <4>1
    <3> QED
      BY <3>2, <3>3
  <2>6. DOMAIN h = 0 .. n /\ h = [k \in 0 .. n |-> h[k]]
    OBVIOUS
  <2>7. CountsDetects(h, n)
    <3> HIDE DEF h
    <3> QED
      BY <2>5, <2>6 DEF CountsDetects
  <2> QED
    BY <2>7
<1> QED
  BY <1>2, <1>3

\* DetectRuns satisfies its equation.
LEMMA DetectRunsEquation ==
  ASSUME Len(order) \in Nat
  PROVE  /\ DetectRuns[0] = <<>>
         /\ \A k \in 1 .. Len(order) :
              DetectRuns[k] = IF {"bin", "detect"} \subseteq scripts[order[k]]
                              THEN Append(DetectRuns[k - 1], DetectRun(k))
                              ELSE DetectRuns[k - 1]
<1>1. \E g : CountsDetects(g, Len(order))
  BY CountsDetectsExist
<1>2. CountsDetects(DetectRuns, Len(order))
  BY <1>1 DEF CountsDetects, DetectRuns
<1> HIDE DEF DetectRuns
<1>3. ASSUME NEW k \in 0 .. Len(order)
      PROVE  DetectRuns[k] = IF k = 0 THEN <<>>
                             ELSE IF {"bin", "detect"} \subseteq scripts[order[k]]
                                  THEN Append(DetectRuns[k - 1], DetectRun(k))
                                  ELSE DetectRuns[k - 1]
  BY <1>2 DEF CountsDetects
<1> QED
  BY <1>3

\* The runs of the first n supply buildpacks, and those of the final one but
\* for release.
SupplyRuns(n) == [k \in 1 .. n |-> SupplyRun(k)]
FinalRun(script, cache, deps) ==
  [script |-> script, of |-> order[final], cache |-> cache, deps |-> deps]
OwnSupply == IF Has(final, "supply") THEN <<FinalRun("supply", "final", NumSupply)>> ELSE <<>>
AppRuns == IF ~Has(final, "finalize") THEN <<FinalRun("compile", "final", None)>>
           ELSE OwnSupply \o <<FinalRun("finalize", "final", NumSupply)>>

\* The runs that have been made at each label, and those a droplet has in it.
RanInv ==
  /\ pc = "supply" => ran = SupplyRuns(i - 1) /\ i <= NumSupply + 1
  /\ pc = "detect" => ran = DetectRuns[i - 1] /\ i <= Len(order) + 1
  /\ pc \in {"runFinalize", "handleSupply", "compile"} => ran = SelectionRuns
  /\ pc \in {"handleSupply", "finalize"} => Has(final, "finalize")
  /\ pc = "compile" => ~Has(final, "finalize")
  /\ pc = "finalize" => ran = SelectionRuns \o OwnSupply
  /\ pc \in {"reevaluate", "release"} => ran = SelectionRuns \o AppRuns
  /\ pc \in {"stagingInfo", "findTar", "saveInfo", "copyApp", "packDroplet", "createCache"}
       \/ Written(droplet) => ran = SelectionRuns \o FinalRuns

\* The empty sequence is one over any set.
LEMMA EmptyType ==
  ASSUME NEW S
  PROVE  <<>> \in Seq(S)
OBVIOUS

\* Appending to a sequence.
LEMMA AppendType ==
  ASSUME NEW S, NEW s \in Seq(S), NEW e \in S
  PROVE  Append(s, e) \in Seq(S)
OBVIOUS

\* Appending to the second half of a sequence of runs.
LEMMA ConcatAppend ==
  \A s, t \in Seq(Runs), e \in Runs :
    Append(s \o t, e) = s \o (t \o <<e>>) /\ Append(s, e) = s \o <<e>>
<1> SUFFICES ASSUME NEW S, NEW s \in Seq(S), NEW t \in Seq(S), NEW e \in S
             PROVE  Append(s \o t, e) = s \o (t \o <<e>>) /\ Append(s, e) = s \o <<e>>
  BY Zenon
<1>1. t \o <<e>> \in Seq(S) /\ Len(t \o <<e>>) = Len(t) + 1
  OBVIOUS
<1>2. s \o t \in Seq(S) /\ Len(s \o t) = Len(s) + Len(t)
  OBVIOUS
<1> QED
  BY <1>1, <1>2

\* The supply runs grow by one.
LEMMA SupplyRunsGrow ==
  /\ SupplyRuns(0) = <<>>
  /\ \A n \in Nat : Append(SupplyRuns(n), SupplyRun(n + 1)) = SupplyRuns(n + 1)
<1>1. SupplyRuns(0) = <<>>
  BY DEF SupplyRuns
<1>2. ASSUME NEW n \in Nat
      PROVE  Append(SupplyRuns(n), SupplyRun(n + 1)) = SupplyRuns(n + 1)
  <2> DEFINE S == {SupplyRun(k) : k \in 1 .. n + 1}
  <2>1. SupplyRuns(n) \in [1 .. n -> S]
    BY DEF SupplyRuns
  <2>2. SupplyRuns(n) \in Seq(S) /\ Len(SupplyRuns(n)) = n
    <3> HIDE DEF S
    <3> QED
      BY <2>1, FunctionIsSeq
  <2>3. /\ DOMAIN Append(SupplyRuns(n), SupplyRun(n + 1)) = 1 .. n + 1
        /\ \A k \in 1 .. n : Append(SupplyRuns(n), SupplyRun(n + 1))[k] = SupplyRuns(n)[k]
        /\ Append(SupplyRuns(n), SupplyRun(n + 1))[n + 1] = SupplyRun(n + 1)
        /\ Append(SupplyRuns(n), SupplyRun(n + 1)) =
             [k \in 1 .. n + 1 |-> Append(SupplyRuns(n), SupplyRun(n + 1))[k]]
    <3> HIDE DEF S
    <3> QED
      BY <2>2
  <2>4. \A k \in 1 .. n : SupplyRuns(n)[k] = SupplyRun(k)
    BY DEF SupplyRuns
  <2>5. SupplyRuns(n + 1) = [k \in 1 .. n + 1 |-> SupplyRun(k)]
    BY DEF SupplyRuns
  <2> HIDE DEF S
  <2> QED
    BY <2>3, <2>4, <2>5
<1> QED
  BY <1>1, <1>2

\* Those of the final buildpack, once release has run.
LEMMA FinalRunsEnd ==
  ASSUME BuiltInv
  PROVE  FinalRuns = AppRuns \o <<FinalRun("release", None, None)>>
<1>1. (IF skipDetect THEN Len(order) - 1 ELSE 0) = NumSupply
  BY DEF BuiltInv, TypeInv, TypeOK, ConfigInv, NumSupply
<1> QED
  BY <1>1 DEF FinalRuns, AppRuns, OwnSupply, FinalRun

\* The runs of the final buildpack are runs.
LEMMA FinalRunType ==
  ASSUME BuiltInv, final \in 1 .. Len(order)
  PROVE  /\ \A script \in {"supply", "finalize"} : FinalRun(script, "final", NumSupply) \in Runs
         /\ FinalRun("compile", "final", None) \in Runs
         /\ FinalRun("release", None, None) \in Runs
         /\ OwnSupply \in Seq(Runs)
         /\ AppRuns \in Seq(Runs)
<1>1. order[final] \in Buildpacks /\ NumSupply \in DepsIndexes
  BY NumSupplyType DEF BuiltInv, TypeInv, TypeOK, DepsIndexes
<1>2. /\ \A script \in {"supply", "finalize"} : FinalRun(script, "final", NumSupply) \in Runs
      /\ FinalRun("compile", "final", None) \in Runs
      /\ FinalRun("release", None, None) \in Runs
  BY <1>1 DEF FinalRun, Runs
<1>3. OwnSupply \in Seq(Runs)
  BY <1>2 DEF OwnSupply
<1> QED
  BY <1>2, <1>3 DEF AppRuns

\* Every detect run made so far is a run: otherwise there is a least number of
\* buildpacks for which the equation adds something else.
LEMMA DetectRunsType ==
  ASSUME order \in Seq(Buildpacks)
  PROVE  \A k \in 0 .. Len(order) : DetectRuns[k] \in Seq(Runs)
<1> DEFINE Bad == {k \in 0 .. Len(order) : DetectRuns[k] \notin Seq(Runs)}
<1> SUFFICES ASSUME Bad # {} PROVE FALSE
  OBVIOUS
<1>1. Len(order) \in Nat
  OBVIOUS
<1>2. PICK k \in Bad : \A c \in Bad : k <= c
  <2> Bad \in SUBSET Nat
    BY <1>1
  <2> HIDE DEF Bad
  <2> QED
    BY LeastElement
<1>3. k # 0
  <2>1. DetectRuns[0] = <<>>
    BY <1>1, DetectRunsEquation
  <2>2. DetectRuns[0] \in Seq(Runs)
    BY <2>1, Zenon, EmptyType
  <2>3. DetectRuns[k] \notin Seq(Runs)
    BY <1>2
  <2> QED
    BY <2>2, <2>3
<1>4. k \in 1 .. Len(order) /\ k - 1 \in 0 .. Len(order) /\ k - 1 \notin Bad
  BY <1>1, <1>2, <1>3
<1>5. DetectRuns[k - 1] \in Seq(Runs)
  BY <1>4
<1>6. DetectRun(k) \in Runs
  <2>1. order[k] \in Buildpacks
    BY <1>4
  <2> QED
    BY <2>1 DEF DetectRun, Runs
<1>7. DetectRuns[k] \in {DetectRuns[k - 1], Append(DetectRuns[k - 1], DetectRun(k))}
  BY <1>1, <1>4, DetectRunsEquation
<1>8. DetectRuns[k] \in Seq(Runs)
  <2>1. Append(DetectRuns[k - 1], DetectRun(k)) \in Seq(Runs)
    BY <1>5, <1>6, AppendType, Zenon
  <2> QED
    BY <1>5, <1>7, <2>1
<1> QED
  BY <1>2, <1>8

\* The runs that select the final buildpack are runs.
LEMMA SelectionType ==
  ASSUME order \in Seq(Buildpacks), final \in 1 .. Len(order), Len(order) <= MaxBuildpacks
  PROVE  SelectionRuns \in Seq(Runs)
<1>1. CASE skipDetect
  <2>1. ASSUME NEW k \in 1 .. final - 1
        PROVE  SupplyRun(k) \in Runs
    <3>1. k - 1 \in DepsIndexes /\ order[k] \in Buildpacks
      BY RunnerAssumption DEF DepsIndexes
    <3> QED
      BY <3>1 DEF SupplyRun, Runs
  <2>2. SelectionRuns \in [1 .. final - 1 -> Runs]
    BY <1>1, <2>1 DEF SelectionRuns
  <2> QED
    BY <2>2, FunctionIsSeq
<1>2. CASE ~skipDetect
  BY <1>2, DetectRunsType DEF SelectionRuns
<1> QED
  BY <1>1, <1>2

\* RanInv is inductive relative to BuiltInv and ValidInv.
LEMMA RanStep ==
  ASSUME BuiltInv, BuiltInv', ValidInv, RanInv, [Next]_vars
  PROVE  RanInv'
<1>1. /\ UNCHANGED <<order, skipDetect, scripts>>
      /\ NumSupply' = NumSupply
      /\ NumSupply \in Nat
      /\ order \in Seq(Buildpacks) /\ Len(order) \in Nat /\ Len(order) <= MaxBuildpacks
      /\ skipDetect => NumSupply + 1 = Len(order)
      /\ pc \in Selected => final \in 1 .. Len(order)
      /\ pc \notin Ended \union {"createCache"} => droplet = None
      /\ ran \in Seq(Runs) /\ i \in Nat \ {0}
      /\ pc \in {"validate", "supply"} => skipDetect
      /\ pc = "detect" => ~skipDetect
  BY Facts, RunnerAssumption DEF BuiltInv, TypeInv, TypeOK, ConfigInv
<1>2. /\ \A k : Has(k, "finalize")' = Has(k, "finalize")
      /\ \A k : SupplyRun(k)' = SupplyRun(k)
      /\ \A n : SupplyRuns(n)' = SupplyRuns(n)
      /\ DetectRuns' = DetectRuns
  BY <1>1 DEF Has, SupplyRun, SupplyRuns, DetectRun, DetectRuns
<1>3. final' = final =>
        /\ SelectionRuns' = SelectionRuns
        /\ OwnSupply' = OwnSupply /\ AppRuns' = AppRuns /\ FinalRuns' = FinalRuns
        /\ Has(final, "finalize")' = Has(final, "finalize")
  BY <1>1, <1>2 DEF SelectionRuns, OwnSupply, AppRuns, FinalRuns, FinalRun, Has
<1>4. DetectRuns[0] = <<>> /\ SupplyRuns(0) = <<>>
  BY <1>1, DetectRunsEquation, SupplyRunsGrow
<1>5. pc' = "cleanUp" /\ UNCHANGED droplet /\ droplet = None => RanInv'
  BY DEF RanInv, Written
<1> HIDE DEF DetectRuns, SelectionRuns, FinalRuns, AppRuns, OwnSupply, SupplyRuns, Has
<1> USE DEF Goto, Fail, progress, outputs
<1>6. CASE Prepare
  <2>1. CASE MakeDirectories
    BY <1>1, <2>1 DEF MakeDirectories, RanInv, Written, Ended
  <2>2. CASE CleanCacheDir
    BY <1>1, <1>2, <1>4, <2>2 DEF CleanCacheDir, RanInv, ValidInv, Early, Written, Ended
  <2>3. CASE MakeDirectoriesFails \/ CleanCacheDirFails
    BY <1>1, <1>5, <2>3 DEF MakeDirectoriesFails, CleanCacheDirFails, Ended
  <2> QED
    BY <1>6, <2>1, <2>2, <2>3 DEF Prepare
<1>7. CASE ValidateSupply
  BY <1>1, <1>2, <1>4, <1>7 DEF ValidateSupply, RanInv, ValidInv, Early, Written, Ended
<1>8. CASE \/ ValidateSupplyFails \/ SupplyNotStarted \/ NothingDetected \/ RunFinalizeFails
           \/ HandleSupplyFails \/ ReleaseFails
  BY <1>1, <1>5, <1>8 DEF ValidateSupplyFails, SupplyNotStarted, NothingDetected,
    RunFinalizeFails, HandleSupplyFails, ReleaseFails, Ended
<1>9. CASE Supply
  <2>1. CASE i' = i + 1 /\ Goto("supply")
    <3>1. ran' = Append(SupplyRuns(i - 1), SupplyRun(i)) /\ i <= NumSupply
      BY <1>9 DEF Supply, RunScript, RanInv, SupplyRun
    <3>2. ran' = SupplyRuns(i)
      <4>1. i - 1 \in Nat /\ (i - 1) + 1 = i
        BY <1>1
      <4> QED
        BY <3>1, <4>1, SupplyRunsGrow
    <3> QED
      BY <1>1, <1>2, <1>9, <2>1, <3>1, <3>2 DEF Supply, RanInv, Written, Ended
  <2>2. CASE Fail(SupplyFailCode)
    BY <1>1, <1>5, <1>9, <2>2 DEF Supply, Ended
  <2> QED
    BY <1>9, <2>1, <2>2 DEF Supply
<1>10. CASE ChooseFinal
  <2>1. CASE Resolves(NumSupply + 1)
    <3>1. i - 1 = NumSupply /\ final' - 1 = NumSupply /\ skipDetect
      BY <1>1, <1>10, <2>1 DEF ChooseFinal, RanInv
    <3>2. SelectionRuns' = SupplyRuns(NumSupply)
      BY <1>1, <1>2, <3>1 DEF SelectionRuns, SupplyRuns
    <3>3. ran' = SelectionRuns'
      BY <1>10, <3>1, <3>2 DEF ChooseFinal, RanInv
    <3> QED
      BY <1>1, <1>10, <2>1, <3>3 DEF ChooseFinal, RanInv, Written, Ended
  <2>2. CASE Fail(SupplyFailCode)
    BY <1>1, <1>5, <1>10, <2>2 DEF ChooseFinal, Ended
  <2> QED
    BY <1>10, <2>1, <2>2 DEF ChooseFinal
<1>11. pc = "detect" /\ i <= Len(order) =>
         DetectRuns[i] = IF Resolves(i) /\ Has(i, "detect")
                         THEN Append(ran, DetectRun(i)) ELSE ran
  BY <1>1, DetectRunsEquation DEF RanInv, Resolves, Has
<1>12. CASE DetectSkips
  <2>1. ran' = DetectRuns[i]
    BY <1>11, <1>12 DEF DetectSkips
  <2>2. i' - 1 = i /\ i' <= Len(order) + 1 /\ pc' = "detect"
    BY <1>1, <1>12 DEF DetectSkips
  <2> QED
    BY <1>1, <1>2, <1>12, <2>1, <2>2 DEF DetectSkips, RanInv, Written, Ended
<1>13. CASE Detect
  <2>1. ran' = DetectRuns[i]
    BY <1>11, <1>13 DEF Detect, RunScript, DetectRun
  <2>2. CASE final' = i /\ Goto("runFinalize")
    <3>1. SelectionRuns' = DetectRuns[i]
      BY <1>1, <1>2, <1>13, <2>2 DEF SelectionRuns, Detect
    <3> QED
      BY <1>1, <1>13, <2>1, <2>2, <3>1 DEF Detect, RanInv, Written, Ended
  <2>3. CASE i' = i + 1 /\ Goto("detect")
    <3>1. i' - 1 = i /\ i' <= Len(order) + 1
      BY <1>1, <1>13, <2>3 DEF Detect
    <3> QED
      BY <1>1, <1>2, <1>13, <2>1, <2>3, <3>1 DEF Detect, RanInv, Written, Ended
  <2> QED
    BY <1>13, <2>2, <2>3 DEF Detect
<1>14. CASE RunFinalize
  BY <1>1, <1>3, <1>14 DEF RunFinalize, RanInv, Written, Ended
<1>15. pc \in Selected =>
         /\ FinalRun("supply", "final", NumSupply) \in Runs
         /\ FinalRun("finalize", "final", NumSupply) \in Runs
         /\ FinalRun("compile", "final", None) \in Runs
         /\ FinalRun("release", None, None) \in Runs
         /\ OwnSupply \in Seq(Runs) /\ AppRuns \in Seq(Runs)
  BY <1>1, FinalRunType
<1>s. pc \in {"runFinalize", "handleSupply", "finalize", "compile", "reevaluate", "release"}
        => pc \in Selected /\ pc \notin Ended \union {"createCache"}
  BY DEF Selected, Working, Labels, Ended
<1>16. CASE HandleSupply
  <2>1. CASE Has(final, "supply")
    <3>1. OwnSupply = <<FinalRun("supply", "final", NumSupply)>>
      BY <2>1 DEF OwnSupply
    <3>2. ran' = Append(SelectionRuns, FinalRun("supply", "final", NumSupply))
      BY <1>16, <2>1 DEF HandleSupply, RunScript, FinalRun, RanInv
    <3>3. ran' = SelectionRuns \o OwnSupply
      <4>1. SelectionRuns = ran
        BY <1>16 DEF HandleSupply, RanInv
      <4> QED
        BY <1>1, <1>15, <1>s, <1>16, <3>1, <3>2, <4>1, ConcatAppend DEF HandleSupply
    <3> QED
      BY <1>1, <1>3, <1>s, <1>16, <3>3 DEF HandleSupply, RanInv, Written
  <2>2. CASE ~Has(final, "supply")
    <3>1. OwnSupply = <<>> /\ ran' = ran /\ ran = SelectionRuns
      BY <1>16, <2>2 DEF HandleSupply, OwnSupply, RanInv
    <3>2. ran' = SelectionRuns \o OwnSupply
      BY <1>1, <3>1
    <3> QED
      BY <1>1, <1>3, <1>s, <1>16, <3>2 DEF HandleSupply, RanInv, Written
  <2> QED
    BY <2>1, <2>2
<1>17. pc \in Selected => SelectionRuns \in Seq(Runs)
  BY <1>1, SelectionType
<1>18. CASE Finalize
  <2>1. ran' = SelectionRuns \o AppRuns
    <3>1. AppRuns = OwnSupply \o <<FinalRun("finalize", "final", NumSupply)>>
      BY <1>18 DEF Finalize, AppRuns, RanInv
    <3>2. ran' = Append(SelectionRuns \o OwnSupply, FinalRun("finalize", "final", NumSupply))
      BY <1>18 DEF Finalize, RunScript, FinalRun, RanInv
    <3>3. /\ SelectionRuns \in Seq(Runs) /\ OwnSupply \in Seq(Runs)
          /\ FinalRun("finalize", "final", NumSupply) \in Runs
      BY <1>15, <1>17, <1>s, <1>18 DEF Finalize
    <3>4. Append(SelectionRuns \o OwnSupply, FinalRun("finalize", "final", NumSupply))
            = SelectionRuns \o (OwnSupply \o <<FinalRun("finalize", "final", NumSupply)>>)
      BY <3>3, ConcatAppend, Zenon
    <3> QED
      BY <3>1, <3>2, <3>4, Zenon
  <2> QED
    BY <1>1, <1>3, <1>5, <1>s, <1>18, <2>1 DEF Finalize, RanInv, Written
<1>19. CASE Compile
  <2>1. ran' = SelectionRuns \o AppRuns
    <3>1. AppRuns = <<FinalRun("compile", "final", None)>>
      BY <1>19 DEF Compile, AppRuns, RanInv
    <3>2. ran' = Append(SelectionRuns, FinalRun("compile", "final", None))
      BY <1>19 DEF Compile, RunScript, FinalRun, RanInv
    <3> QED
      BY <1>15, <1>17, <1>s, <1>19, <3>1, <3>2, ConcatAppend DEF Compile
  <2> QED
    BY <1>1, <1>3, <1>5, <1>s, <1>19, <2>1 DEF Compile, RanInv, Written
<1>20. CASE ReevaluateMetadata
  BY <1>1, <1>3, <1>s, <1>20 DEF ReevaluateMetadata, RanInv, Written
<1>21. CASE Release
  <2>1. ran' = SelectionRuns \o FinalRuns
    <3>1. FinalRuns = AppRuns \o <<FinalRun("release", None, None)>>
      BY FinalRunsEnd
    <3>2. ran' = Append(SelectionRuns \o AppRuns, FinalRun("release", None, None))
      BY <1>21 DEF Release, RunScript, FinalRun, RanInv
    <3>3. /\ SelectionRuns \in Seq(Runs) /\ AppRuns \in Seq(Runs)
          /\ FinalRun("release", None, None) \in Runs
      BY <1>15, <1>17, <1>s, <1>21 DEF Release
    <3>4. Append(SelectionRuns \o AppRuns, FinalRun("release", None, None))
            = SelectionRuns \o (AppRuns \o <<FinalRun("release", None, None)>>)
      BY <3>3, ConcatAppend, Zenon
    <3> QED
      BY <3>1, <3>2, <3>4, Zenon
  <2> QED
    BY <1>1, <1>3, <1>s, <1>21, <2>1 DEF Release, RanInv, Written
<1>22. CASE WriteStagingInfo \/ FindTar \/ SaveInfo \/ CopyApp \/ PackDroplet \/ CreateCache \/ StepFails
  <2>1. UNCHANGED <<ran, final>>
    BY <1>22 DEF WriteStagingInfo, FindTar, SaveInfo, CopyApp, PackDroplet, CreateCache, StepFails
  <2>2. ran = SelectionRuns \o FinalRuns
    BY <1>22 DEF WriteStagingInfo, FindTar, SaveInfo, CopyApp, PackDroplet, CreateCache,
      StepFails, RanInv
  <2>3. pc' \in {"findTar", "saveInfo", "copyApp", "packDroplet", "createCache", "cleanUp"}
    BY <1>22 DEF WriteStagingInfo, FindTar, SaveInfo, CopyApp, PackDroplet, CreateCache, StepFails
  <2> QED
    BY <1>3, <2>1, <2>2, <2>3 DEF RanInv
<1>23. CASE CleanUp \/ Exited \/ UNCHANGED vars
  BY <1>3, <1>1, <1>2, <1>23 DEF CleanUp, Exited, vars, RanInv, Written
<1> QED
  BY <1>6, <1>7, <1>8, <1>9, <1>10, <1>12, <1>13, <1>14, <1>16, <1>18, <1>19, <1>20, <1>21,
    <1>22, <1>23
  DEF Next, Prepare, SupplyOrDetect, FinalizeApp, PackageApp

\* Every droplet was built by the script runs the buildpack contract asks for.
THEOREM DropletsAreBuiltAsSpecified == Spec => []BuiltAsSpecified
<1>1. Init => ValidInv /\ RanInv
  BY DEF Init, ValidInv, RanInv, Early, Ended, Written
<1>2. TypeInv /\ ValidInv /\ [Next]_vars => ValidInv'
  BY ValidStep
<1>3. BuiltInv /\ BuiltInv' /\ ValidInv /\ RanInv /\ [Next]_vars => RanInv'
  BY RanStep
<1>4. BuiltInv => TypeInv
  BY DEF BuiltInv
<1>5. BuiltInv /\ RanInv => BuiltAsSpecified
  BY DEF BuiltInv, FilesInv, RanInv, BuiltAsSpecified
<1> QED
  BY <1>1, <1>2, <1>3, <1>4, <1>5, BuiltAlways, PTL DEF Spec
=============================================================================
