---------------------------- MODULE InstallProofs ----------------------------
(***************************************************************************)
(* Theorems about Install, for every list of buildpacks, whatever the URLs *)
(* serve and whatever breaks.                                              *)
(***************************************************************************)
EXTENDS Install, TLAPS

-----------------------------------------------------------------------------
(* The inductive invariant *)

\* The labels at which the present buildpack's directory is being changed.
Cloning == {"shallowClone", "removeAll", "fullClone"}

\* Where the loop is, and what has been written.
LoopInv ==
  /\ pc = "unmarshal" => i = 1
  /\ pc \in {"writeConfig", "ok"} => i = Len(order) + 1
  /\ pc = "ok" => config

\* A buildpack of the list before k with this name, or the k-th one itself
\* once its installation has begun.
Begun(c) == c < i \/ (c = i /\ pc \in Cloning \union {"failed"})

\* No directory has a file of a buildpack that has another name or comes
\* later in the list.
OriginInv ==
  \A b \in Names : \A f \in Files :
    dirs[b][f] # None =>
      \E c \in DOMAIN order :
        /\ Begun(c)
        /\ order[c].name = b
        /\ dirs[b][f] = order[c].url
        /\ f \in Parts[order[c].url]

\* c is the last buildpack of its name before i, and it is all there.
Complete(c) ==
  /\ c < i
  /\ \A d \in DOMAIN order : d < i /\ order[d].name = order[c].name => d <= c
  /\ \A f \in Parts[order[c].url] : dirs[order[c].name][f] = order[c].url

\* Each name before i has a complete buildpack, but for the name that is
\* being cloned.
CompleteInv ==
  pc # "failed" =>
    \A j \in DOMAIN order :
      j < i /\ ~(pc \in Cloning /\ order[i].name = order[j].name) =>
        \E c \in DOMAIN order : order[c].name = order[j].name /\ Complete(c)

\* An archive that does not unpack has an earlier one of its name with
\* read-only files in it.
BlockedBy(c) ==
  \E b \in DOMAIN order : /\ b < c
                          /\ order[b].name = order[c].name
                          /\ serves[order[b].url] = "readOnlyZip"

\* Why the fallbacks were taken, unless something broke.
ReasonInv ==
  /\ FailsForAReason
  /\ ~faulty =>
       /\ pc = "openDefault" => "internal" \notin clients[Url]
       /\ pc \in Cloning => serves[Url] \notin Archives \/ BlockedBy(i)
       /\ pc = "fullClone" => Dir = Empty

InstallInv == TypeOK /\ LoopInv /\ OriginInv /\ CompleteInv /\ ReasonInv

\* Initially all directories are empty.
LEMMA InstallInit ==
  ASSUME Init
  PROVE  InstallInv
<1>1. order \in Seq(Buildpacks) /\ Len(order) \in Nat /\ Len(order) <= MaxBuildpacks
  <2>1. PICK k \in 0 .. MaxBuildpacks : order \in [1 .. k -> Buildpacks]
    BY DEF Init
  <2>2. k \in Nat /\ k <= MaxBuildpacks
    BY InstallAssumption
  <2> QED
    BY <2>1, <2>2
<1>2. \A b \in Names : dirs[b] = Empty
  BY DEF Init
<1>3. Empty \in Directories /\ \A f \in Files : Empty[f] = None
  BY DEF Empty, Directories
<1>4. TypeOK
  <2>1. dirs \in [Names -> Directories]
    BY <1>3 DEF Init
  <2>2. i \in 1 .. Len(order) + 1 /\ pc \in Labels /\ pc \notin LoopLabels
    BY <1>1 DEF Init, Labels, LoopLabels
  <2>3. /\ parses \in BOOLEAN /\ serves \in [Urls -> Kinds] /\ config \in BOOLEAN
        /\ clients \in [Urls -> SUBSET Clients] /\ faulty \in BOOLEAN
    BY DEF Init
  <2> QED
    BY <1>1, <2>1, <2>2, <2>3 DEF TypeOK
<1>5. LoopInv /\ OriginInv /\ ReasonInv
  BY <1>2, <1>3 DEF Init, LoopInv, OriginInv, ReasonInv, FailsForAReason, Cloning
<1>6. CompleteInv
  BY <1>1 DEF Init, CompleteInv
<1> QED
  BY <1>4, <1>5, <1>6 DEF InstallInv

-----------------------------------------------------------------------------
(* Steps *)

\* The list and the servers are fixed.
LEMMA EnvironmentUnchanged ==
  ASSUME [Next]_vars
  PROVE  UNCHANGED environment
BY DEF Next, vars, environment, Archive, GitClone, Unmarshal, TempDir, MakeDir, PrepareStep,
  OpenInternal, OpenDefault, Open, Extract, ExtractFails, CloneNotStarted, ShallowClone,
  FullClone, Clone, RemoveAll, WriteConfig, Done

\* The types of what the actions look up for the present buildpack.
LEMMA Lookup ==
  ASSUME TypeOK, pc \in LoopLabels
  PROVE  /\ i \in DOMAIN order /\ i \in Nat /\ i <= Len(order) /\ Len(order) \in Nat
         /\ order[i] \in Buildpacks /\ order[i].name \in Names
         /\ Url \in Urls /\ Url # None
         /\ Dir \in Directories
         /\ Parts[Url] \subseteq Files
         /\ serves[Url] \in Kinds
         /\ clients[Url] \subseteq Clients
<1>1. /\ order \in Seq(Buildpacks) /\ i \in DOMAIN order
      /\ serves \in [Urls -> Kinds] /\ clients \in [Urls -> SUBSET Clients]
      /\ dirs \in [Names -> Directories]
  BY DEF TypeOK
<1>2. i \in Nat /\ i <= Len(order) /\ Len(order) \in Nat /\ order[i] \in Buildpacks
  BY <1>1
<1>3. order[i].name \in Names /\ order[i].url \in Urls
  BY <1>2 DEF Buildpacks
<1>4. order[i].url # None /\ Parts[order[i].url] \subseteq Files
  BY <1>3, InstallAssumption
<1> QED
  BY <1>1, <1>2, <1>3, <1>4 DEF Url, Dir

\* A step that moves on and changes no directory.
LEMMA QuietStep ==
  ASSUME TypeOK, OriginInv, CompleteInv, UNCHANGED <<environment, i, dirs>>,
         pc \in Cloning => pc' \in Cloning \union {"failed"},
         pc # "failed"
  PROVE  OriginInv' /\ CompleteInv'
<1> USE DEF environment
<1>1. OriginInv'
  BY DEF OriginInv, Begun
<1>2. CompleteInv'
  BY DEF CompleteInv, Complete, Cloning
<1> QED
  BY <1>1, <1>2

\* A step that changes the present directory, to files that were there or
\* are those of the present buildpack.
LEMMA WorkStep ==
  ASSUME TypeOK, OriginInv, CompleteInv, UNCHANGED environment,
         pc \in LoopLabels, NEW dir \in Directories, SetDir(dir),
         \A f \in Files : \/ dir[f] \in {None, Dir[f]}
                          \/ dir[f] = Url /\ f \in Parts[Url],
         \/ i' = i /\ pc' \in Cloning \union {"failed"}
         \/ i' = i + 1 /\ pc' \notin Cloning /\ \A f \in Parts[Url] : dir[f] = Url
  PROVE  dirs' \in [Names -> Directories] /\ OriginInv' /\ CompleteInv'
<1> USE DEF environment
<1>1. /\ i \in DOMAIN order /\ i \in Nat /\ order[i].name \in Names
      /\ Url \in Urls /\ Dir \in Directories /\ Parts[Url] \subseteq Files
  BY Lookup
<1>2. /\ dirs' \in [Names -> Directories]
      /\ dirs'[order[i].name] = dir
      /\ \A b \in Names : b # order[i].name => dirs'[b] = dirs[b]
  BY <1>1 DEF SetDir, TypeOK
<1>3. /\ i' \in {i, i + 1} /\ DOMAIN order \subseteq Nat /\ order' = order
      /\ \A c \in DOMAIN order : order[c].name \in Names
  <2>1. order \in Seq(Buildpacks)
    BY DEF TypeOK
  <2>2. \A c \in DOMAIN order : order[c] \in Buildpacks
    BY <2>1
  <2> QED
    BY <2>1, <2>2 DEF Buildpacks
<1>4. \A c \in DOMAIN order : Begun(c) => Begun(c)'
  <2>1. i' = i => pc' \in Cloning \union {"failed"}
    BY <1>1
  <2> QED
    BY <1>1, <1>3, <2>1 DEF Begun
<1>5. \A c \in DOMAIN order : c = i => Begun(c)'
  BY <1>1, <1>3 DEF Begun
<1>6. OriginInv'
  <2> SUFFICES ASSUME NEW b \in Names, NEW f \in Files, dirs'[b][f] # None
               PROVE  \E c \in DOMAIN order :
                        /\ Begun(c)'
                        /\ order[c].name = b
                        /\ dirs'[b][f] = order[c].url
                        /\ f \in Parts[order[c].url]
    BY <1>3 DEF OriginInv
  <2>1. CASE dirs'[b][f] = dirs[b][f]
    BY <1>4, <2>1 DEF OriginInv
  <2>2. CASE b = order[i].name /\ dir[f] = Url /\ f \in Parts[Url]
    BY <1>1, <1>2, <1>5, <2>2 DEF Url
  <2> QED
    BY <1>2, <2>1, <2>2 DEF Dir
<1>7. CompleteInv'
  <2> SUFFICES ASSUME pc' # "failed", NEW j \in DOMAIN order, j < i',
                      ~(pc' \in Cloning /\ order[i'].name = order[j].name)
               PROVE  \E c \in DOMAIN order : order[c].name = order[j].name /\ Complete(c)'
    BY <1>3 DEF CompleteInv
  <2>1. CASE order[j].name = order[i].name
    <3>1. i' = i + 1 /\ \A f \in Parts[Url] : dir[f] = Url
      BY <1>3, <2>1
    <3>2. \A c \in DOMAIN order : c = i => Complete(c)'
      BY <1>1, <1>2, <1>3, <3>1 DEF Complete, Url
    <3> QED
      BY <1>1, <2>1, <3>2
  <2>2. CASE order[j].name # order[i].name
    <3>1. j < i
      BY <1>1, <1>3, <2>2
    <3>2. PICK c \in DOMAIN order : order[c].name = order[j].name /\ Complete(c)
      BY <2>2, <3>1, Lookup DEF CompleteInv, LoopLabels
    <3>3. Complete(c)'
      BY <1>1, <1>2, <1>3, <2>2, <3>2 DEF Complete
    <3> QED
      BY <3>2, <3>3
  <2> QED
    BY <2>1, <2>2
<1> QED
  BY <1>2, <1>6, <1>7

\* The steps before a directory is changed.
LEMMA QuietTypes ==
  ASSUME InstallInv, [Next]_vars, UNCHANGED <<i, dirs, config>>,
         pc \in LoopLabels, pc' \in Labels \ {"unmarshal", "writeConfig", "ok"},
         pc \in Cloning => pc' \in Cloning \union {"failed"}
  PROVE  TypeOK' /\ LoopInv' /\ OriginInv' /\ CompleteInv'
<1>1. UNCHANGED environment
  BY EnvironmentUnchanged
<1>2. i \in DOMAIN order
  BY Lookup DEF InstallInv
<1>3. faulty' \in BOOLEAN
  BY Zenon DEF InstallInv, TypeOK, Next, vars, Goto, Fault, Archive, GitClone, Unmarshal,
    TempDir, MakeDir, PrepareStep, OpenInternal, OpenDefault, Open, Extract, ExtractFails,
    CloneNotStarted, ShallowClone, FullClone, Clone, RemoveAll, WriteConfig, Done, NextBuildpack
<1>4. TypeOK'
  BY <1>1, <1>2, <1>3 DEF InstallInv, TypeOK, environment
<1>5. LoopInv'
  BY DEF LoopInv
<1>6. pc # "failed"
  BY DEF LoopLabels
<1>7. OriginInv' /\ CompleteInv'
  BY <1>1, <1>6, QuietStep DEF InstallInv
<1> QED
  BY <1>4, <1>5, <1>7

\* What the fixed part of ReasonInv is about does not change.
LEMMA ReasonsUnchanged ==
  ASSUME [Next]_vars
  PROVE  /\ \A c : BlockedBy(c)' = BlockedBy(c)
         /\ i' = i => Url' = Url
         /\ i' = i /\ UNCHANGED dirs => Dir' = Dir
         /\ UNCHANGED <<order, parses, serves, clients>>
BY EnvironmentUnchanged DEF environment, BlockedBy, Url, Dir

\* Up to the extraction.
LEMMA OpenStep ==
  ASSUME InstallInv, TempDir \/ MakeDir \/ OpenInternal \/ OpenDefault
  PROVE  InstallInv'
<1>1. /\ UNCHANGED <<environment, i, dirs, config>>
      /\ pc \in {"tempDir", "openInternal", "openDefault", "makeDir"}
      /\ pc' \in {"openInternal", "openDefault", "makeDir", "extract", "failed"}
  BY DEF TempDir, MakeDir, OpenInternal, OpenDefault, PrepareStep, Open, Goto, Fault
<1>2. [Next]_vars
  BY DEF Next, Archive
<1>3. TypeOK' /\ LoopInv' /\ OriginInv' /\ CompleteInv'
  BY <1>1, <1>2, QuietTypes DEF Labels, LoopLabels, Cloning
<1>4. i \in DOMAIN order /\ clients[Url] \subseteq Clients /\ Url' = Url
  BY <1>1, <1>2, Lookup, ReasonsUnchanged DEF InstallInv, LoopLabels
<1>5. \/ faulty'
      \/ pc' \notin {"failed", "openDefault"}
      \/ pc' = "openDefault" /\ "internal" \notin clients[Url]
      \/ pc' = "failed" /\ pc = "openDefault" /\ ~faulty /\ "default" \notin clients[Url]
  BY DEF TempDir, MakeDir, OpenInternal, OpenDefault, PrepareStep, Open, Goto, Fault
<1>6. pc = "openDefault" /\ ~faulty /\ "default" \notin clients[Url] => clients[Url] = {}
  BY <1>4 DEF InstallInv, ReasonInv, Clients
<1>7. FailsForAReason'
  <2>1. pc' = "failed" => faulty' \/ clients[order[i].url] = {}
    BY <1>5, <1>6 DEF Url
  <2> QED
    BY <1>1, <1>4, <2>1, Zenon DEF FailsForAReason, environment
<1>8. ReasonInv'
  <2>1. pc' = "openDefault" /\ ~faulty' => "internal" \notin clients'[Url']
    BY <1>1, <1>4, <1>5 DEF environment
  <2>2. pc' \notin Cloning
    BY <1>1 DEF Cloning
  <2> QED
    BY <1>7, <2>1, <2>2, Zenon DEF ReasonInv, Cloning
<1> QED
  BY <1>3, <1>8 DEF InstallInv

\* SetDir of any directory that keeps some files and adds some of the
\* present buildpack's.
LEMMA OverlayType ==
  ASSUME TypeOK, pc \in LoopLabels, NEW files \in SUBSET Parts[Url]
  PROVE  /\ Overlay(files) \in Directories
         /\ \A f \in Files : \/ Overlay(files)[f] = Dir[f] /\ f \notin files
                             \/ Overlay(files)[f] = Url /\ f \in files /\ f \in Parts[Url]
BY Lookup DEF Overlay, Directories

\* The directory of a buildpack that is all there.
LEMMA BuildpackOfType ==
  ASSUME TypeOK, pc \in LoopLabels
  PROVE  /\ BuildpackOf(Url) \in Directories
         /\ \A f \in Files : \/ BuildpackOf(Url)[f] = None /\ f \notin Parts[Url]
                             \/ BuildpackOf(Url)[f] = Url /\ f \in Parts[Url]
BY Lookup DEF BuildpackOf, Directories

\* The end of an iteration: the directory has all of the buildpack.
LEMMA InstalledStep ==
  ASSUME InstallInv, [Next]_vars, pc \in LoopLabels, NextBuildpack, UNCHANGED config,
         NEW dir \in Directories, SetDir(dir),
         \A f \in Files : dir[f] \in {None, Dir[f]} \/ (dir[f] = Url /\ f \in Parts[Url]),
         \A f \in Parts[Url] : dir[f] = Url
  PROVE  InstallInv'
<1>1. UNCHANGED environment
  BY EnvironmentUnchanged
<1>2. /\ i' = i + 1 /\ pc' = Loop(i + 1) /\ UNCHANGED faulty
      /\ i \in Nat /\ i <= Len(order) /\ Len(order) \in Nat /\ DOMAIN order = 1 .. Len(order)
  BY Lookup DEF NextBuildpack, Goto, InstallInv, TypeOK
<1>3. /\ pc' \in {"tempDir", "writeConfig"}
      /\ pc' = "tempDir" => i' \in DOMAIN order
      /\ pc' = "writeConfig" => i' = Len(order) + 1
      /\ i' \in 1 .. Len(order) + 1
  BY <1>2, Lookup DEF Loop, InstallInv
<1>4. dirs' \in [Names -> Directories] /\ OriginInv' /\ CompleteInv'
  BY <1>1, <1>2, <1>3, WorkStep DEF InstallInv, Cloning
<1>5. TypeOK'
  BY <1>1, <1>2, <1>3, <1>4 DEF InstallInv, TypeOK, Labels, LoopLabels, environment
<1>6. LoopInv'
  BY <1>1, <1>3 DEF LoopInv, environment
<1>7. ReasonInv'
  BY <1>3 DEF ReasonInv, FailsForAReason, Cloning
<1> QED
  BY <1>4, <1>5, <1>6, <1>7 DEF InstallInv

\* The installation of a buildpack goes on, or fails, after its directory
\* was changed.
LEMMA ChangedStep ==
  ASSUME InstallInv, [Next]_vars, pc \in LoopLabels, UNCHANGED <<i, config>>,
         pc' \in Cloning \union {"failed"},
         NEW dir \in Directories, SetDir(dir),
         \A f \in Files : dir[f] \in {None, Dir[f]} \/ (dir[f] = Url /\ f \in Parts[Url])
  PROVE  TypeOK' /\ LoopInv' /\ OriginInv' /\ CompleteInv'
<1>1. UNCHANGED environment
  BY EnvironmentUnchanged
<1>2. i \in DOMAIN order
  BY Lookup DEF InstallInv
<1>3. dirs' \in [Names -> Directories] /\ OriginInv' /\ CompleteInv'
  BY <1>1, WorkStep DEF InstallInv
<1>4. faulty' \in BOOLEAN
  BY Zenon DEF InstallInv, TypeOK, Next, vars, Goto, Fault, Archive, GitClone, Unmarshal,
    TempDir, MakeDir, PrepareStep, OpenInternal, OpenDefault, Open, Extract, ExtractFails,
    CloneNotStarted, ShallowClone, FullClone, Clone, RemoveAll, WriteConfig, Done, NextBuildpack
<1>5. TypeOK'
  BY <1>1, <1>2, <1>3, <1>4 DEF InstallInv, TypeOK, Labels, LoopLabels, Cloning, environment
<1>6. LoopInv'
  BY DEF LoopInv, Cloning
<1> QED
  BY <1>3, <1>5, <1>6

\* A file that cannot be written was put there by an earlier buildpack.
LEMMA Blocked ==
  ASSUME InstallInv, pc = "extract", Writable # Parts[Url]
  PROVE  BlockedBy(i)
<1>1. PICK f \in Parts[Url] : Dir[f] # None /\ serves[Dir[f]] = "readOnlyZip"
  BY DEF Writable
<1>2. order[i].name \in Names /\ f \in Files
  BY Lookup DEF InstallInv, LoopLabels
<1>3. PICK c \in DOMAIN order : /\ Begun(c)
                                /\ order[c].name = order[i].name
                                /\ Dir[f] = order[c].url
  BY <1>1, <1>2 DEF InstallInv, OriginInv, Dir
<1>4. c < i
  BY <1>3 DEF Begun, Cloning
<1> QED
  BY <1>1, <1>3, <1>4 DEF BlockedBy

\* Extraction, complete or not.
LEMMA ExtractStep ==
  ASSUME InstallInv, Extract \/ ExtractFails
  PROVE  InstallInv'
<1>1. [Next]_vars /\ pc = "extract" /\ pc \in LoopLabels
  BY DEF Next, Archive, Extract, ExtractFails, LoopLabels
<1>2. TypeOK /\ Writable \subseteq Parts[Url]
  BY DEF InstallInv, Writable
<1>3. CASE Extract
  <2>1. SetDir(Overlay(Parts[Url])) /\ NextBuildpack /\ UNCHANGED config
    BY <1>3 DEF Extract
  <2>2. /\ Overlay(Parts[Url]) \in Directories
        /\ \A f \in Files : \/ Overlay(Parts[Url])[f] = Dir[f] /\ f \notin Parts[Url]
                            \/ Overlay(Parts[Url])[f] = Url /\ f \in Parts[Url]
    BY <1>1, <1>2, OverlayType
  <2>3. Parts[Url] \subseteq Files
    BY <1>1, <1>2, Lookup
  <2> QED
    BY <1>1, <2>1, <2>2, <2>3, InstalledStep
<1>4. CASE ExtractFails
  <2>1. UNCHANGED <<i, config>> /\ pc' = "shallowClone"
    BY <1>4 DEF ExtractFails, Goto, Fault
  <2>2. TypeOK' /\ LoopInv' /\ OriginInv' /\ CompleteInv'
    <3>1. CASE UNCHANGED dirs
      BY <1>1, <2>1, <3>1, QuietTypes DEF Labels, LoopLabels, Cloning
    <3>2. ASSUME NEW files \in SUBSET Writable, SetDir(Overlay(files))
          PROVE  TypeOK' /\ LoopInv' /\ OriginInv' /\ CompleteInv'
      <4>1. /\ Overlay(files) \in Directories
            /\ \A f \in Files : \/ Overlay(files)[f] = Dir[f] /\ f \notin files
                                \/ Overlay(files)[f] = Url /\ f \in files /\ f \in Parts[Url]
        BY <1>1, <1>2, OverlayType
      <4> QED
        BY <1>1, <2>1, <3>2, <4>1, ChangedStep DEF Cloning
    <3>3. ASSUME NEW files \in SUBSET Writable, NEW cut \in Writable,
                 SetDir([Overlay(files) EXCEPT ![cut] = None])
          PROVE  TypeOK' /\ LoopInv' /\ OriginInv' /\ CompleteInv'
      <4> DEFINE dir == [Overlay(files) EXCEPT ![cut] = None]
      <4>1. /\ Overlay(files) \in Directories
            /\ \A f \in Files : \/ Overlay(files)[f] = Dir[f] /\ f \notin files
                                \/ Overlay(files)[f] = Url /\ f \in files /\ f \in Parts[Url]
        BY <1>1, <1>2, OverlayType
      <4>2. /\ dir \in Directories
            /\ \A f \in Files : dir[f] = IF f = cut THEN None ELSE Overlay(files)[f]
        BY <4>1 DEF Directories
      <4>3. SetDir(dir)
        BY <3>3
      <4> HIDE DEF dir
      <4> QED
        BY <1>1, <2>1, <4>1, <4>2, <4>3, ChangedStep DEF Cloning
    <3> QED
      BY <1>4, <3>1, <3>2, <3>3 DEF ExtractFails
  <2>3. faulty' \/ serves[Url] \notin Archives \/ BlockedBy(i)
    BY <1>1, <1>4, Blocked DEF ExtractFails, Fault
  <2>4. ReasonInv'
    <3>1. Url' = Url /\ serves' = serves
      BY <1>1, <2>1, ReasonsUnchanged
    <3>2. BlockedBy(i) => BlockedBy(i)'
      BY <1>1, <2>1, ReasonsUnchanged DEF BlockedBy
    <3> QED
      BY <2>1, <2>3, <3>1, <3>2, Zenon DEF ReasonInv, FailsForAReason, Cloning
  <2> QED
    BY <2>2, <2>4 DEF InstallInv
<1> QED
  BY <1>3, <1>4

\* git clone: it only writes to an empty directory.
LEMMA CloneStep ==
  ASSUME InstallInv, NEW label, NEW kinds, NEW otherwise, Clone(label, kinds, otherwise),
         label \in Cloning, otherwise \in Cloning \union {"failed"}, [Next]_vars,
         otherwise = "failed" =>
           label = "fullClone" /\ kinds = {"git", "deepGit"},
         otherwise # "fullClone"
  PROVE  InstallInv'
<1>1. pc = label /\ pc \in LoopLabels /\ TypeOK /\ UNCHANGED config
  BY DEF Clone, LoopLabels, Cloning, InstallInv
<1>2. /\ Url \in Urls /\ Parts[Url] \subseteq Files /\ serves[Url] \in Kinds
      /\ serves' = serves
  BY <1>1, Lookup, ReasonsUnchanged
<1>3. CASE SetDir(BuildpackOf(Url)) /\ NextBuildpack
  <2>1. /\ BuildpackOf(Url) \in Directories
        /\ \A f \in Files : \/ BuildpackOf(Url)[f] = None /\ f \notin Parts[Url]
                            \/ BuildpackOf(Url)[f] = Url /\ f \in Parts[Url]
    BY <1>1, BuildpackOfType
  <2> QED
    BY <1>1, <1>2, <1>3, <2>1, InstalledStep
<1>4. ASSUME UNCHANGED i, pc' = otherwise, FailsForAReason' PROVE ReasonInv'
  <2>1. Url' = Url /\ (BlockedBy(i) => BlockedBy(i)')
    BY <1>4, ReasonsUnchanged DEF BlockedBy
  <2>2. faulty => faulty'
    BY DEF Clone, Goto, Fault, NextBuildpack
  <2>3. ~faulty => serves[Url] \notin Archives \/ BlockedBy(i)
    BY <1>1 DEF InstallInv, ReasonInv
  <2> QED
    BY <1>2, <1>4, <2>1, <2>2, <2>3, Zenon DEF ReasonInv, Cloning
<1>5. ASSUME NEW files \in SUBSET Parts[Url], SetDir(Overlay(files)), Fault(otherwise), UNCHANGED i
      PROVE  InstallInv'
  <2>1. /\ Overlay(files) \in Directories
        /\ \A f \in Files : \/ Overlay(files)[f] = Dir[f] /\ f \notin files
                            \/ Overlay(files)[f] = Url /\ f \in files /\ f \in Parts[Url]
    BY <1>1, <1>5, OverlayType
  <2>2. pc' = otherwise /\ faulty'
    BY <1>5 DEF Fault
  <2>3. TypeOK' /\ LoopInv' /\ OriginInv' /\ CompleteInv'
    BY <1>1, <1>5, <2>1, <2>2, ChangedStep
  <2>4. FailsForAReason'
    BY <2>2, Zenon DEF FailsForAReason
  <2> QED
    BY <1>4, <1>5, <2>2, <2>3, <2>4 DEF InstallInv
<1>6. ASSUME ~(Dir = Empty /\ serves[Url] \in kinds), Goto(otherwise), UNCHANGED <<i, dirs>>
      PROVE  InstallInv'
  <2>1. pc' = otherwise /\ faulty' = faulty
    BY <1>6 DEF Goto
  <2>2. TypeOK' /\ LoopInv' /\ OriginInv' /\ CompleteInv'
    BY <1>1, <1>6, <2>1, QuietTypes DEF Labels, LoopLabels, Cloning
  <2>3. i \in DOMAIN order
    BY <1>1, Lookup
  <2>4. CASE otherwise = "failed" /\ ~faulty
    <3>1. Dir = Empty /\ (serves[Url] \notin Archives \/ BlockedBy(i))
      BY <1>1, <2>4 DEF InstallInv, ReasonInv, Cloning
    <3>2. serves[Url] \notin {"git", "deepGit"}
      BY <1>6, <2>4, <3>1
    <3>3. serves[order[i].url] = "other" \/ BlockedBy(i)
      BY <1>2, <3>1, <3>2 DEF Kinds, Archives, Url
    <3>4. UNCHANGED <<order, serves>>
      BY ReasonsUnchanged
    <3>5. ASSUME serves[order[i].url] = "other" PROVE FailsForAReason'
      BY <2>3, <3>4, <3>5, Zenon DEF FailsForAReason
    <3>6. ASSUME BlockedBy(i) PROVE FailsForAReason'
      BY <2>3, <3>4, <3>6, Zenon DEF FailsForAReason, BlockedBy
    <3>7. FailsForAReason'
      BY <3>3, <3>5, <3>6
    <3> QED
      BY <1>4, <1>6, <2>1, <2>2, <3>7 DEF InstallInv
  <2>5. CASE otherwise # "failed" \/ faulty
    <3>1. FailsForAReason'
      BY <2>1, <2>5, Zenon DEF FailsForAReason
    <3> QED
      BY <1>4, <1>6, <2>1, <2>2, <3>1 DEF InstallInv
  <2> QED
    BY <2>4, <2>5
<1> QED
  BY <1>3, <1>5, <1>6 DEF Clone

\* The retry of the clone in an emptied directory.
LEMMA RemoveAllStep ==
  ASSUME InstallInv, RemoveAll
  PROVE  InstallInv'
<1>1. /\ pc = "removeAll" /\ pc' = "fullClone" /\ pc \in LoopLabels /\ TypeOK
      /\ [Next]_vars /\ UNCHANGED <<i, config>>
  BY DEF RemoveAll, Goto, Fault, LoopLabels, InstallInv, Next, GitClone
<1>2. /\ Empty \in Directories /\ \A f \in Files : Empty[f] = None
      /\ Dir \in Directories /\ order[i].name \in Names
  BY <1>1, Lookup DEF Empty, Directories
<1>3. Url' = Url /\ (BlockedBy(i) => BlockedBy(i)') /\ serves' = serves
  BY <1>1, ReasonsUnchanged DEF BlockedBy
<1>4. ~faulty => serves[Url] \notin Archives \/ BlockedBy(i)
  BY <1>1 DEF InstallInv, ReasonInv, Cloning
<1>5. CASE SetDir(Empty) /\ Goto("fullClone")
  <2>1. TypeOK' /\ LoopInv' /\ OriginInv' /\ CompleteInv'
    BY <1>1, <1>2, <1>5, ChangedStep DEF Cloning
  <2>2. Dir' = Empty /\ faulty' = faulty
    BY <1>1, <1>2, <1>5, ReasonsUnchanged DEF SetDir, Dir, TypeOK, Goto
  <2>3. ReasonInv'
    BY <1>1, <1>3, <1>4, <2>2, Zenon DEF ReasonInv, FailsForAReason, Cloning
  <2> QED
    BY <2>1, <2>3 DEF InstallInv
<1>6. ASSUME NEW files \in SUBSET Files, Fault("fullClone"),
             SetDir([f \in Files |-> IF f \in files THEN Dir[f] ELSE None])
      PROVE  InstallInv'
  <2> DEFINE dir == [f \in Files |-> IF f \in files THEN Dir[f] ELSE None]
  <2>1. /\ dir \in Directories
        /\ \A f \in Files : dir[f] \in {None, Dir[f]}
    BY <1>2 DEF Directories
  <2>2. SetDir(dir)
    BY <1>6
  <2> HIDE DEF dir
  <2>3. TypeOK' /\ LoopInv' /\ OriginInv' /\ CompleteInv'
    BY <1>1, <2>1, <2>2, ChangedStep DEF Cloning
  <2>4. ReasonInv'
    BY <1>1, <1>6, Zenon DEF ReasonInv, FailsForAReason, Fault
  <2> QED
    BY <2>3, <2>4 DEF InstallInv
<1> QED
  BY <1>5, <1>6 DEF RemoveAll

\* InstallInv is inductive.
LEMMA InstallStep ==
  ASSUME InstallInv, [Next]_vars
  PROVE  InstallInv'
<1>1. CASE Unmarshal
  <2>1. /\ UNCHANGED <<environment, i, dirs, config, faulty>> /\ pc = "unmarshal" /\ i = 1
        /\ Len(order) \in Nat /\ DOMAIN order = 1 .. Len(order)
        /\ pc' = IF parses THEN Loop(1) ELSE "failed"
    BY <1>1 DEF Unmarshal, Goto, InstallInv, LoopInv, TypeOK
  <2>2. /\ pc' \in {"tempDir", "writeConfig", "failed"}
        /\ pc' = "tempDir" => i \in DOMAIN order
        /\ pc' = "writeConfig" => i = Len(order) + 1
        /\ pc' = "failed" => ~parses
    BY <2>1 DEF Loop
  <2>3. TypeOK'
    BY <2>1, <2>2 DEF InstallInv, TypeOK, Labels, LoopLabels, environment
  <2>4. LoopInv'
    BY <2>1, <2>2 DEF LoopInv, environment
  <2>5. OriginInv' /\ CompleteInv'
    BY <2>1, QuietStep DEF InstallInv, Cloning
  <2>6. FailsForAReason'
    BY <2>1, <2>2, Zenon DEF FailsForAReason, environment
  <2>7. ReasonInv'
    BY <2>2, <2>6 DEF ReasonInv, Cloning
  <2> QED
    BY <2>3, <2>4, <2>5, <2>7 DEF InstallInv
<1>2. CASE CloneNotStarted
  <2>1. /\ UNCHANGED <<i, dirs, config>> /\ pc = "shallowClone" /\ pc' = "failed"
        /\ faulty'
    BY <1>2 DEF CloneNotStarted, Fault
  <2>2. TypeOK' /\ LoopInv' /\ OriginInv' /\ CompleteInv'
    BY <2>1, QuietTypes DEF Labels, LoopLabels, Cloning
  <2>3. ReasonInv'
    BY <2>1, Zenon DEF ReasonInv, FailsForAReason
  <2> QED
    BY <2>2, <2>3 DEF InstallInv
<1>3. CASE ShallowClone
  BY <1>3, CloneStep DEF ShallowClone, Cloning
<1>4. CASE FullClone
  BY <1>4, CloneStep DEF FullClone, Cloning
<1>5. CASE WriteConfig
  <2>1. /\ UNCHANGED <<environment, i, dirs>> /\ pc = "writeConfig" /\ i = Len(order) + 1
        /\ \/ config' = TRUE /\ pc' = "ok" /\ faulty' = faulty
           \/ config' = config /\ pc' = "failed" /\ faulty' = TRUE
    BY <1>5 DEF WriteConfig, Goto, Fault, InstallInv, LoopInv
  <2>2. TypeOK'
    BY <2>1 DEF InstallInv, TypeOK, Labels, LoopLabels, environment
  <2>3. LoopInv'
    BY <2>1 DEF LoopInv, environment
  <2>4. OriginInv' /\ CompleteInv'
    BY <2>1, QuietStep DEF InstallInv, Cloning
  <2>5. ReasonInv'
    BY <2>1, Zenon DEF ReasonInv, FailsForAReason, Cloning
  <2> QED
    BY <2>2, <2>3, <2>4, <2>5 DEF InstallInv
<1>6. CASE Done \/ UNCHANGED vars
  <2>1. UNCHANGED vars
    BY <1>6 DEF Done
  <2>2. TypeOK' /\ LoopInv'
    BY <2>1 DEF InstallInv, TypeOK, LoopInv, vars, environment
  <2>3. OriginInv' /\ CompleteInv'
    BY <2>1 DEF InstallInv, OriginInv, CompleteInv, Begun, Complete, vars, environment
  <2>4. ReasonInv'
    BY <2>1 DEF InstallInv, ReasonInv, FailsForAReason, BlockedBy, Url, Dir, vars, environment
  <2> QED
    BY <2>2, <2>3, <2>4 DEF InstallInv
<1> QED
  BY <1>1, <1>2, <1>3, <1>4, <1>5, <1>6, OpenStep, ExtractStep, RemoveAllStep
  DEF Next, Archive, GitClone

\* InstallInv holds in every state.
LEMMA InstallAlways == Spec => []InstallInv
<1>1. Init => InstallInv
  BY InstallInit
<1>2. InstallInv /\ [Next]_vars => InstallInv'
  BY InstallStep
<1> QED
  BY <1>1, <1>2, PTL DEF Spec

\* Every variable keeps its type, and the loop never leaves its list.
THEOREM InstallTypeCorrect == Spec => []TypeOK
<1>1. InstallInv => TypeOK
  BY DEF InstallInv
<1> QED
  BY <1>1, InstallAlways, PTL

\* The fallbacks lose nothing: Install fails only if some buildpack cannot
\* be installed in any of the ways, or something broke.
THEOREM InstallFailsForAReason == Spec => []FailsForAReason
<1>1. InstallInv => FailsForAReason
  BY DEF InstallInv, ReasonInv
<1> QED
  BY <1>1, InstallAlways, PTL

\* When Install returns without an error every buildpack is there.
LEMMA AllInstalled ==
  ASSUME InstallInv, pc = "ok", NEW b \in DOMAIN order
  PROVE  Installed(b)
<1>1. /\ order \in Seq(Buildpacks) /\ i = Len(order) + 1 /\ DOMAIN order = 1 .. Len(order)
      /\ dirs \in [Names -> Directories]
  BY DEF InstallInv, TypeOK, LoopInv
<1>2. order[b].name \in Names /\ order[b].url \in Urls
  <2>1. order[b] \in Buildpacks
    BY <1>1
  <2> QED
    BY <2>1 DEF Buildpacks
<1>3. \A d \in DOMAIN order : d < i /\ d \in Int
  BY <1>1
<1>4. PICK c \in DOMAIN order :
        /\ order[c].name = order[b].name
        /\ \A d \in DOMAIN order : order[d].name = order[b].name => d <= c
        /\ \A f \in Parts[order[c].url] : dirs[order[b].name][f] = order[c].url
  BY <1>3 DEF InstallInv, CompleteInv, Complete, Cloning
<1> DEFINE dir == dirs[order[b].name]
           sharers == {d \in DOMAIN order : order[d].name = order[b].name}
<1>5. dir \in Directories
  BY <1>1, <1>2
<1>6. ASSUME \A d \in sharers : d <= b
      PROVE  \A f \in Parts[order[b].url] : dir[f] = order[b].url
  <2>1. c = b
    BY <1>3, <1>4, <1>6
  <2> QED
    BY <1>4, <2>1
<1>7. ASSUME \A d \in sharers : order[d].url = order[b].url
      PROVE  dir = BuildpackOf(order[b].url)
  <2>1. \A f \in Parts[order[b].url] : dir[f] = order[b].url
    BY <1>4, <1>7
  <2>2. ASSUME NEW f \in Files, f \notin Parts[order[b].url]
        PROVE  dir[f] = None
    BY <1>2, <1>7, <2>2 DEF InstallInv, OriginInv
  <2>3. \A f \in Files : dir[f] = IF f \in Parts[order[b].url] THEN order[b].url ELSE None
    BY <2>1, <2>2
  <2> QED
    BY <1>5, <2>3 DEF BuildpackOf, Directories
<1> QED
  BY <1>6, <1>7 DEF Installed

\* Every step is a step of Installer or invisible to it: the safety part of
\* ImplementsInstaller, for every list of buildpacks.
THEOREM InstallImplementsInstaller ==
  Spec => Promise!Init /\ [][Promise!Next]_(Promise!vars)
<1> DEFINE whole == config /\ \A b \in DOMAIN order : Installed(b)
           result == IF Returned THEN pc ELSE "running"
<1>1. Init => Promise!Init
  BY DEF Init, Promise!Init, Returned, Installed
<1>2. InstallInv /\ pc = "ok" => config /\ \A b \in DOMAIN order : Installed(b)
  BY AllInstalled DEF InstallInv, LoopInv
<1>3. (InstallInv /\ pc = "ok" => config /\ \A b \in DOMAIN order : Installed(b))'
  BY <1>2, PTL
<1>4. InstallInv /\ InstallInv' /\ [Next]_vars => [Promise!Next]_(Promise!vars)
  <2> SUFFICES ASSUME InstallInv, InstallInv', [Next]_vars
               PROVE  Promise!Next \/ UNCHANGED Promise!vars
    OBVIOUS
  <2>1. whole \in BOOLEAN /\ whole' \in BOOLEAN
    OBVIOUS
  <2>2. pc' = "ok" => whole'
    BY <1>3
  <2>3. CASE Unmarshal \/ Archive \/ GitClone \/ WriteConfig
    <3>1. ~Returned
      BY <2>3 DEF Returned, Unmarshal, Archive, GitClone, WriteConfig, TempDir, MakeDir,
        PrepareStep, OpenInternal, OpenDefault, Open, Extract, ExtractFails,
        CloneNotStarted, ShallowClone, FullClone, Clone, RemoveAll
    <3>2. CASE Returned'
      BY <2>1, <2>2, <3>1, <3>2 DEF Promise!Next, Promise!Return, Returned
    <3>3. CASE ~Returned'
      BY <2>1, <3>1, <3>3 DEF Promise!Next, Promise!Work
    <3> QED
      BY <3>2, <3>3
  <2>4. CASE Done \/ UNCHANGED vars
    <3>1. UNCHANGED vars
      BY <2>4 DEF Done
    <3> QED
      BY <3>1 DEF vars, Promise!vars, Returned, Installed
  <2> QED
    BY <2>3, <2>4 DEF Next
<1> QED
  BY <1>1, <1>4, InstallAlways, PTL DEF Spec
=============================================================================
