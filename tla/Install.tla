------------------------------- MODULE Install -------------------------------
(***************************************************************************)
(* Installing the buildpacks: BuildpackManager.Install with its fallbacks, *)
(* from one HTTP client to the other and from an archive to a git          *)
(* repository (buildpack_manager.go, git_buildpack.go).  Unzip describes   *)
(* the extraction in detail.                                               *)
(*                                                                         *)
(* External: the servers, the file system and git.  git clone refuses a    *)
(* destination that is not empty and leaves it alone; when it fails later, *)
(* what it had checked out may stay behind.                                *)
(***************************************************************************)
EXTENDS Integers, Sequences

CONSTANTS
  Names,          \* names of buildpacks
  Urls,           \* URLs of buildpacks
  MaxBuildpacks,  \* bound on the length of the list
  Files,          \* paths of files in a buildpack
  Parts,          \* Parts[u]: the files of the buildpack at u
  None            \* no file

ASSUME InstallAssumption ==
  /\ MaxBuildpacks \in Nat
  /\ Parts \in [Urls -> (SUBSET Files) \ {{}}]
  /\ None \notin Urls

VARIABLES
  order,    \* the list of buildpacks
  parses,   \* it is valid JSON
  serves,   \* what there is at each URL
  clients,  \* which HTTP clients get it with status 200
  pc,       \* the step that comes next
  i,        \* index of the loop of Install
  dirs,     \* the complete files in the directory of each name
  config,   \* config.json is complete
  faulty    \* a file system, network or git operation has failed by itself

environment == <<order, parses, serves, clients>>
vars == <<order, parses, serves, clients, pc, i, dirs, config, faulty>>

-----------------------------------------------------------------------------

\* A URL serves a zip file, perhaps with read-only files in it, or a
\* repository, perhaps over a transport that cannot clone it with --depth, or
\* something else.
Archives == {"zip", "readOnlyZip"}
Kinds == Archives \union {"git", "deepGit", "other"}
Clients == {"internal", "default"}

Buildpacks == [name : Names, url : Urls]

\* A file of a directory is the URL it comes from.
Directories == [Files -> Urls \union {None}]
Empty == [f \in Files |-> None]
BuildpackOf(u) == [f \in Files |-> IF f \in Parts[u] THEN u ELSE None]

Init ==
  /\ \E n \in 0 .. MaxBuildpacks : order \in [1 .. n -> Buildpacks]
  /\ parses \in BOOLEAN
  /\ serves \in [Urls -> Kinds]
  /\ clients \in [Urls -> SUBSET Clients]
  /\ pc = "unmarshal"
  /\ i = 1
  /\ dirs = [b \in Names |-> Empty]
  /\ config = FALSE
  /\ faulty = FALSE

-----------------------------------------------------------------------------

Url == order[i].url
Dir == dirs[order[i].name]  \* BuildpackPath: a directory per name
SetDir(dir) == dirs' = [dirs EXCEPT ![order[i].name] = dir]

Goto(label) == pc' = label /\ UNCHANGED faulty
Fault(label) == pc' = label /\ faulty' = TRUE

\* Slips: every operator named Slip... is the definition after it with one
\* mistake in it, and a property stated below tells the two apart.
SlipLoop(k) == IF k <= Len(order) + 1 THEN "tempDir" ELSE "writeConfig"

\* The next buildpack, or config.json after the last one.
Loop(k) == IF k <= Len(order) THEN "tempDir" ELSE "writeConfig"

NextBuildpack == i' = i + 1 /\ Goto(Loop(i + 1))

Unmarshal ==
  /\ pc = "unmarshal"
  /\ Goto(IF parses THEN Loop(1) ELSE "failed")
  /\ UNCHANGED <<environment, i, dirs, config>>

\* TempDir; WriteFile of the archive and MkdirAll of the destination
PrepareStep(label, next) ==
  /\ pc = label
  /\ Goto(next) \/ Fault("failed")
  /\ UNCHANGED <<environment, i, dirs, config>>

TempDir == PrepareStep("tempDir", "openInternal")
MakeDir == PrepareStep("makeDir", "extract")

\* OpenBuildpackURL with one of the clients
Open(client, label, otherwise) ==
  /\ pc = label
  /\ IF client \in clients[Url]
     THEN Goto("makeDir") \/ Fault(otherwise)
     ELSE Goto(otherwise)
  /\ UNCHANGED <<environment, i, dirs, config>>

OpenInternal == Open("internal", "openInternal", "openDefault")

OpenDefault == Open("default", "openDefault", "failed")

\* The files of the archive that can be written: a read-only file that is
\* there already cannot.
Writable == {f \in Parts[Url] : Dir[f] # None => serves[Dir[f]] # "readOnlyZip"}
Overlay(files) == [f \in Files |-> IF f \in files THEN Url ELSE Dir[f]]

\* Extract onto whatever the directory holds already
Extract ==
  /\ pc = "extract"
  /\ serves[Url] \in Archives
  /\ Writable = Parts[Url]
  /\ SetDir(Overlay(Parts[Url]))
  /\ NextBuildpack
  /\ UNCHANGED <<environment, config>>

SlipExtractFails ==
  /\ pc = "extract"
  /\ \/ /\ serves[Url] \notin Archives
        /\ Goto("shallowClone")
        /\ UNCHANGED <<i, dirs>>
     \/ /\ serves[Url] \in Archives
        /\ \E files \in SUBSET Writable : SetDir(Overlay(files))
        /\ NextBuildpack
  /\ UNCHANGED <<environment, config>>

\* It is no archive; or a file cannot be written after some others were; or
\* one is cut short.  Whatever the reason, the URL is then taken for a
\* repository (NotZipFileError).
ExtractFails ==
  /\ pc = "extract"
  /\ \/ /\ serves[Url] \notin Archives
        /\ Goto("shallowClone")
        /\ UNCHANGED dirs
     \/ /\ serves[Url] \in Archives
        /\ Writable # Parts[Url]
        /\ \E files \in SUBSET Writable : SetDir(Overlay(files))
        /\ Goto("shallowClone")
     \/ /\ serves[Url] \in Archives
        /\ \E files \in SUBSET Writable : \E cut \in Writable \ files :
             SetDir([Overlay(files) EXCEPT ![cut] = None])
        /\ Fault("shallowClone")
  /\ UNCHANGED <<environment, i, config>>

\* git clone: performGitClone into the buildpack's directory
Clone(label, kinds, otherwise) ==
  /\ pc = label
  /\ IF Dir = Empty /\ serves[Url] \in kinds
     THEN \/ SetDir(BuildpackOf(Url)) /\ NextBuildpack
          \/ /\ \E files \in SUBSET Parts[Url] : SetDir(Overlay(files))
             /\ Fault(otherwise)
             /\ UNCHANGED i
     ELSE Goto(otherwise) /\ UNCHANGED <<i, dirs>>
  /\ UNCHANGED <<environment, config>>

\* url.Parse or LookPath of git fails
CloneNotStarted ==
  /\ pc = "shallowClone"
  /\ Fault("failed")
  /\ UNCHANGED <<environment, i, dirs, config>>

ShallowClone == Clone("shallowClone", {"git"}, "removeAll")

SlipRemoveAll ==
  /\ pc = "removeAll"
  /\ Goto("fullClone")
  /\ UNCHANGED <<environment, i, dirs, config>>

\* An error of RemoveAll is ignored.
RemoveAll ==
  /\ pc = "removeAll"
  /\ \/ SetDir(Empty) /\ Goto("fullClone")
     \/ /\ \E files \in SUBSET Files :
             SetDir([f \in Files |-> IF f \in files THEN Dir[f] ELSE None])
        /\ Fault("fullClone")
  /\ UNCHANGED <<environment, i, config>>

FullClone == Clone("fullClone", {"git", "deepGit"}, "failed")

WriteConfig ==
  /\ pc = "writeConfig"
  /\ \/ config' = TRUE /\ Goto("ok")
     \/ Fault("failed") /\ UNCHANGED config
  /\ UNCHANGED <<environment, i, dirs>>

Returned == pc \in {"ok", "failed"}
Done == Returned /\ UNCHANGED vars

-----------------------------------------------------------------------------

Archive == \/ TempDir \/ OpenInternal \/ OpenDefault \/ MakeDir
           \/ Extract \/ ExtractFails
GitClone == CloneNotStarted \/ ShallowClone \/ RemoveAll \/ FullClone

Next == Unmarshal \/ Archive \/ GitClone \/ WriteConfig \/ Done

\* Install is one thread; servers answer and git exits.
Spec == Init /\ [][Next]_vars /\ WF_vars(Next)

-----------------------------------------------------------------------------
(* Properties *)

LoopLabels == {"tempDir", "openInternal", "openDefault", "makeDir", "extract",
               "shallowClone", "removeAll", "fullClone"}
Labels == LoopLabels \union {"unmarshal", "writeConfig", "ok", "failed"}

\* Every variable has its type, and the loop is never past its list.
TypeOK ==
  /\ order \in Seq(Buildpacks)
  /\ Len(order) <= MaxBuildpacks
  /\ parses \in BOOLEAN
  /\ serves \in [Urls -> Kinds]
  /\ clients \in [Urls -> SUBSET Clients]
  /\ pc \in Labels
  /\ i \in 1 .. Len(order) + 1
  /\ pc \in LoopLabels => i \in DOMAIN order
  /\ dirs \in [Names -> Directories]
  /\ config \in BOOLEAN
  /\ faulty \in BOOLEAN

\* Install fails only for a reason: the list is not JSON, some URL cannot be
\* got by either client or has no buildpack, an archive with read-only files
\* has another buildpack of its name after it, or something broke.  A
\* buildpack that is in the list twice is no reason otherwise, nor is a
\* server that cannot do --depth.
FailsForAReason ==
  pc = "failed" =>
    \/ faulty
    \/ ~parses
    \/ \E b \in DOMAIN order :
         clients[order[b].url] = {} \/ serves[order[b].url] = "other"
    \/ \E b, c \in DOMAIN order :
         /\ b < c
         /\ order[b].name = order[c].name
         /\ serves[order[b].url] = "readOnlyZip"

\* What there must be for a buildpack: the last one of its name has all its
\* files, and if there is no other URL for the name it has nothing else.
Installed(b) ==
  LET dir == dirs[order[b].name]
      sharers == {c \in DOMAIN order : order[c].name = order[b].name}
  IN /\ (\A c \in sharers : c <= b) => \A f \in Parts[order[b].url] : dir[f] = order[b].url
     /\ (\A c \in sharers : order[c].url = order[b].url) => dir = BuildpackOf(order[b].url)

\* What Install promises to the downloader: without an error every buildpack
\* of the list is installed and config.json is there.
Promise == INSTANCE Installer WITH
  result <- IF Returned THEN pc ELSE "running",
  whole <- config /\ \A b \in DOMAIN order : Installed(b)

\* Each step is a step of Installer or invisible to it, and Install returns.
ImplementsInstaller == Promise!Spec

\* "should download all buildpacks to the given directory"
\* (buildpackmanager_test.go): without an error each buildpack of the list is
\* what its directory holds, those with the name "custom" too.
AllDownloaded ==
  pc = "ok" => \A b \in DOMAIN order :
                 dirs[order[b].name] = BuildpackOf(order[b].url)
=============================================================================
