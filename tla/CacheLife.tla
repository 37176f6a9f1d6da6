------------------------------- MODULE CacheLife ------------------------------
(***************************************************************************)
(* The buildpack cache of an application from one staging to the next: the *)
(* downloader fetches the archive and unpacks it into an empty directory   *)
(* (cmd/downloader), the build removes what it does not need, lets the     *)
(* buildpacks use the rest and archives it (builder/runner.go), and the    *)
(* uploader stores the archive after the droplet (cmd/uploader).           *)
(*                                                                         *)
(* External: stagings of an application follow one another, each in        *)
(* containers of its own; Cloud Controller gives a staging the archive     *)
(* stored last, with its checksum, or none.                                *)
(***************************************************************************)
EXTENDS Integers

CONSTANTS
  SupplyDirs,  \* cache directories of supply buildpacks
  MaxStagings, \* bound on the number of stagings
  None         \* no archive

ASSUME CacheLifeAssumption ==
  /\ MaxStagings \in Nat \ {0}
  /\ SupplyDirs \intersect {"final", "app.zip"} = {}

VARIABLES
  n,         \* number of the staging
  needed,    \* needed[m]: the cache directories of the build of staging m
  download,  \* staging n is given the stored archive
  pc,        \* the step that comes next
  cacheDir,  \* the entries of the cache directory and who last wrote each
  cacheTgz,  \* the archive the executor has made
  stored,    \* the archive in the blobstore
  storedBy,  \* the stagings whose archive has been there
  droplets   \* the stagings whose droplet is in the blobstore

vars == <<n, needed, download, pc, cacheDir, cacheTgz, stored, storedBy, droplets>>
blobstore == <<stored, storedBy, droplets>>
staging == <<n, needed, download>>

-----------------------------------------------------------------------------

Stagings == 1 .. MaxStagings
Directories == SupplyDirs \union {"final"}
Entries == Directories \union {"app.zip"}

\* The files below an entry are the staging that last wrote them, 0 for none.
Caches(entries) == UNION {[E -> 0 .. MaxStagings] : E \in SUBSET entries}

\* An archive that is not there is none.
ASSUME AbsentAssumption == None \notin Caches(Entries)

Empty == [e \in {} |-> 0]
With(cache, E, m) == [e \in DOMAIN cache \union E |-> IF e \in E THEN m ELSE cache[e]]
Only(cache, E) == [e \in DOMAIN cache \intersect E |-> cache[e]]

Needed == needed[n]

\* supply buildpacks may be any of them, in one list or another
Needs == {{"final"} \union E : E \in SUBSET SupplyDirs}

Init ==
  /\ n = 1
  /\ \E E \in Needs : needed = [m \in Stagings |-> IF m = 1 THEN E ELSE {}]
  /\ download = FALSE
  /\ pc = "download"
  /\ cacheDir = Empty
  /\ cacheTgz = None
  /\ stored = None
  /\ storedBy = {}
  /\ droplets = {}

Goto(label) == pc' = label

\* The next staging of the application
NextStaging ==
  /\ pc = "ended"
  /\ n < MaxStagings
  /\ n' = n + 1
  /\ \E E \in Needs : needed' = [needed EXCEPT ![n + 1] = E]
  /\ download' \in {FALSE, stored # None}
  /\ Goto("download")
  /\ cacheDir' = Empty
  /\ cacheTgz' = None
  /\ UNCHANGED blobstore

\* A staging that fails anywhere is over.
Fail ==
  /\ pc # "ended"
  /\ Goto("ended")
  /\ UNCHANGED <<staging, cacheDir, cacheTgz, blobstore>>

\* PackageInstaller.Install of the cache, through the VerifyingReader
DownloadCache ==
  /\ pc = "download"
  /\ IF download
     THEN cacheDir' = With(cacheDir, {"app.zip"}, 0) /\ Goto("untar")
     ELSE Goto("makeDirectories") /\ UNCHANGED cacheDir
  /\ UNCHANGED <<staging, cacheTgz, blobstore>>

Unpacked(E) == [e \in DOMAIN cacheDir \union E |-> IF e \in E THEN stored[e] ELSE cacheDir[e]]

\* Slips: every operator named Slip... is the definition after it with one
\* mistake in it, and a property stated below tells the two apart.
SlipUntarCache ==
  /\ pc = "untar"
  /\ \E E \in SUBSET DOMAIN stored :
       cacheDir' = Unpacked(E) /\ Goto("makeDirectories")
  /\ UNCHANGED <<staging, cacheTgz, blobstore>>

\* untarCache; the archive stays where it is.  An error is fatal.
UntarCache ==
  /\ pc = "untar"
  /\ \E E \in SUBSET DOMAIN stored :
       /\ cacheDir' = Unpacked(E)
       /\ IF E = DOMAIN stored THEN Goto("makeDirectories") ELSE Goto("ended")
  /\ UNCHANGED <<staging, cacheTgz, blobstore>>

MakeDirectories ==
  /\ pc = "makeDirectories"
  /\ cacheDir' = With(cacheDir, Needed \ DOMAIN cacheDir, 0)
  /\ Goto("cleanCacheDir")
  /\ UNCHANGED <<staging, cacheTgz, blobstore>>

SlipCleanCacheDir ==
  /\ pc = "cleanCacheDir"
  /\ cacheDir' = Only(cacheDir, Directories)
  /\ Goto("scripts")
  /\ UNCHANGED <<staging, cacheTgz, blobstore>>

SlipCleanCacheDirKeepsFiles ==
  /\ pc = "cleanCacheDir"
  /\ cacheDir' = Only(cacheDir, Needed \union {"app.zip"})
  /\ Goto("scripts")
  /\ UNCHANGED <<staging, cacheTgz, blobstore>>

CleanCacheDir ==
  /\ pc = "cleanCacheDir"
  /\ cacheDir' = Only(cacheDir, Needed)
  /\ Goto("scripts")
  /\ UNCHANGED <<staging, cacheTgz, blobstore>>

\* The scripts of the build write to the cache directory they are given.
RunScripts ==
  /\ pc = "scripts"
  /\ \E E \in SUBSET Needed : cacheDir' = With(cacheDir, E, n)
  /\ Goto("createCache")
  /\ UNCHANGED <<staging, cacheTgz, blobstore>>

CreateCache ==
  /\ pc = "createCache"
  /\ cacheTgz' = cacheDir
  /\ Goto("uploadDroplet")
  /\ UNCHANGED <<staging, cacheDir, blobstore>>

SlipUploadDroplet ==
  /\ pc = "uploadDroplet"
  /\ droplets' \in {droplets, droplets \union {n}}
  /\ Goto("uploadCache")
  /\ UNCHANGED <<staging, cacheDir, cacheTgz, stored, storedBy>>

\* The droplet may be stored even if its upload fails.
UploadDroplet ==
  /\ pc = "uploadDroplet"
  /\ droplets' = droplets \union {n}
  /\ Goto("uploadCache") \/ Goto("ended")
  /\ UNCHANGED <<staging, cacheDir, cacheTgz, stored, storedBy>>

\* A failed upload may have stored the archive; without a URL for it nothing
\* is stored, which is like Fail here.
UploadCache ==
  /\ pc = "uploadCache"
  /\ stored' = cacheTgz
  /\ storedBy' = storedBy \union {n}
  /\ Goto("ended")
  /\ UNCHANGED <<staging, cacheDir, cacheTgz, droplets>>

Done == pc = "ended" /\ n = MaxStagings /\ UNCHANGED vars

-----------------------------------------------------------------------------

Fetch == DownloadCache \/ UntarCache
UseCache == MakeDirectories \/ CleanCacheDir \/ RunScripts \/ CreateCache
Store == UploadDroplet \/ UploadCache

Next == NextStaging \/ Fail \/ Fetch \/ UseCache \/ Store \/ Done

Spec == Init /\ [][Next]_vars

-----------------------------------------------------------------------------
(* Properties *)

\* Every variable has its type; the archive has directories only, never the
\* app.zip that it was unpacked from.
TypeOK ==
  /\ n \in Stagings
  /\ needed \in [Stagings -> SUBSET Directories]
  /\ download \in BOOLEAN
  /\ pc \in {"download", "untar", "makeDirectories", "cleanCacheDir", "scripts",
             "createCache", "uploadDroplet", "uploadCache", "ended"}
  /\ cacheDir \in Caches(Entries)
  /\ cacheTgz \in Caches(Directories) \union {None}
  /\ stored \in Caches(Directories) \union {None}
  /\ storedBy \subseteq 1 .. n
  /\ droplets \subseteq 1 .. n

\* What a buildpack cached is gone once a staging without it has stored its
\* cache: it does not come back with a later archive, in which the same
\* directory would hold files of long ago.
ForgottenStaysForgotten ==
  stored # None =>
    \A e \in DOMAIN stored : \A m \in storedBy :
      stored[e] # 0 /\ m >= stored[e] => e \in needed[m]

\* The scripts get what the last stored archive has for their buildpack, all
\* of it, and nothing that is not in it.
CachePassedOn ==
  pc = "scripts" =>
    \A e \in Needed :
      cacheDir[e] = IF download /\ e \in DOMAIN stored THEN stored[e] ELSE 0

\* A cache is stored only for a build whose droplet is stored: the next
\* staging never starts from the cache of a build that did not get that far.
StoredWithDroplet == storedBy \subseteq droplets
=============================================================================
