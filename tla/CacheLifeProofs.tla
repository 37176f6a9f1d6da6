--------------------------- MODULE CacheLifeProofs ---------------------------
(***************************************************************************)
(* Theorems about CacheLife, for every number of stagings and every set of *)
(* supply buildpacks.                                                      *)
(***************************************************************************)
EXTENDS CacheLife, TLAPS

-----------------------------------------------------------------------------
(* Caches *)

\* A cache is a function on some of the entries.
LEMMA CacheElements ==
  ASSUME NEW S, NEW cache \in Caches(S)
  PROVE  DOMAIN cache \in SUBSET S /\ cache \in [DOMAIN cache -> 0 .. MaxStagings]
BY DEF Caches

\* Every such function is one.
LEMMA CacheIntro ==
  ASSUME NEW S, NEW E \in SUBSET S, NEW cache \in [E -> 0 .. MaxStagings]
  PROVE  cache \in Caches(S)
BY DEF Caches

\* What With gives for each entry.
LEMMA WithType ==
  ASSUME NEW cache \in Caches(Entries), NEW E \in SUBSET Entries, NEW m \in 0 .. MaxStagings
  PROVE  /\ With(cache, E, m) \in Caches(Entries)
         /\ DOMAIN With(cache, E, m) = DOMAIN cache \union E
         /\ \A e \in DOMAIN cache \union E :
              With(cache, E, m)[e] = IF e \in E THEN m ELSE cache[e]
<1>1. DOMAIN cache \in SUBSET Entries /\ cache \in [DOMAIN cache -> 0 .. MaxStagings]
  BY CacheElements
<1>2. With(cache, E, m) \in [DOMAIN cache \union E -> 0 .. MaxStagings]
  BY <1>1 DEF With
<1>3. With(cache, E, m) \in Caches(Entries)
  BY <1>1, <1>2, CacheIntro
<1> QED
  BY <1>3 DEF With

\* What Only gives for each entry.
LEMMA OnlyType ==
  ASSUME NEW S, NEW cache \in Caches(S), NEW E
  PROVE  /\ Only(cache, E) \in Caches(S \intersect E)
         /\ DOMAIN Only(cache, E) = DOMAIN cache \intersect E
         /\ \A e \in DOMAIN cache \intersect E : Only(cache, E)[e] = cache[e]
<1>1. DOMAIN cache \in SUBSET S /\ cache \in [DOMAIN cache -> 0 .. MaxStagings]
  BY CacheElements
<1>2. Only(cache, E) \in [DOMAIN cache \intersect E -> 0 .. MaxStagings]
  BY <1>1 DEF Only
<1>3. Only(cache, E) \in Caches(S \intersect E)
  BY <1>1, <1>2, CacheIntro
<1> QED
  BY <1>3 DEF Only

\* The entries are those of cacheDir and the unpacked ones of the archive.
LEMMA UnpackedType ==
  ASSUME cacheDir \in Caches(Entries), stored \in Caches(Directories),
         NEW E \in SUBSET DOMAIN stored
  PROVE  /\ Unpacked(E) \in Caches(Entries)
         /\ DOMAIN Unpacked(E) = DOMAIN cacheDir \union E
         /\ \A e \in DOMAIN cacheDir \union E :
              Unpacked(E)[e] = IF e \in E THEN stored[e] ELSE cacheDir[e]
<1>1. /\ DOMAIN cacheDir \in SUBSET Entries
      /\ cacheDir \in [DOMAIN cacheDir -> 0 .. MaxStagings]
  BY CacheElements
<1>2. /\ DOMAIN stored \in SUBSET Directories
      /\ stored \in [DOMAIN stored -> 0 .. MaxStagings]
  BY CacheElements
<1>3. Unpacked(E) \in [DOMAIN cacheDir \union E -> 0 .. MaxStagings]
  BY <1>1, <1>2 DEF Unpacked
<1>4. DOMAIN cacheDir \union E \in SUBSET Entries
  BY <1>1, <1>2 DEF Entries
<1>5. Unpacked(E) \in Caches(Entries)
  BY <1>3, <1>4, CacheIntro
<1> QED
  BY <1>5 DEF Unpacked

-----------------------------------------------------------------------------
(* The inductive invariant *)

Uploading == {"uploadDroplet", "uploadCache"}

\* What the scripts are to find for an entry.
Passed(e) == IF download /\ e \in DOMAIN stored THEN stored[e] ELSE 0

\* What the cache directory holds at each label.
DirInv ==
  /\ pc = "download" => cacheDir = Empty
  /\ pc = "untar" => download /\ DOMAIN cacheDir = {"app.zip"}
  /\ pc = "makeDirectories" =>
       \A e \in Directories :
         /\ e \in DOMAIN cacheDir <=> download /\ e \in DOMAIN stored
         /\ e \in DOMAIN cacheDir => cacheDir[e] = stored[e]
  /\ pc = "cleanCacheDir" =>
       \A e \in Needed : e \in DOMAIN cacheDir /\ cacheDir[e] = Passed(e)
  /\ pc \in {"scripts", "createCache"} => DOMAIN cacheDir = Needed
  /\ CachePassedOn
  /\ pc \in Uploading => cacheTgz # None /\ DOMAIN cacheTgz = Needed

\* Which archives are in the blobstore.
StoreInv ==
  /\ Needed \subseteq Directories
  /\ download => stored # None
  /\ pc # "ended" => n \notin storedBy
  /\ pc = "uploadCache" => n \in droplets
  /\ StoredWithDroplet

\* Since an entry was written every stored archive is of a staging that
\* needed it.
NeverForgotten(cache) ==
  \A e \in DOMAIN cache : \A m \in storedBy :
    cache[e] # 0 /\ m >= cache[e] => e \in needed[m]

\* The entries of the build go into the next archive.
ForgetInv ==
  /\ stored # None => NeverForgotten(stored)
  /\ pc \in {"scripts", "createCache"} => NeverForgotten(cacheDir)
  /\ pc \in Uploading => NeverForgotten(cacheTgz)

CacheInv == TypeOK /\ DirInv /\ StoreInv /\ ForgetInv

\* At first nothing is stored and the directory is empty.
LEMMA CacheInit ==
  ASSUME Init
  PROVE  CacheInv
<1>1. Empty \in Caches(Entries)
  <2>1. Empty \in [{} -> 0 .. MaxStagings]
    BY DEF Empty
  <2> QED
    BY <2>1, CacheIntro
<1>2. PICK E \in Needs : needed = [m \in Stagings |-> IF m = 1 THEN E ELSE {}]
  BY DEF Init
<1>3. E \subseteq Directories /\ 1 \in Stagings
  BY CacheLifeAssumption DEF Needs, Directories, Stagings
<1>4. needed \in [Stagings -> SUBSET Directories]
  BY <1>2, <1>3
<1>5. TypeOK
  BY <1>1, <1>3, <1>4 DEF Init, TypeOK
<1>6. DirInv /\ StoreInv /\ ForgetInv
  BY <1>3, <1>4
  DEF Init, DirInv, CachePassedOn, Uploading, StoreInv, StoredWithDroplet, Needed, ForgetInv
<1> QED
  BY <1>5, <1>6 DEF CacheInv

\* What every step preserves that leaves the staging alone.
LEMMA Unmoved ==
  ASSUME CacheInv
  PROVE  /\ n \in Nat /\ n \in Stagings /\ n \in 0 .. MaxStagings
         /\ Needed \subseteq Directories /\ Directories \subseteq Entries
         /\ "app.zip" \notin Directories /\ "app.zip" \in Entries
         /\ stored # None => stored \in Caches(Directories)
         /\ download => stored \in Caches(Directories)
BY CacheLifeAssumption DEF CacheInv, TypeOK, StoreInv, Stagings, Directories, Entries

\* The next staging starts with an empty directory, and has stored nothing.
LEMMA NextStagingStep ==
  ASSUME CacheInv, NextStaging
  PROVE  CacheInv'
<1> USE DEF NextStaging, Goto, blobstore
<1>1. n \in Nat /\ MaxStagings \in Nat /\ n' = n + 1 /\ n' \in Stagings
  BY CacheLifeAssumption DEF CacheInv, TypeOK, Stagings
<1>2. PICK E \in Needs : needed' = [needed EXCEPT ![n + 1] = E]
  OBVIOUS
<1>3. E \subseteq Directories
  BY <1>2 DEF Needs, Directories
<1>4. /\ needed' \in [Stagings -> SUBSET Directories]
      /\ \A m \in 1 .. n : needed'[m] = needed[m]
      /\ Needed' = E
  BY <1>1, <1>2, <1>3 DEF CacheInv, TypeOK, Stagings, Needed
<1>5. Empty \in Caches(Entries)
  <2>1. Empty \in [{} -> 0 .. MaxStagings]
    BY DEF Empty
  <2> QED
    BY <2>1, CacheIntro
<1>6. storedBy \subseteq 1 .. n /\ droplets \subseteq 1 .. n
  BY DEF CacheInv, TypeOK
<1>7. TypeOK'
  <2>1. storedBy' \subseteq 1 .. n' /\ droplets' \subseteq 1 .. n'
    BY <1>1, <1>6
  <2>2. stored' \in Caches(Directories) \union {None}
    BY DEF CacheInv, TypeOK
  <2> QED
    BY <1>1, <1>4, <1>5, <2>1, <2>2 DEF TypeOK
<1>8. DirInv'
  BY DEF DirInv, CachePassedOn, Uploading
<1>9. StoreInv'
  <2>1. n' \notin storedBy'
    BY <1>1, <1>6
  <2>2. download' => stored # None
    BY Zenon
  <2>3. pc' = "download" /\ stored' = stored /\ storedBy' \subseteq droplets'
    BY DEF CacheInv, StoreInv, StoredWithDroplet
  <2> QED
    BY <1>3, <1>4, <2>1, <2>2, <2>3 DEF StoreInv, StoredWithDroplet
<1>10. ForgetInv'
  BY <1>4, <1>6 DEF CacheInv, ForgetInv, NeverForgotten, Uploading
<1> QED
  BY <1>7, <1>8, <1>9, <1>10 DEF CacheInv

\* The steps of the downloader.
LEMMA FetchStep ==
  ASSUME CacheInv, Fetch
  PROVE  CacheInv'
<1> USE Unmoved
<1>0. /\ UNCHANGED <<staging, cacheTgz, blobstore>>
      /\ pc' \in {"untar", "makeDirectories", "ended"} /\ pc \in {"download", "untar"}
  BY DEF Fetch, DownloadCache, UntarCache, Goto
<1>1. ASSUME cacheDir' \in Caches(Entries), DirInv' PROVE CacheInv'
  <2>1. TypeOK'
    BY <1>0, <1>1 DEF CacheInv, TypeOK, staging, blobstore
  <2>2. StoreInv'
    BY <1>0 DEF CacheInv, StoreInv, StoredWithDroplet, Needed, staging, blobstore
  <2>3. ForgetInv'
    BY <1>0 DEF CacheInv, ForgetInv, NeverForgotten, Uploading, staging, blobstore
  <2> QED
    BY <1>1, <2>1, <2>2, <2>3 DEF CacheInv
<1>2. CASE DownloadCache /\ download
  <2>1. /\ cacheDir' = With(cacheDir, {"app.zip"}, 0) /\ pc' = "untar" /\ cacheDir = Empty
        /\ cacheDir \in Caches(Entries) /\ 0 \in 0 .. MaxStagings
    BY <1>2, CacheLifeAssumption DEF DownloadCache, Goto, CacheInv, DirInv, TypeOK
  <2>2. cacheDir' \in Caches(Entries) /\ DOMAIN cacheDir' = DOMAIN cacheDir \union {"app.zip"}
    <3>1. {"app.zip"} \in SUBSET Entries
      BY DEF Entries
    <3>2. /\ With(cacheDir, {"app.zip"}, 0) \in Caches(Entries)
          /\ DOMAIN With(cacheDir, {"app.zip"}, 0) = DOMAIN cacheDir \union {"app.zip"}
      BY <2>1, <3>1, WithType
    <3> QED
      BY <2>1, <3>2
  <2>3. DOMAIN cacheDir = {}
    BY <2>1 DEF Empty
  <2>4. DirInv'
    BY <1>0, <1>2, <2>1, <2>2, <2>3 DEF DirInv, CachePassedOn, Uploading, staging
  <2> QED
    BY <1>1, <2>2, <2>4
<1>3. CASE DownloadCache /\ ~download
  <2>1. pc' = "makeDirectories" /\ cacheDir' = Empty /\ cacheDir' \in Caches(Entries)
    BY <1>3 DEF DownloadCache, Goto, CacheInv, DirInv, TypeOK
  <2>2. DOMAIN cacheDir' = {}
    BY <2>1 DEF Empty
  <2>3. DirInv'
    BY <1>0, <1>3, <2>1, <2>2 DEF DirInv, CachePassedOn, Uploading, staging
  <2> QED
    BY <1>1, <2>1, <2>3
<1>4. CASE UntarCache
  <2>1. PICK E \in SUBSET DOMAIN stored :
          /\ cacheDir' = Unpacked(E)
          /\ pc' = IF E = DOMAIN stored THEN "makeDirectories" ELSE "ended"
    BY <1>4 DEF UntarCache, Goto
  <2>2. /\ download /\ DOMAIN cacheDir = {"app.zip"} /\ cacheDir \in Caches(Entries)
        /\ stored \in Caches(Directories)
    BY <1>4 DEF UntarCache, CacheInv, DirInv, TypeOK
  <2>3. /\ cacheDir' \in Caches(Entries)
        /\ DOMAIN cacheDir' = DOMAIN cacheDir \union E
        /\ \A e \in E : cacheDir'[e] = stored[e]
    BY <2>1, <2>2, UnpackedType
  <2>4. CASE pc' = "ended"
    BY <1>1, <2>3, <2>4 DEF DirInv, CachePassedOn, Uploading
  <2>5. CASE E = DOMAIN stored
    <3>1. DirInv'
      BY <1>0, <2>1, <2>2, <2>3, <2>5
      DEF DirInv, CachePassedOn, Uploading, staging, blobstore
    <3> QED
      BY <1>1, <2>3, <3>1
  <2> QED
    BY <2>1, <2>4, <2>5
<1> QED
  BY <1>2, <1>3, <1>4 DEF Fetch

\* The steps of the build.
LEMMA UseStep ==
  ASSUME CacheInv, UseCache
  PROVE  CacheInv'
<1> USE Unmoved
<1>0. /\ UNCHANGED <<staging, blobstore>> /\ Needed' = Needed
      /\ pc \in {"makeDirectories", "cleanCacheDir", "scripts", "createCache"}
      /\ pc' \in {"cleanCacheDir", "scripts", "createCache", "uploadDroplet"}
      /\ cacheDir \in Caches(Entries) /\ Needed \in SUBSET Entries
  BY DEF UseCache, MakeDirectories, CleanCacheDir, RunScripts, CreateCache, Goto, Needed,
    staging, CacheInv, TypeOK
<1>1. StoreInv'
  BY <1>0 DEF CacheInv, StoreInv, StoredWithDroplet, staging, blobstore
<1>2. ASSUME cacheDir' \in Caches(Entries), UNCHANGED cacheTgz PROVE TypeOK'
  BY <1>0, <1>2 DEF CacheInv, TypeOK, staging, blobstore
<1>3. /\ stored' = stored /\ storedBy' = storedBy /\ needed' = needed
      /\ \A e : Passed(e)' = Passed(e)
  BY <1>0 DEF blobstore, staging, Passed
<1>4. n \notin storedBy /\ storedBy \subseteq 1 .. n
  BY <1>0 DEF CacheInv, StoreInv, TypeOK
<1>5. CASE MakeDirectories
  <2> DEFINE E == Needed \ DOMAIN cacheDir
  <2>1. cacheDir' = With(cacheDir, E, 0) /\ E \in SUBSET Entries /\ 0 \in 0 .. MaxStagings
    BY <1>0, <1>5, CacheLifeAssumption DEF MakeDirectories
  <2> HIDE DEF E
  <2>2. /\ cacheDir' \in Caches(Entries)
        /\ DOMAIN cacheDir' = DOMAIN cacheDir \union E
        /\ \A e \in DOMAIN cacheDir \union E :
             cacheDir'[e] = IF e \in E THEN 0 ELSE cacheDir[e]
    <3>1. /\ With(cacheDir, E, 0) \in Caches(Entries)
          /\ DOMAIN With(cacheDir, E, 0) = DOMAIN cacheDir \union E
          /\ \A e \in DOMAIN cacheDir \union E :
               With(cacheDir, E, 0)[e] = IF e \in E THEN 0 ELSE cacheDir[e]
      BY <1>0, <2>1, WithType
    <3> QED
      BY <2>1, <3>1
  <2>3. \A e \in Needed : e \in DOMAIN cacheDir' /\ cacheDir'[e] = Passed(e)
    BY <1>5, <2>2 DEF E, MakeDirectories, Passed, CacheInv, DirInv
  <2>4. DirInv' /\ ForgetInv'
    BY <1>0, <1>3, <1>5, <2>3
    DEF MakeDirectories, Goto, DirInv, ForgetInv, NeverForgotten, CachePassedOn, Uploading, CacheInv
  <2> QED
    BY <1>1, <1>2, <1>5, <2>2, <2>4 DEF MakeDirectories, CacheInv
<1>6. CASE CleanCacheDir
  <2>1. /\ cacheDir' = Only(cacheDir, Needed) /\ pc = "cleanCacheDir" /\ pc' = "scripts"
        /\ UNCHANGED cacheTgz
    BY <1>6 DEF CleanCacheDir, Goto
  <2>2. /\ cacheDir' \in Caches(Entries \intersect Needed)
        /\ DOMAIN cacheDir' = DOMAIN cacheDir \intersect Needed
        /\ \A e \in DOMAIN cacheDir \intersect Needed : cacheDir'[e] = cacheDir[e]
    BY <1>0, <2>1, OnlyType
  <2>3. cacheDir' \in Caches(Entries)
    BY <2>2 DEF Caches
  <2>4. DOMAIN cacheDir' = Needed /\ \A e \in Needed : cacheDir'[e] = Passed(e)
    BY <2>1, <2>2 DEF CacheInv, DirInv
  <2>5. CachePassedOn'
    BY <1>0, <1>3, <2>4 DEF CachePassedOn, Passed
  <2>6. DirInv'
    BY <1>0, <2>1, <2>4, <2>5 DEF DirInv, Uploading
  <2>7. NeverForgotten(cacheDir)'
    <3> SUFFICES ASSUME NEW e \in Needed, NEW m \in storedBy,
                        Passed(e) # 0, m >= Passed(e)
                 PROVE  e \in needed[m]
      BY <1>3, <2>4 DEF NeverForgotten
    <3>1. e \in DOMAIN stored /\ stored # None /\ Passed(e) = stored[e]
      BY DEF Passed, CacheInv, StoreInv
    <3> QED
      BY <3>1 DEF CacheInv, ForgetInv, NeverForgotten
  <2>8. ForgetInv'
    BY <1>3, <2>1, <2>7 DEF CacheInv, ForgetInv, NeverForgotten, Uploading
  <2> QED
    BY <1>1, <1>2, <2>1, <2>3, <2>6, <2>8 DEF CacheInv
<1>7. CASE RunScripts
  <2>1. PICK E \in SUBSET Needed : cacheDir' = With(cacheDir, E, n)
    BY <1>7 DEF RunScripts
  <2>2. /\ pc = "scripts" /\ pc' = "createCache" /\ UNCHANGED cacheTgz
        /\ DOMAIN cacheDir = Needed /\ E \in SUBSET Entries
    BY <1>0, <1>7 DEF RunScripts, Goto, CacheInv, DirInv
  <2>3. /\ cacheDir' \in Caches(Entries)
        /\ DOMAIN cacheDir' = DOMAIN cacheDir \union E
        /\ \A e \in DOMAIN cacheDir \union E :
             cacheDir'[e] = IF e \in E THEN n ELSE cacheDir[e]
    <3>1. /\ With(cacheDir, E, n) \in Caches(Entries)
          /\ DOMAIN With(cacheDir, E, n) = DOMAIN cacheDir \union E
          /\ \A e \in DOMAIN cacheDir \union E :
               With(cacheDir, E, n)[e] = IF e \in E THEN n ELSE cacheDir[e]
      BY <1>0, <2>1, <2>2, WithType
    <3> QED
      BY <2>1, <3>1
  <2>4. DOMAIN cacheDir' = Needed
    BY <2>2, <2>3
  <2>5. DirInv'
    BY <1>0, <2>2, <2>4 DEF DirInv, CachePassedOn, Uploading
  <2>6. NeverForgotten(cacheDir)'
    <3> SUFFICES ASSUME NEW e \in Needed, NEW m \in storedBy,
                        cacheDir'[e] # 0, m >= cacheDir'[e]
                 PROVE  e \in needed[m]
      BY <1>3, <2>4 DEF NeverForgotten
    <3>1. ~(m >= n)
      BY <1>4
    <3>2. cacheDir'[e] = cacheDir[e]
      BY <2>2, <2>3, <3>1
    <3> QED
      BY <2>2, <3>2 DEF CacheInv, ForgetInv, NeverForgotten
  <2>7. ForgetInv'
    BY <1>3, <2>2, <2>6 DEF CacheInv, ForgetInv, NeverForgotten, Uploading
  <2> QED
    BY <1>1, <1>2, <2>2, <2>3, <2>5, <2>7 DEF CacheInv
<1>8. CASE CreateCache
  <2>1. /\ pc = "createCache" /\ pc' = "uploadDroplet" /\ cacheTgz' = cacheDir
        /\ UNCHANGED cacheDir /\ DOMAIN cacheDir = Needed
    BY <1>8 DEF CreateCache, Goto, CacheInv, DirInv
  <2>2. cacheDir \in Caches(Directories) /\ cacheDir # None
    BY <1>0, <2>1, CacheElements, CacheIntro, AbsentAssumption
  <2>3. TypeOK'
    BY <1>0, <2>1, <2>2 DEF CacheInv, TypeOK, staging, blobstore
  <2>4. DirInv'
    BY <1>0, <2>1, <2>2 DEF DirInv, CachePassedOn, Uploading
  <2>5. ForgetInv'
    BY <1>3, <2>1 DEF CacheInv, ForgetInv, NeverForgotten, Uploading
  <2> QED
    BY <1>1, <2>3, <2>4, <2>5 DEF CacheInv
<1> QED
  BY <1>5, <1>6, <1>7, <1>8 DEF UseCache

\* The steps of the uploader.
LEMMA StoreStep ==
  ASSUME CacheInv, Store
  PROVE  CacheInv'
<1> USE Unmoved
<1>0. /\ UNCHANGED <<staging, cacheDir, cacheTgz>> /\ Needed' = Needed
      /\ pc \in Uploading /\ pc' \in {"uploadCache", "ended"}
      /\ cacheTgz # None /\ DOMAIN cacheTgz = Needed /\ cacheTgz \in Caches(Directories)
      /\ n \in 1 .. n
  <2>1. UNCHANGED <<staging, cacheDir, cacheTgz>> /\ Needed' = Needed
    BY DEF Store, UploadDroplet, UploadCache, Needed, staging
  <2>2. pc \in Uploading /\ pc' \in {"uploadCache", "ended"}
    BY DEF Store, UploadDroplet, UploadCache, Goto, Uploading
  <2>3. cacheTgz # None /\ DOMAIN cacheTgz = Needed /\ cacheTgz \in Caches(Directories)
    BY <2>2 DEF CacheInv, TypeOK, DirInv
  <2>4. n \in 1 .. n
    BY DEF Stagings
  <2> QED
    BY <2>1, <2>2, <2>3, <2>4
<1>1. DirInv'
  BY <1>0 DEF CacheInv, DirInv, CachePassedOn, Uploading
<1>2. CASE UploadDroplet
  <2>1. droplets' = droplets \union {n} /\ UNCHANGED <<stored, storedBy>>
    BY <1>2 DEF UploadDroplet
  <2>2. TypeOK'
    BY <1>0, <2>1 DEF CacheInv, TypeOK, staging
  <2>3. StoreInv'
    BY <1>0, <2>1 DEF CacheInv, StoreInv, StoredWithDroplet, staging, Uploading
  <2>4. ForgetInv'
    BY <1>0, <2>1 DEF CacheInv, ForgetInv, NeverForgotten, Uploading, staging
  <2> QED
    BY <1>1, <2>2, <2>3, <2>4 DEF CacheInv
<1>3. CASE UploadCache
  <2>1. /\ stored' = cacheTgz /\ storedBy' = storedBy \union {n} /\ UNCHANGED droplets
        /\ pc = "uploadCache" /\ pc' = "ended"
    BY <1>3 DEF UploadCache, Goto
  <2>2. TypeOK'
    BY <1>0, <2>1 DEF CacheInv, TypeOK, staging
  <2>3. StoreInv'
    BY <1>0, <2>1 DEF CacheInv, StoreInv, StoredWithDroplet, staging
  <2>4. NeverForgotten(stored)'
    BY <1>0, <2>1 DEF CacheInv, ForgetInv, NeverForgotten, Uploading, staging, Needed
  <2>5. ForgetInv'
    BY <2>1, <2>4 DEF ForgetInv, Uploading
  <2> QED
    BY <1>1, <2>2, <2>3, <2>5 DEF CacheInv
<1> QED
  BY <1>2, <1>3 DEF Store

\* CacheInv is inductive.
LEMMA CacheStep ==
  ASSUME CacheInv, [Next]_vars
  PROVE  CacheInv'
<1>1. CASE Fail
  <2>1. UNCHANGED <<staging, cacheDir, cacheTgz, blobstore>> /\ pc' = "ended"
    BY <1>1 DEF Fail, Goto
  <2>2. TypeOK' /\ DirInv'
    BY <2>1 DEF CacheInv, TypeOK, DirInv, CachePassedOn, Uploading, staging, blobstore
  <2>3. StoreInv' /\ ForgetInv'
    BY <2>1 DEF CacheInv, StoreInv, StoredWithDroplet, ForgetInv, NeverForgotten, Uploading,
      Needed, staging, blobstore
  <2> QED
    BY <2>2, <2>3 DEF CacheInv
<1>2. CASE Done \/ UNCHANGED vars
  <2>1. UNCHANGED vars
    BY <1>2 DEF Done
  <2>2. TypeOK' /\ StoreInv'
    BY <2>1 DEF vars, CacheInv, TypeOK, StoreInv, StoredWithDroplet, Needed
  <2>3. DirInv'
    <3>1. Needed' = Needed /\ (\A e : Passed(e)' = Passed(e)) /\ CachePassedOn' = CachePassedOn
      BY <2>1 DEF vars, Needed, Passed, CachePassedOn
    <3> QED
      BY <2>1, <3>1 DEF vars, CacheInv, DirInv
  <2>4. ForgetInv'
    BY <2>1 DEF vars, CacheInv, ForgetInv, NeverForgotten
  <2> QED
    BY <2>2, <2>3, <2>4 DEF CacheInv
<1> QED
  BY <1>1, <1>2, NextStagingStep, FetchStep, UseStep, StoreStep DEF Next

\* CacheInv holds in every state.
LEMMA CacheAlways == Spec => []CacheInv
<1>1. Init => CacheInv
  BY CacheInit
<1>2. CacheInv /\ [Next]_vars => CacheInv'
  BY CacheStep
<1> QED
  BY <1>1, <1>2, PTL DEF Spec

\* Every variable keeps its type; no app.zip gets into an archive.
THEOREM CacheTypeCorrect == Spec => []TypeOK
<1>1. CacheInv => TypeOK
  BY DEF CacheInv
<1> QED
  BY <1>1, CacheAlways, PTL

\* A directory that a stored archive has dropped stays away until its
\* buildpack fills it anew.
THEOREM ForgottenForGood == Spec => []ForgottenStaysForgotten
<1>1. CacheInv => ForgottenStaysForgotten
  BY DEF CacheInv, ForgetInv, NeverForgotten, ForgottenStaysForgotten
<1> QED
  BY <1>1, CacheAlways, PTL

\* The scripts find the cache of the last stored archive.
THEOREM CacheIsPassedOn == Spec => []CachePassedOn
<1>1. CacheInv => CachePassedOn
  BY DEF CacheInv, DirInv
<1> QED
  BY <1>1, CacheAlways, PTL

\* No cache is stored without its droplet.
THEOREM CacheStoredWithDroplet == Spec => []StoredWithDroplet
<1>1. CacheInv => StoredWithDroplet
  BY DEF CacheInv, StoreInv
<1> QED
  BY <1>1, CacheAlways, PTL
=============================================================================
