-------------------------------- MODULE Unzip ---------------------------------
(***************************************************************************)
(* Unzipper.Extract (unzip.go): the entries of an archive in their order,  *)
(* as a user that is not root (image/*/Dockerfile), so that permissions    *)
(* matter: nothing can be created in a read-only directory, and a          *)
(* read-only file cannot be opened for writing.                            *)
(*                                                                         *)
(* External: archive/zip and the file system.  The data of a file is the   *)
(* entry it comes from and its size in blocks.                             *)
(***************************************************************************)
EXTENDS Integers, Sequences

CONSTANTS
  Paths,      \* paths below the target directory
  Above,      \* Above[p]: the directories between the target and p
  MaxEntries, \* bound on the length of an archive
  Limit       \* UnzippedSizeLimit

ASSUME UnzipAssumption ==
  /\ Above \in [Paths -> SUBSET Paths]
  /\ \A p \in Paths : p \notin Above[p]
  /\ \A p \in Paths : \A q \in Above[p] : Above[q] \subseteq Above[p]
  /\ \A p \in Paths : \A q, r \in Above[p] : q = r \/ q \in Above[r] \/ r \in Above[q]
  /\ MaxEntries \in Nat
  /\ Limit \in Nat \ {0}

VARIABLES
  opens,   \* there is a target, and the archive can be opened
  archive, \* its entries
  again,   \* it was extracted to the same directory before
  pc,      \* the step that comes next
  k,       \* index of the loop of Extract
  tree,    \* what there is at each path
  faulty   \* a file system operation has failed by itself

vars == <<opens, archive, again, pc, k, tree, faulty>>

-----------------------------------------------------------------------------
(* Archives and trees *)

\* intact: the data can be decompressed and has the right checksum.
Entries ==
  [path : Paths, kind : {"file"}, size : 1 .. Limit + 1, writable : BOOLEAN, intact : BOOLEAN]
    \union [path : Paths, kind : {"dir"}, size : {0}, writable : BOOLEAN, intact : {TRUE}]

\* n blocks of the data of entry m
File(m, n, w) == [kind |-> "file", writable |-> w, from |-> m, size |-> n]
Directory(w) == [kind |-> "dir", writable |-> w, from |-> 0, size |-> 0]
Absent == [kind |-> "none", writable |-> TRUE, from |-> 0, size |-> 0]

Upward(p) == Above[p] \union {p}

\* An archive to expect: no path twice or both file and directory, the data
\* intact and below the limit, and directories that their owner may change.
WellFormed(a) ==
  /\ \A m \in DOMAIN a :
       /\ a[m].intact
       /\ a[m].size < Limit
       /\ a[m].kind = "dir" => a[m].writable
  /\ \A m, n \in DOMAIN a : m # n =>
       /\ a[m].path # a[n].path
       /\ a[m].path \in Above[a[n].path] => a[m].kind = "dir"

\* The tree that a well-formed archive describes
Tree(a) ==
  [p \in Paths |->
     IF \E m \in DOMAIN a : a[m].path = p /\ a[m].kind = "file"
     THEN LET m == CHOOSE m \in DOMAIN a : a[m].path = p
          IN File(m, a[m].size, a[m].writable)
     ELSE IF \E m \in DOMAIN a : p \in Upward(a[m].path) THEN Directory(TRUE)
     ELSE Absent]

Init ==
  /\ opens \in BOOLEAN
  /\ archive \in UNION {[1 .. n -> Entries] : n \in 0 .. MaxEntries}
  /\ again \in BOOLEAN
  /\ again => WellFormed(archive)
  /\ pc = "open"
  /\ k = 1
  /\ tree = IF again THEN Tree(archive) ELSE [p \in Paths |-> Absent]
  /\ faulty = FALSE

-----------------------------------------------------------------------------
(* os.MkdirAll of the lowest of a chain of directories *)

Missing(chain) == {q \in chain : tree[q].kind = "none"}

\* The lowest of those that are there can take another entry.
Room(chain) ==
  LET there == chain \ Missing(chain)
  IN \A q \in there : there = Upward(q) => tree[q].kind = "dir" /\ tree[q].writable

\* It makes the missing ones with mode w; nothing goes below the first one
\* if that is read-only from the start.
Made(chain, w) ==
  {q \in Missing(chain) : Room(chain) /\ (w \/ Above[q] \intersect Missing(chain) = {})}

AfterMkdirAll(chain, w) ==
  [q \in Paths |-> IF q \in Made(chain, w) THEN Directory(w) ELSE tree[q]]

MkdirAllWorks(chain, w) == \A q \in chain : AfterMkdirAll(chain, w)[q].kind = "dir"

-----------------------------------------------------------------------------

Entry == archive[k]
Goto(label) == pc' = label /\ UNCHANGED faulty
Fault == pc' = "failed" /\ faulty' = TRUE

Loop(n) == IF n <= Len(archive) THEN "entry" ELSE "ok"
NextEntry == k' = k + 1 /\ Goto(Loop(k + 1))

OpenReader ==
  /\ pc = "open"
  /\ \/ Goto(IF opens THEN Loop(1) ELSE "failed")
     \/ Fault
  /\ UNCHANGED <<opens, archive, again, k, tree>>

\* A directory that is there already keeps its mode.
ExtractDir ==
  /\ pc = "entry"
  /\ Entry.kind = "dir"
  /\ LET after == AfterMkdirAll(Upward(Entry.path), Entry.writable)
     IN \/ /\ tree' = after
           /\ IF MkdirAllWorks(Upward(Entry.path), Entry.writable)
              THEN NextEntry
              ELSE Goto("failed") /\ UNCHANGED k
        \/ tree' \in {tree, after} /\ Fault /\ UNCHANGED k
  /\ UNCHANGED <<opens, archive, again>>

\* Slips: every operator named Slip... is the definition after it with one
\* mistake in it, and a property stated below tells the two apart.
SlipParentMode == Entry.writable

\* 0755
ParentMode == TRUE

\* MkdirAll of the directory of a file
MakeParent ==
  /\ pc = "entry"
  /\ Entry.kind = "file"
  /\ LET after == AfterMkdirAll(Above[Entry.path], ParentMode)
     IN \/ /\ tree' = after
           /\ Goto(IF MkdirAllWorks(Above[Entry.path], ParentMode) THEN "create" ELSE "failed")
        \/ tree' \in {tree, after} /\ Fault
  /\ UNCHANGED <<opens, archive, again, k>>

\* os.Create can make a file at p, or truncate the one that is there.
Creatable(p) ==
  CASE tree[p].kind = "none" -> Room(Above[p])
    [] tree[p].kind = "file" -> tree[p].writable
    [] tree[p].kind = "dir" -> FALSE

\* src.Open and os.Create; an old file keeps its mode.
CreateFile ==
  /\ pc = "create"
  /\ \/ /\ Creatable(Entry.path)
        /\ tree' = [tree EXCEPT ![Entry.path] = File(k, 0, TRUE)]
        /\ Goto("copy")
     \/ ~Creatable(Entry.path) /\ Goto("failed") /\ UNCHANGED tree
     \/ Fault /\ UNCHANGED tree
  /\ UNCHANGED <<opens, archive, again, k>>

Write(n) == tree' = [tree EXCEPT ![Entry.path].size = n]

\* CopyN has copied as much as it may.
StopsAt(n) == n >= Limit

SlipCopied(n) == n

Copied(n) == IF StopsAt(n) THEN Limit ELSE n

\* io.CopyN: up to the limit, up to bad data, or until something breaks.  To
\* have copied all that it may is the error.
CopyN ==
  /\ pc = "copy"
  /\ \/ /\ Entry.intact
        /\ Write(Copied(Entry.size))
        /\ Goto(IF StopsAt(Entry.size) THEN "failed" ELSE "chmod")
     \/ /\ ~Entry.intact
        /\ \E n \in 0 .. Entry.size : Write(Copied(n))
        /\ Goto("failed")
     \/ /\ \E n \in 0 .. Entry.size : Write(Copied(n))
        /\ Fault
  /\ UNCHANGED <<opens, archive, again, k>>

SlipChmod ==
  /\ pc = "chmod"
  /\ NextEntry
  /\ UNCHANGED <<opens, archive, again, tree>>

Chmod ==
  /\ pc = "chmod"
  /\ \/ /\ tree' = [tree EXCEPT ![Entry.path].writable = Entry.writable]
        /\ NextEntry
     \/ Fault /\ UNCHANGED <<k, tree>>
  /\ UNCHANGED <<opens, archive, again>>

Returned == pc \in {"ok", "failed"}
Done == Returned /\ UNCHANGED vars

ExtractFile == MakeParent \/ CreateFile \/ CopyN \/ Chmod

Next == OpenReader \/ ExtractDir \/ ExtractFile \/ Done

\* Extract is one thread.
Spec == Init /\ [][Next]_vars /\ WF_vars(Next)

-----------------------------------------------------------------------------
(* Properties *)

Nodes == [kind : {"none", "dir", "file"}, writable : BOOLEAN,
          from : 0 .. MaxEntries, size : 0 .. Limit]

\* Every variable has its type; no file is ever above the limit.
TypeOK ==
  /\ opens \in BOOLEAN
  /\ archive \in Seq(Entries) /\ Len(archive) <= MaxEntries
  /\ again \in BOOLEAN
  /\ pc \in {"open", "entry", "create", "copy", "chmod", "ok", "failed"}
  /\ k \in 1 .. Len(archive) + 1
  /\ tree \in [Paths -> Nodes]
  /\ faulty \in BOOLEAN

\* Extract fails only for a reason: no archive, one with something wrong in
\* it (WellFormed), a read-only file that an earlier extraction has left, or
\* something that broke.  The order of the entries, directories that have no
\* entry, and files that are read-only are no reasons.
FailsForAReason ==
  pc = "failed" =>
    \/ faulty
    \/ ~opens
    \/ ~WellFormed(archive)
    \/ again /\ \E m \in DOMAIN archive : ~archive[m].writable

\* A well-formed archive that is extracted without an error is exactly the tree
\* it describes, the modes of directories that have no entry included, in
\* whatever order its entries come and also when it is extracted once more.
ExtractsToTree == pc = "ok" /\ WellFormed(archive) => tree = Tree(archive)

\* Every entry is in place, the last one of those for the same file, and
\* there is nothing else.
InPlace ==
  /\ \A m \in DOMAIN archive :
       LET e == archive[m]
           last == \A n \in m + 1 .. Len(archive) : archive[n].path # e.path
       IN /\ e.intact
          /\ tree[e.path].kind = e.kind
          /\ e.kind = "file" /\ last => tree[e.path] = File(m, e.size, e.writable)
  /\ \A p \in Paths :
       tree[p].kind # "none" => \E m \in DOMAIN archive : p \in Upward(archive[m].path)

\* What Extract promises to its callers: without an error all is in place.
Promise == INSTANCE Installer WITH
  result <- IF Returned THEN pc ELSE "running",
  whole <- InPlace

\* Each step is a step of Installer or invisible to it, and Extract returns.
ImplementsInstaller == Promise!Spec
=============================================================================
