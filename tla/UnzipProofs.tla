----------------------------- MODULE UnzipProofs -----------------------------
(***************************************************************************)
(* Theorems about Unzip, for every archive and every limit: an extraction  *)
(* without an error is complete, and one that fails does so for a reason.  *)
(***************************************************************************)
EXTENDS Unzip, TLAPS

-----------------------------------------------------------------------------
(* The inductive invariant *)

Filling == {"copy", "chmod"}

\* Where the loop is, and what has become of the present file so far.
LoopInv ==
  /\ pc = "open" => k = 1
  /\ pc \in {"entry", "create", "copy", "chmod"} => k \in DOMAIN archive
  /\ pc \in {"create", "copy", "chmod"} => Entry.kind = "file"
  /\ pc = "copy" => tree[Entry.path] = File(k, 0, TRUE)
  /\ pc = "chmod" => Entry.intact /\ tree[Entry.path] = File(k, Entry.size, TRUE)
  /\ pc = "ok" => k = Len(archive) + 1

\* The entries before k have what they need in the tree, whatever came
\* between them.
KindInv ==
  \A m \in DOMAIN archive :
    m < k => archive[m].intact /\ tree[archive[m].path].kind = archive[m].kind

\* m is the last file before k for its path, and not being overwritten.
Latest(m) ==
  /\ m < k
  /\ archive[m].kind = "file"
  /\ \A n \in DOMAIN archive : m < n /\ n < k => archive[n].path # archive[m].path
  /\ ~(pc \in Filling /\ Entry.path = archive[m].path)

FileInv ==
  pc # "failed" =>
    \A m \in DOMAIN archive :
      Latest(m) => tree[archive[m].path] = File(m, archive[m].size, archive[m].writable)

\* Nothing is in the tree but the entries and the directories above them.
OriginInv ==
  \A p \in Paths :
    tree[p].kind # "none" => \E m \in DOMAIN archive : p \in Upward(archive[m].path)

UnzipInv == TypeOK /\ LoopInv /\ KindInv /\ FileInv /\ OriginInv

\* What an entry is.
LEMMA EntryType ==
  ASSUME NEW e \in Entries
  PROVE  /\ e.path \in Paths
         /\ e.kind \in {"file", "dir"}
         /\ e.size \in 0 .. Limit + 1
         /\ e.writable \in BOOLEAN
         /\ e.intact \in BOOLEAN
         /\ e.kind = "dir" => e.intact
<1>1. Limit \in Nat /\ 0 \in 0 .. Limit + 1 /\ 1 .. Limit + 1 \subseteq 0 .. Limit + 1
  BY UnzipAssumption
<1>2. CASE e \in [path : Paths, kind : {"file"}, size : 1 .. Limit + 1,
                  writable : BOOLEAN, intact : BOOLEAN]
  BY <1>1, <1>2
<1>3. CASE e \in [path : Paths, kind : {"dir"}, size : {0}, writable : BOOLEAN,
                  intact : {TRUE}]
  BY <1>1, <1>3
<1> QED
  BY <1>2, <1>3 DEF Entries

\* An element of a sequence.
LEMMA ElementType ==
  ASSUME NEW S, NEW s \in Seq(S), NEW m \in DOMAIN s
  PROVE  s[m] \in S
OBVIOUS

\* The nodes that the actions make.
LEMMA NodeType ==
  /\ \A w \in BOOLEAN : Directory(w) \in Nodes
  /\ Absent \in Nodes
  /\ \A m \in 0 .. MaxEntries, n \in 0 .. Limit, w \in BOOLEAN : File(m, n, w) \in Nodes
BY UnzipAssumption DEF Directory, Absent, File, Nodes

\* The types of what the actions look up for the present entry.
LEMMA Lookup ==
  ASSUME TypeOK, k \in DOMAIN archive
  PROVE  /\ Entry.path \in Paths
         /\ Entry.kind \in {"file", "dir"}
         /\ Entry.size \in 0 .. Limit + 1
         /\ Entry.writable \in BOOLEAN
         /\ Entry.intact \in BOOLEAN
         /\ Entry.kind = "dir" => Entry.intact
         /\ Upward(Entry.path) \in SUBSET Paths
         /\ Above[Entry.path] \in SUBSET Paths
         /\ Above[Entry.path] \subseteq Upward(Entry.path)
         /\ k \in Nat /\ k \in 0 .. MaxEntries
         /\ Len(archive) \in Nat /\ DOMAIN archive = 1 .. Len(archive)
<1>1. Entry \in Entries
  BY ElementType DEF TypeOK, Entry
<1>2. /\ Entry.path \in Paths
      /\ Entry.kind \in {"file", "dir"}
      /\ Entry.size \in 0 .. Limit + 1
      /\ Entry.writable \in BOOLEAN
      /\ Entry.intact \in BOOLEAN
      /\ Entry.kind = "dir" => Entry.intact
  BY <1>1, EntryType
<1>3. Above[Entry.path] \in SUBSET Paths
  BY <1>2, UnzipAssumption
<1>4. Len(archive) \in Nat /\ Len(archive) <= MaxEntries /\ DOMAIN archive = 1 .. Len(archive)
  BY DEF TypeOK
<1>5. k \in Nat /\ k \in 0 .. MaxEntries
  BY <1>4, UnzipAssumption
<1> QED
  BY <1>2, <1>3, <1>4, <1>5 DEF Upward

\* A tree is empty or the one that an earlier extraction left.
LEMMA UnzipInit ==
  ASSUME Init
  PROVE  UnzipInv
<1>1. /\ archive \in Seq(Entries) /\ Len(archive) <= MaxEntries
      /\ Len(archive) \in Nat /\ DOMAIN archive = 1 .. Len(archive)
  <2>1. PICK n \in 0 .. MaxEntries : archive \in [1 .. n -> Entries]
    BY DEF Init
  <2>2. n \in Nat /\ n <= MaxEntries
    BY UnzipAssumption
  <2> HIDE DEF Entries
  <2> QED
    BY <2>1, <2>2
<1>2. \A m \in DOMAIN archive : /\ archive[m].path \in Paths
                                /\ archive[m].writable \in BOOLEAN
                                /\ archive[m].size \in 0 .. Limit + 1
                                /\ m \in 0 .. MaxEntries
  BY <1>1, ElementType, EntryType, UnzipAssumption
<1>3. ASSUME WellFormed(archive)
      PROVE  /\ Tree(archive) \in [Paths -> Nodes]
             /\ \A p \in Paths :
                  Tree(archive)[p].kind # "none" =>
                    \E m \in DOMAIN archive : p \in Upward(archive[m].path)
  <2> SUFFICES ASSUME NEW p \in Paths
               PROVE  /\ Tree(archive)[p] \in Nodes
                      /\ Tree(archive)[p].kind # "none" =>
                           \E m \in DOMAIN archive : p \in Upward(archive[m].path)
    BY DEF Tree
  <2>1. CASE \E m \in DOMAIN archive : archive[m].path = p /\ archive[m].kind = "file"
    <3> DEFINE m == CHOOSE m \in DOMAIN archive : archive[m].path = p
    <3>1. m \in DOMAIN archive /\ archive[m].path = p
      BY <2>1
    <3>2. Tree(archive)[p] = File(m, archive[m].size, archive[m].writable)
      BY <2>1 DEF Tree
    <3>3. archive[m].size < Limit
      BY <1>3, <3>1 DEF WellFormed
    <3> HIDE DEF m
    <3>4. archive[m].size \in 0 .. Limit /\ archive[m].writable \in BOOLEAN /\ m \in 0 .. MaxEntries
      BY <1>2, <3>1, <3>3, UnzipAssumption
    <3> QED
      BY <3>1, <3>2, <3>4, NodeType DEF Upward
  <2>2. CASE /\ ~\E m \in DOMAIN archive : archive[m].path = p /\ archive[m].kind = "file"
             /\ \E m \in DOMAIN archive : p \in Upward(archive[m].path)
    <3>1. Tree(archive)[p] = Directory(TRUE)
      BY <2>2 DEF Tree
    <3> QED
      BY <2>2, <3>1, NodeType
  <2>3. CASE ~\E m \in DOMAIN archive : p \in Upward(archive[m].path)
    <3>1. Tree(archive)[p] = Absent
      BY <2>3 DEF Tree, Upward
    <3> QED
      BY <3>1, NodeType DEF Absent
  <2> QED
    BY <2>1, <2>2, <2>3
<1>4. /\ tree \in [Paths -> Nodes]
      /\ OriginInv
  <2>1. CASE again
    BY <1>3, <2>1 DEF Init, OriginInv
  <2>2. CASE ~again
    BY <2>2, NodeType DEF Init, OriginInv, Absent
  <2> QED
    BY <2>1, <2>2
<1>5. TypeOK
  <2>1. k \in 1 .. Len(archive) + 1
    BY <1>1 DEF Init
  <2>2. /\ opens \in BOOLEAN /\ again \in BOOLEAN /\ faulty \in BOOLEAN
        /\ pc \in {"open", "entry", "create", "copy", "chmod", "ok", "failed"}
    BY DEF Init
  <2> QED
    BY <1>1, <1>4, <2>1, <2>2 DEF TypeOK
<1>6. LoopInv /\ KindInv /\ FileInv
  BY <1>1 DEF Init, LoopInv, KindInv, FileInv, Latest
<1> QED
  BY <1>4, <1>5, <1>6 DEF UnzipInv

-----------------------------------------------------------------------------
(* Steps *)

\* MkdirAll only adds directories.
LEMMA MkdirAllAdds ==
  ASSUME TypeOK, NEW chain \in SUBSET Paths, NEW w \in BOOLEAN
  PROVE  /\ AfterMkdirAll(chain, w) \in [Paths -> Nodes]
         /\ \A q \in Paths : \/ AfterMkdirAll(chain, w)[q] = tree[q]
                             \/ tree[q].kind = "none" /\ q \in chain
<1>1. \A q \in Made(chain, w) : q \in chain /\ tree[q].kind = "none"
  BY DEF Made, Missing
<1>2. Directory(w) \in Nodes
  BY NodeType
<1> QED
  BY <1>1, <1>2 DEF AfterMkdirAll, TypeOK

\* What a step does to the tree and the loop invariant follows.
LEMMA SameEntryStep ==
  ASSUME UnzipInv, k \in DOMAIN archive, UNCHANGED <<archive, k>>,
         tree' \in [Paths -> Nodes],
         \A p \in Paths : tree[p].kind # "none" => tree'[p].kind = tree[p].kind,
         \A p \in Paths : tree'[p].kind # "none" /\ tree[p].kind = "none" => p \in Upward(Entry.path),
         pc' # "failed" =>
           /\ \A p \in Paths : tree[p].kind = "file" /\ p # Entry.path => tree'[p] = tree[p]
           /\ \/ pc' \in Filling
              \/ pc \notin Filling /\ tree'[Entry.path] = tree[Entry.path],
         pc # "failed"
  PROVE  KindInv' /\ FileInv' /\ OriginInv'
<1>1. /\ \A m \in DOMAIN archive : /\ archive[m].path \in Paths
                                   /\ archive[m].kind \in {"file", "dir"}
      /\ Entry' = Entry
  BY ElementType, EntryType DEF UnzipInv, TypeOK, Entry
<1>2. KindInv'
  BY <1>1 DEF UnzipInv, KindInv
<1>3. OriginInv'
  BY Zenon DEF UnzipInv, OriginInv, Entry
<1>4. FileInv'
  <2> SUFFICES ASSUME pc' # "failed", NEW m \in DOMAIN archive, Latest(m)'
               PROVE  tree'[archive[m].path] = File(m, archive[m].size, archive[m].writable)
    BY DEF FileInv
  <2>1. CASE archive[m].path = Entry.path
    <3>1. pc' \notin Filling
      BY <1>1, <2>1 DEF Latest
    <3>2. pc \notin Filling /\ tree'[Entry.path] = tree[Entry.path]
      BY <3>1
    <3>3. Latest(m)
      BY <3>2 DEF Latest
    <3> QED
      BY <2>1, <3>2, <3>3 DEF UnzipInv, FileInv
  <2>2. CASE archive[m].path # Entry.path
    <3>1. Latest(m)
      BY <2>2 DEF Latest
    <3>2. tree[archive[m].path] = File(m, archive[m].size, archive[m].writable)
      BY <3>1 DEF UnzipInv, FileInv
    <3>3. tree[archive[m].path].kind = "file"
      BY <3>2 DEF File
    <3> QED
      BY <1>1, <2>2, <3>2, <3>3
  <2> QED
    BY <2>1, <2>2
<1> QED
  BY <1>2, <1>3, <1>4

\* The archive is fixed, and only faults are remembered.
LEMMA Fixed ==
  ASSUME [Next]_vars, TypeOK
  PROVE  UNCHANGED <<opens, archive, again>> /\ faulty' \in BOOLEAN
<1>1. UNCHANGED <<opens, archive, again>>
  BY DEF Next, vars, OpenReader, ExtractDir, ExtractFile, MakeParent, CreateFile, CopyN, Chmod,
    Done
<1>2. faulty' \in BOOLEAN
  BY Zenon DEF TypeOK, Next, vars, OpenReader, ExtractDir, ExtractFile, MakeParent, CreateFile,
    CopyN, Chmod, Done, Goto, Fault, NextEntry
<1> QED
  BY <1>1, <1>2

\* Where NextEntry goes.
LEMMA NextEntryGoes ==
  ASSUME TypeOK, k \in DOMAIN archive, NextEntry, UNCHANGED archive
  PROVE  /\ k' = k + 1 /\ k' \in 1 .. Len(archive) + 1
         /\ pc' \in {"entry", "ok"}
         /\ pc' = "entry" => k' \in DOMAIN archive
         /\ pc' = "ok" => k' = Len(archive) + 1
BY Lookup DEF NextEntry, Goto, Loop

\* The end of an iteration.
LEMMA NextEntryStep ==
  ASSUME UnzipInv, [Next]_vars, k \in DOMAIN archive, NextEntry, pc # "failed",
         tree' \in [Paths -> Nodes],
         \A p \in Paths : tree[p].kind # "none" => tree'[p].kind = tree[p].kind,
         \A p \in Paths : tree'[p].kind # "none" /\ tree[p].kind = "none" => p \in Upward(Entry.path),
         \A p \in Paths : tree[p].kind = "file" /\ p # Entry.path => tree'[p] = tree[p],
         Entry.intact, tree'[Entry.path].kind = Entry.kind,
         Entry.kind = "file" => tree'[Entry.path] = File(k, Entry.size, Entry.writable)
  PROVE  UnzipInv'
<1>1. /\ \A m \in DOMAIN archive : /\ archive[m].path \in Paths
                                   /\ archive[m].kind \in {"file", "dir"}
      /\ \A m \in DOMAIN archive : m \in Nat
      /\ k \in Nat
  BY ElementType, EntryType DEF UnzipInv, TypeOK
<1>2. UNCHANGED <<opens, archive, again>> /\ faulty' \in BOOLEAN
  BY Fixed DEF UnzipInv
<1>3. /\ k' = k + 1 /\ k' \in 1 .. Len(archive) + 1
      /\ pc' \in {"entry", "ok"}
      /\ pc' = "entry" => k' \in DOMAIN archive
      /\ pc' = "ok" => k' = Len(archive) + 1
  BY <1>2, NextEntryGoes DEF UnzipInv
<1>4. TypeOK'
  BY <1>2, <1>3 DEF UnzipInv, TypeOK
<1>5. LoopInv'
  BY <1>2, <1>3 DEF LoopInv
<1>6. \A m \in DOMAIN archive : m < k' => m < k \/ m = k
  BY <1>1, <1>3
<1>7. KindInv'
  <2> SUFFICES ASSUME NEW m \in DOMAIN archive, m < k'
               PROVE  archive[m].intact /\ tree'[archive[m].path].kind = archive[m].kind
    BY <1>2 DEF KindInv
  <2>1. CASE m = k
    BY <2>1, Zenon DEF Entry
  <2>2. CASE m < k
    <3>1. archive[m].intact /\ tree[archive[m].path].kind = archive[m].kind
      BY <2>2 DEF UnzipInv, KindInv
    <3> QED
      BY <1>1, <3>1
  <2> QED
    BY <1>6, <2>1, <2>2
<1>8. FileInv'
  <2> SUFFICES ASSUME NEW m \in DOMAIN archive, Latest(m)'
               PROVE  tree'[archive[m].path] = File(m, archive[m].size, archive[m].writable)
    BY <1>2 DEF FileInv
  <2>1. m < k' /\ archive[m].kind = "file"
    BY <1>2 DEF Latest
  <2>2. CASE m = k
    BY <2>1, <2>2, Zenon DEF Entry
  <2>3. CASE m < k
    <3>1. Entry.path # archive[m].path
      BY <1>1, <1>2, <1>3, <2>3 DEF Latest, Entry
    <3>2. Latest(m)
      BY <1>1, <1>2, <1>3, <2>3, <3>1 DEF Latest
    <3>3. tree[archive[m].path] = File(m, archive[m].size, archive[m].writable)
      BY <3>2 DEF UnzipInv, FileInv
    <3>4. tree[archive[m].path].kind = "file"
      BY <3>3 DEF File
    <3> QED
      BY <1>1, <3>1, <3>3, <3>4
  <2> QED
    BY <1>6, <2>1, <2>2, <2>3
<1>9. OriginInv'
  BY <1>2, Zenon DEF UnzipInv, OriginInv, Entry
<1> QED
  BY <1>4, <1>5, <1>7, <1>8, <1>9 DEF UnzipInv

\* A failure leaves what is there as it is, or adds to the present entry.
LEMMA FailStep ==
  ASSUME UnzipInv, [Next]_vars, k \in DOMAIN archive, UNCHANGED k,
         pc # "failed", pc' = "failed",
         tree' \in [Paths -> Nodes],
         \A p \in Paths : tree[p].kind # "none" => tree'[p].kind = tree[p].kind,
         \A p \in Paths : tree'[p].kind # "none" /\ tree[p].kind = "none" => p \in Upward(Entry.path)
  PROVE  UnzipInv'
<1>1. UNCHANGED <<opens, archive, again>> /\ faulty' \in BOOLEAN
  BY Fixed DEF UnzipInv
<1>2. KindInv' /\ FileInv' /\ OriginInv'
  BY <1>1, SameEntryStep
<1>3. TypeOK'
  BY <1>1 DEF UnzipInv, TypeOK
<1>4. LoopInv'
  BY DEF LoopInv
<1> QED
  BY <1>2, <1>3, <1>4 DEF UnzipInv

\* A directory entry.
LEMMA ExtractDirStep ==
  ASSUME UnzipInv, ExtractDir
  PROVE  UnzipInv'
<1>1. [Next]_vars /\ pc = "entry" /\ k \in DOMAIN archive /\ Entry.kind = "dir" /\ TypeOK
  BY DEF Next, ExtractDir, UnzipInv, LoopInv
<1>2. /\ Upward(Entry.path) \in SUBSET Paths /\ Entry.path \in Upward(Entry.path)
      /\ Entry.path \in Paths /\ Entry.writable \in BOOLEAN /\ Entry.intact
  BY <1>1, Lookup DEF Upward
<1> DEFINE after == AfterMkdirAll(Upward(Entry.path), Entry.writable)
<1>3. /\ after \in [Paths -> Nodes]
      /\ \A q \in Paths : \/ after[q] = tree[q]
                          \/ tree[q].kind = "none" /\ q \in Upward(Entry.path)
  BY <1>1, <1>2, MkdirAllAdds
<1>4. CASE tree' = after /\ MkdirAllWorks(Upward(Entry.path), Entry.writable) /\ NextEntry
  <2>1. after[Entry.path].kind = "dir"
    BY <1>2, <1>4 DEF MkdirAllWorks
  <2> HIDE DEF after
  <2> QED
    BY <1>1, <1>2, <1>3, <1>4, <2>1, NextEntryStep
<1>5. CASE tree' = after /\ pc' = "failed" /\ UNCHANGED k
  <2> HIDE DEF after
  <2> QED
    BY <1>1, <1>3, <1>5, FailStep
<1>6. CASE tree' \in {tree, after} /\ Fault /\ UNCHANGED k
  <2>1. tree \in [Paths -> Nodes] /\ pc' = "failed"
    BY <1>1, <1>6 DEF TypeOK, Fault
  <2> HIDE DEF after
  <2> QED
    BY <1>1, <1>3, <1>6, <2>1, FailStep
<1>7. \/ tree' = after /\ MkdirAllWorks(Upward(Entry.path), Entry.writable) /\ NextEntry
      \/ tree' = after /\ pc' = "failed" /\ UNCHANGED k
      \/ tree' \in {tree, after} /\ Fault /\ UNCHANGED k
  BY DEF ExtractDir, Goto
<1> QED
  BY <1>4, <1>5, <1>6, <1>7

\* The directories above a file.
LEMMA MakeParentStep ==
  ASSUME UnzipInv, MakeParent
  PROVE  UnzipInv'
<1>1. /\ [Next]_vars /\ pc = "entry" /\ k \in DOMAIN archive /\ Entry.kind = "file" /\ TypeOK
      /\ UNCHANGED k
  BY DEF Next, ExtractFile, MakeParent, UnzipInv, LoopInv
<1>2. /\ Above[Entry.path] \in SUBSET Paths /\ Above[Entry.path] \subseteq Upward(Entry.path)
      /\ Entry.path \in Paths /\ Entry.path \notin Above[Entry.path]
      /\ ParentMode \in BOOLEAN
  BY <1>1, Lookup, UnzipAssumption DEF ParentMode
<1> DEFINE after == AfterMkdirAll(Above[Entry.path], ParentMode)
<1>3. /\ after \in [Paths -> Nodes]
      /\ \A q \in Paths : \/ after[q] = tree[q]
                          \/ tree[q].kind = "none" /\ q \in Above[Entry.path]
  BY <1>1, <1>2, MkdirAllAdds
<1>4. /\ tree' \in {tree, after} /\ tree \in [Paths -> Nodes]
      /\ pc' \in {"create", "failed"}
  BY <1>1 DEF MakeParent, Goto, Fault, TypeOK
<1> HIDE DEF after
<1>5. CASE pc' = "failed"
  BY <1>1, <1>2, <1>3, <1>4, <1>5, FailStep
<1>6. CASE pc' = "create"
  <2>1. UNCHANGED <<opens, archive, again>> /\ faulty' \in BOOLEAN
    BY <1>1, Fixed
  <2>2. tree'[Entry.path] = tree[Entry.path]
    BY <1>2, <1>3, <1>4
  <2>3. KindInv' /\ FileInv' /\ OriginInv'
    BY <1>1, <1>2, <1>3, <1>4, <1>6, <2>1, <2>2, SameEntryStep DEF Filling
  <2>4. TypeOK'
    BY <1>1, <1>3, <1>4, <1>6, <2>1 DEF TypeOK
  <2>5. LoopInv'
    BY <1>1, <1>6, <2>1 DEF LoopInv, Entry
  <2> QED
    BY <2>3, <2>4, <2>5 DEF UnzipInv
<1> QED
  BY <1>4, <1>5, <1>6

\* One file changes: what holds of the others.
LEMMA FileChanges ==
  ASSUME TypeOK, k \in DOMAIN archive, Entry.kind = "file", NEW node \in Nodes,
         tree' = [tree EXCEPT ![Entry.path] = node], node.kind = "file",
         tree[Entry.path].kind \in {"none", "file"}
  PROVE  /\ tree' \in [Paths -> Nodes]
         /\ tree'[Entry.path] = node
         /\ \A p \in Paths : tree[p].kind # "none" => tree'[p].kind = tree[p].kind
         /\ \A p \in Paths :
              tree'[p].kind # "none" /\ tree[p].kind = "none" => p \in Upward(Entry.path)
         /\ \A p \in Paths : p # Entry.path => tree'[p] = tree[p]
BY Lookup DEF TypeOK, Upward

\* os.Create
LEMMA CreateFileStep ==
  ASSUME UnzipInv, CreateFile
  PROVE  UnzipInv'
<1>1. /\ [Next]_vars /\ pc = "create" /\ k \in DOMAIN archive /\ Entry.kind = "file" /\ TypeOK
      /\ UNCHANGED k /\ tree \in [Paths -> Nodes]
  BY DEF Next, ExtractFile, CreateFile, UnzipInv, LoopInv, TypeOK
<1>2. CASE pc' = "failed" /\ UNCHANGED tree
  BY <1>1, <1>2, FailStep
<1>3. CASE /\ Creatable(Entry.path)
           /\ tree' = [tree EXCEPT ![Entry.path] = File(k, 0, TRUE)]
           /\ pc' = "copy"
  <2>1. tree[Entry.path] \in Nodes
    BY <1>1, Lookup
  <2>2. tree[Entry.path].kind \in {"none", "file", "dir"}
    BY <2>1 DEF Nodes
  <2>3. tree[Entry.path].kind \in {"none", "file"}
    BY <1>3, <2>2 DEF Creatable
  <2>4. File(k, 0, TRUE) \in Nodes /\ File(k, 0, TRUE).kind = "file"
    <3>1. 0 \in 0 .. Limit /\ k \in 0 .. MaxEntries
      BY <1>1, Lookup, UnzipAssumption
    <3> QED
      BY <3>1, NodeType DEF File
  <2>5. /\ tree' \in [Paths -> Nodes]
        /\ tree'[Entry.path] = File(k, 0, TRUE)
        /\ \A p \in Paths : tree[p].kind # "none" => tree'[p].kind = tree[p].kind
        /\ \A p \in Paths :
             tree'[p].kind # "none" /\ tree[p].kind = "none" => p \in Upward(Entry.path)
        /\ \A p \in Paths : p # Entry.path => tree'[p] = tree[p]
    BY <1>1, <1>3, <2>3, <2>4, FileChanges
  <2>6. UNCHANGED <<opens, archive, again>> /\ faulty' \in BOOLEAN
    BY <1>1, Fixed
  <2>7. KindInv' /\ FileInv' /\ OriginInv'
    BY <1>1, <1>3, <2>5, <2>6, SameEntryStep DEF Filling
  <2>8. TypeOK'
    BY <1>1, <1>3, <2>5, <2>6 DEF TypeOK
  <2>9. LoopInv'
    BY <1>1, <1>3, <2>5, <2>6 DEF LoopInv, Entry
  <2> QED
    BY <2>7, <2>8, <2>9 DEF UnzipInv
<1> QED
  BY <1>2, <1>3 DEF CreateFile, Goto, Fault

\* io.CopyN
LEMMA CopyNStep ==
  ASSUME UnzipInv, CopyN
  PROVE  UnzipInv'
<1>1. /\ [Next]_vars /\ pc = "copy" /\ k \in DOMAIN archive /\ Entry.kind = "file" /\ TypeOK
      /\ UNCHANGED k /\ tree \in [Paths -> Nodes]
      /\ tree[Entry.path] = File(k, 0, TRUE)
  BY DEF Next, ExtractFile, CopyN, UnzipInv, LoopInv, TypeOK
<1>2. Entry.size \in 0 .. Limit + 1 /\ Entry.path \in Paths /\ k \in 0 .. MaxEntries
  BY <1>1, Lookup, UnzipAssumption
<1>3. \A n \in 0 .. Entry.size : Copied(n) \in 0 .. Limit
  BY <1>2, UnzipAssumption DEF Copied, StopsAt
<1>4. ASSUME NEW c \in 0 .. Limit, Write(c)
      PROVE  /\ tree' \in [Paths -> Nodes]
             /\ tree'[Entry.path] = File(k, c, TRUE)
             /\ \A p \in Paths : tree[p].kind # "none" => tree'[p].kind = tree[p].kind
             /\ \A p \in Paths :
                  tree'[p].kind # "none" /\ tree[p].kind = "none" => p \in Upward(Entry.path)
             /\ \A p \in Paths : p # Entry.path => tree'[p] = tree[p]
  <2> DEFINE node == File(k, c, TRUE)
  <2>1. node \in Nodes /\ node.kind = "file"
    BY <1>2, <1>3, NodeType DEF File
  <2>2. tree[Entry.path].kind \in {"none", "file"}
    BY <1>1 DEF File
  <2>3. [tree[Entry.path] EXCEPT !.size = c] = node
    <3>1. \A m, l, w, v : [File(m, l, w) EXCEPT !.size = v] = File(m, v, w)
      BY DEF File
    <3>2. PICK w : w = TRUE
      OBVIOUS
    <3>3. [File(k, 0, w) EXCEPT !.size = c] = File(k, c, w)
      BY <3>1
    <3>4. [File(k, 0, TRUE) EXCEPT !.size = c] = File(k, c, TRUE)
      BY <3>2, <3>3, Zenon
    <3> QED
      BY <1>1, <3>4, Zenon
  <2>4. tree' = [tree EXCEPT ![Entry.path] = [tree[Entry.path] EXCEPT !.size = c]]
    BY <1>4 DEF Write
  <2> HIDE DEF node
  <2>5. tree' = [tree EXCEPT ![Entry.path] = node]
    BY <2>3, <2>4
  <2>6. /\ tree' \in [Paths -> Nodes]
        /\ tree'[Entry.path] = node
        /\ \A p \in Paths : tree[p].kind # "none" => tree'[p].kind = tree[p].kind
        /\ \A p \in Paths :
             tree'[p].kind # "none" /\ tree[p].kind = "none" => p \in Upward(Entry.path)
        /\ \A p \in Paths : p # Entry.path => tree'[p] = tree[p]
    BY <1>1, <2>1, <2>2, <2>5, FileChanges
  <2> QED
    BY <2>6 DEF node
<1>5. CASE pc' = "failed"
  <2>1. PICK n \in 0 .. Entry.size : Write(Copied(n))
    <3>1. Entry.size \in 0 .. Entry.size
      BY <1>2, UnzipAssumption
    <3> QED
      BY <3>1 DEF CopyN
  <2>2. /\ tree' \in [Paths -> Nodes]
        /\ \A p \in Paths : tree[p].kind # "none" => tree'[p].kind = tree[p].kind
        /\ \A p \in Paths :
             tree'[p].kind # "none" /\ tree[p].kind = "none" => p \in Upward(Entry.path)
    BY <1>3, <1>4, <2>1
  <2> QED
    BY <1>1, <1>5, <2>2, FailStep
<1>6. CASE pc' # "failed"
  <2>1. /\ Entry.intact /\ Write(Copied(Entry.size))
        /\ ~StopsAt(Entry.size) /\ pc' = "chmod"
    BY <1>6, Zenon DEF CopyN, Goto, Fault
  <2>2. Copied(Entry.size) = Entry.size /\ Entry.size \in 0 .. Entry.size
    BY <1>2, <2>1, UnzipAssumption DEF Copied
  <2>3. /\ tree' \in [Paths -> Nodes]
        /\ tree'[Entry.path] = File(k, Entry.size, TRUE)
        /\ \A p \in Paths : tree[p].kind # "none" => tree'[p].kind = tree[p].kind
        /\ \A p \in Paths :
             tree'[p].kind # "none" /\ tree[p].kind = "none" => p \in Upward(Entry.path)
        /\ \A p \in Paths : p # Entry.path => tree'[p] = tree[p]
    BY <1>3, <1>4, <2>1, <2>2
  <2>4. UNCHANGED <<opens, archive, again>> /\ faulty' \in BOOLEAN
    BY <1>1, Fixed
  <2>5. KindInv' /\ FileInv' /\ OriginInv'
    BY <1>1, <2>1, <2>3, <2>4, SameEntryStep DEF Filling
  <2>6. TypeOK'
    BY <1>1, <2>1, <2>3, <2>4 DEF TypeOK
  <2>7. LoopInv'
    BY <1>1, <2>1, <2>3, <2>4 DEF LoopInv, Entry
  <2> QED
    BY <2>5, <2>6, <2>7 DEF UnzipInv
<1> QED
  BY <1>5, <1>6

\* os.Chmod
LEMMA ChmodStep ==
  ASSUME UnzipInv, Chmod
  PROVE  UnzipInv'
<1>1. /\ [Next]_vars /\ pc = "chmod" /\ k \in DOMAIN archive /\ Entry.kind = "file" /\ TypeOK
      /\ tree \in [Paths -> Nodes] /\ Entry.intact
      /\ tree[Entry.path] = File(k, Entry.size, TRUE)
  BY DEF Next, ExtractFile, Chmod, UnzipInv, LoopInv, TypeOK
<1>2. CASE Fault /\ UNCHANGED <<k, tree>>
  BY <1>1, <1>2, FailStep DEF Fault
<1>3. CASE tree' = [tree EXCEPT ![Entry.path].writable = Entry.writable] /\ NextEntry
  <2> DEFINE node == File(k, Entry.size, Entry.writable)
  <2>1. tree[Entry.path] \in Nodes /\ Entry.writable \in BOOLEAN /\ k \in 0 .. MaxEntries
    BY <1>1, Lookup, UnzipAssumption
  <2>2. Entry.size \in 0 .. Limit
    BY <1>1, <2>1 DEF File, Nodes
  <2>3. node \in Nodes /\ node.kind = "file"
    BY <2>1, <2>2, NodeType DEF File
  <2>4. tree[Entry.path].kind \in {"none", "file"}
    BY <1>1 DEF File
  <2>5. [tree[Entry.path] EXCEPT !.writable = Entry.writable] = node
    BY <1>1 DEF File
  <2>6. tree' = [tree EXCEPT ![Entry.path] =
                   [tree[Entry.path] EXCEPT !.writable = Entry.writable]]
    BY <1>3
  <2> HIDE DEF node
  <2>7. tree' = [tree EXCEPT ![Entry.path] = node]
    BY <2>5, <2>6
  <2>8. /\ tree' \in [Paths -> Nodes]
        /\ tree'[Entry.path] = node
        /\ \A p \in Paths : tree[p].kind # "none" => tree'[p].kind = tree[p].kind
        /\ \A p \in Paths :
             tree'[p].kind # "none" /\ tree[p].kind = "none" => p \in Upward(Entry.path)
        /\ \A p \in Paths : p # Entry.path => tree'[p] = tree[p]
    BY <1>1, <2>3, <2>4, <2>7, FileChanges
  <2>9. tree'[Entry.path].kind = Entry.kind
    BY <1>1, <2>3, <2>8
  <2>10. tree'[Entry.path] = File(k, Entry.size, Entry.writable)
    BY <2>8 DEF node
  <2> QED
    BY <1>1, <1>3, <2>8, <2>9, <2>10, NextEntryStep
<1> QED
  BY <1>2, <1>3 DEF Chmod

\* zip.OpenReader
LEMMA OpenReaderStep ==
  ASSUME UnzipInv, OpenReader
  PROVE  UnzipInv'
<1>1. /\ [Next]_vars /\ pc = "open" /\ k = 1 /\ TypeOK
      /\ UNCHANGED <<archive, k, tree>>
      /\ pc' \in {"entry", "ok", "failed"}
      /\ pc' = "entry" => 1 <= Len(archive)
      /\ pc' = "ok" => ~(1 <= Len(archive))
  BY DEF Next, OpenReader, UnzipInv, LoopInv, Goto, Fault, Loop
<1>2. UNCHANGED <<opens, archive, again>> /\ faulty' \in BOOLEAN
  BY <1>1, Fixed
<1>3. Len(archive) \in Nat /\ DOMAIN archive = 1 .. Len(archive)
  BY <1>1 DEF TypeOK
<1>4. TypeOK'
  BY <1>1, <1>2 DEF TypeOK
<1>5. LoopInv'
  <2>1. k' = 1 /\ archive' = archive /\ (pc' = "entry" => k' \in DOMAIN archive')
    BY <1>1, <1>2, <1>3
  <2>2. pc' = "ok" => k' = Len(archive') + 1
    BY <1>1, <1>2, <1>3
  <2> QED
    BY <1>1, <2>1, <2>2, Zenon DEF LoopInv
<1>6. KindInv' /\ OriginInv'
  BY <1>1, Zenon DEF UnzipInv, KindInv, OriginInv
<1>7. FileInv'
  <2>1. \A m \in DOMAIN archive : ~(m < k)
    BY <1>1, <1>3
  <2> QED
    BY <1>1, <2>1 DEF FileInv, Latest
<1> QED
  BY <1>4, <1>5, <1>6, <1>7 DEF UnzipInv

\* UnzipInv is inductive.
LEMMA UnzipStep ==
  UnzipInv /\ [Next]_vars => UnzipInv'
<1> SUFFICES ASSUME UnzipInv, [Next]_vars
             PROVE  UnzipInv'
  OBVIOUS
<1>1. CASE OpenReader \/ ExtractDir \/ ExtractFile
  BY <1>1, OpenReaderStep, ExtractDirStep, MakeParentStep, CreateFileStep, CopyNStep, ChmodStep
    DEF ExtractFile
<1>2. CASE Done \/ UNCHANGED vars
  <2>1. UNCHANGED vars
    BY <1>2 DEF Done
  <2> QED
    BY <2>1 DEF vars, UnzipInv, TypeOK, LoopInv, KindInv, FileInv, Latest, OriginInv, Entry
<1> QED
  BY <1>1, <1>2 DEF Next

\* UnzipInv holds in every state.
LEMMA UnzipAlways ==
  Spec => []UnzipInv
BY UnzipInit, UnzipStep, PTL DEF Spec

-----------------------------------------------------------------------------
(* What Extract promises *)

\* No archive takes Unzipper.Extract out of its types: above all no file is
\* ever longer than the limit.
THEOREM UnzipTypeCorrect ==
  Spec => []TypeOK
BY UnzipAlways, PTL DEF UnzipInv

\* At the end of the loop all is in place.
LEMMA AllInPlace ==
  UnzipInv /\ pc = "ok" => InPlace
<1> SUFFICES ASSUME UnzipInv, pc = "ok"
             PROVE  InPlace
  OBVIOUS
<1>1. /\ k = Len(archive) + 1 /\ Len(archive) \in Nat
      /\ DOMAIN archive = 1 .. Len(archive)
      /\ \A m \in DOMAIN archive : m < k
  BY DEF UnzipInv, LoopInv, TypeOK
<1>2. ASSUME NEW m \in DOMAIN archive
      PROVE  /\ archive[m].intact
             /\ tree[archive[m].path].kind = archive[m].kind
  BY <1>1, <1>2, Zenon DEF UnzipInv, KindInv
<1>3. ASSUME NEW m \in DOMAIN archive, archive[m].kind = "file",
             \A n \in m + 1 .. Len(archive) : archive[n].path # archive[m].path
      PROVE  tree[archive[m].path] = File(m, archive[m].size, archive[m].writable)
  <2>1. \A n \in DOMAIN archive : m < n => n \in m + 1 .. Len(archive)
    BY <1>1
  <2>2. Latest(m)
    BY <1>1, <1>3, <2>1 DEF Latest, Filling
  <2> QED
    BY <2>2 DEF UnzipInv, FileInv
<1>4. \A p \in Paths :
        tree[p].kind # "none" => \E m \in DOMAIN archive : p \in Upward(archive[m].path)
  BY DEF UnzipInv, OriginInv
<1> QED
  BY <1>2, <1>3, <1>4 DEF InPlace

\* Without an error every entry of the archive is in place and nothing else
\* is: Unzipper.Extract implements Installer, liveness apart.
THEOREM UnzipImplementsInstaller ==
  Spec => Promise!Init /\ [][Promise!Next]_(Promise!vars)
<1>1. Init => Promise!Init
  BY DEF Init, Promise!Init, Returned, InPlace
<1>2. (UnzipInv /\ pc = "ok" => InPlace)'
  BY AllInPlace, PTL
<1>3. UnzipInv' /\ [Next]_vars => [Promise!Next]_(Promise!vars)
  <2> SUFFICES ASSUME UnzipInv', [Next]_vars
               PROVE  Promise!Next \/ UNCHANGED Promise!vars
    OBVIOUS
  <2>1. InPlace' \in BOOLEAN
    BY DEF InPlace
  <2>2. pc' = "ok" => InPlace'
    BY <1>2
  <2>3. CASE OpenReader \/ ExtractDir \/ ExtractFile
    <3>1. ~Returned
      BY <2>3 DEF Returned, OpenReader, ExtractDir, ExtractFile, MakeParent, CreateFile, CopyN,
        Chmod
    <3>2. CASE Returned'
      BY <2>1, <2>2, <3>1, <3>2 DEF Promise!Next, Promise!Return, Returned
    <3>3. CASE ~Returned'
      BY <2>1, <3>1, <3>3 DEF Promise!Next, Promise!Work
    <3> QED
      BY <3>2, <3>3
  <2>4. CASE Done \/ UNCHANGED vars
    <3>1. UNCHANGED vars
      BY <2>4 DEF Done
    <3> QED
      BY <3>1 DEF vars, Promise!vars, Returned, InPlace
  <2> QED
    BY <2>3, <2>4 DEF Next
<1> QED
  BY <1>1, <1>3, UnzipAlways, PTL DEF Spec

-----------------------------------------------------------------------------
(* What a well-formed archive becomes *)

\* Each step leaves a node alone, makes a directory that can be written to
\* where nothing was, or writes a file where no directory was.
LEMMA NodeStep ==
  ASSUME UnzipInv, WellFormed(archive), [Next]_vars, NEW p \in Paths
  PROVE  \/ tree'[p] = tree[p]
         \/ tree[p].kind = "none" /\ tree'[p] = Directory(TRUE)
         \/ tree[p].kind # "dir" /\ tree'[p].kind = "file"
<1> DEFINE Goal == \/ tree'[p] = tree[p]
                   \/ tree[p].kind = "none" /\ tree'[p] = Directory(TRUE)
                   \/ tree[p].kind # "dir" /\ tree'[p].kind = "file"
<1>1. TypeOK /\ tree \in [Paths -> Nodes]
  BY DEF UnzipInv, TypeOK
<1>2. \A chain \in SUBSET Paths :
        \/ AfterMkdirAll(chain, TRUE)[p] = tree[p]
        \/ tree[p].kind = "none" /\ AfterMkdirAll(chain, TRUE)[p] = Directory(TRUE)
  BY DEF AfterMkdirAll, Made, Missing
<1>3. pc \in {"entry", "create", "copy", "chmod"} =>
        /\ k \in DOMAIN archive /\ Entry.path \in Paths
        /\ Upward(Entry.path) \in SUBSET Paths /\ Above[Entry.path] \in SUBSET Paths
  BY <1>1, Lookup DEF UnzipInv, LoopInv
<1>4. CASE ExtractDir
  <2>1. Entry.writable = TRUE
    <3>1. pc = "entry" /\ Entry.kind = "dir"
      BY <1>4 DEF ExtractDir
    <3>2. Entry.writable /\ Entry.writable \in BOOLEAN
      BY <1>1, <1>3, <3>1, Lookup DEF WellFormed, Entry
    <3> QED
      BY <3>2, Zenon
  <2>2. tree' \in {tree, AfterMkdirAll(Upward(Entry.path), Entry.writable)}
    BY <1>4 DEF ExtractDir
  <2>3. tree' \in {tree, AfterMkdirAll(Upward(Entry.path), TRUE)}
    BY <2>1, <2>2, Zenon
  <2> QED
    BY <1>2, <1>3, <1>4, <2>3 DEF ExtractDir
<1>5. CASE MakeParent
  <2>1. tree' \in {tree, AfterMkdirAll(Above[Entry.path], TRUE)}
    BY <1>5 DEF MakeParent, ParentMode
  <2> QED
    BY <1>2, <1>3, <1>5, <2>1 DEF MakeParent
<1>6. p # Entry.path /\ (CreateFile \/ CopyN \/ Chmod) => tree'[p] = tree[p]
  BY <1>1 DEF CreateFile, CopyN, Chmod, Write
<1>7. ASSUME CreateFile \/ CopyN \/ Chmod, p = Entry.path
      PROVE  Goal
  <2>1. CASE CreateFile
    <3>1. \/ UNCHANGED tree
          \/ Creatable(p) /\ tree' = [tree EXCEPT ![p] = File(k, 0, TRUE)]
      BY <1>7, <2>1 DEF CreateFile
    <3>2. ASSUME Creatable(p), tree' = [tree EXCEPT ![p] = File(k, 0, TRUE)]
          PROVE  tree[p].kind # "dir" /\ tree'[p].kind = "file"
      <4>1. tree'[p].kind = "file"
        BY <1>1, <3>2 DEF File
      <4>2. tree[p].kind # "dir"
        BY <3>2 DEF Creatable
      <4> QED
        BY <4>1, <4>2
    <3> QED
      BY <3>1, <3>2
  <2>2. CASE CopyN
    <3>1. tree[p] = File(k, 0, TRUE)
      BY <1>7, <2>2 DEF CopyN, UnzipInv, LoopInv
    <3>2. \E c : tree' = [tree EXCEPT ![p].size = c]
      BY <1>7, <2>2 DEF CopyN, Write
    <3>3. tree'[p].kind = tree[p].kind
      BY <1>1, <3>1, <3>2 DEF File
    <3> QED
      BY <3>1, <3>3 DEF File
  <2>3. CASE Chmod
    <3>1. tree[p] = File(k, Entry.size, TRUE)
      BY <1>7, <2>3 DEF Chmod, UnzipInv, LoopInv
    <3>2. UNCHANGED tree \/ \E w : tree' = [tree EXCEPT ![p].writable = w]
      BY <1>7, <2>3 DEF Chmod
    <3>3. tree'[p].kind = tree[p].kind
      BY <1>1, <3>1, <3>2 DEF File
    <3> QED
      BY <3>1, <3>3 DEF File
  <2> QED
    BY <1>7, <2>1, <2>2, <2>3
<1>8. CASE OpenReader \/ Done \/ UNCHANGED vars
  BY <1>8 DEF OpenReader, Done, vars
<1> QED
  BY <1>4, <1>5, <1>6, <1>7, <1>8 DEF Next, ExtractFile

\* In the tree of a well-formed archive every node but a file is what Tree
\* says, and what is above an entry is a directory once its turn has come.
TreeInv ==
  WellFormed(archive) =>
    /\ \A p \in Paths : tree[p] \in {Absent, Directory(TRUE)} \/ tree[p].kind = "file"
    /\ \A m \in DOMAIN archive :
         m < k \/ (m = k /\ pc \in {"create", "copy", "chmod"}) =>
           \A q \in Above[archive[m].path] : tree[q].kind = "dir"

\* TreeInv is inductive relative to UnzipInv.
LEMMA TreeStep ==
  ASSUME UnzipInv, TreeInv, [Next]_vars
  PROVE  TreeInv'
<1>1. UNCHANGED archive
  BY Fixed DEF UnzipInv
<1> SUFFICES ASSUME WellFormed(archive)
             PROVE  TreeInv'
  BY <1>1 DEF TreeInv, WellFormed
<1>2. /\ \A m \in DOMAIN archive : /\ archive[m].path \in Paths /\ m \in Nat
                                   /\ Above[archive[m].path] \in SUBSET Paths
      /\ k \in Nat /\ TypeOK
  BY ElementType, EntryType, UnzipAssumption DEF UnzipInv, TypeOK
<1>3. \A p \in Paths : \/ tree'[p] = tree[p]
                       \/ tree[p].kind = "none" /\ tree'[p] = Directory(TRUE)
                       \/ tree[p].kind # "dir" /\ tree'[p].kind = "file"
  BY NodeStep
<1>4. \A p \in Paths : tree'[p] \in {Absent, Directory(TRUE)} \/ tree'[p].kind = "file"
  BY <1>3 DEF TreeInv
<1>5. \A p \in Paths : tree[p].kind = "dir" => tree'[p].kind = "dir"
  BY <1>3
<1>6. pc \in {"entry", "create", "copy", "chmod"} => k \in DOMAIN archive
  BY DEF UnzipInv, LoopInv
<1>7. ASSUME NEW m \in DOMAIN archive,
             m < k' \/ (m = k' /\ pc' \in {"create", "copy", "chmod"}),
             NEW q \in Above[archive[m].path]
      PROVE  tree'[q].kind = "dir"
  <2>1. CASE m < k \/ (m = k /\ pc \in {"create", "copy", "chmod"})
    BY <1>2, <1>5, <2>1 DEF TreeInv
  <2>2. CASE ~(m < k \/ (m = k /\ pc \in {"create", "copy", "chmod"}))
    <3>1. CASE ExtractDir \/ MakeParent
      <4>1. \/ k' = k
            \/ k' = k + 1 /\ pc' \in {"entry", "ok"}
        BY <3>1 DEF ExtractDir, MakeParent, NextEntry, Goto, Loop
      <4>2. m = k
        BY <1>2, <1>7, <2>2, <4>1
      <4>3. q \in Above[Entry.path] /\ q \in Upward(Entry.path)
        BY <1>7, <4>2 DEF Entry, Upward
      <4>4. CASE ExtractDir
        BY <1>2, <1>7, <4>2, <4>3, <4>4 DEF ExtractDir, MkdirAllWorks, Goto, Fault
      <4>5. CASE MakeParent
        BY <1>2, <1>7, <4>2, <4>3, <4>5 DEF MakeParent, MkdirAllWorks, Goto, Fault
      <4> QED
        BY <3>1, <4>4, <4>5
    <3>2. CASE CreateFile \/ CopyN
      <4>1. k' = k /\ pc \in {"create", "copy"}
        BY <3>2 DEF CreateFile, CopyN
      <4> QED
        BY <1>2, <1>7, <2>2, <4>1
    <3>3. CASE Chmod
      <4>1. pc = "chmod" /\ k' \in {k, k + 1}
        BY <3>3 DEF Chmod, NextEntry
      <4>2. k' = k + 1 => pc' \in {"entry", "ok"}
        BY <1>2, <3>3 DEF Chmod, NextEntry, Goto, Loop
      <4> QED
        BY <1>2, <1>7, <2>2, <4>1, <4>2
    <3>4. CASE OpenReader
      <4>1. k' = k /\ pc' \in {"entry", "ok", "failed"}
        BY <3>4 DEF OpenReader, Goto, Fault, Loop
      <4> QED
        BY <1>7, <2>2, <4>1
    <3>5. CASE Done \/ UNCHANGED vars
      <4>1. k' = k /\ pc' = pc
        BY <3>5 DEF Done, vars
      <4> QED
        BY <1>7, <2>2, <4>1
    <3> QED
      BY <3>1, <3>2, <3>3, <3>4, <3>5 DEF Next, ExtractFile
  <2> QED
    BY <2>1, <2>2
<1> QED
  BY <1>1, <1>4, <1>7 DEF TreeInv

\* At first there is nothing, or the tree that the archive describes.
LEMMA TreeInit ==
  ASSUME Init
  PROVE  TreeInv
<1> SUFFICES ASSUME WellFormed(archive)
             PROVE  TreeInv
  BY DEF TreeInv
<1>1. \A m \in DOMAIN archive : m \in Nat /\ ~(m < k) /\ pc = "open"
  BY UnzipInit DEF Init, UnzipInv, TypeOK
<1>2. ASSUME NEW p \in Paths
      PROVE  tree[p] \in {Absent, Directory(TRUE)} \/ tree[p].kind = "file"
  <2>1. CASE again
    BY <2>1 DEF Init, Tree, File
  <2>2. CASE ~again
    BY <2>2 DEF Init
  <2> QED
    BY <2>1, <2>2
<1> QED
  BY <1>1, <1>2 DEF TreeInv

\* A well-formed archive that is extracted without an error is exactly the
\* tree it describes, whatever the order of its entries and whether it has
\* been extracted before: Unzipper.Extract depends on neither.
THEOREM ExtractedTreeIsExact ==
  Spec => []ExtractsToTree
<1>1. UnzipInv /\ TreeInv => ExtractsToTree
  <2> SUFFICES ASSUME UnzipInv, TreeInv, pc = "ok", WellFormed(archive)
               PROVE  tree = Tree(archive)
    BY DEF ExtractsToTree
  <2>1. InPlace /\ tree \in [Paths -> Nodes]
    BY AllInPlace DEF UnzipInv, TypeOK
  <2>2. \A m \in DOMAIN archive : m < k /\ m \in Nat
    BY DEF UnzipInv, LoopInv, TypeOK
  <2>3. ASSUME NEW p \in Paths
        PROVE  tree[p] = Tree(archive)[p]
    <3>1. CASE \E m \in DOMAIN archive : archive[m].path = p /\ archive[m].kind = "file"
      <4> DEFINE m == CHOOSE m \in DOMAIN archive : archive[m].path = p
      <4>1. m \in DOMAIN archive /\ archive[m].path = p
        BY <3>1
      <4>2. Tree(archive)[p] = File(m, archive[m].size, archive[m].writable)
        BY <3>1 DEF Tree
      <4> HIDE DEF m
      <4>3. /\ archive[m].kind = "file"
            /\ \A n \in DOMAIN archive : n # m => archive[n].path # archive[m].path
        BY <3>1, <4>1 DEF WellFormed
      <4>4. \A n \in m + 1 .. Len(archive) : n \in DOMAIN archive /\ n # m
        BY <2>2, <4>1 DEF UnzipInv, TypeOK
      <4>5. tree[archive[m].path] = File(m, archive[m].size, archive[m].writable)
        BY <2>1, <4>1, <4>3, <4>4 DEF InPlace
      <4> QED
        BY <4>1, <4>2, <4>5
    <3>2. CASE /\ ~\E m \in DOMAIN archive : archive[m].path = p /\ archive[m].kind = "file"
               /\ \E m \in DOMAIN archive : p \in Upward(archive[m].path)
      <4>1. Tree(archive)[p] = Directory(TRUE)
        BY <3>2 DEF Tree
      <4>2. PICK m \in DOMAIN archive : p \in Upward(archive[m].path)
        BY <3>2
      <4>3. archive[m].kind \in {"file", "dir"}
        BY ElementType, EntryType DEF UnzipInv, TypeOK
      <4>4. tree[p].kind = "dir"
        <5>1. CASE p = archive[m].path
          <6>1. archive[m].kind = "dir"
            BY <3>2, <4>3, <5>1
          <6> QED
            BY <2>1, <5>1, <6>1 DEF InPlace
        <5>2. CASE p \in Above[archive[m].path]
          BY <2>2, <5>2 DEF TreeInv
        <5> QED
          BY <4>2, <5>1, <5>2 DEF Upward
      <4>5. Absent.kind = "none" /\ tree[p].kind # "file"
        BY <4>4 DEF Absent
      <4> QED
        BY <4>1, <4>4, <4>5 DEF TreeInv
    <3>3. CASE ~\E m \in DOMAIN archive : p \in Upward(archive[m].path)
      <4>1. Tree(archive)[p] = Absent
        BY <3>3 DEF Tree, Upward
      <4>2. tree[p].kind = "none"
        BY <2>1, <3>3 DEF InPlace
      <4>3. Directory(TRUE).kind = "dir"
        BY DEF Directory
      <4> QED
        BY <4>1, <4>2, <4>3 DEF TreeInv
    <3> QED
      BY <3>1, <3>2, <3>3
  <2> QED
    BY <2>1, <2>3 DEF Tree
<1> QED
  BY <1>1, TreeInit, TreeStep, UnzipAlways, PTL DEF Spec

-----------------------------------------------------------------------------
(* Why Extract fails *)

\* Nothing is in the way of the extraction.
Smooth ==
  /\ ~faulty
  /\ opens
  /\ WellFormed(archive)
  /\ again => \A m \in DOMAIN archive : archive[m].writable

\* What is in the tree belongs to an entry of its kind, and only a file that
\* is finished is read-only.
Owned(p) ==
  /\ tree[p].kind = "dir" =>
       /\ tree[p].writable
       /\ \E m \in DOMAIN archive :
            \/ p \in Above[archive[m].path]
            \/ p = archive[m].path /\ archive[m].kind = "dir"
  /\ tree[p].kind = "file" =>
       \E m \in DOMAIN archive :
         /\ p = archive[m].path
         /\ archive[m].kind = "file"
         /\ tree[p].writable \/ m < k

ReasonInv ==
  Smooth =>
    /\ pc # "failed"
    /\ \A p \in Paths : Owned(p)
    /\ pc = "create" => \A q \in Above[Entry.path] : tree[q].kind = "dir"

\* What may be where the present entry goes.
LEMMA Way ==
  ASSUME UnzipInv, ReasonInv, Smooth, k \in DOMAIN archive
  PROVE  /\ \A q \in Above[Entry.path] :
              tree[q].kind \in {"none", "dir"} /\ (tree[q].kind = "dir" => tree[q].writable)
         /\ Entry.kind = "dir" =>
              /\ tree[Entry.path].kind \in {"none", "dir"}
              /\ tree[Entry.path].kind = "dir" => tree[Entry.path].writable
              /\ Entry.writable
         /\ Entry.kind = "file" =>
              \/ tree[Entry.path].kind = "none"
              \/ tree[Entry.path].kind = "file" /\ tree[Entry.path].writable
<1>1. /\ Entry.path \in Paths /\ Above[Entry.path] \in SUBSET Paths
      /\ Entry.path \notin Above[Entry.path] /\ k \in Nat
  BY Lookup, UnzipAssumption DEF UnzipInv
<1>2. \A q \in Paths : Owned(q) /\ tree[q].kind \in {"none", "dir", "file"}
  BY DEF ReasonInv, UnzipInv, TypeOK, Nodes
<1>3. \A m \in DOMAIN archive : m # k =>
        /\ archive[m].path # Entry.path
        /\ archive[m].path \in Above[Entry.path] => archive[m].kind = "dir"
        /\ Entry.path \in Above[archive[m].path] => Entry.kind = "dir"
  BY DEF Smooth, WellFormed, Entry
<1>4. ASSUME NEW q \in Above[Entry.path]
      PROVE  tree[q].kind \in {"none", "dir"} /\ (tree[q].kind = "dir" => tree[q].writable)
  <2>1. q \in Paths /\ q # Entry.path
    BY <1>1
  <2>2. tree[q].kind # "file"
    <3> SUFFICES ASSUME tree[q].kind = "file"
                 PROVE  FALSE
      OBVIOUS
    <3>1. PICK m \in DOMAIN archive : q = archive[m].path /\ archive[m].kind = "file"
      BY <1>2, <2>1 DEF Owned
    <3>2. m # k
      BY <2>1, <3>1 DEF Entry
    <3> QED
      BY <1>3, <3>1, <3>2
  <2> QED
    BY <1>2, <2>1, <2>2 DEF Owned
<1>5. ASSUME Entry.kind = "dir"
      PROVE  /\ tree[Entry.path].kind \in {"none", "dir"}
             /\ tree[Entry.path].kind = "dir" => tree[Entry.path].writable
             /\ Entry.writable
  <2>1. tree[Entry.path].kind # "file"
    <3> SUFFICES ASSUME tree[Entry.path].kind = "file"
                 PROVE  FALSE
      OBVIOUS
    <3>1. PICK m \in DOMAIN archive : Entry.path = archive[m].path /\ archive[m].kind = "file"
      BY <1>1, <1>2 DEF Owned
    <3>2. m # k
      BY <1>5, <3>1 DEF Entry
    <3> QED
      BY <1>3, <3>1, <3>2
  <2>2. Entry.writable
    BY <1>5 DEF Smooth, WellFormed, Entry
  <2> QED
    BY <1>1, <1>2, <2>1, <2>2 DEF Owned
<1>6. ASSUME Entry.kind = "file"
      PROVE  \/ tree[Entry.path].kind = "none"
             \/ tree[Entry.path].kind = "file" /\ tree[Entry.path].writable
  <2>1. tree[Entry.path].kind # "dir"
    <3> SUFFICES ASSUME tree[Entry.path].kind = "dir"
                 PROVE  FALSE
      OBVIOUS
    <3>1. PICK m \in DOMAIN archive :
            \/ Entry.path \in Above[archive[m].path]
            \/ Entry.path = archive[m].path /\ archive[m].kind = "dir"
      BY <1>1, <1>2 DEF Owned
    <3>2. m # k
      BY <1>1, <1>6, <3>1 DEF Entry
    <3> QED
      BY <1>3, <1>6, <3>1, <3>2
  <2>2. ASSUME tree[Entry.path].kind = "file"
        PROVE  tree[Entry.path].writable
    <3>1. PICK m \in DOMAIN archive : /\ Entry.path = archive[m].path
                                      /\ tree[Entry.path].writable \/ m < k
      BY <1>1, <1>2, <2>2 DEF Owned
    <3>2. m = k
      BY <1>3, <3>1
    <3> QED
      BY <1>1, <3>1, <3>2
  <2> QED
    BY <1>1, <1>2, <2>1, <2>2
<1> QED
  BY <1>4, <1>5, <1>6

\* MkdirAll works where there are but directories that can be written.
LEMMA SmoothMkdirAll ==
  ASSUME TypeOK, NEW chain \in SUBSET Paths,
         \A q \in chain :
           tree[q].kind \in {"none", "dir"} /\ (tree[q].kind = "dir" => tree[q].writable)
  PROVE  /\ Room(chain)
         /\ MkdirAllWorks(chain, TRUE)
         /\ \A p \in Paths : \/ AfterMkdirAll(chain, TRUE)[p] = tree[p]
                             \/ p \in chain /\ AfterMkdirAll(chain, TRUE)[p] = Directory(TRUE)
<1>1. Room(chain)
  BY DEF Room, Missing
<1>2. Made(chain, TRUE) = Missing(chain)
  BY <1>1 DEF Made, Missing
<1>3. \A p \in Paths :
        AfterMkdirAll(chain, TRUE)[p] = IF p \in Missing(chain) THEN Directory(TRUE) ELSE tree[p]
  BY <1>2 DEF AfterMkdirAll
<1>4. Directory(TRUE).kind = "dir"
  BY DEF Directory
<1>5. MkdirAllWorks(chain, TRUE)
  BY <1>3, <1>4 DEF MkdirAllWorks, Missing
<1> QED
  BY <1>1, <1>3, <1>5 DEF Missing

\* Steps that change no node, or change it in a way that keeps it owned.
LEMMA OwnedStep ==
  ASSUME ReasonInv, Smooth, UNCHANGED archive, k \in Int, k' \in {k, k + 1},
         \A m \in DOMAIN archive : m \in Int,
         NEW p \in Paths, tree'[p] = tree[p]
  PROVE  Owned(p)'
<1>1. Owned(p)
  BY DEF ReasonInv
<1>2. \A m \in DOMAIN archive : m < k => m < k'
  OBVIOUS
<1> QED
  BY <1>1, <1>2 DEF Owned

\* As long as the extraction is smooth ReasonInv is inductive relative to
\* UnzipInv.
LEMMA SmoothStep ==
  ASSUME UnzipInv, ReasonInv, [Next]_vars, Smooth'
  PROVE  ReasonInv'
<1>1. /\ UNCHANGED <<opens, archive, again>> /\ faulty \in BOOLEAN
      /\ TypeOK /\ k \in Int /\ tree \in [Paths -> Nodes]
      /\ DOMAIN archive = 1 .. Len(archive) /\ Len(archive) \in Nat
  BY Fixed DEF UnzipInv, TypeOK
<1>2. ~Fault
  BY DEF Smooth, Fault
<1>3. Smooth
  <2>1. ~faulty
    BY <1>1, Zenon DEF Next, vars, OpenReader, ExtractDir, ExtractFile, MakeParent, CreateFile,
      CopyN, Chmod, Done, Goto, Fault, NextEntry, Smooth
  <2> QED
    BY <1>1, <2>1 DEF Smooth, WellFormed
<1>4. /\ pc # "failed"
      /\ \A p \in Paths : Owned(p)
      /\ pc = "create" => \A q \in Above[Entry.path] : tree[q].kind = "dir"
  BY <1>3 DEF ReasonInv
<1>5. ASSUME k' \in {k, k + 1}, NEW p \in Paths, tree'[p] = tree[p]
      PROVE  Owned(p)'
  BY <1>1, <1>3, <1>5, OwnedStep
<1>6. pc \in {"entry", "create", "copy", "chmod"} =>
        /\ k \in DOMAIN archive
        /\ Entry.path \in Paths
        /\ Above[Entry.path] \in SUBSET Paths
        /\ Upward(Entry.path) \in SUBSET Paths
        /\ Entry.path \notin Above[Entry.path]
  BY <1>1, Lookup, UnzipAssumption DEF UnzipInv, LoopInv
<1>7. CASE OpenReader
  <2>1. pc' \in {"entry", "ok"} /\ UNCHANGED <<k, tree>>
    BY <1>2, <1>3, <1>7 DEF OpenReader, Goto, Loop, Smooth
  <2>2. \A p \in Paths : Owned(p)'
    BY <1>5, <2>1
  <2> QED
    BY <2>1, <2>2 DEF ReasonInv
<1>8. CASE ExtractDir
  <2>1. pc = "entry" /\ Entry.kind = "dir"
    BY <1>8 DEF ExtractDir
  <2>2. Entry.writable = TRUE
    <3>1. Entry.writable /\ Entry.writable \in BOOLEAN
      BY <1>1, <1>3, <1>6, <2>1, Lookup, Way
    <3> QED
      BY <3>1, Zenon
  <2>3. \A q \in Upward(Entry.path) :
          tree[q].kind \in {"none", "dir"} /\ (tree[q].kind = "dir" => tree[q].writable)
    BY <1>3, <1>6, <2>1, Way DEF Upward
  <2> DEFINE after == AfterMkdirAll(Upward(Entry.path), TRUE)
  <2>4. /\ MkdirAllWorks(Upward(Entry.path), TRUE)
        /\ \A p \in Paths : \/ after[p] = tree[p]
                            \/ p \in Upward(Entry.path) /\ after[p] = Directory(TRUE)
    BY <1>1, <1>6, <2>1, <2>3, SmoothMkdirAll
  <2>5. tree' = after /\ NextEntry
    BY <1>2, <1>8, <2>2, <2>4, Zenon DEF ExtractDir
  <2> HIDE DEF after
  <2>6. k' = k + 1 /\ pc' \in {"entry", "ok"}
    BY <1>1, <1>6, <2>1, <2>5, NextEntryGoes
  <2>7. ASSUME NEW p \in Upward(Entry.path), tree'[p] = Directory(TRUE)
        PROVE  Owned(p)'
    <3>1. tree'[p].kind = "dir" /\ tree'[p].writable
      BY <2>7 DEF Directory
    <3>2. \/ p \in Above[archive[k].path]
          \/ p = archive[k].path /\ archive[k].kind = "dir"
      BY <2>1 DEF Upward, Entry
    <3> QED
      BY <1>1, <1>6, <2>1, <3>1, <3>2 DEF Owned
  <2>8. \A p \in Paths : Owned(p)'
    BY <1>5, <2>4, <2>5, <2>6, <2>7
  <2> QED
    BY <2>6, <2>8 DEF ReasonInv
<1>9. CASE MakeParent
  <2>1. pc = "entry" /\ Entry.kind = "file" /\ UNCHANGED k
    BY <1>9 DEF MakeParent
  <2>2. \A q \in Above[Entry.path] :
          tree[q].kind \in {"none", "dir"} /\ (tree[q].kind = "dir" => tree[q].writable)
    BY <1>3, <1>6, <2>1, Way
  <2> DEFINE after == AfterMkdirAll(Above[Entry.path], TRUE)
  <2>3. /\ MkdirAllWorks(Above[Entry.path], TRUE)
        /\ \A p \in Paths : \/ after[p] = tree[p]
                            \/ p \in Above[Entry.path] /\ after[p] = Directory(TRUE)
    BY <1>1, <1>6, <2>1, <2>2, SmoothMkdirAll
  <2>4. tree' = after /\ pc' = "create"
    BY <1>2, <1>9, <2>3, Zenon DEF MakeParent, ParentMode, Goto
  <2>5. \A q \in Above[Entry.path] : after[q].kind = "dir"
    BY <2>3 DEF MkdirAllWorks
  <2> HIDE DEF after
  <2>6. ASSUME NEW p \in Above[Entry.path], tree'[p] = Directory(TRUE)
        PROVE  Owned(p)'
    <3>1. tree'[p].kind = "dir" /\ tree'[p].writable
      BY <2>6 DEF Directory
    <3>2. p \in Above[archive[k].path]
      BY DEF Entry
    <3> QED
      BY <1>1, <1>6, <2>1, <3>1, <3>2 DEF Owned
  <2>7. \A p \in Paths : Owned(p)'
    BY <1>5, <2>1, <2>3, <2>4, <2>6
  <2> QED
    BY <1>1, <2>1, <2>4, <2>5, <2>7 DEF ReasonInv, Entry
<1>10. CASE CreateFile
  <2>1. pc = "create" /\ Entry.kind = "file" /\ UNCHANGED k
    BY <1>10 DEF CreateFile, UnzipInv, LoopInv
  <2>2. \A q \in Above[Entry.path] :
          tree[q].kind \in {"none", "dir"} /\ (tree[q].kind = "dir" => tree[q].writable)
    BY <1>3, <1>6, <2>1, Way
  <2>3. Room(Above[Entry.path])
    BY <1>1, <1>6, <2>1, <2>2, SmoothMkdirAll
  <2>4. \/ tree[Entry.path].kind = "none"
        \/ tree[Entry.path].kind = "file" /\ tree[Entry.path].writable
    BY <1>3, <1>6, <2>1, Way
  <2>5. Creatable(Entry.path)
    BY <2>3, <2>4 DEF Creatable
  <2>6. pc' = "copy" /\ tree' = [tree EXCEPT ![Entry.path] = File(k, 0, TRUE)]
    BY <1>2, <1>10, <2>5, Zenon DEF CreateFile, Goto
  <2>7. \A p \in Paths : Owned(p)'
    <3> SUFFICES ASSUME NEW p \in Paths
                 PROVE  Owned(p)'
      OBVIOUS
    <3>1. CASE p = Entry.path
      <4>1. tree'[p].kind = "file" /\ tree'[p].writable
        BY <1>1, <1>6, <2>1, <2>6, <3>1 DEF File
      <4> QED
        BY <1>1, <1>6, <2>1, <3>1, <4>1 DEF Owned, Entry
    <3>2. CASE p # Entry.path
      BY <1>1, <1>5, <2>1, <2>6, <3>2
    <3> QED
      BY <3>1, <3>2
  <2> QED
    BY <2>6, <2>7 DEF ReasonInv
<1>11. CASE CopyN
  <2>1. pc = "copy" /\ Entry.kind = "file" /\ UNCHANGED k /\ tree[Entry.path] = File(k, 0, TRUE)
    BY <1>11 DEF CopyN, UnzipInv, LoopInv
  <2>2. Entry.intact /\ ~StopsAt(Entry.size)
    <3>1. Entry.intact /\ Entry.size < Limit
      BY <1>3, <1>6, <2>1 DEF Smooth, WellFormed, Entry
    <3>2. Entry.size \in Int /\ Limit \in Int
      BY <1>1, <1>6, <2>1, Lookup, UnzipAssumption
    <3> QED
      BY <3>1, <3>2 DEF StopsAt
  <2>3. pc' = "chmod" /\ Write(Copied(Entry.size))
    BY <1>2, <1>11, <2>2, Zenon DEF CopyN, Goto
  <2>4. \A p \in Paths : Owned(p)'
    <3> SUFFICES ASSUME NEW p \in Paths
                 PROVE  Owned(p)'
      OBVIOUS
    <3>1. CASE p = Entry.path
      <4>1. tree'[p] = [tree[p] EXCEPT !.size = Copied(Entry.size)]
        BY <1>1, <2>3, <3>1 DEF Write
      <4>2. tree'[p].kind = tree[p].kind /\ tree'[p].writable = tree[p].writable
        BY <2>1, <3>1, <4>1 DEF File
      <4>3. tree'[p].kind = "file" /\ tree'[p].writable
        BY <2>1, <3>1, <4>2 DEF File
      <4> QED
        BY <1>1, <1>6, <2>1, <3>1, <4>3 DEF Owned, Entry
    <3>2. CASE p # Entry.path
      BY <1>1, <1>5, <2>1, <2>3, <3>2 DEF Write
    <3> QED
      BY <3>1, <3>2
  <2> QED
    BY <2>3, <2>4 DEF ReasonInv
<1>12. CASE Chmod
  <2>1. pc = "chmod" /\ Entry.kind = "file" /\ tree[Entry.path] = File(k, Entry.size, TRUE)
    BY <1>12 DEF Chmod, UnzipInv, LoopInv
  <2>2. NextEntry /\ tree' = [tree EXCEPT ![Entry.path].writable = Entry.writable]
    BY <1>2, <1>12, Zenon DEF Chmod
  <2>3. k' = k + 1 /\ pc' \in {"entry", "ok"}
    BY <1>1, <1>6, <2>1, <2>2, NextEntryGoes
  <2>4. \A p \in Paths : Owned(p)'
    <3> SUFFICES ASSUME NEW p \in Paths
                 PROVE  Owned(p)'
      OBVIOUS
    <3>1. CASE p = Entry.path
      <4>1. tree'[p] = [tree[p] EXCEPT !.writable = Entry.writable]
        BY <1>1, <2>2, <3>1
      <4>2. tree'[p].kind = "file"
        BY <2>1, <3>1, <4>1 DEF File
      <4>3. k < k'
        BY <1>1, <2>3
      <4> QED
        BY <1>1, <1>6, <2>1, <3>1, <4>2, <4>3 DEF Owned, Entry
    <3>2. CASE p # Entry.path
      BY <1>1, <1>5, <2>2, <2>3, <3>2
    <3> QED
      BY <3>1, <3>2
  <2> QED
    BY <2>3, <2>4 DEF ReasonInv
<1>13. CASE Done \/ UNCHANGED vars
  <2>1. UNCHANGED vars
    BY <1>13 DEF Done
  <2>2. \A p \in Paths : Owned(p)'
    BY <1>5, <2>1 DEF vars
  <2> QED
    BY <1>4, <2>1, <2>2 DEF vars, ReasonInv, Entry
<1> QED
  BY <1>7, <1>8, <1>9, <1>10, <1>11, <1>12, <1>13 DEF Next, ExtractFile

\* An extraction that is no longer smooth never is again.
LEMMA ReasonStep ==
  UnzipInv /\ ReasonInv /\ [Next]_vars => ReasonInv'
<1>1. ~Smooth' => ReasonInv'
  BY DEF ReasonInv
<1> QED
  BY <1>1, SmoothStep

\* What an earlier extraction leaves belongs to the entries.
LEMMA ReasonInit ==
  ASSUME Init
  PROVE  ReasonInv
<1> SUFFICES ASSUME Smooth, NEW p \in Paths
             PROVE  Owned(p)
  BY DEF Init, ReasonInv
<1>1. CASE ~again
  BY <1>1 DEF Init, Absent, Owned
<1>2. CASE again
  <2>1. tree = Tree(archive) /\ \A m \in DOMAIN archive : archive[m].writable
    BY <1>2 DEF Init, Smooth
  <2>2. CASE \E m \in DOMAIN archive : archive[m].path = p /\ archive[m].kind = "file"
    <3> DEFINE m == CHOOSE m \in DOMAIN archive : archive[m].path = p
    <3>1. m \in DOMAIN archive /\ archive[m].path = p
      BY <2>2
    <3>2. tree[p] = File(m, archive[m].size, archive[m].writable)
      BY <2>1, <2>2 DEF Tree
    <3> HIDE DEF m
    <3>3. tree[p].kind = "file" /\ tree[p].writable
      <4>1. tree[p].kind = "file" /\ tree[p].writable = archive[m].writable
        BY <3>2 DEF File
      <4> QED
        BY <2>1, <3>1, <4>1, Zenon
    <3> QED
      BY <2>2, <3>3 DEF Owned
  <2>3. CASE /\ ~\E m \in DOMAIN archive : archive[m].path = p /\ archive[m].kind = "file"
             /\ \E m \in DOMAIN archive : p \in Upward(archive[m].path)
    <3>1. tree[p] = Directory(TRUE)
      BY <2>1, <2>3 DEF Tree
    <3>2. tree[p].kind = "dir" /\ tree[p].writable
      BY <3>1 DEF Directory
    <3>3. PICK m \in DOMAIN archive : p \in Upward(archive[m].path)
      BY <2>3
    <3>4. archive[m].kind \in {"file", "dir"}
      BY UnzipInit, ElementType, EntryType DEF UnzipInv, TypeOK
    <3>5. p \in Above[archive[m].path] \/ (p = archive[m].path /\ archive[m].kind = "dir")
      BY <2>3, <3>3, <3>4 DEF Upward
    <3> QED
      BY <3>2, <3>5 DEF Owned
  <2>4. CASE ~\E m \in DOMAIN archive : p \in Upward(archive[m].path)
    <3>1. tree[p] = Absent
      BY <2>1, <2>4 DEF Tree, Upward
    <3> QED
      BY <3>1 DEF Absent, Owned
  <2> QED
    BY <2>2, <2>3, <2>4
<1> QED
  BY <1>1, <1>2, Zenon DEF Init

\* Extract fails only if there is no archive, the archive is not well-formed,
\* an earlier extraction has left a read-only file, or something broke.
THEOREM UnzipFailsForAReason ==
  Spec => []FailsForAReason
<1>1. Init => ReasonInv
  BY ReasonInit
<1>2. UnzipInv /\ ReasonInv /\ [Next]_vars => ReasonInv'
  BY ReasonStep
<1>3. ReasonInv => FailsForAReason
  BY DEF ReasonInv, Smooth, FailsForAReason
<1> QED
  BY <1>1, <1>2, <1>3, UnzipAlways, PTL DEF Spec
=============================================================================
