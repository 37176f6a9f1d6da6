--------------------------- MODULE DownloadProofs ----------------------------
(***************************************************************************)
(* Theorems about Download, for files of any length over any blocks.       *)
(***************************************************************************)
EXTENDS Download, SequenceTheorems, TLAPS

-----------------------------------------------------------------------------
(* The inductive invariant. *)

\* The blocks of the body from the one after m up to number n
Part(m, n) == SubSeq(body, m + 1, n)

\* What is on disk, in the hash and in the buffer are pieces of the body; the
\* end of the body is seen when all of it was hashed and its checksum is
\* right, and an error has a reason.
CopyInv ==
  /\ file \in Seq(Blocks) /\ Len(file) <= received
  /\ file = Part(0, Len(file))
  /\ pc \in {"install", "get", "read"} => Len(file) = received
  /\ pc = "write" => chunk = Part(Len(file), received)
  /\ verifying => hashed = Part(0, received)
  /\ pc = "write" /\ ending = "EOF" =>
       received = Len(body) /\ (verifying => body = original)
  /\ pc = "write" /\ ending = "error" => faulty \/ (verifying /\ body # original)
  /\ pc = "ok" => file = body /\ (verifying => body = original)
  /\ FailsForAReason

\* The types that CopyInv needs.
TypeInv ==
  /\ verifying \in BOOLEAN
  /\ original \in Seq(Blocks)
  /\ body \in Seq(Blocks) /\ Len(body) <= MaxBlocks
  /\ received \in 0 .. Len(body)
  /\ ending \in {"none", "EOF", "error"}

Inv == TypeInv /\ CopyInv

-----------------------------------------------------------------------------
(* Pieces of the body *)

\* Contents are the sequences of blocks that are not too long.
LEMMA ContentsAreSeqs ==
  ASSUME NEW s
  PROVE  s \in Contents <=> s \in Seq(Blocks) /\ Len(s) <= MaxBlocks
<1>1. ASSUME s \in Contents PROVE s \in Seq(Blocks) /\ Len(s) <= MaxBlocks
  BY <1>1, DownloadAssumption DEF Contents
<1>2. ASSUME s \in Seq(Blocks), Len(s) <= MaxBlocks PROVE s \in Contents
  <2>1. Len(s) \in 0 .. MaxBlocks /\ s \in [1 .. Len(s) -> Blocks]
    BY <1>2, DownloadAssumption
  <2> QED
    BY <2>1 DEF Contents
<1> QED
  BY <1>1, <1>2

\* A piece of the body is a sequence of blocks.
LEMMA PartType ==
  ASSUME body \in Seq(Blocks), NEW m \in Nat, NEW n \in m .. Len(body)
  PROVE  Part(m, n) \in Seq(Blocks) /\ Len(Part(m, n)) = n - m
<1>1. \A j \in m + 1 .. n : body[j] \in Blocks
  OBVIOUS
<1>2. n \in Int /\ m + 1 \in Int
  OBVIOUS
<1> QED
  BY <1>1, <1>2, SubSeqProperties DEF Part

\* The pieces up to and after one place make up the longer piece.
LEMMA PartConcat ==
  ASSUME body \in Seq(Blocks), NEW m \in 0 .. Len(body), NEW n \in m .. Len(body)
  PROVE  Part(0, m) \o Part(m, n) = Part(0, n)
<1>1. 1 \in 1 .. Len(body) + 1 /\ m \in 1 - 1 .. Len(body) /\ n \in m .. Len(body)
  OBVIOUS
<1> QED
  BY <1>1, ConcatAdjacentSubSeq DEF Part

\* The whole body is its last piece.
LEMMA PartWhole ==
  ASSUME body \in Seq(Blocks)
  PROVE  Part(0, Len(body)) = body
BY SubSeqFull DEF Part

\* The first blocks of a piece are a piece.
LEMMA PartOfPart ==
  ASSUME body \in Seq(Blocks), NEW m \in 0 .. Len(body), NEW n \in m .. Len(body),
         NEW k \in 0 .. n - m
  PROVE  SubSeq(Part(m, n), 1, k) = Part(m, m + k)
<1>1. CASE k = 0
  <2>1. SubSeq(Part(m, n), 1, k) = <<>>
    BY <1>1, SubSeqEmpty
  <2>2. SubSeq(body, m + 1, m + k) = <<>>
    BY <1>1, SubSeqEmpty
  <2> QED
    BY <2>1, <2>2 DEF Part
<1>2. CASE k > 0
  <2>1. /\ m + 1 \in 1 .. Len(body) /\ n \in 1 .. Len(body)
        /\ 1 \in 1 .. n - (m + 1) + 1 /\ k \in 1 .. n - (m + 1) + 1
    BY <1>2
  <2>2. SubSeq(SubSeq(body, m + 1, n), 1, k) = SubSeq(body, m + 1 + 1 - 1, m + 1 + k - 1)
    BY <2>1, SubSeqOfSubSeq
  <2>3. m + 1 + 1 - 1 = m + 1 /\ m + 1 + k - 1 = m + k
    OBVIOUS
  <2> QED
    BY <2>2, <2>3 DEF Part
<1> QED
  BY <1>1, <1>2

-----------------------------------------------------------------------------
(* The invariant is inductive. *)

\* Nothing has been read or written at the start.
LEMMA InvInit == Init => Inv
<1> SUFFICES ASSUME Init PROVE Inv
  OBVIOUS
<1>1. body \in Seq(Blocks) /\ Len(body) <= MaxBlocks /\ original \in Seq(Blocks)
  BY ContentsAreSeqs DEF Init
<1>2. TypeInv
  BY <1>1 DEF TypeInv, Init
<1>3. Part(0, 0) = <<>>
  BY SubSeqEmpty DEF Part
<1> QED
  BY <1>2, <1>3 DEF Inv, CopyInv, FailsForAReason, Init

\* Reading keeps it: what was read joins the hash, and the buffer follows on
\* what is on disk.
LEMMA ReadStep ==
  ASSUME Inv, Read
  PROVE  Inv'
<1> DEFINE n == received' - received
<1>0. body' = body /\ file' = file /\ original' = original /\ verifying' = verifying /\ pc' = "write"
  BY DEF Read, request
<1>1. /\ received \in Nat /\ Len(body) \in Nat
      /\ received' \in received .. Len(body)
      /\ chunk' = Part(received, received')
      /\ hashed' = IF verifying THEN hashed \o chunk' ELSE hashed
  BY DEF Read, Inv, TypeInv, Part
<1>2. PICK end \in {"none", "EOF", "error"} :
        /\ end = "EOF" => received' = Len(body)
        /\ ending' = Verify(end, hashed')
        /\ faulty' = (faulty \/ end = "error")
  BY <1>1 DEF Read
<1>3. verifying => hashed' = Part(0, received')
  BY <1>1, PartConcat DEF Inv, CopyInv, TypeInv
<1>4. received' = Len(body) => Part(0, received') = body
  BY PartWhole DEF Inv, TypeInv
<1>5. /\ ending' = "EOF" => received' = Len(body) /\ (verifying => body = original)
      /\ ending' = "error" => faulty' \/ (verifying /\ body # original)
      /\ ending' \in {"none", "EOF", "error"}
  BY <1>2, <1>3, <1>4 DEF Verify
<1>6. TypeInv'
  BY <1>0, <1>1, <1>5 DEF Inv, TypeInv
<1>7. Part(0, Len(file))' = Part(0, Len(file)) /\ Part(Len(file), received)' = Part(Len(file), received')
  BY <1>0 DEF Part
<1>8. Len(file) = received /\ file = Part(0, Len(file)) /\ file \in Seq(Blocks)
  BY DEF Inv, CopyInv, Read
<1>9. Part(0, received)' = Part(0, received')
  BY <1>0 DEF Part
<1> QED
  BY <1>0, <1>1, <1>3, <1>5, <1>6, <1>7, <1>8, <1>9 DEF Inv, CopyInv, FailsForAReason

\* Writing keeps it: the file stays a piece of the body from its start.
LEMMA WriteStep ==
  ASSUME Inv, Write
  PROVE  Inv'
<1> DEFINE w == Len(file)
<1>0. /\ body' = body /\ original' = original /\ verifying' = verifying /\ given' = given
      /\ status' = status /\ received' = received /\ hashed' = hashed /\ ending' = ending
      /\ pc = "write"
  BY DEF Write, request, copy
<1>1. /\ w \in 0 .. received /\ received \in 0 .. Len(body) /\ received \in w .. Len(body)
      /\ body \in Seq(Blocks)
      /\ file = Part(0, w) /\ chunk = Part(w, received)
      /\ ending \in {"none", "EOF", "error"}
  BY <1>0 DEF Inv, CopyInv, TypeInv
<1>a. w \in 0 .. Len(body)
  BY <1>1
<1> HIDE DEF w
<1>2. TypeInv'
  BY <1>0 DEF Inv, TypeInv
<1>3. \A m, k : Part(m, k)' = Part(m, k)
  BY <1>0 DEF Part
<1>4. CASE file' = file \o chunk /\ Goto(AfterWrite)
  <2>0. Part(0, w) \o Part(w, received) = Part(0, received)
    BY <1>1, <1>a, PartConcat
  <2>1. file' = Part(0, received)
    BY <1>1, <1>4, <2>0
  <2>2. file' \in Seq(Blocks) /\ Len(file') = received
    BY <1>1, <2>1, PartType, received \in 0 .. Len(body), received - 0 = received
  <2>3. CASE ending = "none"
    <3>1. pc' = "read"
      BY <1>4, <2>3 DEF Goto, AfterWrite
    <3> QED
      BY <1>0, <1>1, <1>2, <1>3, <2>1, <2>2, <3>1 DEF Inv, CopyInv, FailsForAReason
  <2>4. CASE ending = "EOF"
    <3>1. pc' = "ok"
      BY <1>4, <2>4 DEF Goto, AfterWrite
    <3>2. received = Len(body) /\ (verifying => body = original)
      BY <1>0, <2>4 DEF Inv, CopyInv
    <3>3. file' = body
      BY <1>1, <2>1, <3>2, PartWhole
    <3> QED
      BY <1>0, <1>1, <1>2, <1>3, <2>1, <2>2, <3>1, <3>2, <3>3 DEF Inv, CopyInv, FailsForAReason
  <2>5. CASE ending = "error"
    <3>1. pc' = "failed" /\ faulty' = faulty
      BY <1>4, <2>5 DEF Goto, AfterWrite
    <3>2. faulty \/ (verifying /\ body # original)
      BY <1>0, <2>5 DEF Inv, CopyInv
    <3> QED
      BY <1>0, <1>1, <1>2, <1>3, <2>1, <2>2, <3>1, <3>2 DEF Inv, CopyInv, FailsForAReason
  <2> QED
    BY <1>1, <2>3, <2>4, <2>5
<1>5. CASE (\E n \in 0 .. Len(chunk) - 1 : file' = file \o SubSeq(chunk, 1, n)) /\ Fault
  <2>1. PICK n \in 0 .. Len(chunk) - 1 : file' = file \o SubSeq(chunk, 1, n)
    BY <1>5
  <2>2. Len(chunk) = received - w
    BY <1>1, <1>a, w \in Nat, PartType
  <2>3. n \in 0 .. received - w /\ w + n \in w .. Len(body) /\ w + n \in 0 .. received
    BY <1>1, <1>a, <2>1, <2>2
  <2>4. SubSeq(chunk, 1, n) = Part(w, w + n)
    BY <1>1, <1>a, <2>3, PartOfPart
  <2>5. Part(0, w) \o Part(w, w + n) = Part(0, w + n)
    BY <1>1, <1>a, <2>3, PartConcat
  <2>6. file' = Part(0, w + n)
    BY <1>1, <2>1, <2>4, <2>5
  <2>9. w + n \in 0 .. Len(body) /\ w + n - 0 = w + n
    BY <1>a, <2>3
  <2>8. file' \in Seq(Blocks) /\ Len(file') = w + n
    BY <1>1, <2>6, <2>9, PartType
  <2>7. pc' = "failed" /\ faulty' = TRUE
    BY <1>5 DEF Fault
  <2> QED
    BY <1>0, <1>1, <1>2, <1>3, <2>3, <2>6, <2>7, <2>8 DEF Inv, CopyInv, FailsForAReason
<1> QED
  BY <1>4, <1>5 DEF Write

\* Every step keeps the invariant.
LEMMA InvStep == Inv /\ [Next]_vars => Inv'
<1> SUFFICES ASSUME Inv, [Next]_vars PROVE Inv'
  OBVIOUS
<1>1. ASSUME UNCHANGED <<request, copy, file>> PROVE TypeInv' /\ \A m, k : Part(m, k)' = Part(m, k)
  BY <1>1 DEF Inv, TypeInv, request, copy, Part
<1>2. CASE CreateFile
  BY <1>1, <1>2 DEF CreateFile, Inv, CopyInv, FailsForAReason, request, copy, Goto, Fault
<1>3. CASE Get
  BY <1>1, <1>3 DEF Get, Inv, CopyInv, FailsForAReason, request, copy, Goto, Fault
<1>4. CASE Read
  BY <1>4, ReadStep
<1>5. CASE Write
  BY <1>5, WriteStep
<1>6. CASE Done \/ UNCHANGED vars
  BY <1>1, <1>6 DEF Done, vars, Inv, CopyInv, FailsForAReason, request, copy
<1> QED
  BY <1>2, <1>3, <1>4, <1>5, <1>6 DEF Next

LEMMA InvAlways == Spec => []Inv
BY InvInit, InvStep, PTL DEF Spec

-----------------------------------------------------------------------------
(* Theorems *)

\* A download is refused only for a reason, however the body arrives.
THEOREM NoFalseAlarm == Spec => []FailsForAReason
<1>1. Inv => FailsForAReason
  BY DEF Inv, CopyInv
<1> QED
  BY <1>1, InvAlways, PTL

\* Every variable of a download keeps its type.
THEOREM TypeCorrect == Spec => []TypeOK
<1> DEFINE Others == /\ given \in BOOLEAN /\ status \in BOOLEAN /\ faulty \in BOOLEAN
                     /\ pc \in {"install", "get", "read", "write", "ok", "failed"}
                     /\ hashed \in Seq(Blocks) /\ chunk \in Seq(Blocks)
                     /\ ~verifying => hashed = <<>>
                     /\ Len(chunk) <= MaxBlocks
                     /\ original \in Contents
<1>1. Init => Others
  <2> SUFFICES ASSUME Init PROVE Others
    OBVIOUS
  <2>1. hashed = <<>> /\ chunk = <<>> /\ original \in Contents
    BY DEF Init
  <2>2. hashed \in Seq(Blocks) /\ chunk \in Seq(Blocks) /\ Len(chunk) = 0
    BY <2>1
  <2>3. Len(chunk) <= MaxBlocks
    BY <2>2, DownloadAssumption
  <2>4. /\ given \in BOOLEAN /\ status \in BOOLEAN /\ faulty \in BOOLEAN
        /\ pc \in {"install", "get", "read", "write", "ok", "failed"}
    BY DEF Init
  <2> QED
    BY <2>1, <2>2, <2>3, <2>4
<1>2. Inv /\ Inv' /\ Others /\ [Next]_vars => Others'
  <2> SUFFICES ASSUME Inv, Inv', Others, [Next]_vars PROVE Others'
    OBVIOUS
  <2>1. CASE Read
    <3>1. body \in Seq(Blocks) /\ received \in Nat /\ received' \in received .. Len(body)
      BY <2>1 DEF Read, Inv, TypeInv
    <3>2. chunk' = Part(received, received')
      BY <2>1 DEF Read, Inv, TypeInv, Part
    <3>3. chunk' \in Seq(Blocks) /\ Len(chunk') = received' - received
      BY <3>1, <3>2, PartType
    <3>4. Len(chunk') <= MaxBlocks
      <4>1. Len(body) \in Nat /\ Len(body) <= MaxBlocks
        BY DEF Inv, TypeInv
      <4>2. received' \in Nat /\ received' - received <= Len(body)
        BY <3>1, <4>1
      <4>3. \A i, j, k, l \in Nat : i - j <= k /\ k <= l => i - j <= l
        OBVIOUS
      <4>4. received' - received <= MaxBlocks
        BY <3>1, <4>1, <4>2, <4>3, DownloadAssumption
      <4> QED
        BY <3>3, <4>4
    <3>5. hashed' = IF verifying THEN hashed \o chunk' ELSE hashed
      BY <2>1 DEF Read
    <3>6. hashed' \in Seq(Blocks) /\ (~verifying => hashed' = <<>>)
      BY <3>3, <3>5
    <3> QED
      BY <2>1, <3>3, <3>4, <3>6 DEF Read, request
  <2>2. CASE CreateFile \/ Get
    BY <2>2 DEF CreateFile, Get, request, copy, Goto, Fault
  <2>3. CASE Write
    BY <2>3 DEF Write, request, copy, Goto, Fault, AfterWrite, Inv, TypeInv
  <2>4. CASE Done \/ UNCHANGED vars
    BY <2>4 DEF Done, vars
  <2> QED
    BY <2>1, <2>2, <2>3, <2>4 DEF Next
<1>3. Inv /\ Others => TypeOK
  <2> SUFFICES ASSUME Inv, Others PROVE TypeOK
    OBVIOUS
  <2>1. body \in Contents
    BY ContentsAreSeqs DEF Inv, TypeInv
  <2>2. chunk \in Contents
    BY ContentsAreSeqs
  <2>3. file \in Contents
    <3>1. Len(file) <= MaxBlocks
      BY DownloadAssumption DEF Inv, TypeInv, CopyInv
    <3> QED
      BY <3>1, ContentsAreSeqs DEF Inv, CopyInv
  <2>4. hashed \in Contents
    <3>1. CASE verifying
      <4>1. Len(Part(0, received)) = received
        BY PartType DEF Inv, TypeInv
      <4>2. Len(hashed) <= MaxBlocks
        BY <3>1, <4>1, DownloadAssumption DEF Inv, TypeInv, CopyInv
      <4> QED
        BY <4>2, ContentsAreSeqs
    <3>2. CASE ~verifying
      <4>1. hashed = <<>>
        BY <3>2
      <4>2. <<>> \in Contents
        <5>1. <<>> \in Seq(Blocks) /\ Len(<<>>) = 0
          OBVIOUS
        <5>2. Len(<<>>) <= MaxBlocks
          BY <5>1, DownloadAssumption
        <5> QED
          BY <5>1, <5>2, ContentsAreSeqs
      <4> QED
        BY <4>1, <4>2
    <3> QED
      BY <3>1, <3>2
  <2> QED
    <3>1. /\ given \in BOOLEAN /\ status \in BOOLEAN /\ faulty \in BOOLEAN
          /\ pc \in {"install", "get", "read", "write", "ok", "failed"}
          /\ original \in Contents
      OBVIOUS
    <3>2. /\ verifying \in BOOLEAN /\ received \in 0 .. Len(body)
          /\ ending \in {"none", "EOF", "error"}
      BY DEF Inv, TypeInv
    <3> QED
      BY <2>1, <2>2, <2>3, <2>4, <3>1, <3>2 DEF TypeOK
<1> QED
  BY <1>1, <1>2, <1>3, InvAlways, PTL DEF Spec

\* Every step is a step of Installer or invisible to it: a download without
\* an error is the whole body, and with a checksum the file that was stored.
THEOREM DownloadImplementsInstaller ==
  Spec => Promise!Init /\ [][Promise!Next]_(Promise!vars)
<1> DEFINE whole == file = body /\ (verifying => file = original)
           result == IF Returned THEN pc ELSE "running"
<1>1. Init => Promise!Init
  BY DEF Init, Promise!Init, Returned
<1>2. Inv /\ Inv' /\ [Next]_vars => [Promise!Next]_(Promise!vars)
  <2> SUFFICES ASSUME Inv, Inv', [Next]_vars
               PROVE  Promise!Next \/ UNCHANGED Promise!vars
    OBVIOUS
  <2>1. whole \in BOOLEAN /\ whole' \in BOOLEAN
    OBVIOUS
  <2>2. pc' = "ok" => whole'
    BY DEF Inv, CopyInv
  <2>3. CASE CreateFile \/ Get \/ Read \/ Write
    <3>1. pc \in {"install", "get", "read", "write"}
      BY <2>3 DEF CreateFile, Get, Read, Write
    <3>2. pc' \in {"get", "read", "write", "ok", "failed"}
      BY <2>3 DEF CreateFile, Get, Read, Write, Goto, Fault, AfterWrite, Inv, TypeInv
    <3>3. CASE Returned'
      BY <2>1, <2>2, <3>1, <3>2, <3>3 DEF Promise!Next, Promise!Return, Returned
    <3>4. CASE ~Returned'
      BY <2>1, <3>1, <3>4 DEF Promise!Next, Promise!Work, Returned
    <3> QED
      BY <3>3, <3>4
  <2>4. CASE Done \/ UNCHANGED vars
    BY <2>4 DEF Done, vars, Promise!vars, Returned
  <2> QED
    BY <2>3, <2>4 DEF Next
<1> QED
  BY <1>1, <1>2, InvAlways, PTL DEF Spec
=============================================================================
