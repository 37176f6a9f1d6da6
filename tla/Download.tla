------------------------------ MODULE Download -------------------------------
(***************************************************************************)
(* One download: PackageInstaller.Install (package_installer.go), and, for *)
(* the buildpack cache, the VerifyingReader (checksum/) between the body   *)
(* of the response and the file.  io.Copy reads and writes in turn.        *)
(*                                                                         *)
(* External: the server and the network.  A body may arrive damaged or cut *)
(* short and still end as if it were complete.  A file is a sequence of    *)
(* blocks, and two files with the same hash are the same.                  *)
(***************************************************************************)
EXTENDS Integers, Sequences

CONSTANTS
  Blocks,    \* contents of a block
  MaxBlocks  \* bound on the length of a file

ASSUME DownloadAssumption == MaxBlocks \in Nat

VARIABLES
  given,     \* neither the URL nor the directory is empty
  status,    \* the response has status 200
  verifying, \* readerFrom is a VerifyingReader
  original,  \* the file that the checksum was computed of
  body,      \* the body of the response
  pc,        \* the step that comes next
  received,  \* how many blocks of the body have been read
  hashed,    \* the blocks that went into the hash
  chunk,     \* the blocks that the last Read returned
  ending,    \* the error that it returned: "none", "EOF" or "error"
  file,      \* the blocks in the file, <<>> also when there is none
  faulty     \* a file system or network operation has failed by itself

request == <<given, status, verifying, original, body>>
copy == <<received, hashed, chunk, ending>>
vars == <<given, status, verifying, original, body, pc, received, hashed,
          chunk, ending, file, faulty>>

-----------------------------------------------------------------------------

\* Files of up to MaxBlocks blocks
Contents == UNION {[1 .. n -> Blocks] : n \in 0 .. MaxBlocks}

Init ==
  /\ given \in BOOLEAN
  /\ status \in BOOLEAN
  /\ verifying \in BOOLEAN
  /\ original \in Contents
  /\ body \in Contents
  /\ pc = "install"
  /\ received = 0
  /\ hashed = <<>>
  /\ chunk = <<>>
  /\ ending = "none"
  /\ file = <<>>
  /\ faulty = FALSE

-----------------------------------------------------------------------------

Goto(label) == pc' = label /\ UNCHANGED faulty
Fault == pc' = "failed" /\ faulty' = TRUE

\* Install refuses an empty URL or directory; os.Create
CreateFile ==
  /\ pc = "install"
  /\ IF given THEN Goto("get") \/ Fault ELSE Goto("failed")
  /\ UNCHANGED <<request, copy, file>>

\* client.Get and the status of the response
Get ==
  /\ pc = "get"
  /\ \/ Goto(IF status THEN "read" ELSE "failed")
     \/ Fault
  /\ UNCHANGED <<request, copy, file>>

\* Slips: every operator named Slip... is the definition after it with one
\* mistake in it, and a property stated below tells the two apart.
SlipVerify(end, bytes) ==
  IF verifying /\ end = "EOF" /\ hashed # original THEN "error" ELSE end

\* What VerifyingReader makes of the end of the body: bytes is all that was
\* hashed, the blocks that come with the end included.
Verify(end, bytes) ==
  IF verifying /\ end = "EOF" /\ bytes # original THEN "error" ELSE end

SlipRead ==
  /\ pc = "read"
  /\ \E n \in 0 .. Len(body) - received, end \in {"none", "EOF", "error"} :
       /\ end = "none" => n > 0
       /\ end = "EOF" => n = Len(body) - received
       /\ chunk' = SubSeq(body, received + 1, received + n)
       /\ received' = received
       /\ hashed' = IF verifying THEN hashed \o chunk' ELSE hashed
       /\ ending' = Verify(end, hashed')
       /\ faulty' = (faulty \/ end = "error")
  /\ pc' = "write"
  /\ UNCHANGED <<request, file>>

\* Read: some blocks, the end of the body perhaps with the last of them, or
\* an error.  The TeeReader hashes what it returns.
Read ==
  /\ pc = "read"
  /\ \E n \in 0 .. Len(body) - received, end \in {"none", "EOF", "error"} :
       /\ end = "none" => n > 0
       /\ end = "EOF" => n = Len(body) - received
       /\ chunk' = SubSeq(body, received + 1, received + n)
       /\ received' = received + n
       /\ hashed' = IF verifying THEN hashed \o chunk' ELSE hashed
       /\ ending' = Verify(end, hashed')
       /\ faulty' = (faulty \/ end = "error")
  /\ pc' = "write"
  /\ UNCHANGED <<request, file>>

SlipAfterWrite == IF ending = "none" THEN "read" ELSE "ok"

\* The end of Copy, or another turn
AfterWrite == CASE ending = "none" -> "read"
                [] ending = "EOF" -> "ok"
                [] ending = "error" -> "failed"

\* Copy writes what it has read before it looks at the error; a full disk
\* leaves a part of it.
Write ==
  /\ pc = "write"
  /\ \/ file' = file \o chunk /\ Goto(AfterWrite)
     \/ /\ \E n \in 0 .. Len(chunk) - 1 : file' = file \o SubSeq(chunk, 1, n)
        /\ Fault
  /\ UNCHANGED <<request, copy>>

Returned == pc \in {"ok", "failed"}
Done == Returned /\ UNCHANGED vars

Next == CreateFile \/ Get \/ Read \/ Write \/ Done

\* Install is one thread; the server sends its answer or the connection ends.
Spec == Init /\ [][Next]_vars /\ WF_vars(Next)

-----------------------------------------------------------------------------
(* Properties *)

\* Every variable has its type.
TypeOK ==
  /\ given \in BOOLEAN /\ status \in BOOLEAN /\ verifying \in BOOLEAN
  /\ original \in Contents
  /\ body \in Contents
  /\ pc \in {"install", "get", "read", "write", "ok", "failed"}
  /\ received \in 0 .. Len(body)
  /\ hashed \in Contents
  /\ chunk \in Contents
  /\ ending \in {"none", "EOF", "error"}
  /\ file \in Contents
  /\ faulty \in BOOLEAN

\* Install fails only for a reason: an empty setting, another status, a body
\* without the given checksum, or something that broke.  However the body is
\* cut into reads, and with or without data at its end, a good one is kept.
FailsForAReason ==
  pc = "failed" => \/ faulty
                   \/ ~given
                   \/ ~status
                   \/ verifying /\ body # original

\* What Install promises to the downloader: without an error the whole body
\* is on disk, and if there is a checksum it is the file that was stored.
Promise == INSTANCE Installer WITH
  result <- IF Returned THEN pc ELSE "running",
  whole <- file = body /\ (verifying => file = original)

\* Each step is a step of Installer or invisible to it, and Install returns.
ImplementsInstaller == Promise!Spec
=============================================================================
