------------------------------- MODULE DepsIndex ------------------------------
(***************************************************************************)
(* The names of the deps directories: Config.DepsIndex (builder/config.go) *)
(* in the loop of makeDirectories (builder/runner.go).  The names are the  *)
(* indices in decimal, padded with zeros; a buildpack lists the deps       *)
(* directory and takes the order of the names for that of the buildpacks.  *)
(***************************************************************************)
EXTENDS Integers, Sequences

CONSTANT
  Sizes  \* numbers of buildpacks

ASSUME DepsIndexAssumption == Sizes \subseteq Nat \ {0}

VARIABLES
  numBuildpacks,  \* len(SupplyBuildpacks()) + 1
  padDigits,      \* the width that DepsIndex pads to
  i,              \* index of the loop of makeDirectories
  dir             \* the name made last, as a sequence of digits

vars == <<numBuildpacks, padDigits, i, dir>>

-----------------------------------------------------------------------------

\* Slips: every operator named Slip... is the definition after it with one
\* mistake in it, and a property stated below tells the two apart.

\* The powers of ten
Pow10[n \in Nat] == IF n = 0 THEN 1 ELSE 10 * Pow10[n - 1]

\* The number of decimal digits of m
NumDigits(m) == CHOOSE w \in 1 .. m + 1 : m < Pow10[w] /\ (w > 1 => Pow10[w - 1] <= m)

SlipPadTo(n) == {NumDigits(n) - 1}

\* int(math.Log10(n)) + 1: the logarithm of a power of ten may come out
\* below the integer that it is.
PadTo(n) == {NumDigits(n)} \union {w \in {NumDigits(n) - 1} : w > 0 /\ n = Pow10[w]}

SlipFormat(m, w) == [d \in 1 .. w |-> m \div Pow10[w - d]]

\* Sprintf("%0<w>d", m)
Format(m, w) ==
  LET width == IF NumDigits(m) > w THEN NumDigits(m) ELSE w
  IN [d \in 1 .. width |-> (m \div Pow10[width - d]) % 10]

Init ==
  /\ numBuildpacks \in Sizes
  /\ padDigits \in PadTo(numBuildpacks)
  /\ i = 0
  /\ dir = <<>>

\* One iteration of the last loop of makeDirectories
MakeDepsDir ==
  /\ i < numBuildpacks
  /\ dir' = Format(i, padDigits)
  /\ i' = i + 1
  /\ UNCHANGED <<numBuildpacks, padDigits>>

Done == i = numBuildpacks /\ UNCHANGED vars

Next == MakeDepsDir \/ Done

Spec == Init /\ [][Next]_vars

-----------------------------------------------------------------------------
(* Properties *)

\* Every variable has its type.
TypeOK ==
  /\ numBuildpacks \in Sizes
  /\ padDigits \in Nat \ {0}
  /\ i \in 0 .. numBuildpacks
  /\ dir \in Seq(0 .. 9)

\* s comes before t in a listing
Before(s, t) ==
  \E d \in DOMAIN s \intersect DOMAIN t :
    s[d] < t[d] /\ \A c \in 1 .. d - 1 : s[c] = t[c]

\* A listing of the deps directory has the order of the buildpacks: each
\* directory comes after the one before it, and all names are equally long.
ListedInOrder ==
  [][dir # <<>> => Len(dir') = Len(dir) /\ Before(dir, dir')]_vars
=============================================================================
