--------------------------- MODULE DepsIndexProofs ---------------------------
(***************************************************************************)
(* Theorems about DepsIndex, for every number of buildpacks.               *)
(***************************************************************************)
EXTENDS DepsIndex, TLAPS, WellFoundedInduction

-----------------------------------------------------------------------------
(* Powers of ten *)

\* A set of naturals that is not empty has a least element.
LEMMA LeastElement ==
  ASSUME NEW S \in SUBSET Nat, S # {}
  PROVE  \E b \in S : \A c \in S : b <= c
<1>1. PICK b \in S : \A c \in S : ~(<<c, b>> \in OpToRel(<, Nat))
  BY NatLessThanWellFounded, WFMin, Zenon
<1>2. \A c \in S : ~(c < b)
  BY <1>1 DEF OpToRel
<1> QED
  BY <1>2

\* g holds the powers of ten up to the n-th.
PowersTo(g, n) ==
  /\ g \in [0 .. n -> Nat \ {0}]
  /\ g[0] = 1
  /\ \A k \in 1 .. n : g[k] = 10 * g[k - 1]

\* There is such a g for every n: otherwise there is a least n without one,
\* and the powers up to n - 1 extend to it.
LEMMA PowersExist == \A n \in Nat : \E g : PowersTo(g, n)
<1> DEFINE Bad == {n \in Nat : ~\E g : PowersTo(g, n)}
<1> SUFFICES ASSUME Bad # {} PROVE FALSE
  OBVIOUS
<1>1. PICK n \in Bad : \A c \in Bad : n <= c
  <2> Bad \in SUBSET Nat
    OBVIOUS
  <2> HIDE DEF Bad
  <2> QED
    BY LeastElement
<1>2. CASE n = 0
  <2>1. PowersTo([k \in 0 .. 0 |-> 1], 0)
    BY DEF PowersTo
  <2> QED
    BY <1>2, <2>1
<1>3. CASE n # 0
  <2>1. n - 1 \in Nat /\ n - 1 \notin Bad
    BY <1>1, <1>3
  <2>2. PICK g : PowersTo(g, n - 1)
    BY <2>1
  <2> DEFINE h == [k \in 0 .. n |-> IF k # n THEN g[k] ELSE 10 * g[n - 1]]
  <2>3. n \in Nat \ {0} /\ n - 1 \in 0 .. n - 1
    BY <1>3, <2>1
  <2>4. g[n - 1] \in Nat \ {0} /\ \A k \in 0 .. n - 1 : g[k] \in Nat \ {0}
    BY <2>2, <2>3 DEF PowersTo
  <2>5. h[n] = 10 * g[n - 1] /\ \A k \in 0 .. n - 1 : h[k] = g[k]
    BY <2>3
  <2>6. h \in [0 .. n -> Nat \ {0}]
    BY <2>3, <2>4
  <2> HIDE DEF h
  <2>7. h[0] = 1
    BY <2>2, <2>3, <2>5 DEF PowersTo
  <2>8. ASSUME NEW k \in 1 .. n
        PROVE  h[k] = 10 * h[k - 1]
    <3>1. k - 1 \in 0 .. n - 1 /\ (k = n \/ k \in 1 .. n - 1)
      BY <2>3
    <3>2. k \in 1 .. n - 1 => k \in 0 .. n - 1 /\ g[k] = 10 * g[k - 1]
      BY <2>2 DEF PowersTo
    <3> QED
      BY <2>5, <3>1, <3>2
  <2>9. PowersTo(h, n)
    BY <2>6, <2>7, <2>8 DEF PowersTo
  <2> QED
    BY <2>9
<1> QED
  BY <1>2, <1>3

\* Two of them agree as far as both go.
LEMMA PowersAgree ==
  ASSUME NEW n \in Nat, NEW m \in 0 .. n, NEW g, NEW h, PowersTo(g, n), PowersTo(h, m)
  PROVE  \A k \in 0 .. m : g[k] = h[k]
<1> DEFINE Bad == {k \in 0 .. m : g[k] # h[k]}
<1> SUFFICES ASSUME Bad # {} PROVE FALSE
  OBVIOUS
<1>1. PICK k \in Bad : \A c \in Bad : k <= c
  <2> Bad \in SUBSET Nat
    OBVIOUS
  <2> HIDE DEF Bad
  <2> QED
    BY LeastElement
<1>2. k # 0
  BY <1>1 DEF PowersTo
<1>3. k \in 1 .. m /\ k \in 1 .. n /\ k - 1 \in 0 .. m /\ k - 1 \notin Bad
  BY <1>1, <1>2
<1>4. g[k] = 10 * g[k - 1] /\ h[k] = 10 * h[k - 1] /\ g[k - 1] = h[k - 1]
  BY <1>3 DEF PowersTo
<1> QED
  BY <1>1, <1>4

\* Pow10 satisfies its equation.
LEMMA Pow10Equation ==
  /\ Pow10 \in [Nat -> Nat \ {0}]
  /\ Pow10[0] = 1
  /\ \A n \in Nat : Pow10[n + 1] = 10 * Pow10[n]
<1> DEFINE G(n) == CHOOSE g : PowersTo(g, n)
           f == [n \in Nat |-> G(n)[n]]
<1>1. \A n \in Nat : PowersTo(G(n), n)
  BY PowersExist
<1>2. ASSUME NEW n \in Nat, n # 0
      PROVE  f[n] = 10 * f[n - 1] /\ n - 1 \in Nat
  <2>1. n - 1 \in Nat /\ n - 1 \in 0 .. n /\ n \in 1 .. n /\ n - 1 \in 0 .. n - 1
    BY <1>2
  <2>2. PowersTo(G(n), n) /\ PowersTo(G(n - 1), n - 1)
    BY <1>1, <2>1
  <2> HIDE DEF G
  <2>3. G(n)[n - 1] = G(n - 1)[n - 1]
    BY <2>1, <2>2, PowersAgree
  <2>4. G(n)[n] = 10 * G(n)[n - 1]
    BY <2>1, <2>2 DEF PowersTo
  <2> QED
    BY <2>1, <2>3, <2>4
<1>3. ASSUME NEW n \in Nat
      PROVE  f[n] \in Nat \ {0} /\ (n = 0 => f[n] = 1)
  <2>1. PowersTo(G(n), n)
    BY <1>1
  <2> HIDE DEF G
  <2> QED
    BY <2>1 DEF PowersTo
<1>4. f = [n \in Nat |-> IF n = 0 THEN 1 ELSE 10 * f[n - 1]]
  <2>1. f = [n \in Nat |-> f[n]]
    OBVIOUS
  <2> HIDE DEF f
  <2>2. \A n \in Nat : f[n] = IF n = 0 THEN 1 ELSE 10 * f[n - 1]
    BY <1>2, <1>3
  <2> QED
    BY <2>1, <2>2
<1>5. Pow10 = [n \in Nat |-> IF n = 0 THEN 1 ELSE 10 * Pow10[n - 1]]
  <2> HIDE DEF f
  <2> QED
    BY <1>4 DEF Pow10
<1>6. \A n \in Nat : Pow10[n] = IF n = 0 THEN 1 ELSE 10 * Pow10[n - 1]
  BY <1>5, Zenon
<1>7. Pow10[0] = 1 /\ \A n \in Nat : Pow10[n + 1] = 10 * Pow10[n]
  BY <1>6
<1>8. \A n \in Nat : Pow10[n] \in Nat \ {0}
  <2> DEFINE Bad == {n \in Nat : Pow10[n] \notin Nat \ {0}}
  <2> SUFFICES ASSUME Bad # {} PROVE FALSE
    OBVIOUS
  <2>1. PICK n \in Bad : \A c \in Bad : n <= c
    <3> Bad \in SUBSET Nat
      OBVIOUS
    <3> HIDE DEF Bad
    <3> QED
      BY LeastElement
  <2>2. n # 0
    BY <1>7, <2>1
  <2>3. n - 1 \in Nat /\ n - 1 \notin Bad
    BY <2>1, <2>2
  <2>4. Pow10[n] = 10 * Pow10[n - 1]
    BY <1>6, <2>1, <2>2
  <2> QED
    BY <2>1, <2>3, <2>4
<1> QED
  BY <1>5, <1>7, <1>8

\* The powers of ten by name: natural, positive, and tenfold at each step.
LEMMA Pow10Facts ==
  /\ \A n \in Nat : Pow10[n] \in Nat /\ Pow10[n] > 0
  /\ Pow10[0] = 1
  /\ \A n \in Nat : Pow10[n + 1] = 10 * Pow10[n]
BY Pow10Equation

\* Every number is below the power of ten of that many zeros.
LEMMA BelowPow10 == \A n \in Nat : n < Pow10[n]
<1> DEFINE Bad == {n \in Nat : ~(n < Pow10[n])}
<1> SUFFICES ASSUME Bad # {} PROVE FALSE
  OBVIOUS
<1>1. PICK n \in Bad : \A c \in Bad : n <= c
  <2> Bad \in SUBSET Nat
    OBVIOUS
  <2> HIDE DEF Bad
  <2> QED
    BY LeastElement
<1>2. n # 0
  BY <1>1, Pow10Facts
<1>3. n - 1 \in Nat /\ n - 1 \notin Bad /\ (n - 1) + 1 = n
  BY <1>1, <1>2
<1>4. n - 1 < Pow10[n - 1] /\ Pow10[n] = 10 * Pow10[n - 1] /\ Pow10[n - 1] \in Nat
  BY <1>3, Pow10Facts
<1> QED
  BY <1>1, <1>3, <1>4

\* A longer power is not smaller.
LEMMA Pow10Monotonic ==
  ASSUME NEW a \in Nat, NEW b \in Nat, a <= b
  PROVE  Pow10[a] <= Pow10[b]
<1> DEFINE Bad == {n \in Nat : a <= n /\ ~(Pow10[a] <= Pow10[n])}
<1> SUFFICES ASSUME Bad # {} PROVE FALSE
  OBVIOUS
<1>1. PICK n \in Bad : \A c \in Bad : n <= c
  <2> Bad \in SUBSET Nat
    OBVIOUS
  <2> HIDE DEF Bad
  <2> QED
    BY LeastElement
<1>2. Pow10[a] \in Nat /\ n # a
  BY <1>1, Pow10Facts
<1>3. n - 1 \in Nat /\ n - 1 \notin Bad /\ (n - 1) + 1 = n /\ a <= n - 1
  BY <1>1, <1>2
<1>4. Pow10[a] <= Pow10[n - 1] /\ Pow10[n] = 10 * Pow10[n - 1] /\ Pow10[n - 1] \in Nat
  BY <1>3, Pow10Facts
<1> QED
  BY <1>1, <1>2, <1>4

-----------------------------------------------------------------------------
(* The number of digits *)

\* NumDigits is what its definition asks for: there is such a number.
LEMMA NumDigitsCorrect ==
  ASSUME NEW m \in Nat
  PROVE  /\ NumDigits(m) \in Nat \ {0}
         /\ m < Pow10[NumDigits(m)]
         /\ NumDigits(m) > 1 => Pow10[NumDigits(m) - 1] <= m
<1> DEFINE Enough == {w \in Nat \ {0} : m < Pow10[w]}
<1>1. m + 1 \in Enough
  <2>1. m + 1 \in Nat /\ m + 1 < Pow10[m + 1] /\ Pow10[m + 1] \in Nat
    BY BelowPow10, Pow10Facts
  <2> QED
    BY <2>1
<1>2. PICK w \in Enough : \A c \in Enough : w <= c
  <2> Enough \in SUBSET Nat
    OBVIOUS
  <2> HIDE DEF Enough
  <2> QED
    BY <1>1, LeastElement
<1>3. w \in 1 .. m + 1 /\ m < Pow10[w]
  BY <1>1, <1>2
<1>4. w > 1 => Pow10[w - 1] <= m
  <2> SUFFICES ASSUME w > 1 PROVE Pow10[w - 1] <= m
    OBVIOUS
  <2>1. w - 1 \in Nat \ {0} /\ w - 1 \notin Enough
    BY <1>2
  <2>2. ~(m < Pow10[w - 1]) /\ Pow10[w - 1] \in Nat
    BY <2>1, Pow10Facts
  <2> QED
    BY <2>2
<1>5. /\ NumDigits(m) \in 1 .. m + 1
      /\ m < Pow10[NumDigits(m)]
      /\ NumDigits(m) > 1 => Pow10[NumDigits(m) - 1] <= m
  <2> HIDE DEF Enough
  <2> QED
    BY <1>3, <1>4 DEF NumDigits
<1> QED
  BY <1>5

\* A number below a power of ten has no more digits than the power has zeros.
LEMMA NumDigitsBound ==
  ASSUME NEW m \in Nat, NEW w \in Nat \ {0}, m < Pow10[w]
  PROVE  NumDigits(m) <= w
<1> SUFFICES ASSUME NumDigits(m) > w PROVE FALSE
  BY NumDigitsCorrect
<1>1. NumDigits(m) - 1 \in Nat /\ w <= NumDigits(m) - 1 /\ NumDigits(m) > 1
  BY NumDigitsCorrect
<1>2. Pow10[w] <= Pow10[NumDigits(m) - 1] /\ Pow10[NumDigits(m) - 1] <= m
  BY <1>1, NumDigitsCorrect, Pow10Monotonic
<1>3. Pow10[w] \in Nat /\ Pow10[NumDigits(m) - 1] \in Nat
  BY <1>1, Pow10Facts
<1> QED
  BY <1>2, <1>3

\* Every index fits the width that the names are padded to, also when the
\* logarithm of a power of ten came out below the integer that it is: the
\* indices are below the number of buildpacks.
LEMMA IndicesFit ==
  ASSUME NEW n \in Nat \ {0}, NEW w \in PadTo(n)
  PROVE  w \in Nat \ {0} /\ \A m \in 0 .. n - 1 : m < Pow10[w]
<1>1. /\ NumDigits(n) \in Nat \ {0} /\ n < Pow10[NumDigits(n)]
      /\ Pow10[NumDigits(n)] \in Nat
  BY NumDigitsCorrect, Pow10Facts
<1>2. \/ w = NumDigits(n)
      \/ w = NumDigits(n) - 1 /\ w > 0 /\ n = Pow10[w]
  BY DEF PadTo
<1> QED
  BY <1>1, <1>2

-----------------------------------------------------------------------------
(* The names *)

\* An index that fits the width has a name of exactly that width.
LEMMA FormatFits ==
  ASSUME NEW m \in Nat, NEW w \in Nat \ {0}, m < Pow10[w]
  PROVE  /\ Format(m, w) = [d \in 1 .. w |-> (m \div Pow10[w - d]) % 10]
         /\ Format(m, w) \in Seq(0 .. 9) /\ Len(Format(m, w)) = w
<1>1. (IF NumDigits(m) > w THEN NumDigits(m) ELSE w) = w
  BY NumDigitsBound, NumDigitsCorrect
<1>2. Format(m, w) = [d \in 1 .. w |-> (m \div Pow10[w - d]) % 10]
  BY <1>1 DEF Format
<1>3. ASSUME NEW d \in 1 .. w
      PROVE  (m \div Pow10[w - d]) % 10 \in 0 .. 9
  <2>1. w - d \in Nat
    OBVIOUS
  <2>2. Pow10[w - d] \in Nat /\ Pow10[w - d] > 0
    BY <2>1, Pow10Facts
  <2>3. m \div Pow10[w - d] \in Nat
    BY <2>2
  <2> QED
    BY <2>3
<1>4. Format(m, w) \in [1 .. w -> 0 .. 9]
  BY <1>2, <1>3
<1> QED
  BY <1>2, <1>4

\* The names of two indices are as long as each other, and the name of the
\* smaller one comes first: at the first digit from the left at which the
\* numbers that are written so far differ, the digits differ the same way.
LEMMA NamesOrdered ==
  ASSUME NEW w \in Nat \ {0}, NEW a \in Nat, NEW b \in Nat, a < b, b < Pow10[w]
  PROVE  Len(Format(a, w)) = Len(Format(b, w)) /\ Before(Format(a, w), Format(b, w))
<1> DEFINE A(d) == a \div Pow10[w - d]
           B(d) == b \div Pow10[w - d]
<1>1. a < Pow10[w] /\ Pow10[w] \in Nat
  BY Pow10Facts
<1>2. ASSUME NEW d \in 0 .. w
      PROVE  A(d) \in Nat /\ B(d) \in Nat /\ A(d) <= B(d)
  <2>1. w - d \in Nat
    OBVIOUS
  <2>2. Pow10[w - d] \in Nat /\ Pow10[w - d] > 0
    BY <2>1, Pow10Facts
  <2> QED
    BY <2>2
<1>3. A(0) = 0 /\ B(0) = 0
  <2>1. \A p, m \in Nat : m < p => m \div p = 0
    OBVIOUS
  <2>2. w - 0 = w /\ a \div Pow10[w] = 0 /\ b \div Pow10[w] = 0
    BY <1>1, <2>1
  <2> QED
    BY <2>2
<1>4. A(w) = a /\ B(w) = b
  BY Pow10Facts
<1>5. ASSUME NEW d \in 1 .. w
      PROVE  A(d) \div 10 = A(d - 1) /\ B(d) \div 10 = B(d - 1)
  <2>1. w - d \in Nat /\ w - (d - 1) = (w - d) + 1
    OBVIOUS
  <2>2. /\ Pow10[w - d] \in Nat /\ Pow10[w - d] > 0
        /\ Pow10[w - (d - 1)] = 10 * Pow10[w - d]
    BY <2>1, Pow10Facts
  <2>3. \A p \in Nat \ {0}, m \in Nat : (m \div p) \div 10 = m \div (10 * p)
    OBVIOUS
  <2>4. /\ (a \div Pow10[w - d]) \div 10 = a \div Pow10[w - (d - 1)]
        /\ (b \div Pow10[w - d]) \div 10 = b \div Pow10[w - (d - 1)]
    <3>1. Pow10[w - d] \in Nat \ {0}
      BY <2>2
    <3>2. /\ (a \div Pow10[w - d]) \div 10 = a \div (10 * Pow10[w - d])
          /\ (b \div Pow10[w - d]) \div 10 = b \div (10 * Pow10[w - d])
      BY <2>3, <3>1, Zenon
    <3> QED
      BY <2>2, <3>2, Zenon
  <2> QED
    BY <2>4
<1> HIDE DEF A, B
<1> DEFINE Differ == {d \in 1 .. w : A(d) # B(d)}
<1>6. PICK d \in Differ : \A c \in Differ : d <= c
  <2>1. w \in Differ
    BY <1>4
  <2>2. Differ \in SUBSET Nat
    OBVIOUS
  <2> HIDE DEF Differ
  <2> QED
    BY <2>1, <2>2, LeastElement
<1>7. d \in 1 .. w /\ A(d) # B(d) /\ \A c \in 1 .. d - 1 : A(c) = B(c)
  BY <1>6
<1>8. A(d - 1) = B(d - 1)
  BY <1>3, <1>7
<1>9. A(d) % 10 < B(d) % 10
  <2>1. A(d) \in Nat /\ B(d) \in Nat /\ A(d) < B(d)
    BY <1>2, <1>7
  <2>2. A(d) \div 10 = B(d) \div 10
    BY <1>5, <1>7, <1>8
  <2> QED
    BY <2>1, <2>2
<1>10. /\ Format(a, w) = [c \in 1 .. w |-> A(c) % 10] /\ Len(Format(a, w)) = w
       /\ Format(b, w) = [c \in 1 .. w |-> B(c) % 10] /\ Len(Format(b, w)) = w
  BY <1>1, FormatFits DEF A, B
<1> QED
  BY <1>7, <1>9, <1>10 DEF Before

\* Whatever width is chosen for n buildpacks, the names of any two of their
\* deps directories are equally long and listed in the order of the buildpacks.
THEOREM DirsListedInOrder ==
  ASSUME NEW n \in Nat \ {0}, NEW w \in PadTo(n),
         NEW a \in 0 .. n - 1, NEW b \in 0 .. n - 1, a < b
  PROVE  Len(Format(a, w)) = Len(Format(b, w)) /\ Before(Format(a, w), Format(b, w))
<1>1. w \in Nat \ {0} /\ b < Pow10[w] /\ a \in Nat /\ b \in Nat
  BY IndicesFit
<1> QED
  BY <1>1, NamesOrdered

-----------------------------------------------------------------------------
(* The loop of makeDirectories *)

\* The indices fit the width, and the directory made last is that of i - 1.
DirInv ==
  /\ TypeOK
  /\ padDigits \in PadTo(numBuildpacks)
  /\ dir = IF i = 0 THEN <<>> ELSE Format(i - 1, padDigits)

\* DirInv is inductive.
LEMMA DirStep ==
  ASSUME DirInv, [Next]_vars
  PROVE  DirInv'
<1>1. numBuildpacks \in Nat \ {0} /\ i \in 0 .. numBuildpacks
  BY DepsIndexAssumption DEF DirInv, TypeOK
<1>2. CASE MakeDepsDir
  <2>1. /\ i \in 0 .. numBuildpacks - 1 /\ i' = i + 1 /\ i' - 1 = i /\ i' # 0
        /\ dir' = Format(i, padDigits)
        /\ UNCHANGED <<numBuildpacks, padDigits>>
    BY <1>1, <1>2 DEF MakeDepsDir
  <2>2. padDigits \in Nat \ {0} /\ i < Pow10[padDigits] /\ i \in Nat
    BY <1>1, <2>1, IndicesFit DEF DirInv
  <2>3. dir' \in Seq(0 .. 9)
    BY <2>1, <2>2, FormatFits
  <2>4. TypeOK'
    BY <1>1, <2>1, <2>3 DEF DirInv, TypeOK
  <2>5. PadTo(numBuildpacks)' = PadTo(numBuildpacks)
    BY <2>1
  <2> QED
    BY <2>1, <2>4, <2>5 DEF DirInv
<1>3. CASE Done \/ UNCHANGED vars
  BY <1>3 DEF Done, vars, DirInv, TypeOK
<1> QED
  BY <1>2, <1>3 DEF Next

\* DirInv holds in every state.
LEMMA DirAlways == Spec => []DirInv
<1>1. Init => DirInv
  <2> SUFFICES ASSUME Init PROVE DirInv
    OBVIOUS
  <2>1. numBuildpacks \in Nat \ {0} /\ padDigits \in PadTo(numBuildpacks)
    BY DepsIndexAssumption DEF Init
  <2>2. padDigits \in Nat \ {0}
    BY <2>1, IndicesFit
  <2> QED
    BY <2>1, <2>2 DEF Init, DirInv, TypeOK
<1>2. DirInv /\ [Next]_vars => DirInv'
  BY DirStep
<1> QED
  BY <1>1, <1>2, PTL DEF Spec

\* Every variable keeps its type: each name consists of decimal digits.
THEOREM TypeCorrect == Spec => []TypeOK
<1>1. DirInv => TypeOK
  BY DEF DirInv
<1> QED
  BY <1>1, DirAlways, PTL

\* makeDirectories makes the directories in the order in which they are listed.
THEOREM AlwaysListedInOrder == Spec => ListedInOrder
<1>1. DirInv /\ [Next]_vars =>
        [dir # <<>> => Len(dir') = Len(dir) /\ Before(dir, dir')]_vars
  <2> SUFFICES ASSUME DirInv, MakeDepsDir, dir # <<>>
               PROVE  Len(dir') = Len(dir) /\ Before(dir, dir')
    BY DEF Next, Done
  <2>1. numBuildpacks \in Nat \ {0} /\ i \in 0 .. numBuildpacks
    BY DepsIndexAssumption DEF DirInv, TypeOK
  <2>2. dir = Format(i - 1, padDigits) /\ dir' = Format(i, padDigits)
    BY DEF DirInv, MakeDepsDir
  <2>3. /\ i \in 0 .. numBuildpacks - 1 /\ i - 1 \in 0 .. numBuildpacks - 1 /\ i - 1 < i
        /\ padDigits \in PadTo(numBuildpacks)
    BY <2>1 DEF DirInv, MakeDepsDir
  <2> QED
    BY <2>1, <2>2, <2>3, DirsListedInOrder
<1> QED
  BY <1>1, DirAlways, PTL DEF Spec, ListedInOrder
=============================================================================
