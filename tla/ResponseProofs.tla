---------------------------- MODULE ResponseProofs ----------------------------
(***************************************************************************)
(* Theorems about Response, for lists of any length over any names.        *)
(***************************************************************************)
EXTENDS Response, TLAPS, WellFoundedInduction

-----------------------------------------------------------------------------
(* getBuildpackKey *)

\* A set of naturals that is not empty has a least element.
LEMMA LeastElement ==
  ASSUME NEW S \in SUBSET Nat, S # {}
  PROVE  \E b \in S : \A c \in S : b <= c
<1>1. PICK b \in S : \A c \in S : ~(<<c, b>> \in OpToRel(<, Nat))
  BY NatLessThanWellFounded, WFMin, Zenon
<1>2. \A c \in S : ~(c < b)
  BY <1>1 DEF OpToRel
<1> QED
  BY <1>2

\* An element of a sequence.
LEMMA ElementType ==
  ASSUME NEW S, NEW s \in Seq(S), NEW b \in DOMAIN s
  PROVE  s[b] \in S
OBVIOUS

\* An element of a list of buildpacks.
LEMMA BuildpackType ==
  ASSUME provided \in Seq([name : Strings, key : Strings]), NEW b \in DOMAIN provided
  PROVE  /\ provided[b].key \in Strings
         /\ \A name, k : provided[b].name = name /\ provided[b].key = k =>
              provided[b] = [name |-> name, key |-> k]
<1>1. provided[b] \in [name : Strings, key : Strings]
  BY ElementType, Zenon
<1> QED
  BY <1>1

\* The key of a name that is in the list is one that the list has for it.
LEMMA KeyOfName ==
  ASSUME NEW name, provided \in Seq([name : Strings, key : Strings]), Known(name)
  PROVE  \E b \in DOMAIN provided :
           provided[b].name = name /\ provided[b].key = GetBuildpackKey(name)
<1> DEFINE matches == {b \in DOMAIN provided : provided[b].name = name}
<1>1. matches # {} /\ matches \in SUBSET Nat
  BY DEF Known
<1>2. PICK b \in matches : \A c \in matches : b <= c
  BY <1>1, LeastElement
<1>3. \A c \in 1 .. b - 1 : provided[c].name # name
  BY <1>1, <1>2
<1>4. /\ b \in DOMAIN provided
      /\ provided[b].name = name /\ \A c \in 1 .. b - 1 : provided[c].name # name
  BY <1>2, <1>3
<1> QED
  BY <1>4 DEF GetBuildpackKey

-----------------------------------------------------------------------------
(* The inductive invariant *)

\* The detected buildpack has its key from the time that "key" is left.
KeyInv ==
  /\ pc \in {"read", "provided", "key"} => i = 1 /\ key = names[Len(names)]
  /\ pc \in {"buildpacks", "ok"} =>
       Known(names[Len(names)]) /\ key = GetBuildpackKey(names[Len(names)])

\* The buildpacks before i have their keys, the others still their names.
KeysInv ==
  /\ pc # "failed" =>
       \A m \in DOMAIN names :
         /\ m < i => Known(names[m]) /\ keys[m] = GetBuildpackKey(names[m])
         /\ m >= i => keys[m] = names[m]
  /\ pc = "ok" => i = Len(names) + 1

ResponseInv == TypeOK /\ KeyInv /\ KeysInv /\ FailsForAReason

\* A list of the initial states is a sequence.
LEMMA ListType ==
  ASSUME NEW S, NEW list \in Lists(S)
  PROVE  list \in Seq(S)
<1>1. PICK n \in 0 .. MaxBuildpacks : list \in [1 .. n -> S]
  BY DEF Lists
<1>2. n \in Nat
  BY ResponseAssumption
<1> QED
  BY <1>1, <1>2

\* Initially "key" fields hold names.
LEMMA ResponseInit ==
  ASSUME Init
  PROVE  ResponseInv
<1>1. names \in Seq(Strings) /\ names # <<>> /\ Len(names) \in Nat \ {0}
  <2>1. names \in Seq(Strings) /\ names # <<>>
    BY ListType DEF Init
  <2> QED
    BY <2>1
<1>2. provided \in Seq([name : Strings, key : Strings])
  BY ListType DEF Init
<1>3. names[Len(names)] \in Strings
  BY <1>1
<1>4. TypeOK
  <2>1. i \in 1 .. Len(names) + 1 /\ key \in Strings /\ keys = names
    BY <1>1, <1>3 DEF Init
  <2>2. parses \in BOOLEAN /\ faulty \in BOOLEAN /\ pc = "read"
    BY DEF Init
  <2> QED
    BY <1>1, <1>2, <2>1, <2>2 DEF TypeOK
<1>5. KeyInv /\ KeysInv /\ FailsForAReason
  BY <1>1 DEF Init, KeyInv, KeysInv, FailsForAReason
<1> QED
  BY <1>4, <1>5 DEF ResponseInv

\* ResponseInv is inductive.
LEMMA ResponseStep ==
  ASSUME ResponseInv, [Next]_vars
  PROVE  ResponseInv'
<1>1. /\ provided \in Seq([name : Strings, key : Strings])
      /\ names \in Seq(Strings) /\ names # <<>>
      /\ Len(names) \in Nat \ {0} /\ Len(names) \in DOMAIN names
      /\ keys \in Seq(Strings) /\ Len(keys) = Len(names)
      /\ DOMAIN keys = 1 .. Len(names) /\ DOMAIN names = 1 .. Len(names)
      /\ i \in 1 .. Len(names) + 1 /\ i \in Nat
  <2>1. names \in Seq(Strings) /\ names # <<>>
    BY DEF ResponseInv, TypeOK
  <2>2. Len(names) \in Nat \ {0} /\ DOMAIN names = 1 .. Len(names)
    BY <2>1
  <2> QED
    BY <2>1, <2>2 DEF ResponseInv, TypeOK
<1>2. UNCHANGED <<provided, parses, names>>
  BY DEF Next, Modify, ReadResult, GetProvided, ModifyBuildpackKey, ModifyBuildpack, Prepared,
    Done, vars
<1>3. \A name : Known(name)' = Known(name) /\ GetBuildpackKey(name)' = GetBuildpackKey(name)
  BY <1>2 DEF Known, GetBuildpackKey
<1>4. \A name : Known(name) => GetBuildpackKey(name) \in Strings
  <2> SUFFICES ASSUME NEW name, Known(name) PROVE GetBuildpackKey(name) \in Strings
    OBVIOUS
  <2>1. PICK b \in DOMAIN provided : provided[b].key = GetBuildpackKey(name)
    BY <1>1, KeyOfName
  <2>2. provided[b].key \in Strings
    BY <1>1, BuildpackType
  <2> QED
    BY <2>1, <2>2, Zenon
<1>5. CASE ReadResult \/ GetProvided
  <2>1. /\ UNCHANGED <<i, key, keys>>
        /\ pc \in {"read", "provided"} /\ pc' \in {"provided", "key", "failed"}
        /\ faulty' \in BOOLEAN
        /\ pc' = "failed" => faulty' \/ ~parses
    BY <1>5, Zenon DEF ReadResult, GetProvided, Goto, ResponseInv, TypeOK
  <2>2. TypeOK'
    BY <1>2, <2>1 DEF ResponseInv, TypeOK
  <2>3. KeyInv' /\ KeysInv'
    BY <1>2, <1>3, <2>1 DEF ResponseInv, KeyInv, KeysInv
  <2>4. FailsForAReason'
    BY <1>2, <2>1, Zenon DEF FailsForAReason
  <2> QED
    BY <2>2, <2>3, <2>4 DEF ResponseInv
<1>6. CASE ModifyBuildpackKey
  <2>1. /\ UNCHANGED <<i, keys, faulty>> /\ pc = "key"
        /\ key = names[Len(names)]
        /\ \/ Known(key) /\ key' = GetBuildpackKey(key) /\ pc' = "buildpacks"
           \/ ~Known(key) /\ key' = key /\ pc' = "failed"
    BY <1>6 DEF ModifyBuildpackKey, Goto, ResponseInv, KeyInv
  <2>2. TypeOK'
    BY <1>2, <1>4, <2>1 DEF ResponseInv, TypeOK
  <2>3. KeyInv' /\ KeysInv'
    BY <1>2, <1>3, <2>1 DEF ResponseInv, KeyInv, KeysInv
  <2>4. FailsForAReason'
    BY <1>1, <1>2, <1>3, <2>1, Zenon DEF FailsForAReason
  <2> QED
    BY <2>2, <2>3, <2>4 DEF ResponseInv
<1>7. CASE ModifyBuildpack
  <2>1. /\ UNCHANGED <<key, faulty>> /\ pc = "buildpacks" /\ i \in 1 .. Len(names)
        /\ keys[i] = names[i]
    BY <1>1, <1>7 DEF ModifyBuildpack, Goto, ResponseInv, KeysInv
  <2>2. CASE Known(keys[i])
    <3>1. keys' = [keys EXCEPT ![i] = GetBuildpackKey(names[i])] /\ i' = i + 1
            /\ pc' = "buildpacks"
      BY <1>7, <2>1, <2>2 DEF ModifyBuildpack, Goto
    <3>2. /\ keys' \in Seq(Strings) /\ Len(keys') = Len(names)
          /\ \A m \in DOMAIN names :
               keys'[m] = IF m = i THEN GetBuildpackKey(names[m]) ELSE keys[m]
      BY <1>1, <1>4, <2>1, <2>2, <3>1
    <3>3. TypeOK'
      BY <1>1, <1>2, <2>1, <3>1, <3>2 DEF ResponseInv, TypeOK
    <3>4. KeyInv'
      BY <1>2, <1>3, <2>1, <3>1 DEF ResponseInv, KeyInv
    <3>5. KeysInv'
      BY <1>1, <1>2, <1>3, <2>1, <2>2, <3>1, <3>2 DEF ResponseInv, KeysInv
    <3> QED
      BY <3>1, <3>3, <3>4, <3>5 DEF ResponseInv, FailsForAReason
  <2>3. CASE ~Known(keys[i])
    <3>1. UNCHANGED <<i, keys>> /\ pc' = "failed"
      BY <1>7, <2>3 DEF ModifyBuildpack, Goto
    <3>2. TypeOK' /\ KeyInv' /\ KeysInv'
      BY <1>2, <2>1, <3>1 DEF ResponseInv, TypeOK, KeyInv, KeysInv
    <3>3. FailsForAReason'
      BY <1>1, <1>2, <1>3, <2>1, <2>3, Zenon DEF FailsForAReason
    <3> QED
      BY <3>2, <3>3 DEF ResponseInv
  <2> QED
    BY <2>2, <2>3
<1>8. CASE Prepared
  <2>1. /\ UNCHANGED <<i, key, keys, faulty>> /\ pc = "buildpacks" /\ pc' = "ok"
        /\ i = Len(names) + 1
    BY <1>1, <1>8 DEF Prepared, Goto
  <2> QED
    BY <1>2, <1>3, <2>1 DEF ResponseInv, TypeOK, KeyInv, KeysInv, FailsForAReason
<1>9. CASE Done \/ UNCHANGED vars
  <2>1. UNCHANGED vars
    BY <1>9 DEF Done
  <2>2. UNCHANGED <<pc, i, key, keys, faulty>>
    BY <2>1 DEF vars
  <2> QED
    BY <1>2, <1>3, <2>2 DEF ResponseInv, TypeOK, KeyInv, KeysInv, FailsForAReason
<1> QED
  BY <1>5, <1>6, <1>7, <1>8, <1>9 DEF Next, Modify

\* ResponseInv holds in every state.
LEMMA ResponseAlways == Spec => []ResponseInv
<1>1. Init => ResponseInv
  BY ResponseInit
<1>2. ResponseInv /\ [Next]_vars => ResponseInv'
  BY ResponseStep
<1> QED
  BY <1>1, <1>2, PTL DEF Spec

\* Every variable keeps its type; no buildpack is dropped from the list.
THEOREM ResponseTypeCorrect == Spec => []TypeOK
<1>1. ResponseInv => TypeOK
  BY DEF ResponseInv
<1> QED
  BY <1>1, ResponseAlways, PTL

\* A response is refused only when an input is bad or a name is unknown.
THEOREM ResponseFailsForAReason == Spec => []FailsForAReason
<1>1. ResponseInv => FailsForAReason
  BY DEF ResponseInv
<1> QED
  BY <1>1, ResponseAlways, PTL

\* A response has the keys of the buildpacks that result.json names.
THEOREM KeysAlwaysAsProvided == Spec => []KeysAsProvided
<1>1. ResponseInv => KeysAsProvided
  <2> SUFFICES ASSUME ResponseInv, pc = "ok"
               PROVE  /\ key = keys[Len(keys)]
                      /\ \A n \in DOMAIN names :
                           /\ \E b \in DOMAIN provided :
                                provided[b] = [name |-> names[n], key |-> keys[n]]
                           /\ \A m \in DOMAIN names : names[m] = names[n] => keys[m] = keys[n]
    BY DEF KeysAsProvided
  <2>1. /\ names \in Seq(Strings) /\ names # <<>> /\ Len(keys) = Len(names)
        /\ provided \in Seq([name : Strings, key : Strings])
        /\ i = Len(names) + 1
    BY DEF ResponseInv, TypeOK, KeysInv
  <2>2. /\ Len(names) \in DOMAIN names
        /\ \A n \in DOMAIN names : n < i
    BY <2>1
  <2>3. \A n \in DOMAIN names : Known(names[n]) /\ keys[n] = GetBuildpackKey(names[n])
    BY <2>2 DEF ResponseInv, KeysInv
  <2>4. key = keys[Len(keys)]
    BY <2>1, <2>2, <2>3 DEF ResponseInv, KeyInv
  <2>5. ASSUME NEW n \in DOMAIN names
        PROVE  \E b \in DOMAIN provided : provided[b] = [name |-> names[n], key |-> keys[n]]
    <3>1. PICK b \in DOMAIN provided :
            provided[b].name = names[n] /\ provided[b].key = GetBuildpackKey(names[n])
      BY <2>1, <2>3, KeyOfName
    <3>2. provided[b].name = names[n] /\ provided[b].key = keys[n]
      BY <2>3, <3>1, Zenon
    <3>3. provided[b] = [name |-> names[n], key |-> keys[n]]
      BY <2>1, <3>2, BuildpackType
    <3> QED
      BY <3>3
  <2> QED
    BY <2>3, <2>4, <2>5
<1> QED
  BY <1>1, ResponseAlways, PTL
=============================================================================
