-------------------------- MODULE DictionaryProofs --------------------------
(***************************************************************************)
(* Theorems about BasicDictionary.tla, for every set of codes, names and   *)
(* dictionaries.                                                           *)
(***************************************************************************)
EXTENDS BasicDictionary, NameTableProofs

-----------------------------------------------------------------------------
(* The invariant holds at first, and every operation preserves it. *)
LEMMA InitBasic == Init => TypeOK /\ NamesUnique /\ CodesKnown /\ NamesKnown
BY DEF Init, TypeOK, NamesUnique, CodesKnown, NamesKnown, Injective,
       EmptyRight, EmptyReverse, Rights, Reverses

LEMMA AddBasic ==
    ASSUME TypeOK, NamesUnique, CodesKnown, NamesKnown,
           NEW d \in Objects, NEW c \in Codes, NEW n \in Names, Add(d, c, n)
    PROVE  TypeOK' /\ NamesUnique' /\ CodesKnown' /\ NamesKnown'
<1> USE NameTableAssumption
<1>1. /\ right' = [right EXCEPT ![d] = [right[d] EXCEPT ![c] = n]]
      /\ reverse' = [reverse EXCEPT ![d] = Emplaced(reverse[d], Entry(n, c))]
      /\ torn' = torn
      /\ \A k \in Codes \ {c} : right[d][k] # n
  BY DEF Add, NameTaken
<1>2. /\ right[d] \in Rights /\ reverse[d] \in Reverses
      /\ Emplaced(reverse[d], Entry(n, c)) \in Reverses
      /\ \A m \in Names : reverse[d][m] # NoCode
            => Emplaced(reverse[d], Entry(n, c))[m] = reverse[d][m]
      /\ \A m \in Names \ {n} :
            Emplaced(reverse[d], Entry(n, c))[m] = reverse[d][m]
      /\ Emplaced(reverse[d], Entry(n, c))[n] \in {c, reverse[d][n]} \ {NoCode}
  BY EmplacedType, EntryType DEF TypeOK, Reverses
<1>3. TypeOK'
  BY <1>1, <1>2 DEF TypeOK, Rights
<1>4. NamesUnique'
  BY <1>1, <1>2 DEF TypeOK, NamesUnique, Injective, Rights
<1>5. CodesKnown'
  <2> SUFFICES ASSUME NEW o \in Objects, NEW m \in Names, reverse'[o][m] # NoCode
               PROVE  right'[o][reverse'[o][m]] # NoName
    BY DEF CodesKnown
  <2>1. CASE o # d
    BY <1>1, <2>1 DEF TypeOK, CodesKnown
  <2>2. CASE o = d
    <3>1. /\ reverse'[d][m] = Emplaced(reverse[d], Entry(n, c))[m]
          /\ \A k \in Codes : right'[d][k] = IF k = c THEN n ELSE right[d][k]
      BY <1>1, <1>2 DEF TypeOK, Rights
    <3>2. reverse'[d][m] \in Codes
      BY <1>2, <2>2, <3>1 DEF Reverses
    <3>3. reverse'[d][m] = c \/ reverse'[d][m] = reverse[d][m]
      BY <1>2, <3>1
    <3> QED BY <2>2, <3>1, <3>2, <3>3 DEF CodesKnown
  <2> QED BY <2>1, <2>2
<1>6. NamesKnown'
  <2> SUFFICES ASSUME NEW o \in Objects, NEW k \in Codes,
                      right'[o][k] # NoName, ~torn'[o]
               PROVE  reverse'[o][right'[o][k]] # NoCode
    BY DEF NamesKnown
  <2>1. CASE o # d
    BY <1>1, <2>1 DEF TypeOK, NamesKnown
  <2>2. CASE o = d
    <3>1. /\ reverse'[d] = Emplaced(reverse[d], Entry(n, c))
          /\ right'[d][k] = IF k = c THEN n ELSE right[d][k]
      BY <1>1, <1>2 DEF TypeOK, Rights
    <3>2. right'[d][k] \in Names
      BY <1>2, <2>2, <3>1 DEF Rights
    <3>3. CASE k = c
      BY <1>2, <2>2, <3>1, <3>3
    <3>4. CASE k # c
      <4>1. reverse[d][right[d][k]] # NoCode
        BY <1>1, <2>2, <3>1, <3>4 DEF NamesKnown
      <4> QED BY <1>2, <2>2, <3>1, <3>2, <3>4, <4>1
    <3> QED BY <3>3, <3>4
  <2> QED BY <2>1, <2>2
<1> QED BY <1>3, <1>4, <1>5, <1>6

LEMMA AppendBasic ==
    ASSUME TypeOK, NamesUnique, CodesKnown, NamesKnown,
           NEW d \in Objects, NEW e \in Objects, Append(d, e)
    PROVE  TypeOK' /\ NamesUnique' /\ CodesKnown' /\ NamesKnown'
<1> USE NameTableAssumption
<1> DEFINE a == Appended(right[d], right[e])
           m == Emplaced(reverse[d], reverse[e])
<1>1. /\ right' = [right EXCEPT ![d] = a]
      /\ \/ /\ Clashes(right[d], right[e]) = {}
            /\ reverse' = [reverse EXCEPT ![d] = m]
            /\ torn' = [torn EXCEPT ![d] = torn[d] \/ torn[e]]
         \/ /\ reverse' = reverse
            /\ torn' = [torn EXCEPT ![d] = TRUE]
  BY DEF Append
<1>2. /\ right[d] \in Rights /\ right[e] \in Rights
      /\ reverse[d] \in Reverses /\ reverse[e] \in Reverses
      /\ torn[d] \in BOOLEAN /\ torn[e] \in BOOLEAN
  BY DEF TypeOK
<1>3. /\ a \in Rights
      /\ \A k \in Codes : a[k] \in {right[d][k], right[e][k]}
      /\ \A k \in Codes : right[d][k] # NoName => a[k] # NoName
      /\ Clashes(right[d], right[e]) = {} => a = Copied(right[d], right[e])
      /\ Injective(a)
  BY <1>2, AppendedType, AppendedInjective DEF NamesUnique, Appended
<1>4. /\ m \in Reverses
      /\ \A n \in Names : reverse[d][n] # NoCode => m[n] = reverse[d][n]
      /\ \A n \in Names : reverse[d][n] = NoCode => m[n] = reverse[e][n]
  BY <1>2, EmplacedType
<1> HIDE DEF a, m
<1>5. TypeOK'
  <2>1. right' \in [Objects -> Rights] /\ reverse' \in [Objects -> Reverses]
    BY <1>1, <1>3, <1>4 DEF TypeOK
  <2>2. torn' \in [Objects -> BOOLEAN]
    BY <1>1, <1>2 DEF TypeOK
  <2> QED BY <2>1, <2>2 DEF TypeOK
<1>6. NamesUnique'
  BY <1>1, <1>3 DEF TypeOK, NamesUnique
<1>7. CodesKnown'
  <2> SUFFICES ASSUME NEW o \in Objects, NEW n \in Names, reverse'[o][n] # NoCode
               PROVE  right'[o][reverse'[o][n]] # NoName
    BY DEF CodesKnown
  <2>1. CASE o # d
    BY <1>1, <2>1 DEF TypeOK, CodesKnown
  <2>2. CASE o = d
    <3>1. right'[d] = a
      BY <1>1 DEF TypeOK
    <3>2. CASE reverse'[d][n] = reverse[d][n]
      <4>1. /\ reverse[d][n] \in Codes
            /\ right[d][reverse[d][n]] # NoName
        BY <1>2, <2>2, <3>2 DEF CodesKnown, Reverses
      <4> QED BY <1>3, <2>2, <3>1, <3>2, <4>1
    <3>3. CASE reverse'[d][n] # reverse[d][n]
      <4>1. /\ Clashes(right[d], right[e]) = {}
            /\ reverse'[d] = m
        BY <1>1, <3>3 DEF TypeOK
      <4>2. m[n] = reverse[e][n]
        BY <1>4, <3>3, <4>1
      <4>3. /\ reverse[e][n] \in Codes
            /\ right[e][reverse[e][n]] # NoName
        BY <1>2, <2>2, <4>1, <4>2 DEF CodesKnown, Reverses
      <4>4. a[reverse[e][n]] = right[e][reverse[e][n]]
        BY <1>3, <4>1, <4>3 DEF Copied
      <4> QED BY <2>2, <3>1, <4>1, <4>2, <4>3, <4>4
    <3> QED BY <3>2, <3>3
  <2> QED BY <2>1, <2>2
<1>8. NamesKnown'
  <2> SUFFICES ASSUME NEW o \in Objects, NEW k \in Codes,
                      right'[o][k] # NoName, ~torn'[o]
               PROVE  reverse'[o][right'[o][k]] # NoCode
    BY DEF NamesKnown
  <2>1. CASE o # d
    BY <1>1, <2>1 DEF TypeOK, NamesKnown
  <2>2. CASE o = d
    <3>1. right'[d] = a /\ reverse'[d] = m /\ ~torn[d] /\ ~torn[e]
      BY <1>1, <1>2, <2>2 DEF TypeOK
    <3>2. a[k] \in Names
      BY <1>3, <2>2, <3>1 DEF Rights
    <3>3. CASE a[k] = right[d][k]
      <4>1. reverse[d][a[k]] # NoCode
        BY <2>2, <3>1, <3>3 DEF NamesKnown
      <4> QED BY <1>4, <2>2, <3>1, <3>2, <4>1
    <3>4. CASE a[k] = right[e][k]
      <4>1. reverse[e][a[k]] # NoCode
        BY <2>2, <3>1, <3>4 DEF NamesKnown
      <4> QED BY <1>4, <2>2, <3>1, <3>2, <4>1
    <3> QED BY <1>3, <3>3, <3>4
  <2> QED BY <2>1, <2>2
<1> QED BY <1>5, <1>6, <1>7, <1>8

BasicInv == TypeOK /\ NamesUnique /\ CodesKnown /\ NamesKnown

LEMMA StepBasic == BasicInv /\ [Next]_vars => BasicInv'
<1>1. ASSUME BasicInv, UNCHANGED vars PROVE BasicInv'
  BY <1>1 DEF BasicInv, TypeOK, NamesUnique, CodesKnown, NamesKnown, vars
<1> QED BY <1>1, AddBasic, AppendBasic DEF Next, BasicInv

(* However dictionaries are filled and merged, no two codes have one name, *)
(* not even after an append that threw on its way.                         *)
THEOREM BasicNamesUnique == Spec => []NamesUnique
<1>1. Spec => []BasicInv
  BY InitBasic, StepBasic, PTL DEF Spec, BasicInv
<1>2. BasicInv => NamesUnique
  BY DEF BasicInv
<1> QED BY <1>1, <1>2, PTL

(* Every code code() returns is known to name().                           *)
THEOREM BasicCodesKnown == Spec => []CodesKnown
<1>1. Spec => []BasicInv
  BY InitBasic, StepBasic, PTL DEF Spec, BasicInv
<1>2. BasicInv => CodesKnown
  BY DEF BasicInv
<1> QED BY <1>1, <1>2, PTL

(* Every name name() returns is known to code(), unless an append failed.  *)
THEOREM BasicNamesKnown == Spec => []NamesKnown
<1>1. Spec => []BasicInv
  BY InitBasic, StepBasic, PTL DEF Spec, BasicInv
<1>2. BasicInv => NamesKnown
  BY DEF BasicInv
<1> QED BY <1>1, <1>2, PTL

(* Every table of every dictionary stays well typed. *)
THEOREM BasicDictionaryTypes == Spec => []TypeOK
<1>1. Spec => []BasicInv
  BY InitBasic, StepBasic, PTL DEF Spec, BasicInv
<1>2. BasicInv => TypeOK
  BY DEF BasicInv
<1> QED BY <1>1, <1>2, PTL

(* A name once known to code() keeps its code for good. *)
THEOREM BasicAliasesKept == Spec => AliasesKept
<1>1. Spec => []TypeOK
  BY BasicDictionaryTypes
<1>2. TypeOK /\ [Next]_vars =>
        [\A d \in Objects, n \in Names :
            reverse[d][n] # NoCode => reverse'[d][n] = reverse[d][n]]_vars
  <2> SUFFICES ASSUME TypeOK, Next, NEW o \in Objects, NEW n \in Names,
                      reverse[o][n] # NoCode
               PROVE  reverse'[o][n] = reverse[o][n]
    OBVIOUS
  <2>1. ASSUME NEW d \in Objects, NEW c \in Codes, NEW m \in Names, Add(d, c, m)
        PROVE  reverse'[o][n] = reverse[o][n]
    <3>1. /\ Emplaced(reverse[d], Entry(m, c))[n] = reverse[d][n] \/ o # d
          /\ reverse' = [reverse EXCEPT ![d] = Emplaced(reverse[d], Entry(m, c))]
      BY <2>1, EmplacedType, EntryType DEF Add, TypeOK
    <3> QED BY <3>1 DEF TypeOK
  <2>2. ASSUME NEW d \in Objects, NEW e \in Objects, Append(d, e)
        PROVE  reverse'[o][n] = reverse[o][n]
    <3>1. /\ Emplaced(reverse[d], reverse[e])[n] = reverse[d][n] \/ o # d
          /\ \/ reverse' = [reverse EXCEPT ![d] = Emplaced(reverse[d], reverse[e])]
             \/ reverse' = reverse
      BY <2>2, EmplacedType DEF Append, TypeOK
    <3> QED BY <3>1 DEF TypeOK
  <2> QED BY <2>1, <2>2 DEF Next
<1> QED BY <1>1, <1>2, PTL DEF Spec, AliasesKept

=============================================================================
