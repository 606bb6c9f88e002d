-------------------------- MODULE DependentProofs --------------------------
(***************************************************************************)
(* Theorems about DependentDictionary.tla, for every set of codes, names,  *)
(* scopes and dictionaries.                                                *)
(***************************************************************************)
EXTENDS DependentDictionary, NameTableProofs

DependentInv == TypeOK /\ NamesUnique /\ CodesKnown /\ NamesKnown

-----------------------------------------------------------------------------
(* What append leaves in one scope: what it was or what BasicDictionary's  *)
(* append would leave there; all of it if no scope clashed.                *)
LEMMA ScopeAppended ==
    ASSUME NEW r \in [Scopes -> Rights], NEW a \in [Scopes -> Rights], NEW s \in Scopes,
           Injective(r[s]), Injective(a[s])
    PROVE  /\ ScopedAppended(r, a)[s] \in Rights
           /\ Injective(ScopedAppended(r, a)[s])
           /\ \A c \in Codes : ScopedAppended(r, a)[s][c] \in {r[s][c], a[s][c]}
           /\ \A c \in Codes : r[s][c] # NoName => ScopedAppended(r, a)[s][c] # NoName
           /\ ~ScopedClash(r, a) => \A c \in Codes :
                 a[s][c] # NoName => ScopedAppended(r, a)[s][c] = a[s][c]
<1>1. r[s] \in Rights /\ a[s] \in Rights
  OBVIOUS
<1>2. CASE Reached(r, a, s)
  <2>1. ScopedAppended(r, a)[s] = Appended(r[s], a[s])
    BY <1>2 DEF ScopedAppended
  <2>2. ~ScopedClash(r, a) => Appended(r[s], a[s]) = Copied(r[s], a[s])
    BY DEF ScopedClash, Appended
  <2>3. /\ Appended(r[s], a[s]) \in Rights
        /\ \A c \in Codes : Appended(r[s], a[s])[c] \in {r[s][c], a[s][c]}
        /\ \A c \in Codes : r[s][c] # NoName => Appended(r[s], a[s])[c] # NoName
    BY <1>1, AppendedType
  <2>4. Injective(Appended(r[s], a[s]))
    BY <1>1, AppendedInjective
  <2>5. ~ScopedClash(r, a) => \A c \in Codes :
          a[s][c] # NoName => Appended(r[s], a[s])[c] = a[s][c]
    BY <2>2 DEF Copied
  <2> QED BY <2>1, <2>3, <2>4, <2>5
<1>3. CASE ~Reached(r, a, s)
  <2>1. ScopedAppended(r, a)[s] = r[s]
    BY <1>3 DEF ScopedAppended
  <2>2. ScopedClash(r, a)
    BY <1>3 DEF Reached, ScopedClash
  <2> QED BY <1>1, <2>1, <2>2
<1> QED BY <1>2, <1>3

LEMMA InitDependent == Init => DependentInv
BY DEF Init, DependentInv, TypeOK, NamesUnique, CodesKnown, NamesKnown, Injective,
       EmptyScopedRight, EmptyScopedReverse, EmptyRight, EmptyReverse, Rights, Reverses

(* add changes one scope of one dictionary, as BasicDictionary's does. *)
LEMMA AddDependent ==
    ASSUME DependentInv, NEW d \in Objects, NEW s \in Scopes, NEW c \in Codes,
           NEW n \in Names, Add(d, s, c, n)
    PROVE  DependentInv'
<1> USE NameTableAssumption DEF DependentInv
<1> DEFINE m == Emplaced(reverse[d][s], Entry(n, c))
<1>1. /\ right' = [right EXCEPT ![d] = [right[d] EXCEPT ![s] = [right[d][s] EXCEPT ![c] = n]]]
      /\ reverse' = [reverse EXCEPT ![d] = [reverse[d] EXCEPT ![s] = m]]
      /\ torn' = torn
      /\ \A k \in Codes \ {c} : right[d][s][k] # n
  BY DEF Add, NameTakenInScope, NameTaken
<1>2. /\ right[d] \in [Scopes -> Rights] /\ reverse[d] \in [Scopes -> Reverses]
      /\ right[d][s] \in Rights /\ reverse[d][s] \in Reverses
  BY DEF TypeOK
<1>3. /\ m \in Reverses
      /\ \A k \in Names : reverse[d][s][k] # NoCode => m[k] = reverse[d][s][k]
      /\ \A k \in Names \ {n} : m[k] = reverse[d][s][k]
      /\ m[n] \in {c, reverse[d][s][n]} \ {NoCode}
  BY <1>2, EmplacedType, EntryType
<1> HIDE DEF m
<1>4. /\ \A o \in Objects, t \in Scopes : <<o, t>> # <<d, s>> =>
            right'[o][t] = right[o][t] /\ reverse'[o][t] = reverse[o][t]
      /\ right'[d][s] = [right[d][s] EXCEPT ![c] = n] /\ reverse'[d][s] = m
  BY <1>1, <1>2 DEF TypeOK
<1>5. right'[d][s] \in Rights /\ \A k \in Codes : right'[d][s][k] = IF k = c THEN n ELSE right[d][s][k]
  BY <1>2, <1>4 DEF Rights
<1>6. TypeOK'
  <2>1. [right[d] EXCEPT ![s] = [right[d][s] EXCEPT ![c] = n]] \in [Scopes -> Rights]
    BY <1>2, <1>4, <1>5
  <2>2. [reverse[d] EXCEPT ![s] = m] \in [Scopes -> Reverses]
    BY <1>2, <1>3
  <2> QED BY <1>1, <2>1, <2>2 DEF TypeOK
<1>7. NamesUnique'
  <2>1. Injective(right'[d][s])
    BY <1>1, <1>5 DEF NamesUnique, Injective
  <2> QED BY <1>4, <2>1 DEF NamesUnique
<1>8. CodesKnown'
  <2> SUFFICES ASSUME NEW o \in Objects, NEW t \in Scopes, NEW k \in Names,
                      reverse'[o][t][k] # NoCode
               PROVE  right'[o][t][reverse'[o][t][k]] # NoName
    BY DEF CodesKnown
  <2>1. CASE <<o, t>> # <<d, s>>
    BY <1>4, <2>1 DEF CodesKnown
  <2>2. CASE o = d /\ t = s
    <3>1. m[k] \in Codes
      BY <1>3, <1>4, <2>2 DEF Reverses
    <3>2. m[k] = c \/ m[k] = reverse[d][s][k]
      BY <1>3
    <3>3. n # NoName
      OBVIOUS
    <3>4. CASE m[k] = c
      BY <1>4, <1>5, <2>2, <3>1, <3>3, <3>4
    <3>5. CASE m[k] # c
      <4>1. m[k] = reverse[d][s][k] /\ right[d][s][m[k]] # NoName
        BY <1>4, <2>2, <3>2, <3>5 DEF CodesKnown
      <4> QED BY <1>4, <1>5, <2>2, <3>1, <3>5, <4>1
    <3> QED BY <3>4, <3>5
  <2> QED BY <2>1, <2>2
<1>9. NamesKnown'
  <2> SUFFICES ASSUME NEW o \in Objects, NEW t \in Scopes, NEW k \in Codes,
                      right'[o][t][k] # NoName, ~torn'[o]
               PROVE  reverse'[o][t][right'[o][t][k]] # NoCode
    BY DEF NamesKnown
  <2>1. CASE <<o, t>> # <<d, s>>
    BY <1>1, <1>4, <2>1 DEF NamesKnown
  <2>2. CASE o = d /\ t = s
    <3>1. right'[d][s][k] \in Names
      BY <1>5, <2>2 DEF Rights
    <3>2. CASE k = c
      BY <1>3, <1>4, <1>5, <2>2, <3>2
    <3>3. CASE k # c
      <4>1. reverse[d][s][right[d][s][k]] # NoCode
        BY <1>1, <1>5, <2>2, <3>3 DEF NamesKnown
      <4>2. right'[d][s][k] = right[d][s][k] /\ right[d][s][k] \in Names
        BY <1>5, <2>2, <3>1, <3>3
      <4>3. m[right[d][s][k]] # NoCode
        BY <1>3, <4>1, <4>2
      <4> QED BY <1>4, <2>2, <4>2, <4>3
    <3> QED BY <3>2, <3>3
  <2> QED BY <2>1, <2>2
<1> QED BY <1>6, <1>7, <1>8, <1>9

(* append goes through the scopes to its end or to the first clash. *)
LEMMA AppendDependent ==
    ASSUME DependentInv, NEW d \in Objects, NEW e \in Objects, Append(d, e)
    PROVE  DependentInv'
<1> USE NameTableAssumption DEF DependentInv
<1> DEFINE r == ScopedAppended(right[d], right[e])
           m == ScopedAssigned(reverse[d], reverse[e])
           whole == ~ScopedClash(right[d], right[e])
<1>1. /\ right' = [right EXCEPT ![d] = r]
      /\ \/ /\ whole
            /\ reverse' = [reverse EXCEPT ![d] = m]
            /\ torn' = [torn EXCEPT ![d] = torn[d] \/ torn[e]]
         \/ /\ reverse' = reverse
            /\ torn' = [torn EXCEPT ![d] = TRUE]
  BY DEF Append
<1>2. /\ right[d] \in [Scopes -> Rights] /\ right[e] \in [Scopes -> Rights]
      /\ reverse[d] \in [Scopes -> Reverses] /\ reverse[e] \in [Scopes -> Reverses]
      /\ torn[d] \in BOOLEAN /\ torn[e] \in BOOLEAN
  BY DEF TypeOK
<1>3. ASSUME NEW s \in Scopes
      PROVE  /\ r[s] \in Rights /\ Injective(r[s])
             /\ \A c \in Codes : r[s][c] \in {right[d][s][c], right[e][s][c]}
             /\ \A c \in Codes : right[d][s][c] # NoName => r[s][c] # NoName
             /\ whole => \A c \in Codes : right[e][s][c] # NoName => r[s][c] = right[e][s][c]
  <2>1. Injective(right[d][s]) /\ Injective(right[e][s])
    BY DEF NamesUnique
  <2> QED BY <1>2, <2>1, ScopeAppended
<1>4. ASSUME NEW s \in Scopes
      PROVE  /\ m[s] \in Reverses
             /\ \A n \in Names : reverse[e][s][n] # NoCode => m[s][n] = reverse[e][s][n]
             /\ \A n \in Names : reverse[e][s][n] = NoCode => m[s][n] = reverse[d][s][n]
  <2>1. m[s] = Assigned(reverse[d][s], reverse[e][s])
    BY DEF ScopedAssigned
  <2>2. reverse[d][s] \in Reverses /\ reverse[e][s] \in Reverses
    BY <1>2
  <2> QED BY <2>1, <2>2, AssignedType
<1>5. r \in [Scopes -> Rights] /\ m \in [Scopes -> Reverses]
  <2>1. DOMAIN r = Scopes /\ r = [s \in Scopes |-> r[s]]
    BY DEF ScopedAppended
  <2>2. DOMAIN m = Scopes /\ m = [s \in Scopes |-> m[s]]
    BY DEF ScopedAssigned
  <2> HIDE DEF r, m
  <2> QED BY <1>3, <1>4, <2>1, <2>2
<1> HIDE DEF r, m, whole
<1>6. right'[d] = r /\ \A o \in Objects \ {d} : right'[o] = right[o] /\ reverse'[o] = reverse[o] /\ torn'[o] = torn[o]
  BY <1>1 DEF TypeOK
<1>7. TypeOK'
  <2>1. right' \in [Objects -> [Scopes -> Rights]]
    BY <1>1, <1>5 DEF TypeOK
  <2>2. reverse' \in [Objects -> [Scopes -> Reverses]]
    BY <1>1, <1>5 DEF TypeOK
  <2>3. torn' \in [Objects -> BOOLEAN]
    BY <1>1, <1>2 DEF TypeOK
  <2> QED BY <2>1, <2>2, <2>3 DEF TypeOK
<1>8. NamesUnique'
  BY <1>3, <1>6 DEF NamesUnique
<1>9. CodesKnown'
  <2> SUFFICES ASSUME NEW o \in Objects, NEW s \in Scopes, NEW n \in Names,
                      reverse'[o][s][n] # NoCode
               PROVE  right'[o][s][reverse'[o][s][n]] # NoName
    BY DEF CodesKnown
  <2>1. CASE o # d
    BY <1>6, <2>1 DEF CodesKnown
  <2>2. CASE o = d /\ reverse'[d][s][n] = reverse[d][s][n]
    <3>1. /\ reverse[d][s][n] \in Codes
          /\ right[d][s][reverse[d][s][n]] # NoName
      BY <1>2, <2>2 DEF CodesKnown, Reverses
    <3>2. r[s][reverse[d][s][n]] # NoName
      BY <1>3, <3>1
    <3>3. right'[o][s][reverse'[o][s][n]] = r[s][reverse[d][s][n]]
      BY <1>6, <2>2
    <3> QED BY <3>2, <3>3
  <2>3. CASE o = d /\ reverse'[d][s][n] # reverse[d][s][n]
    <3>1. whole /\ reverse'[d] = m
      BY <1>1, <2>3 DEF TypeOK
    <3>2. reverse[e][s][n] # NoCode /\ m[s][n] = reverse[e][s][n]
      BY <1>4, <2>3, <3>1
    <3>3. reverse[e][s][n] \in Codes /\ right[e][s][reverse[e][s][n]] # NoName
      BY <1>2, <3>2 DEF CodesKnown, Reverses
    <3>4. r[s][reverse[e][s][n]] = right[e][s][reverse[e][s][n]]
      BY <1>3, <3>1, <3>3
    <3>5. right'[o][s] = r[s] /\ reverse'[o][s][n] = reverse[e][s][n]
      BY <1>6, <2>3, <3>1, <3>2
    <3> QED BY <3>3, <3>4, <3>5
  <2> QED BY <2>1, <2>2, <2>3
<1>10. NamesKnown'
  <2> SUFFICES ASSUME NEW o \in Objects, NEW s \in Scopes, NEW c \in Codes,
                      right'[o][s][c] # NoName, ~torn'[o]
               PROVE  reverse'[o][s][right'[o][s][c]] # NoCode
    BY DEF NamesKnown
  <2>1. CASE o # d
    BY <1>6, <2>1 DEF NamesKnown
  <2>2. CASE o = d
    <3>1. reverse'[d] = m /\ ~torn[d] /\ ~torn[e]
      BY <1>1, <1>2, <2>2 DEF TypeOK
    <3>2. r[s][c] \in Names /\ right'[o][s][c] = r[s][c]
      BY <1>3, <1>6, <2>2 DEF Rights
    <3>3. CASE r[s][c] = right[d][s][c]
      <4>1. reverse[d][s][r[s][c]] # NoCode
        BY <2>2, <3>1, <3>2, <3>3 DEF NamesKnown
      <4> QED BY <1>4, <2>2, <3>1, <3>2, <4>1
    <3>4. CASE r[s][c] = right[e][s][c]
      <4>1. reverse[e][s][r[s][c]] # NoCode
        BY <2>2, <3>1, <3>2, <3>4 DEF NamesKnown
      <4> QED BY <1>4, <2>2, <3>1, <3>2, <4>1
    <3> QED BY <1>3, <3>3, <3>4
  <2> QED BY <2>1, <2>2
<1> QED BY <1>7, <1>8, <1>9, <1>10

LEMMA StepDependent == DependentInv /\ [Next]_vars => DependentInv'
<1>1. ASSUME DependentInv, UNCHANGED vars PROVE DependentInv'
  BY <1>1 DEF DependentInv, TypeOK, NamesUnique, CodesKnown, NamesKnown, vars
<1> QED BY <1>1, AddDependent, AppendDependent DEF Next

-----------------------------------------------------------------------------
(* However dictionaries are filled and merged, no two codes of one scope have *)
(* one name, not even after an append that threw on its way.               *)
THEOREM DependentNamesUnique == Spec => []NamesUnique
<1>1. Spec => []DependentInv
  BY InitDependent, StepDependent, PTL DEF Spec
<1>2. DependentInv => NamesUnique
  BY DEF DependentInv
<1> QED BY <1>1, <1>2, PTL

(* Every code code() returns is known to name().                           *)
THEOREM DependentCodesKnown == Spec => []CodesKnown
<1>1. Spec => []DependentInv
  BY InitDependent, StepDependent, PTL DEF Spec
<1>2. DependentInv => CodesKnown
  BY DEF DependentInv
<1> QED BY <1>1, <1>2, PTL

(* Every name name() returns is known to code(), unless an append failed.  *)
THEOREM DependentNamesKnown == Spec => []NamesKnown
<1>1. Spec => []DependentInv
  BY InitDependent, StepDependent, PTL DEF Spec
<1>2. DependentInv => NamesKnown
  BY DEF DependentInv
<1> QED BY <1>1, <1>2, PTL

(* Every table of every scope stays well typed. *)
THEOREM DependentDictionaryTypes == Spec => []TypeOK
<1>1. Spec => []DependentInv
  BY InitDependent, StepDependent, PTL DEF Spec
<1>2. DependentInv => TypeOK
  BY DEF DependentInv
<1> QED BY <1>1, <1>2, PTL

(* A name keeps its code until an append replaces it by the code of the    *)
(* dictionary that is appended.                                            *)
THEOREM DependentAliasesReplaced == Spec => AliasesReplacedByAppend
<1>1. Spec => []TypeOK
  BY DependentDictionaryTypes
<1>2. TypeOK /\ [Next]_vars =>
        [\A d \in Objects, s \in Scopes, n \in Names :
            reverse[d][s][n] # NoCode /\ reverse'[d][s][n] # reverse[d][s][n]
                => \E e \in Objects \ {d} : reverse'[d][s][n] = reverse[e][s][n]]_vars
  <2> SUFFICES ASSUME TypeOK, Next, NEW o \in Objects, NEW t \in Scopes, NEW n \in Names,
                      reverse[o][t][n] # NoCode, reverse'[o][t][n] # reverse[o][t][n]
               PROVE  \E e \in Objects \ {o} : reverse'[o][t][n] = reverse[e][t][n]
    OBVIOUS
  <2>1. ASSUME NEW d \in Objects, NEW s \in Scopes, NEW c \in Codes, NEW m \in Names,
               Add(d, s, c, m)
        PROVE  FALSE
    <3>1. reverse' = [reverse EXCEPT ![d] = [reverse[d] EXCEPT ![s] =
                            Emplaced(reverse[d][s], Entry(m, c))]]
      BY <2>1 DEF Add
    <3>2. reverse[o][t] \in Reverses
      BY DEF TypeOK
    <3>3. o = d /\ t = s => reverse'[o][t] = Emplaced(reverse[d][s], Entry(m, c))
      BY <3>1 DEF TypeOK
    <3>4. ~(o = d /\ t = s) => reverse'[o][t] = reverse[o][t]
      BY <3>1 DEF TypeOK
    <3> QED BY <3>2, <3>3, <3>4, EmplacedType, EntryType
  <2>2. ASSUME NEW d \in Objects, NEW e \in Objects, Append(d, e)
        PROVE  o = d /\ e # d /\ reverse'[o][t][n] = reverse[e][t][n]
    <3>1. reverse' = [reverse EXCEPT ![d] = ScopedAssigned(reverse[d], reverse[e])]
      BY <2>2 DEF Append
    <3>2. o = d /\ reverse'[o][t] = Assigned(reverse[d][t], reverse[e][t])
      BY <3>1 DEF TypeOK, ScopedAssigned
    <3>3. reverse[d][t] \in Reverses /\ reverse[e][t] \in Reverses
      BY DEF TypeOK
    <3> QED BY <3>2, <3>3, AssignedType
  <2> QED BY <2>1, <2>2 DEF Next
<1> QED BY <1>1, <1>2, PTL DEF Spec, AliasesReplacedByAppend

=============================================================================
