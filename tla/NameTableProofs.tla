-------------------------- MODULE NameTableProofs --------------------------
(***************************************************************************)
(* Lemmas about the tables of NameTable.tla, for every set of codes and    *)
(* names: what append leaves behind, whether it throws or not, and what    *)
(* merging two tables of names does.                                       *)
(***************************************************************************)
EXTENDS NameTable, WellFoundedInduction, TLAPS

-----------------------------------------------------------------------------
(* A set of codes that is not empty has a least element. *)
LEMMA LeastCode ==
    ASSUME NEW S, S \subseteq Codes, S # {}
    PROVE  \E c \in Codes : IsFirst(c, S)
<1>1. \E x \in S : \A y \in S : ~ (<<y, x>> \in OpToRel(<, Nat))
  BY NatLessThanWellFounded, WFMin, NameTableAssumption
<1>2. PICK x \in S : \A y \in S : ~ (<<y, x>> \in OpToRel(<, Nat))
  BY <1>1
<1>3. \A y \in S : y \in Nat /\ x \in Nat /\ ~(y < x)
  BY <1>2, NameTableAssumption DEF OpToRel
<1>4. \A y \in S : x <= y
  BY <1>3
<1> QED BY <1>4 DEF IsFirst

(* What append leaves behind is, up to some code, the appended table, and  *)
(* no entry below that code clashed.                                       *)
LEMMA AppendedForm ==
    ASSUME NEW r \in Rights, NEW a \in Rights
    PROVE  \/ /\ Clashes(r, a) = {}
              /\ Appended(r, a) = Copied(r, a)
           \/ \E c \in Codes :
                 /\ Appended(r, a) = CopiedBelow(r, a, c)
                 /\ \A k \in Codes : k < c => k \notin Clashes(r, a)
<1>1. CASE Clashes(r, a) = {}
  BY <1>1 DEF Appended
<1>2. CASE Clashes(r, a) # {}
  <2> DEFINE c == CHOOSE k \in Codes : IsFirst(k, Clashes(r, a))
  <2>1. \E k \in Codes : IsFirst(k, Clashes(r, a))
    BY <1>2, LeastCode DEF Clashes
  <2>2. c \in Codes /\ IsFirst(c, Clashes(r, a))
    BY <2>1
  <2> HIDE DEF c
  <2>3. \A k \in Codes : k < c => k \notin Clashes(r, a)
    BY <2>2, NameTableAssumption DEF IsFirst
  <2>4. Appended(r, a) = CopiedBelow(r, a, c)
    BY <1>2 DEF Appended, c
  <2> QED BY <2>2, <2>3, <2>4
<1> QED BY <1>1, <1>2

LEMMA AppendedType ==
    ASSUME NEW r \in Rights, NEW a \in Rights
    PROVE  /\ Appended(r, a) \in Rights
           /\ \A k \in Codes : Appended(r, a)[k] \in {r[k], a[k]}
           /\ \A k \in Codes : r[k] # NoName => Appended(r, a)[k] # NoName
<1>1. /\ Copied(r, a) \in Rights
      /\ \A k \in Codes : Copied(r, a)[k] \in {r[k], a[k]}
      /\ \A k \in Codes : r[k] # NoName => Copied(r, a)[k] # NoName
  BY DEF Copied, Rights
<1>2. ASSUME NEW c \in Codes
      PROVE  /\ CopiedBelow(r, a, c) \in Rights
             /\ \A k \in Codes : CopiedBelow(r, a, c)[k] \in {r[k], a[k]}
             /\ \A k \in Codes : r[k] # NoName => CopiedBelow(r, a, c)[k] # NoName
  BY DEF CopiedBelow, Rights
<1> QED BY <1>1, <1>2, AppendedForm

(* append gives no name to two codes, whether it throws or not: of two     *)
(* codes with one name the later copied would have clashed.                *)
LEMMA AppendedInjective ==
    ASSUME NEW r \in Rights, NEW a \in Rights, Injective(r), Injective(a)
    PROVE  Injective(Appended(r, a))
<1> DEFINE Part(t, P) == [k \in Codes |-> IF k \in P /\ a[k] # NoName
                                          THEN a[k] ELSE t[k]]
<1>1. PICK P \in SUBSET Codes :
        /\ Appended(r, a) = Part(r, P)
        /\ P \cap Clashes(r, a) = {}
        /\ \A k \in P, j \in Codes : j < k => j \in P
  <2>1. CASE Clashes(r, a) = {} /\ Appended(r, a) = Copied(r, a)
    <3>1. Copied(r, a) = Part(r, Codes)
      BY DEF Copied
    <3> QED BY <2>1, <3>1
  <2>2. ASSUME NEW c \in Codes,
               Appended(r, a) = CopiedBelow(r, a, c),
               \A k \in Codes : k < c => k \notin Clashes(r, a)
        PROVE  \E P \in SUBSET Codes :
                  /\ Appended(r, a) = Part(r, P)
                  /\ P \cap Clashes(r, a) = {}
                  /\ \A k \in P, j \in Codes : j < k => j \in P
    <3> DEFINE P == {k \in Codes : k < c}
    <3>1. CopiedBelow(r, a, c) = Part(r, P)
      BY DEF CopiedBelow
    <3>2. P \cap Clashes(r, a) = {}
      BY <2>2
    <3>3. \A k \in P, j \in Codes : j < k => j \in P
      BY NameTableAssumption
    <3> QED BY <2>2, <3>1, <3>2, <3>3
  <2> QED BY <2>1, <2>2, AppendedForm
(* A copied entry has a name that no other code had when it was copied. *)
<1>2. ASSUME NEW j \in P, a[j] # NoName, NEW k \in Codes, k # j,
             ~(k \in P /\ a[k] # NoName)
      PROVE  r[k] # a[j]
  <2>1. ~NameTaken(CopiedBelow(r, a, j), j, a[j])
    BY <1>1, <1>2 DEF Clashes
  <2>2. CopiedBelow(r, a, j)[k] = r[k]
    BY <1>1, <1>2 DEF CopiedBelow
  <2> QED BY <1>2, <2>1, <2>2 DEF NameTaken
<1>3. ASSUME NEW j \in Codes, NEW k \in Codes,
             Part(r, P)[j] = Part(r, P)[k], Part(r, P)[j] # NoName
      PROVE  j = k
  <2>1. CASE (j \in P /\ a[j] # NoName) /\ (k \in P /\ a[k] # NoName)
    BY <1>3, <2>1 DEF Injective
  <2>2. CASE (j \in P /\ a[j] # NoName) /\ ~(k \in P /\ a[k] # NoName)
    BY <1>2, <1>3, <2>2
  <2>3. CASE ~(j \in P /\ a[j] # NoName) /\ (k \in P /\ a[k] # NoName)
    BY <1>2, <1>3, <2>3
  <2>4. CASE ~(j \in P /\ a[j] # NoName) /\ ~(k \in P /\ a[k] # NoName)
    BY <1>3, <2>4 DEF Injective
  <2> QED BY <2>1, <2>2, <2>3, <2>4
<1> QED BY <1>1, <1>3 DEF Injective

LEMMA EmplacedType ==
    ASSUME NEW t \in Reverses, NEW a \in Reverses
    PROVE  /\ Emplaced(t, a) \in Reverses
           /\ \A n \in Names : t[n] # NoCode => Emplaced(t, a)[n] = t[n]
           /\ \A n \in Names : t[n] = NoCode => Emplaced(t, a)[n] = a[n]
BY DEF Emplaced, Reverses

LEMMA EntryType ==
    ASSUME NEW n \in Names, NEW c \in Codes
    PROVE  /\ Entry(n, c) \in Reverses
           /\ Entry(n, c)[n] = c
           /\ \A m \in Names : m # n => Entry(n, c)[m] = NoCode
BY DEF Entry, EmptyReverse, Reverses

LEMMA AssignedType ==
    ASSUME NEW t \in Reverses, NEW a \in Reverses
    PROVE  /\ Assigned(t, a) \in Reverses
           /\ \A n \in Names : a[n] # NoCode => Assigned(t, a)[n] = a[n]
           /\ \A n \in Names : a[n] = NoCode => Assigned(t, a)[n] = t[n]
BY DEF Assigned, Reverses

=============================================================================
