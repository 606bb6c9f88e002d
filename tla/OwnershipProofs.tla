-------------------------- MODULE OwnershipProofs --------------------------
(***************************************************************************)
(* Theorems about PacketOwnership.tla, for every number of packets,        *)
(* contents and attributes.                                                *)
(***************************************************************************)
EXTENDS PacketOwnership, SequenceTheorems, TLAPS

(* The attributes the application holds are its own. *)
LooseOwned ==
    /\ Range(loose) \subseteq alive
    /\ \A i, j \in DOMAIN loose : loose[i] = loose[j] => i = j
    /\ \A q \in live : Range(loose) \cap Range(held[q]) = {}

(* What a packet holds was made from what it is meant to hold, also if it  *)
(* has been assigned or shares deleted attributes.                         *)
ContentsMeant == \A p \in live : ContentOf(held[p]) = meant[p]

OwnersInv == TypeOK /\ SoleOwner /\ LooseOwned /\ ContentsMeant

-----------------------------------------------------------------------------
(* The numbers of the attributes made next. *)
LEMMA FreshNumbers ==
    ASSUME TypeOK, NEW n \in Nat
    PROVE  /\ Fresh(n) \in Seq(1 .. Len(content) + n)
           /\ Len(Fresh(n)) = n /\ DOMAIN Fresh(n) = 1 .. n
           /\ \A i \in 1 .. n : Fresh(n)[i] = Len(content) + i
           /\ Range(Fresh(n)) \cap DOMAIN content = {}
<1>1. Len(content) \in Nat /\ DOMAIN content = 1 .. Len(content)
  BY LenProperties DEF TypeOK
<1>2. DOMAIN Fresh(n) = 1 .. n /\ \A i \in 1 .. n : Fresh(n)[i] = Len(content) + i
  BY DEF Fresh
<1>3. Fresh(n) \in [1 .. n -> 1 .. Len(content) + n]
  BY <1>1 DEF Fresh
<1>4. Fresh(n) \in Seq(1 .. Len(content) + n)
  BY <1>3, SeqDef
<1>5. Len(Fresh(n)) = n
  BY <1>2, <1>4, LenProperties
<1>6. Range(Fresh(n)) \cap DOMAIN content = {}
  BY <1>1, <1>2 DEF Range
<1> QED BY <1>2, <1>4, <1>5, <1>6

(* Making attributes adds objects and changes none. *)
LEMMA MadeObjects ==
    ASSUME TypeOK, NEW values \in Seq(Values), Make(values)
    PROVE  /\ content' \in Seq(Values) /\ Len(content') <= MaxObjects
           /\ DOMAIN content \subseteq DOMAIN content'
           /\ \A k \in DOMAIN content : content'[k] = content[k]
           /\ Fresh(Len(values)) \in Seq(DOMAIN content')
           /\ alive' \subseteq DOMAIN content'
           /\ \A i \in DOMAIN values : content'[Fresh(Len(values))[i]] = values[i]
<1> DEFINE n == Len(values)
<1>1. /\ content \in Seq(Values) /\ Len(content) \in Nat
      /\ DOMAIN content = 1 .. Len(content)
      /\ n \in Nat /\ DOMAIN values = 1 .. n
  BY LenProperties DEF TypeOK
<1>2. /\ content' \in Seq(Values) /\ Len(content') = Len(content) + n
      /\ \A k \in 1 .. Len(content) + n : content'[k] =
            IF k <= Len(content) THEN content[k] ELSE values[k - Len(content)]
  BY <1>1, ConcatProperties DEF Make
<1>3. DOMAIN content' = 1 .. Len(content) + n
  BY <1>2, LenProperties
<1>4. /\ Fresh(n) \in Seq(DOMAIN content')
      /\ DOMAIN Fresh(n) = 1 .. n
      /\ \A i \in 1 .. n : Fresh(n)[i] = Len(content) + i
  BY <1>1, <1>3, FreshNumbers
<1>5. DOMAIN content \subseteq DOMAIN content'
  BY <1>1, <1>3
<1>6. \A k \in DOMAIN content : content'[k] = content[k]
  BY <1>1, <1>2
<1>7. ASSUME NEW i \in DOMAIN values
      PROVE  content'[Fresh(n)[i]] = values[i]
  <2>1. i \in 1 .. n /\ Fresh(n)[i] = Len(content) + i
    BY <1>1, <1>4
  <2>2. /\ Len(content) + i \in 1 .. Len(content) + n
        /\ ~(Len(content) + i <= Len(content))
        /\ (Len(content) + i) - Len(content) = i
    BY <1>1, <2>1
  <2> QED BY <1>2, <2>1, <2>2
<1>8. Range(Fresh(n)) \subseteq DOMAIN content'
  BY <1>1, <1>3, <1>4 DEF Range
<1>9. alive' \subseteq DOMAIN content' /\ Len(content') <= MaxObjects
  BY <1>1, <1>2, <1>5, <1>8 DEF TypeOK, Make
<1> QED BY <1>2, <1>4, <1>5, <1>6, <1>7, <1>9

(* Objects that were there have their contents still. *)
LEMMA ContentsKept ==
    ASSUME TypeOK, NEW values \in Seq(Values), Make(values),
           NEW s \in Seq(DOMAIN content)
    PROVE  /\ s \in Seq(DOMAIN content')
           /\ [i \in DOMAIN s |-> content'[s[i]]] = ContentOf(s)
           /\ Range(s) \cap Range(Fresh(Len(values))) = {}
<1>1. /\ DOMAIN content \subseteq DOMAIN content'
      /\ \A k \in DOMAIN content : content'[k] = content[k]
  BY MadeObjects
<1>2. s \in Seq(DOMAIN content')
  BY <1>1, SeqMonotonic
<1>3. \A i \in DOMAIN s : s[i] \in DOMAIN content
  BY LenProperties, ElementOfSeq
<1>4. Range(s) \cap Range(Fresh(Len(values))) = {}
  BY <1>3, FreshNumbers, LenProperties DEF Range
<1> QED BY <1>1, <1>2, <1>3, <1>4 DEF ContentOf

(* The new attributes a packet or the application gets are different       *)
(* objects with the contents meant.                                        *)
LEMMA FreshOwned ==
    ASSUME TypeOK, NEW values \in Seq(Values), Make(values)
    PROVE  LET f == Fresh(Len(values)) IN
           /\ Range(f) \subseteq alive'
           /\ [i \in DOMAIN f |-> content'[f[i]]] = values
           /\ \A i, j \in DOMAIN f : f[i] = f[j] => i = j
<1> DEFINE f == Fresh(Len(values))
<1>1. /\ Len(values) \in Nat /\ DOMAIN values = 1 .. Len(values)
      /\ values = [i \in 1 .. Len(values) |-> values[i]]
  BY LenProperties
<1>2. /\ DOMAIN f = 1 .. Len(values) /\ Len(content) \in Nat
      /\ \A i \in 1 .. Len(values) : f[i] = Len(content) + i
  BY <1>1, FreshNumbers, LenProperties DEF TypeOK
<1>3. [i \in DOMAIN f |-> content'[f[i]]] = values
  BY <1>1, <1>2, MadeObjects
<1>4. \A i, j \in DOMAIN f : f[i] = f[j] => i = j
  BY <1>1, <1>2
<1> QED BY <1>3, <1>4 DEF Make

LEMMA ContentTyped ==
    ASSUME TypeOK, NEW s \in Seq(DOMAIN content)
    PROVE  ContentOf(s) \in Seq(Values) /\ Len(ContentOf(s)) = Len(s)
<1>1. /\ Len(s) \in Nat /\ DOMAIN s = 1 .. Len(s)
      /\ \A i \in 1 .. Len(s) : s[i] \in DOMAIN content
  BY LenProperties, ElementOfSeq
<1>2. \A k \in DOMAIN content : content[k] \in Values
  BY LenProperties, ElementOfSeq DEF TypeOK
<1>3. ContentOf(s) \in [1 .. Len(s) -> Values]
  BY <1>1, <1>2 DEF ContentOf
<1>4. ContentOf(s) \in Seq(Values)
  BY <1>1, <1>3, SeqDef
<1> QED BY <1>1, <1>3, <1>4, LenProperties

LEMMA ListsAreSequences == AttributeLists \subseteq Seq(Values)
BY OwnershipAssumption, SeqDef DEF AttributeLists

-----------------------------------------------------------------------------
(* The invariant holds at first. *)
LEMMA OwnersInit == Init => OwnersInv /\ NothingLost
<1> SUFFICES ASSUME Init PROVE OwnersInv /\ NothingLost
  OBVIOUS
<1>1. TypeOK
  <2>1. content \in Seq(Values) /\ Len(content) <= MaxObjects
    BY EmptySeq, OwnershipAssumption DEF Init
  <2>2. <<>> \in Seq(DOMAIN content) /\ <<>> \in Seq(Values)
    BY EmptySeq
  <2>3. /\ held \in [Packets -> Seq(DOMAIN content)]
        /\ meant \in [Packets -> Seq(Values)]
        /\ loose \in Seq(DOMAIN content)
    BY <2>2 DEF Init
  <2> QED BY <2>1, <2>3 DEF Init, TypeOK
<1>2. SoleOwner /\ NothingLost /\ LooseOwned /\ ContentsMeant
  BY DEF Init, SoleOwner, NothingLost, LooseOwned, ContentsMeant, Range
<1> QED BY <1>1, <1>2 DEF OwnersInv

(* The application makes an attribute. *)
LEMMA NewAttributeStep ==
    ASSUME OwnersInv, NothingLost, NewAttribute
    PROVE  OwnersInv' /\ NothingLost'
<1> USE DEF OwnersInv
<1>1. PICK v \in Values : Make(<<v>>)
  BY DEF NewAttribute
<1> DEFINE values == <<v>>
<1>2. values \in Seq(Values) /\ Len(values) = 1
  OBVIOUS
<1> HIDE DEF values
<1>3. Make(values)
  BY <1>1 DEF values
<1> DEFINE f == Fresh(1)
<1>4. /\ content' \in Seq(Values) /\ Len(content') <= MaxObjects
      /\ DOMAIN content \subseteq DOMAIN content'
      /\ f \in Seq(DOMAIN content')
      /\ alive' \subseteq DOMAIN content'
  BY <1>2, <1>3, MadeObjects
<1>5. /\ Range(f) \subseteq alive' /\ alive' = alive \cup Range(f)
      /\ \A i, j \in DOMAIN f : f[i] = f[j] => i = j
      /\ DOMAIN f = 1 .. 1 /\ Len(f) = 1
  BY <1>2, <1>3, FreshOwned, FreshNumbers DEF Make
<1>6. \A s \in Seq(DOMAIN content) :
         /\ s \in Seq(DOMAIN content')
         /\ [i \in DOMAIN s |-> content'[s[i]]] = ContentOf(s)
         /\ Range(s) \cap Range(f) = {}
  BY <1>2, <1>3, ContentsKept
<1>7. /\ loose \in Seq(DOMAIN content) /\ held \in [Packets -> Seq(DOMAIN content)]
      /\ live \subseteq Packets
  BY DEF TypeOK
<1> HIDE DEF f
<1>8. /\ loose' = loose \o f
      /\ UNCHANGED <<live, held, undefined, meant, tainted, strays>>
  BY DEF NewAttribute, f
<1>9. /\ loose' \in Seq(DOMAIN content')
      /\ Len(loose') = Len(loose) + 1
      /\ DOMAIN loose' = 1 .. Len(loose) + 1 /\ Len(loose) \in Nat
      /\ \A i \in 1 .. Len(loose) : loose'[i] = loose[i]
      /\ loose'[Len(loose) + 1] = f[1]
      /\ DOMAIN loose = 1 .. Len(loose)
  <2>1. loose \in Seq(DOMAIN content')
    BY <1>6, <1>7
  <2>2. Len(loose) \in Nat /\ DOMAIN loose = 1 .. Len(loose)
    BY <1>7, LenProperties
  <2>3. /\ loose' \in Seq(DOMAIN content') /\ Len(loose') = Len(loose) + 1
        /\ \A i \in 1 .. Len(loose) + 1 :
              loose'[i] = IF i <= Len(loose) THEN loose[i] ELSE f[i - Len(loose)]
    <3>1. /\ loose \o f \in Seq(DOMAIN content')
          /\ Len(loose \o f) = Len(loose) + Len(f)
          /\ \A i \in 1 .. Len(loose) + Len(f) : (loose \o f)[i] =
                IF i <= Len(loose) THEN loose[i] ELSE f[i - Len(loose)]
      BY <1>4, <2>1, ConcatProperties
    <3> QED BY <1>5, <1>8, <3>1
  <2>4. DOMAIN loose' = 1 .. Len(loose) + 1
    BY <2>3, LenProperties
  <2>5. loose'[Len(loose) + 1] = f[1]
    BY <2>2, <2>3
  <2> QED BY <2>2, <2>3, <2>4, <2>5
<1>10. Range(loose') = Range(loose) \cup Range(f)
  BY <1>5, <1>9 DEF Range
<1>11. TypeOK'
  BY <1>4, <1>6, <1>7, <1>8, <1>9 DEF TypeOK
<1>12. LooseOwned'
  <2>1. Range(loose') \subseteq alive'
    BY <1>5, <1>10 DEF LooseOwned
  <2>2. \A i \in DOMAIN loose : loose[i] # f[1]
    BY <1>5, <1>6, <1>7 DEF Range
  <2>3. \A i, j \in DOMAIN loose' : loose'[i] = loose'[j] => i = j
    BY <1>9, <2>2 DEF LooseOwned
  <2>4. \A q \in live' : Range(loose') \cap Range(held'[q]) = {}
    BY <1>6, <1>7, <1>8, <1>10 DEF LooseOwned
  <2> QED BY <2>1, <2>3, <2>4 DEF LooseOwned
<1>13. SoleOwner'
  <2>1. ASSUME NEW p \in live' \ tainted'
        PROVE  Owns(p)'
    <3>1. p \in live /\ Owns(p) /\ held[p] \in Seq(DOMAIN content)
      BY <1>7, <1>8, <2>1 DEF SoleOwner
    <3>2. Usable(p)'
      BY <1>5, <1>8, <3>1 DEF Owns, Usable
    <3>3. (ContentOf(held[p]) = meant[p])'
      BY <1>6, <1>8, <3>1 DEF Owns, ContentOf
    <3>4. (Range(held[p]) \cap Range(loose) = {})'
      BY <1>6, <1>8, <1>10, <3>1 DEF Owns
    <3> QED BY <1>8, <3>1, <3>2, <3>3, <3>4 DEF Owns
  <2> QED BY <1>8, <2>1 DEF SoleOwner
<1>14. NothingLost'
  BY <1>5, <1>8, <1>10 DEF NothingLost
<1>15. ContentsMeant'
  <2>1. ASSUME NEW p \in live'
        PROVE  (ContentOf(held[p]) = meant[p])'
    <3>1. p \in live /\ held[p] \in Seq(DOMAIN content) /\ ContentOf(held[p]) = meant[p]
      BY <1>7, <1>8, <2>1 DEF ContentsMeant
    <3>2. [i \in DOMAIN held[p] |-> content'[held[p][i]]] = meant[p]
      BY <1>6, <3>1
    <3> QED BY <1>8, <3>2 DEF ContentOf
  <2> QED BY <2>1 DEF ContentsMeant
<1> QED BY <1>11, <1>12, <1>13, <1>14, <1>15

(* A packet gets new attributes: the parsing constructor, and the copy      *)
(* constructor.                                                            *)
LEMMA PacketMade ==
    ASSUME OwnersInv, NothingLost, NEW p \in Packets, p \notin live,
           NEW values \in Seq(Values), Make(values),
           held' = [held EXCEPT ![p] = Fresh(Len(values))],
           meant' = [meant EXCEPT ![p] = values],
           live' = live \cup {p},
           UNCHANGED <<loose, undefined, tainted, strays>>
    PROVE  OwnersInv' /\ NothingLost'
<1> USE DEF OwnersInv
<1> DEFINE f == Fresh(Len(values))
<1>1. /\ content' \in Seq(Values) /\ Len(content') <= MaxObjects
      /\ DOMAIN content \subseteq DOMAIN content'
      /\ f \in Seq(DOMAIN content')
      /\ alive' \subseteq DOMAIN content'
  BY MadeObjects
<1>2. /\ Range(f) \subseteq alive' /\ alive' = alive \cup Range(f)
      /\ [i \in DOMAIN f |-> content'[f[i]]] = values
      /\ \A i, j \in DOMAIN f : f[i] = f[j] => i = j
  BY FreshOwned DEF Make
<1>3. \A s \in Seq(DOMAIN content) :
         /\ s \in Seq(DOMAIN content')
         /\ [i \in DOMAIN s |-> content'[s[i]]] = ContentOf(s)
         /\ Range(s) \cap Range(f) = {}
  BY ContentsKept
<1>4. /\ loose \in Seq(DOMAIN content) /\ held \in [Packets -> Seq(DOMAIN content)]
      /\ meant \in [Packets -> Seq(Values)]
      /\ live \subseteq Packets /\ p \notin tainted
  BY DEF TypeOK
<1> HIDE DEF f
<1>5. /\ held' = [held EXCEPT ![p] = f] /\ held'[p] = f /\ meant'[p] = values
      /\ \A q \in live : held'[q] = held[q] /\ meant'[q] = meant[q]
  BY <1>4 DEF f
<1>6. TypeOK'
  BY <1>1, <1>3, <1>4, <1>5 DEF TypeOK
<1>7. LooseOwned'
  BY <1>2, <1>3, <1>4, <1>5 DEF LooseOwned
<1>8. ContentsMeant'
  <2>1. ASSUME NEW q \in live'
        PROVE  (ContentOf(held[q]) = meant[q])'
    <3>1. CASE q = p
      BY <1>2, <1>5, <3>1 DEF ContentOf
    <3>2. CASE q \in live
      BY <1>3, <1>4, <1>5, <3>2 DEF ContentsMeant, ContentOf
    <3> QED BY <3>1, <3>2
  <2> QED BY <2>1 DEF ContentsMeant
<1>9. SoleOwner'
  <2>1. ASSUME NEW q \in live' \ tainted'
        PROVE  Owns(q)'
    <3>1. (ContentOf(held[q]) = meant[q])'
      BY <1>8 DEF ContentsMeant
    <3>2. CASE q = p
      <4>1. Usable(q)'
        BY <1>2, <1>5, <3>2 DEF Usable
      <4>2. (Range(held[q]) \cap Range(loose) = {})'
        BY <1>3, <1>4, <1>5, <3>2
      <4>3. (\A r \in live \ {q} : Range(held[q]) \cap Range(held[r]) = {})'
        BY <1>3, <1>4, <1>5, <3>2
      <4> QED BY <1>2, <1>5, <3>1, <3>2, <4>1, <4>2, <4>3 DEF Owns
    <3>3. CASE q # p
      <4>1. q \in live /\ Owns(q) /\ held'[q] = held[q] /\ held[q] \in Seq(DOMAIN content)
        BY <1>4, <1>5, <3>3 DEF SoleOwner
      <4>2. Usable(q)'
        BY <1>2, <4>1 DEF Owns, Usable
      <4>3. (\A r \in live \ {q} : Range(held[q]) \cap Range(held[r]) = {})'
        BY <1>3, <1>5, <4>1 DEF Owns
      <4> QED BY <3>1, <4>1, <4>2, <4>3 DEF Owns
    <3> QED BY <3>2, <3>3
  <2> QED BY <2>1 DEF SoleOwner
<1>10. NothingLost'
  BY <1>2, <1>4, <1>5 DEF NothingLost
<1> QED BY <1>6, <1>7, <1>8, <1>9, <1>10

(* The parsing constructor throws. *)
LEMMA ParseThrowsStep ==
    ASSUME OwnersInv, NothingLost, ParseThrows
    PROVE  OwnersInv' /\ NothingLost'
<1> USE DEF OwnersInv
<1>1. PICK values \in Seq(Values) :
         Make(values) /\ strays' = strays \cup Range(Fresh(Len(values)))
  BY ListsAreSequences DEF ParseThrows
<1> DEFINE f == Fresh(Len(values))
<1>2. /\ content' \in Seq(Values) /\ Len(content') <= MaxObjects
      /\ DOMAIN content \subseteq DOMAIN content'
      /\ alive' \subseteq DOMAIN content'
      /\ alive' = alive \cup Range(f) /\ Range(f) \subseteq alive'
  BY <1>1, MadeObjects DEF Make
<1>3. \A s \in Seq(DOMAIN content) :
         /\ s \in Seq(DOMAIN content')
         /\ [i \in DOMAIN s |-> content'[s[i]]] = ContentOf(s)
  BY <1>1, ContentsKept
<1>4. UNCHANGED <<live, held, loose, undefined, meant, tainted>>
  BY DEF ParseThrows
<1> HIDE DEF f
<1>5. strays' = strays \cup Range(f)
  BY <1>1 DEF f
<1>6. TypeOK'
  BY <1>2, <1>3, <1>4, <1>5 DEF TypeOK
<1>7. LooseOwned' /\ NothingLost'
  <2>1. LooseOwned'
    BY <1>2, <1>4 DEF LooseOwned
  <2>2. NothingLost'
    BY <1>2, <1>4, <1>5 DEF NothingLost
  <2> QED BY <2>1, <2>2
<1>8. ContentsMeant'
  BY <1>3, <1>4 DEF ContentsMeant, ContentOf, TypeOK
<1>9. SoleOwner'
  BY <1>2, <1>4, <1>8 DEF SoleOwner, Owns, Usable, ContentsMeant
<1> QED BY <1>6, <1>7, <1>8, <1>9

(* The application's pointers become a packet's. *)
LEMMA BuildStep ==
    ASSUME OwnersInv, NothingLost, NEW p \in Packets, Build(p)
    PROVE  OwnersInv' /\ NothingLost'
<1> USE DEF OwnersInv
<1>1. /\ p \notin live /\ live' = live \cup {p} /\ loose' = <<>>
      /\ held' = [held EXCEPT ![p] = loose]
      /\ meant' = [meant EXCEPT ![p] = ContentOf(loose)]
      /\ UNCHANGED <<content, alive, undefined, tainted, strays>>
  BY DEF Build
<1>2. /\ loose \in Seq(DOMAIN content) /\ held \in [Packets -> Seq(DOMAIN content)]
      /\ meant \in [Packets -> Seq(Values)] /\ ContentOf(loose) \in Seq(Values)
      /\ live \subseteq Packets /\ p \notin tainted
  BY <1>1, ContentTyped DEF TypeOK
<1>3. /\ held'[p] = loose /\ meant'[p] = ContentOf(loose)
      /\ \A q \in live : held'[q] = held[q] /\ meant'[q] = meant[q]
  BY <1>1, <1>2
<1>4. <<>> \in Seq(DOMAIN content) /\ DOMAIN <<>> = {} /\ Range(<<>>) = {}
  BY EmptySeq DEF Range
<1>5. TypeOK'
  BY <1>1, <1>2, <1>4 DEF TypeOK
<1>6. LooseOwned'
  BY <1>1, <1>4 DEF LooseOwned
<1>7. ContentsMeant'
  BY <1>1, <1>3 DEF ContentsMeant, ContentOf
<1>8. NothingLost'
  BY <1>1, <1>3 DEF NothingLost
<1>9. SoleOwner'
  <2>1. ASSUME NEW q \in live' \ tainted'
        PROVE  Owns(q)'
    <3>1. (Range(held[q]) \cap Range(loose) = {})'
      BY <1>1, <1>4
    <3>2. CASE q = p
      <4>1. (\A r \in live \ {q} : Range(held[q]) \cap Range(held[r]) = {})'
        BY <1>1, <1>3, <3>2 DEF LooseOwned
      <4>2. Usable(q)' /\ (ContentOf(held[q]) = meant[q])'
        BY <1>1, <1>3, <1>7, <3>2 DEF LooseOwned, Usable, ContentsMeant
      <4> QED BY <1>3, <3>1, <3>2, <4>1, <4>2 DEF Owns, LooseOwned
    <3>3. CASE q # p
      <4>1. q \in live /\ Owns(q)
        BY <1>1, <3>3 DEF SoleOwner
      <4>2. (\A r \in live \ {q} : Range(held[q]) \cap Range(held[r]) = {})'
        BY <1>1, <1>3, <4>1 DEF Owns, LooseOwned
      <4>3. Usable(q)' /\ (ContentOf(held[q]) = meant[q])'
        BY <1>1, <1>3, <1>7, <4>1 DEF Owns, Usable, ContentsMeant
      <4> QED BY <1>3, <3>1, <4>1, <4>2, <4>3 DEF Owns
    <3> QED BY <3>2, <3>3
  <2> QED BY <1>1, <2>1 DEF SoleOwner
<1> QED BY <1>5, <1>6, <1>7, <1>8, <1>9

(* The pointers of q are copied to p. *)
LEMMA AssignStep ==
    ASSUME OwnersInv, NothingLost, NEW p \in Packets, NEW q \in Packets, Assign(p, q)
    PROVE  OwnersInv' /\ NothingLost'
<1> USE DEF OwnersInv
<1>1. /\ p \in live /\ q \in live /\ p # q
      /\ held' = [held EXCEPT ![p] = held[q]]
      /\ meant' = [meant EXCEPT ![p] = meant[q]]
      /\ tainted' = tainted \cup {p, q}
      /\ strays' = strays \cup Range(held[p])
      /\ UNCHANGED <<content, alive, live, loose, undefined>>
  BY DEF Assign
<1>2. held \in [Packets -> Seq(DOMAIN content)] /\ meant \in [Packets -> Seq(Values)]
  BY DEF TypeOK
<1>3. /\ held'[p] = held[q] /\ meant'[p] = meant[q]
      /\ \A r \in live \ {p} : held'[r] = held[r] /\ meant'[r] = meant[r]
  BY <1>1, <1>2 DEF TypeOK
<1>4. Range(held[p]) \subseteq DOMAIN content
  BY <1>2, LenProperties, ElementOfSeq DEF Range
<1>5. TypeOK'
  BY <1>1, <1>2, <1>4 DEF TypeOK
<1>6. LooseOwned'
  BY <1>1, <1>3 DEF LooseOwned
<1>7. ContentsMeant'
  BY <1>1, <1>3 DEF ContentsMeant, ContentOf
<1>8. NothingLost'
  BY <1>1, <1>3 DEF NothingLost
<1>9. SoleOwner'
  <2>1. ASSUME NEW r \in live' \ tainted'
        PROVE  Owns(r)'
    <3>1. r \in live /\ r # p /\ r # q /\ Owns(r) /\ held'[r] = held[r]
      BY <1>1, <1>3 DEF SoleOwner
    <3>2. (\A s \in live \ {r} : Range(held[r]) \cap Range(held[s]) = {})'
      BY <1>1, <1>3, <3>1 DEF Owns
    <3>3. Usable(r)' /\ (ContentOf(held[r]) = meant[r])'
      BY <1>1, <1>3, <1>7, <3>1 DEF Owns, Usable, ContentsMeant
    <3> QED BY <1>1, <3>1, <3>2, <3>3 DEF Owns
  <2>2. tainted' # {}
    BY <1>1
  <2> QED BY <2>1, <2>2 DEF SoleOwner
<1> QED BY <1>5, <1>6, <1>7, <1>8, <1>9

(* The destructor deletes what p holds. *)
LEMMA DestroyStep ==
    ASSUME OwnersInv, NothingLost, NEW p \in Packets, Destroy(p)
    PROVE  OwnersInv' /\ NothingLost'
<1> USE DEF OwnersInv
<1>1. /\ p \in live /\ ~undefined
      /\ alive' = alive \ Range(held[p])
      /\ live' = live \ {p} /\ tainted' = tainted \ {p}
      /\ held' = [held EXCEPT ![p] = <<>>]
      /\ meant' = [meant EXCEPT ![p] = <<>>]
      /\ UNCHANGED <<content, loose, undefined, strays>>
  BY DEF Destroy, Deleted
<1>2. held \in [Packets -> Seq(DOMAIN content)] /\ meant \in [Packets -> Seq(Values)]
  BY DEF TypeOK
<1>3. \A r \in live' : r \in live /\ held'[r] = held[r] /\ meant'[r] = meant[r]
  BY <1>1, <1>2 DEF TypeOK
<1>4. <<>> \in Seq(DOMAIN content) /\ <<>> \in Seq(Values)
  BY EmptySeq
<1>5. TypeOK'
  BY <1>1, <1>2, <1>4 DEF TypeOK
<1>6. LooseOwned'
  BY <1>1, <1>3 DEF LooseOwned
<1>7. ContentsMeant'
  BY <1>1, <1>3 DEF ContentsMeant, ContentOf
<1>8. NothingLost'
  BY <1>1, <1>3 DEF NothingLost
<1>9. SoleOwner'
  <2>1. ASSUME NEW r \in live' \ tainted'
        PROVE  Owns(r)'
    <3>1. r \in live /\ r # p /\ Owns(r) /\ held'[r] = held[r]
      BY <1>1, <1>3 DEF SoleOwner
    <3>2. (\A s \in live \ {r} : Range(held[r]) \cap Range(held[s]) = {})'
      BY <1>1, <1>3, <3>1 DEF Owns
    <3>3. Range(held[r]) \cap Range(held[p]) = {}
      BY <1>1, <3>1 DEF Owns
    <3>4. Usable(r)' /\ (ContentOf(held[r]) = meant[r])'
      BY <1>1, <1>7, <3>1, <3>3 DEF Owns, Usable, ContentsMeant
    <3> QED BY <1>1, <3>1, <3>2, <3>4 DEF Owns
  <2> QED BY <1>1, <2>1 DEF SoleOwner
<1> QED BY <1>5, <1>6, <1>7, <1>8, <1>9

-----------------------------------------------------------------------------
LEMMA OwnersStep ==
    ASSUME OwnersInv, NothingLost, [Next]_vars
    PROVE  OwnersInv' /\ NothingLost'
<1>1. CASE NewAttribute
  BY <1>1, NewAttributeStep
<1>2. CASE ApplicationThrows
  <2>1. /\ strays' = strays \cup Range(loose) /\ loose' = <<>>
        /\ UNCHANGED <<content, alive, live, held, undefined, meant, tainted>>
    BY <1>2 DEF ApplicationThrows
  <2>2. <<>> \in Seq(DOMAIN content) /\ DOMAIN <<>> = {} /\ Range(<<>>) = {}
    BY EmptySeq DEF Range
  <2>3. Range(loose) \subseteq DOMAIN content
    BY DEF OwnersInv, LooseOwned, TypeOK
  <2>4. TypeOK'
    BY <2>1, <2>2, <2>3 DEF OwnersInv, TypeOK
  <2>5. LooseOwned' /\ ContentsMeant' /\ NothingLost'
    BY <2>1, <2>2 DEF OwnersInv, LooseOwned, ContentsMeant, ContentOf, NothingLost
  <2>6. SoleOwner'
    BY <2>1, <2>2 DEF OwnersInv, SoleOwner, Owns, Usable, ContentOf
  <2> QED BY <2>4, <2>5, <2>6 DEF OwnersInv
<1>3. CASE ParseThrows
  BY <1>3, ParseThrowsStep
<1>4. ASSUME NEW p \in Packets, Build(p)
      PROVE  OwnersInv' /\ NothingLost'
  BY <1>4, BuildStep
<1>5. ASSUME NEW p \in Packets, Parse(p)
      PROVE  OwnersInv' /\ NothingLost'
  <2>1. PICK values \in Seq(Values) :
           /\ Make(values)
           /\ held' = [held EXCEPT ![p] = Fresh(Len(values))]
           /\ meant' = [meant EXCEPT ![p] = values]
    BY <1>5, ListsAreSequences DEF Parse
  <2> QED BY <1>5, <2>1, PacketMade DEF Parse
<1>6. ASSUME NEW p \in Packets, Misuse(p)
      PROVE  OwnersInv' /\ NothingLost'
  <2>1. p \in tainted
    BY <1>6 DEF Misuse, OwnersInv, SoleOwner, Owns
  <2>2. undefined' = TRUE /\ UNCHANGED <<content, alive, live, held, loose, meant, tainted, strays>>
    BY <1>6 DEF Misuse
  <2>3. TypeOK' /\ LooseOwned' /\ ContentsMeant' /\ NothingLost'
    BY <2>2 DEF OwnersInv, TypeOK, LooseOwned, ContentsMeant, ContentOf, NothingLost
  <2>4. SoleOwner'
    BY <2>1, <2>2 DEF OwnersInv, SoleOwner, Owns, Usable, ContentOf
  <2> QED BY <2>3, <2>4 DEF OwnersInv
<1>7. ASSUME NEW p \in Packets, Destroy(p)
      PROVE  OwnersInv' /\ NothingLost'
  BY <1>7, DestroyStep
<1>8. ASSUME NEW p \in Packets, NEW q \in Packets, Copy(p, q)
      PROVE  OwnersInv' /\ NothingLost'
  <2> DEFINE values == ContentOf(held[q])
  <2>1. q \in live /\ held[q] \in Seq(DOMAIN content) /\ values = meant[q]
    BY <1>8 DEF Copy, OwnersInv, TypeOK, ContentsMeant
  <2>2. values \in Seq(Values) /\ Len(values) = Len(held[q])
    BY <2>1, ContentTyped DEF OwnersInv
  <2>3. /\ p \notin live /\ Make(values) /\ live' = live \cup {p}
        /\ held' = [held EXCEPT ![p] = Fresh(Len(held[q]))]
        /\ meant' = [meant EXCEPT ![p] = meant[q]]
        /\ UNCHANGED <<loose, undefined, tainted, strays>>
    BY <1>8 DEF Copy, Copied
  <2> HIDE DEF values
  <2> QED BY <2>1, <2>2, <2>3, PacketMade
<1>9. ASSUME NEW p \in Packets, NEW q \in Packets, Assign(p, q)
      PROVE  OwnersInv' /\ NothingLost'
  BY <1>9, AssignStep
<1>10. CASE UNCHANGED vars
  <2>1. UNCHANGED <<content, alive, live, held, loose, undefined, meant, tainted, strays>>
    BY <1>10 DEF vars
  <2>2. TypeOK' /\ LooseOwned' /\ ContentsMeant' /\ NothingLost'
    BY <2>1 DEF OwnersInv, TypeOK, LooseOwned, ContentsMeant, ContentOf, NothingLost
  <2>3. SoleOwner'
    BY <2>1 DEF OwnersInv, SoleOwner, Owns, Usable, ContentOf
  <2> QED BY <2>2, <2>3 DEF OwnersInv
<1> QED BY <1>1, <1>2, <1>3, <1>4, <1>5, <1>6, <1>7, <1>8, <1>9, <1>10 DEF Next

(* A packet that took no part in an assignment owns its attributes alone,  *)
(* and nothing but an assignment leads to the use of a deleted one; for    *)
(* every number of packets and attributes.                                 *)
THEOREM PacketsOwnAttributes == Spec => []SoleOwner
<1>1. Init => OwnersInv /\ NothingLost
  BY OwnersInit
<1>2. OwnersInv /\ NothingLost /\ [Next]_vars => (OwnersInv /\ NothingLost)'
  BY OwnersStep
<1>3. OwnersInv => SoleOwner
  BY DEF OwnersInv
<1> QED BY <1>1, <1>2, <1>3, PTL DEF Spec

(* The destructors lose no attribute: what is not deleted has an owner or  *)
(* was left by an exception or an assignment.                              *)
THEOREM NoAttributeLost == Spec => []NothingLost
<1>1. Init => OwnersInv /\ NothingLost
  BY OwnersInit
<1>2. OwnersInv /\ NothingLost /\ [Next]_vars => (OwnersInv /\ NothingLost)'
  BY OwnersStep
<1> QED BY <1>1, <1>2, PTL DEF Spec

(* The variables of PacketOwnership keep their types. *)
THEOREM OwnershipTypes == Spec => []TypeOK
<1>1. Init => OwnersInv /\ NothingLost
  BY OwnersInit
<1>2. OwnersInv /\ NothingLost /\ [Next]_vars => (OwnersInv /\ NothingLost)'
  BY OwnersStep
<1>3. OwnersInv => TypeOK
  BY DEF OwnersInv
<1> QED BY <1>1, <1>2, <1>3, PTL DEF Spec

=============================================================================
