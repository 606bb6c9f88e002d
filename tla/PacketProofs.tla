---------------------------- MODULE PacketProofs ----------------------------
(***************************************************************************)
(* The invariants of PacketCodec, for every digest, every menu of requests *)
(* and answers and every set of foreign datagrams.                         *)
(*                                                                         *)
(* The first half is about what the operators of PacketFormat, Attributes  *)
(* and PacketCodec compute: the lengths and the bytes of what is written,  *)
(* and that it is read back.  The recursive definitions of the community   *)
(* module (FlattenSeq) and of Attributes (Encryption) choose a function    *)
(* that fits its own equation.  That there is one, and only one, is shown  *)
(* by induction on the length, with SetInduction: the library's induction  *)
(* theorems take a predicate as a parameter, but well-foundedness of the   *)
(* naturals is stated for sets.                                            *)
(*                                                                         *)
(* The second half is about the loop.  The inductive invariant IInv        *)
(* compares the parser with an operator that does not loop: Read(bytes,    *)
(* pieces, k), the packet of the first k attributes of the datagram.  From *)
(* it follows what the properties say of the end of the loop.              *)
(***************************************************************************)
EXTENDS PacketCodec, SequenceTheorems, WellFoundedInduction, TLAPS

-----------------------------------------------------------------------------
(* Induction. *)

(* Induction over the naturals, for a set instead of a predicate.          *)
LEMMA SetInduction ==
    ASSUME NEW T, 0 \in T, \A n \in Nat : n \in T => n + 1 \in T
    PROVE  \A n \in Nat : n \in T
<1> SUFFICES ASSUME NEW m \in Nat, m \notin T PROVE FALSE
  OBVIOUS
<1> DEFINE S == {n \in Nat : n \notin T}
<1>1. PICK x \in S : \A y \in S : ~ (<<y, x>> \in OpToRel(<, Nat))
  BY NatLessThanWellFounded, WFMin, Zenon
<1>2. \A y \in S : y \in Nat /\ x \in Nat /\ ~(y < x)
  BY <1>1 DEF OpToRel
<1>3. x # 0
  OBVIOUS
<1>4. x - 1 \in Nat /\ x - 1 \in T
  BY <1>2, <1>3
<1> QED BY <1>2, <1>4

-----------------------------------------------------------------------------
(* FlattenSeq. *)

(* The function by whose last value FlattenSeq is defined. *)
Flattens(f, s) ==
    f = [i \in 1 .. Len(s) |-> IF i = 1 THEN s[i] ELSE f[i - 1] \o s[i]]

(* FlattenSeq is defined by choosing such a function. *)
LEMMA FlattenOf ==
    ASSUME NEW s, Len(s) # 0
    PROVE  FlattenSeq(s) = (CHOOSE f : Flattens(f, s))[Len(s)]
BY DEF FlattenSeq, Flattens

(* The function's values, taken out of its definition. *)
LEMMA FlattensValues ==
    ASSUME NEW f, NEW s, Flattens(f, s)
    PROVE  \A i \in 1 .. Len(s) : f[i] = IF i = 1 THEN s[i] ELSE f[i - 1] \o s[i]
<1> SUFFICES ASSUME NEW i \in 1 .. Len(s)
             PROVE  f[i] = IF i = 1 THEN s[i] ELSE f[i - 1] \o s[i]
  OBVIOUS
<1> DEFINE F(j) == IF j = 1 THEN s[j] ELSE f[j - 1] \o s[j]
<1>1. f = [j \in 1 .. Len(s) |-> F(j)]
  BY DEF Flattens
<1> HIDE DEF F
<1>2. f[i] = F(i)
  BY <1>1
<1> QED BY <1>2 DEF F

(* There is only one such function for a sequence, and sequences that begin
   alike have functions that begin alike. *)
LEMMA FlattenUnique ==
    ASSUME NEW S, NEW s \in Seq(Seq(S)), NEW t \in Seq(Seq(S)), NEW f, NEW g,
           Flattens(f, s), Flattens(g, t), Len(s) <= Len(t),
           \A i \in 1 .. Len(s) : s[i] = t[i]
    PROVE  \A i \in 1 .. Len(s) : f[i] = g[i] /\ f[i] \in Seq(S)
<1> DEFINE T == {n \in Nat : \A i \in 1 .. Len(s) : i <= n => f[i] = g[i] /\ f[i] \in Seq(S)}
<1>1. 0 \in T
  OBVIOUS
<1>2. ASSUME NEW n \in Nat, n \in T PROVE n + 1 \in T
  <2> SUFFICES ASSUME n + 1 \in 1 .. Len(s)
               PROVE  f[n + 1] = g[n + 1] /\ f[n + 1] \in Seq(S)
    BY <1>2, SMTT(30)
  <2>1. /\ f[n + 1] = IF n + 1 = 1 THEN s[n + 1] ELSE f[n + 1 - 1] \o s[n + 1]
        /\ g[n + 1] = IF n + 1 = 1 THEN t[n + 1] ELSE g[n + 1 - 1] \o t[n + 1]
    <3> n + 1 \in 1 .. Len(t)
      OBVIOUS
    <3> QED BY FlattensValues
  <2>2. s[n + 1] = t[n + 1] /\ s[n + 1] \in Seq(S)
    OBVIOUS
  <2>3. CASE n = 0
    BY <2>1, <2>2, <2>3
  <2>4. CASE n # 0
    <3>1. f[n] = g[n] /\ f[n] \in Seq(S)
      BY <1>2, <2>4
    <3>2. n + 1 - 1 = n
      OBVIOUS
    <3> QED BY <2>1, <2>2, <2>4, <3>1, <3>2, ConcatProperties, SMTT(30)
  <2> QED BY <2>3, <2>4
<1> HIDE DEF T
<1>3. \A n \in Nat : n \in T
  BY <1>1, <1>2, SetInduction
<1>4. Len(s) \in T
  BY <1>3
<1> QED BY <1>4 DEF T

(* There is such a function, by induction on the length. *)
LEMMA FlattenExists ==
    ASSUME NEW S, NEW s \in Seq(Seq(S))
    PROVE  \E f : Flattens(f, s)
<1> DEFINE T == {n \in Nat : \A t \in Seq(Seq(S)) : Len(t) = n => \E f : Flattens(f, t)}
<1>1. 0 \in T
  <2> SUFFICES ASSUME NEW t \in Seq(Seq(S)), Len(t) = 0
               PROVE  \E f : Flattens(f, t)
    OBVIOUS
  <2>1. Flattens(<<>>, t)
    BY DEF Flattens
  <2> QED BY <2>1
<1>2. ASSUME NEW n \in Nat, n \in T PROVE n + 1 \in T
  <2> SUFFICES ASSUME NEW t \in Seq(Seq(S)), Len(t) = n + 1
               PROVE  \E f : Flattens(f, t)
    OBVIOUS
  <2> DEFINE u == [i \in 1 .. n |-> t[i]]
  <2>1. u \in Seq(Seq(S)) /\ Len(u) = n
    OBVIOUS
  <2>2. PICK f : Flattens(f, u)
    BY <1>2, <2>1
  <2> DEFINE g == [i \in 1 .. n + 1 |-> IF i = 1 THEN t[i]
                                       ELSE IF i = n + 1 THEN f[n] \o t[i] ELSE f[i]]
  <2>3. ASSUME NEW i \in 1 .. n + 1
        PROVE  g[i] = IF i = 1 THEN t[i] ELSE g[i - 1] \o t[i]
    <3>1. \A j \in 1 .. n : f[j] = IF j = 1 THEN t[j] ELSE f[j - 1] \o t[j]
      <4>1. \A j \in 1 .. Len(u) : f[j] = IF j = 1 THEN u[j] ELSE f[j - 1] \o u[j]
        <5> HIDE DEF u
        <5> QED BY <2>2, FlattensValues
      <4> QED BY <2>1, <4>1
    <3>2. \A j \in 1 .. n : g[j] = f[j]
      BY <3>1
    <3>3. CASE i = 1
      BY <3>3
    <3>4. CASE i # 1 /\ i = n + 1
      <4>1. i - 1 \in 1 .. n /\ i - 1 = n
        BY <3>4
      <4> QED BY <3>2, <3>4, <4>1
    <3>5. CASE i # 1 /\ i # n + 1
      <4>1. i - 1 \in 1 .. n /\ i \in 1 .. n
        BY <3>5
      <4> QED BY <3>1, <3>2, <3>5, <4>1
    <3> QED BY <3>3, <3>4, <3>5
  <2>4. g = [i \in 1 .. n + 1 |-> IF i = 1 THEN t[i] ELSE g[i - 1] \o t[i]]
    <3> HIDE DEF g
    <3>1. DOMAIN g = 1 .. n + 1 /\ g = [i \in DOMAIN g |-> g[i]]
      BY DEF g
    <3> QED BY <2>3, <3>1
  <2>5. Flattens(g, t)
    <3> HIDE DEF g
    <3> QED BY <2>4 DEF Flattens
  <2> QED BY <2>5
<1> HIDE DEF T
<1>3. \A n \in Nat : n \in T
  BY <1>1, <1>2, SetInduction
<1>4. Len(s) \in T
  BY <1>3
<1> QED BY <1>4 DEF T

(* Nothing is flattened to nothing. *)
LEMMA FlattenEmpty == FlattenSeq(<<>>) = <<>>
BY DEF FlattenSeq

(* A flattened sequence of sequences over S is a sequence over S. *)
LEMMA FlattenType ==
    ASSUME NEW S, NEW s \in Seq(Seq(S))
    PROVE  FlattenSeq(s) \in Seq(S)
<1>1. CASE Len(s) = 0
  <2>1. s = <<>>
    BY <1>1
  <2>2. <<>> \in Seq(S)
    OBVIOUS
  <2> QED BY <2>1, <2>2, FlattenEmpty, Zenon
<1>2. CASE Len(s) # 0
  <2>1. Flattens(CHOOSE f : Flattens(f, s), s)
    BY FlattenExists
  <2> HIDE DEF Flattens
  <2>2. (CHOOSE f : Flattens(f, s))[Len(s)] \in Seq(S)
    BY <1>2, <2>1, FlattenUnique, SMTT(30)
  <2> QED BY <1>2, <2>2, FlattenOf
<1> QED BY <1>1, <1>2

(* A flattened sequence is the last value of its function. *)
LEMMA FlattenByFunction ==
    ASSUME NEW S, NEW s \in Seq(Seq(S)), Len(s) # 0
    PROVE  \E f : Flattens(f, s) /\ FlattenSeq(s) = f[Len(s)]
<1>1. Flattens(CHOOSE f : Flattens(f, s), s)
  BY FlattenExists
<1> HIDE DEF Flattens
<1> QED BY <1>1, FlattenOf

(* One more sequence comes behind all the others. *)
LEMMA FlattenExtended ==
    ASSUME NEW S, NEW s \in Seq(Seq(S)), NEW t \in Seq(Seq(S)),
           Len(t) = Len(s) + 1, \A i \in 1 .. Len(s) : s[i] = t[i]
    PROVE  FlattenSeq(t) = FlattenSeq(s) \o t[Len(t)]
<1> DEFINE x == t[Len(t)]
<1>1. Len(s) \in Nat /\ Len(t) \in Nat
  OBVIOUS
<1>2. PICK g : Flattens(g, t) /\ FlattenSeq(t) = g[Len(t)]
  BY <1>1, FlattenByFunction
<1>3. Len(t) \in 1 .. Len(t) /\ x \in Seq(S)
  BY <1>1
<1>4. g[Len(t)] = IF Len(t) = 1 THEN t[Len(t)] ELSE g[Len(t) - 1] \o t[Len(t)]
  BY <1>2, <1>3, FlattensValues
<1>5. CASE Len(s) = 0
  <2>1. s = <<>> /\ Len(t) = 1
    BY <1>1, <1>5
  <2>2. <<>> \o x = x
    BY <1>3
  <2> QED BY <1>2, <1>4, <2>1, <2>2, FlattenEmpty
<1>6. CASE Len(s) # 0
  <2>2. PICK f : Flattens(f, s) /\ FlattenSeq(s) = f[Len(s)]
    BY <1>1, <1>6, FlattenByFunction
  <2>3. \A i \in 1 .. Len(s) : f[i] = g[i]
    <3>1. Len(s) <= Len(t)
      BY <1>1
    <3>2. Flattens(f, s) /\ Flattens(g, t)
      BY <1>2, <2>2
    <3> HIDE DEF Flattens
    <3>3. \A i \in 1 .. Len(s) : f[i] = g[i] /\ f[i] \in Seq(S)
      BY <3>1, <3>2, FlattenUnique
    <3> QED BY <3>3
  <2>4. Len(s) \in 1 .. Len(s) /\ Len(t) # 1 /\ Len(t) - 1 = Len(s)
    BY <1>1, <1>6
  <2> QED BY <1>2, <1>4, <2>2, <2>3, <2>4
<1> QED BY <1>1, <1>5, <1>6

(* The same for Append. *)
LEMMA FlattenAppend ==
    ASSUME NEW S, NEW s \in Seq(Seq(S)), NEW x \in Seq(S)
    PROVE  FlattenSeq(Append(s, x)) = FlattenSeq(s) \o x
<1> DEFINE t == Append(s, x)
<1>1. t \in Seq(Seq(S)) /\ Len(t) = Len(s) + 1 /\ t[Len(t)] = x
      /\ \A i \in 1 .. Len(s) : s[i] = t[i]
  OBVIOUS
<1> HIDE DEF t
<1>2. FlattenSeq(t) = FlattenSeq(s) \o t[Len(t)]
  BY <1>1, FlattenExtended
<1> QED BY <1>1, <1>2 DEF t

-----------------------------------------------------------------------------
(* The pieces of a flattened sequence. *)

(* The first k sequences of s, one behind the other.                       *)
Flat(s, k) == FlattenSeq(SubSeq(s, 1, k))

(* A prefix of a sequence. *)
LEMMA FirstPieces ==
    ASSUME NEW S, NEW s \in Seq(S), NEW k \in 0 .. Len(s)
    PROVE  /\ SubSeq(s, 1, k) \in Seq(S) /\ Len(SubSeq(s, 1, k)) = k
           /\ \A i \in 1 .. k : SubSeq(s, 1, k)[i] = s[i]
OBVIOUS

(* The first k sequences flattened, and the two ends: none of them, all of
   them. *)
LEMMA FlatType ==
    ASSUME NEW S, NEW s \in Seq(Seq(S)), NEW k \in 0 .. Len(s)
    PROVE  /\ Flat(s, k) \in Seq(S) /\ Len(Flat(s, k)) \in Nat
           /\ Flat(s, 0) = <<>> /\ Flat(s, Len(s)) = FlattenSeq(s)
<1>1. SubSeq(s, 1, k) \in Seq(Seq(S))
  BY FirstPieces
<1>2. Flat(s, k) \in Seq(S)
  BY <1>1, FlattenType DEF Flat
<1>3. SubSeq(s, 1, 0) = <<>> /\ SubSeq(s, 1, Len(s)) = s
  OBVIOUS
<1> QED BY <1>2, <1>3, FlattenEmpty, LenProperties DEF Flat

(* The next sequence is put behind the first k. *)
LEMMA FlatStep ==
    ASSUME NEW S, NEW s \in Seq(Seq(S)), NEW k \in 0 .. Len(s) - 1
    PROVE  /\ Flat(s, k + 1) = Flat(s, k) \o s[k + 1]
           /\ Len(Flat(s, k + 1)) = Len(Flat(s, k)) + Len(s[k + 1])
<1> DEFINE t == SubSeq(s, 1, k)
           u == SubSeq(s, 1, k + 1)
<1>1. /\ t \in Seq(Seq(S)) /\ u \in Seq(Seq(S)) /\ Len(t) = k /\ Len(u) = k + 1
      /\ \A i \in 1 .. k : t[i] = u[i]
      /\ u[k + 1] = s[k + 1] /\ s[k + 1] \in Seq(S)
  <2>1. k \in 0 .. Len(s) /\ k + 1 \in 0 .. Len(s) /\ k + 1 \in 1 .. k + 1 /\ k + 1 \in 1 .. Len(s)
    OBVIOUS
  <2>2. t \in Seq(Seq(S)) /\ Len(t) = k /\ \A i \in 1 .. k : t[i] = s[i]
    BY <2>1, FirstPieces
  <2>3. u \in Seq(Seq(S)) /\ Len(u) = k + 1 /\ \A i \in 1 .. k + 1 : u[i] = s[i]
    BY <2>1, FirstPieces
  <2>4. s[k + 1] \in Seq(S)
    BY <2>1
  <2> HIDE DEF t, u
  <2>5. \A i \in 1 .. k : i \in 1 .. k + 1
    BY <2>1
  <2>6. \A i \in 1 .. k : t[i] = u[i]
    BY <2>2, <2>3, <2>5
  <2>7. u[k + 1] = s[k + 1]
    BY <2>1, <2>3
  <2> QED BY <2>2, <2>3, <2>4, <2>6, <2>7, Zenon
<1> HIDE DEF t, u
<1>2. Len(u) = Len(t) + 1 /\ \A i \in 1 .. Len(t) : t[i] = u[i]
  BY <1>1
<1>3. FlattenSeq(u) = FlattenSeq(t) \o u[Len(u)]
  BY <1>1, <1>2, FlattenExtended
<1>4. FlattenSeq(t) \in Seq(S)
  BY <1>1, FlattenType
<1>5. Flat(s, k + 1) = Flat(s, k) \o s[k + 1] /\ Flat(s, k) \in Seq(S)
  BY <1>1, <1>3, <1>4 DEF Flat, t, u
<1>6. Len(Flat(s, k) \o s[k + 1]) = Len(Flat(s, k)) + Len(s[k + 1])
  BY <1>1, <1>5, ConcatProperties
<1> QED BY <1>5, <1>6

(* What comes later changes nothing before it. *)
LEMMA FlatPrefix ==
    ASSUME NEW S, NEW s \in Seq(Seq(S)), NEW k \in 0 .. Len(s), NEW m \in 0 .. Len(s), k <= m
    PROVE  /\ Len(Flat(s, k)) <= Len(Flat(s, m))
           /\ \A j \in 1 .. Len(Flat(s, k)) : Flat(s, m)[j] = Flat(s, k)[j]
<1> DEFINE Same(n) == /\ Len(Flat(s, k)) <= Len(Flat(s, n))
                      /\ \A j \in 1 .. Len(Flat(s, k)) : Flat(s, n)[j] = Flat(s, k)[j]
           T == {n \in Nat : k + n <= Len(s) => Same(k + n)}
<1>1. 0 \in T
  BY FlatType
<1>2. ASSUME NEW n \in Nat, n \in T PROVE n + 1 \in T
  <2> SUFFICES ASSUME k + (n + 1) <= Len(s) PROVE Same(k + (n + 1))
    OBVIOUS
  <2>1. k + n \in 0 .. Len(s) - 1 /\ k + (n + 1) = (k + n) + 1
    OBVIOUS
  <2>2. /\ Flat(s, (k + n) + 1) = Flat(s, k + n) \o s[(k + n) + 1]
        /\ Len(Flat(s, (k + n) + 1)) = Len(Flat(s, k + n)) + Len(s[(k + n) + 1])
    BY <2>1, FlatStep
  <2>3. Flat(s, k + n) \in Seq(S) /\ s[(k + n) + 1] \in Seq(S) /\ Flat(s, k) \in Seq(S)
    <3>1. k + n \in 0 .. Len(s) /\ (k + n) + 1 \in 1 .. Len(s)
      BY <2>1
    <3> QED BY <3>1, FlatType
  <2>4. Same(k + n)
    BY <1>2, <2>1
  <2> DEFINE a == Flat(s, k + n)
             b == Flat(s, (k + n) + 1)
             c == s[(k + n) + 1]
             d == Flat(s, k)
  <2>5. a \in Seq(S) /\ c \in Seq(S) /\ d \in Seq(S) /\ b = a \o c
        /\ Len(d) <= Len(a) /\ \A j \in 1 .. Len(d) : a[j] = d[j]
    BY <2>2, <2>3, <2>1, <2>4
  <2> HIDE DEF a, b, c, d
  <2>6. Len(d) <= Len(b) /\ \A j \in 1 .. Len(d) : b[j] = d[j]
    BY <2>5, SMTT(30)
  <2> QED BY <2>1, <2>6 DEF b, d
<1> HIDE DEF T
<1>3. \A n \in Nat : n \in T
  BY <1>1, <1>2, SetInduction
<1>4. m - k \in Nat /\ k + (m - k) = m
  OBVIOUS
<1>5. m - k \in T
  BY <1>3, <1>4
<1> QED BY <1>4, <1>5 DEF T

(* Where a piece is in all of them. *)
LEMMA FlatPiece ==
    ASSUME NEW S, NEW s \in Seq(Seq(S)), NEW k \in 0 .. Len(s) - 1
    PROVE  /\ Len(Flat(s, k)) + Len(s[k + 1]) <= Len(FlattenSeq(s))
           /\ \A j \in 1 .. Len(s[k + 1]) : FlattenSeq(s)[Len(Flat(s, k)) + j] = s[k + 1][j]
<1>1. /\ Flat(s, k + 1) = Flat(s, k) \o s[k + 1]
      /\ Len(Flat(s, k + 1)) = Len(Flat(s, k)) + Len(s[k + 1])
      /\ Flat(s, k) \in Seq(S) /\ s[k + 1] \in Seq(S)
  BY FlatStep, FlatType, SMTT(30)
<1>2. /\ Len(Flat(s, k + 1)) <= Len(FlattenSeq(s))
      /\ \A j \in 1 .. Len(Flat(s, k + 1)) : FlattenSeq(s)[j] = Flat(s, k + 1)[j]
  <2>1. k + 1 \in 0 .. Len(s) /\ Len(s) \in 0 .. Len(s) /\ Flat(s, Len(s)) = FlattenSeq(s)
    BY FlatType
  <2> QED BY <2>1, FlatPrefix, SMTT(30)
<1> QED BY <1>1, <1>2, SMTT(30)

(* Sequences of the same lengths fill the same room. *)
LEMMA FlatLengths ==
    ASSUME NEW S, NEW s \in Seq(Seq(S)), NEW t \in Seq(Seq(S)), Len(s) = Len(t),
           \A i \in 1 .. Len(s) : Len(s[i]) = Len(t[i])
    PROVE  Len(FlattenSeq(s)) = Len(FlattenSeq(t))
<1> DEFINE T == {n \in Nat : n <= Len(s) => Len(Flat(s, n)) = Len(Flat(t, n))}
<1>1. 0 \in T
  BY FlatType
<1>2. ASSUME NEW n \in Nat, n \in T PROVE n + 1 \in T
  <2> SUFFICES ASSUME n + 1 <= Len(s) PROVE Len(Flat(s, n + 1)) = Len(Flat(t, n + 1))
    OBVIOUS
  <2>1. n \in 0 .. Len(s) - 1 /\ n \in 0 .. Len(t) - 1 /\ n + 1 \in 1 .. Len(s)
    OBVIOUS
  <2>2. Len(Flat(s, n + 1)) = Len(Flat(s, n)) + Len(s[n + 1])
    BY <2>1, FlatStep
  <2>3. Len(Flat(t, n + 1)) = Len(Flat(t, n)) + Len(t[n + 1])
    BY <2>1, FlatStep
  <2>4. Len(Flat(s, n)) = Len(Flat(t, n)) /\ Len(s[n + 1]) = Len(t[n + 1])
    BY <1>2, <2>1
  <2> QED BY <2>2, <2>3, <2>4
<1> HIDE DEF T
<1>3. \A n \in Nat : n \in T
  BY <1>1, <1>2, SetInduction
<1>4. Len(s) \in Nat /\ Len(s) \in T
  BY <1>3
<1>5. Flat(s, Len(s)) = FlattenSeq(s) /\ Flat(t, Len(t)) = FlattenSeq(t)
  <2>1. Len(s) \in 0 .. Len(s) /\ Len(t) \in 0 .. Len(t)
    OBVIOUS
  <2> QED BY <2>1, FlatType
<1> QED BY <1>4, <1>5 DEF T

(* All of the flattened sequence has been seen only behind the last piece. *)
LEMMA FlatEnd ==
    ASSUME NEW S, NEW s \in Seq(Seq(S)), \A i \in 1 .. Len(s) : Len(s[i]) > 0,
           NEW k \in 0 .. Len(s), Len(Flat(s, k)) >= Len(FlattenSeq(s))
    PROVE  k = Len(s)
<1> SUFFICES ASSUME k # Len(s) PROVE FALSE
  OBVIOUS
<1>1. k \in 0 .. Len(s) - 1 /\ k + 1 \in 1 .. Len(s)
  OBVIOUS
<1>2. Len(Flat(s, k)) + Len(s[k + 1]) <= Len(FlattenSeq(s))
  BY <1>1, FlatPiece
<1>3. Len(Flat(s, k)) \in Nat /\ Len(FlattenSeq(s)) \in Nat /\ Len(s[k + 1]) \in Nat /\ Len(s[k + 1]) > 0
  BY <1>1, FlatType, FlattenType, LenProperties
<1> QED BY <1>2, <1>3

-----------------------------------------------------------------------------
(* Hiding a password. *)

(* The hypothesis of most of what follows: MD5 returns 16 bytes. Digest is a
   constant operator, and no model checker can evaluate this for all
   sequences of bytes, so the theorems carry it as a hypothesis. *)
DigestTyped == \A bytes \in Seq(Byte) : Digest(bytes) \in [1 .. 16 -> Byte]

(* An authenticator is a sequence of 16 bytes. *)
LEMMA AuthenticatorType ==
    ASSUME NEW auth \in [1 .. 16 -> Byte]
    PROVE  auth \in Seq(Byte) /\ Len(auth) = 16
<1>1. auth = [i \in 1 .. 16 |-> auth[i]] /\ \A i \in 1 .. 16 : auth[i] \in Byte
  OBVIOUS
<1>2. [i \in 1 .. 16 |-> auth[i]] \in Seq(Byte) /\ Len([i \in 1 .. 16 |-> auth[i]]) = 16
  BY <1>1
<1> QED BY <1>1, <1>2, Zenon

(* n zeros are n bytes that are zero. *)
LEMMA ZerosType ==
    ASSUME NEW n \in Nat
    PROVE  Zeros(n) \in Seq(Byte) /\ Len(Zeros(n)) = n /\ \A i \in 1 .. n : Zeros(n)[i] = 0
<1>1. DOMAIN Zeros(n) = 1 .. n /\ \A i \in 1 .. n : Zeros(n)[i] = 0
  BY DEF Zeros
<1>2. 0 \in Byte
  BY DEF Byte
<1>3. Zeros(n) \in Seq(Byte)
  BY <1>2 DEF Zeros
<1> QED BY <1>1, <1>3

(* Block i of 16 bytes. *)
LEMMA BlockType ==
    ASSUME NEW bytes \in Seq(Byte), NEW i \in Nat, i > 0, 16 * i <= Len(bytes)
    PROVE  /\ Block(bytes, i) \in Seq(Byte) /\ Len(Block(bytes, i)) = 16
           /\ \A j \in 1 .. 16 : Block(bytes, i)[j] = bytes[16 * (i - 1) + j]
<1>1. 16 * (i - 1) + 1 \in 1 .. Len(bytes) /\ 16 * i \in 1 .. Len(bytes)
      /\ 16 * i - (16 * (i - 1) + 1) + 1 = 16
      /\ \A j \in 1 .. 16 : (16 * (i - 1) + 1) + j - 1 = 16 * (i - 1) + j
  BY LenProperties
<1>2. SubSeq(bytes, 16 * (i - 1) + 1, 16 * i) \in Seq(Byte)
  BY <1>1
<1>3. Len(SubSeq(bytes, 16 * (i - 1) + 1, 16 * i)) = 16
  BY <1>1
<1>4. \A j \in 1 .. 16 : SubSeq(bytes, 16 * (i - 1) + 1, 16 * i)[j] = bytes[16 * (i - 1) + j]
  BY <1>1
<1> QED BY <1>2, <1>3, <1>4 DEF Block

(* The mask of a block is 16 bytes: it is a digest. *)
LEMMA MaskType ==
    ASSUME DigestTyped, NEW bytes \in Seq(Byte), NEW auth \in [1 .. 16 -> Byte],
           NEW i \in Nat, i > 0, 16 * (i - 1) <= Len(bytes)
    PROVE  Mask(bytes, auth, i) \in [1 .. 16 -> Byte]
<1>1. KeyBlock(bytes, auth, i) \in Seq(Byte)
  <2>1. CASE i = 1
    BY <2>1, AuthenticatorType DEF KeyBlock
  <2>2. CASE i # 1
    <3>1. i - 1 \in Nat /\ i - 1 > 0
      BY <2>2
    <3> QED BY <2>2, <3>1, BlockType DEF KeyBlock
  <2> QED BY <2>1, <2>2
<1>2. Secret \o KeyBlock(bytes, auth, i) \in Seq(Byte)
  BY <1>1, AttributesAssumption, ConcatProperties
<1> QED BY <1>2 DEF Mask, DigestTyped

(* The recursive function of Encryption: what has been written before block i. *)
Writes(f, text, auth) ==
    f = [i \in 0 .. (Len(text) \div 16) |->
            IF i = 0 THEN <<0>>
            ELSE f[i - 1] \o [j \in 1 .. 16 |->
                                 BitXor(Block(text, i)[j], Mask(f[i - 1], auth, i)[j])]]

(* A password filled up with zeros to whole blocks. *)
Padded(password) == password \o Zeros((16 - (Len(password) % 16)) % 16)

(* Encryption is the last value of such a function, without the first byte. *)
LEMMA EncryptionOf ==
    ASSUME NEW password, NEW auth
    PROVE  Encryption(password, auth)
             = SubSeq((CHOOSE f : Writes(f, Padded(password), auth))[Len(Padded(password)) \div 16],
                      1, Len(Padded(password)))
BY DEF Encryption, Writes, Padded

(* The padded password has as many bytes as its blocks. *)
LEMMA PaddedType ==
    ASSUME NEW password \in Seq(Byte)
    PROVE  /\ Padded(password) \in Seq(Byte)
           /\ Len(Padded(password)) = 16 * ((Len(password) + 15) \div 16)
           /\ Len(Padded(password)) \div 16 = (Len(password) + 15) \div 16
<1> DEFINE n == Len(password)
           m == (16 - (n % 16)) % 16
<1>1. n \in Nat /\ m \in Nat /\ n + m = 16 * ((n + 15) \div 16)
      /\ (n + m) \div 16 = (n + 15) \div 16
  <2>1. n \in Nat
    BY LenProperties
  <2> HIDE DEF n
  <2> QED BY <2>1
<1> HIDE DEF m
<1>2. Zeros(m) \in Seq(Byte) /\ Len(Zeros(m)) = m
  BY <1>1, ZerosType
<1>3. password \o Zeros(m) \in Seq(Byte) /\ Len(password \o Zeros(m)) = n + m
  BY <1>2, ConcatProperties
<1> QED BY <1>1, <1>3 DEF Padded, m

(* There is such a function, by induction on the number of blocks. *)
LEMMA WritesExists ==
    ASSUME NEW text, NEW auth, Len(text) \in Nat
    PROVE  \E f : Writes(f, text, auth)
<1> DEFINE Def(h, i) == h \o [j \in 1 .. 16 |-> BitXor(Block(text, i)[j], Mask(h, auth, i)[j])]
           Ok(f, n) == /\ f = [i \in 0 .. n |-> f[i]]
                       /\ \A i \in 0 .. n : f[i] = IF i = 0 THEN <<0>> ELSE Def(f[i - 1], i)
           T == {n \in Nat : \E f : Ok(f, n)}
<1> HIDE DEF Def
<1>1. 0 \in T
  <2>1. Ok([i \in 0 .. 0 |-> <<0>>], 0)
    OBVIOUS
  <2> QED BY <2>1
<1>2. ASSUME NEW n \in Nat, n \in T PROVE n + 1 \in T
  <2>1. PICK f : Ok(f, n)
    BY <1>2
  <2> DEFINE g == [i \in 0 .. n + 1 |-> IF i = n + 1 THEN Def(f[n], n + 1) ELSE f[i]]
  <2>2. \A i \in 0 .. n : g[i] = f[i]
    OBVIOUS
  <2>3. ASSUME NEW i \in 0 .. n + 1 PROVE g[i] = IF i = 0 THEN <<0>> ELSE Def(g[i - 1], i)
    <3>1. CASE i = n + 1
      <4>1. i - 1 = n /\ n \in 0 .. n /\ i # 0
        BY <3>1
      <4> QED BY <2>2, <3>1, <4>1
    <3>2. CASE i # n + 1
      <4>1. i \in 0 .. n /\ (i # 0 => i - 1 \in 0 .. n)
        BY <3>2
      <4>2. f[i] = IF i = 0 THEN <<0>> ELSE Def(f[i - 1], i)
        BY <2>1, <4>1
      <4>3. g[i] = f[i] /\ (i # 0 => g[i - 1] = f[i - 1])
        BY <2>2, <4>1
      <4> HIDE DEF g
      <4> QED BY <4>2, <4>3
    <3> QED BY <3>1, <3>2
  <2>4. g = [i \in 0 .. n + 1 |-> g[i]]
    OBVIOUS
  <2>5. Ok(g, n + 1)
    <3> HIDE DEF g
    <3> QED BY <2>3, <2>4
  <2>6. \E h : Ok(h, n + 1)
    <3> HIDE DEF Ok, g
    <3> QED BY <2>5
  <2> HIDE DEF Ok
  <2> QED BY <2>6
<1> HIDE DEF T
<1>3. \A n \in Nat : n \in T
  BY <1>1, <1>2, SetInduction
<1> DEFINE n == Len(text) \div 16
<1>4. n \in Nat
  OBVIOUS
<1> HIDE DEF n
<1>5. PICK f : Ok(f, n)
  <2>1. n \in T
    BY <1>3, <1>4
  <2> QED BY <2>1 DEF T
<1>6. f = [i \in 0 .. n |-> IF i = 0 THEN <<0>> ELSE Def(f[i - 1], i)]
  BY <1>5
<1> QED BY <1>6 DEF Writes, Def, n

(* Each block adds 16 bytes to what has been written. *)
LEMMA WritesType ==
    ASSUME DigestTyped, NEW text \in Seq(Byte), NEW auth \in [1 .. 16 -> Byte], NEW f,
           Writes(f, text, auth)
    PROVE  \A i \in 0 .. Len(text) \div 16 : f[i] \in Seq(Byte) /\ Len(f[i]) = 1 + 16 * i
<1> DEFINE n == Len(text) \div 16
           T == {i \in Nat : i <= n => f[i] \in Seq(Byte) /\ Len(f[i]) = 1 + 16 * i}
           Out(h, i) == [j \in 1 .. 16 |-> BitXor(Block(text, i)[j], Mask(h, auth, i)[j])]
           Def(i) == IF i = 0 THEN <<0>> ELSE f[i - 1] \o Out(f[i - 1], i)
<1>1. n \in Nat /\ 16 * n <= Len(text) /\ Len(text) \in Nat
  <2>1. Len(text) \in Nat
    BY LenProperties
  <2>2. \A l \in Nat : l \div 16 \in Nat /\ 16 * (l \div 16) <= l
    OBVIOUS
  <2> QED BY <2>1, <2>2
<1>2. f = [i \in 0 .. n |-> Def(i)]
  BY Zenon DEF Writes
<1> HIDE DEF n, Out
<1>3. f[0] = <<0>> /\ \A i \in 1 .. n : f[i] = f[i - 1] \o Out(f[i - 1], i)
  <2> HIDE DEF Def
  <2>1. \A i \in 0 .. n : f[i] = Def(i)
    BY <1>2
  <2>2. 0 \in 0 .. n /\ \A i \in 1 .. n : i \in 0 .. n /\ i # 0
    BY <1>1
  <2> QED BY <2>1, <2>2 DEF Def
<1>4. 0 \in T
  <2>1. <<0>> \in Seq(Byte) /\ Len(<<0>>) = 1
    BY DEF Byte
  <2>2. f[0] \in Seq(Byte) /\ Len(f[0]) = 1
    BY <1>3, <2>1, Zenon
  <2> QED BY <2>2
<1>5. ASSUME NEW i \in Nat, i \in T PROVE i + 1 \in T
  <2> SUFFICES ASSUME NEW k, k = i + 1, k <= n
               PROVE  f[k] \in Seq(Byte) /\ Len(f[k]) = 1 + 16 * k
    OBVIOUS
  <2>1. k \in 1 .. n /\ k - 1 = i /\ k \in Nat /\ k > 0 /\ 1 + 16 * k = (1 + 16 * i) + 16
    BY <1>1
  <2>2. f[i] \in Seq(Byte) /\ Len(f[i]) = 1 + 16 * i
    BY <1>1, <1>5
  <2>3. f[k] = f[i] \o Out(f[i], k)
    BY <1>3, <2>1, Zenon
  <2>4. Mask(f[i], auth, k) \in [1 .. 16 -> Byte]
    <3>1. 16 * (k - 1) <= Len(f[i])
      BY <2>1, <2>2
    <3> QED BY <2>1, <2>2, <3>1, MaskType
  <2>5. Block(text, k) \in Seq(Byte) /\ Len(Block(text, k)) = 16
    <3>1. 16 * k <= Len(text)
      BY <1>1, <2>1
    <3> QED BY <2>1, <3>1, BlockType
  <2>6. \A j \in 1 .. 16 : BitXor(Block(text, k)[j], Mask(f[i], auth, k)[j]) \in Byte
    <3>1. \A j \in 1 .. 16 : Block(text, k)[j] \in Byte
      BY <2>5, ElementOfSeq
    <3>2. \A j \in 1 .. 16 : Mask(f[i], auth, k)[j] \in Byte
      BY <2>4
    <3> QED BY <3>1, <3>2, AttributesAssumption
  <2>7. Out(f[i], k) \in Seq(Byte) /\ Len(Out(f[i], k)) = 16
    BY <2>6 DEF Out
  <2>8. /\ f[i] \o Out(f[i], k) \in Seq(Byte)
        /\ Len(f[i] \o Out(f[i], k)) = Len(f[i]) + Len(Out(f[i], k))
    BY <2>2, <2>7, ConcatProperties
  <2> QED BY <2>1, <2>2, <2>3, <2>7, <2>8
<1> HIDE DEF T
<1>6. \A i \in Nat : i \in T
  BY <1>4, <1>5, SetInduction
<1> QED BY <1>1, <1>6 DEF T, n

(* A hidden password is as long as its padded text. *)
LEMMA EncryptionType ==
    ASSUME DigestTyped, NEW password \in Seq(Byte), NEW auth \in [1 .. 16 -> Byte]
    PROVE  /\ Encryption(password, auth) \in Seq(Byte)
           /\ Len(Encryption(password, auth)) = 16 * ((Len(password) + 15) \div 16)
<1> DEFINE text == Padded(password)
           n == Len(text) \div 16
           f == CHOOSE f : Writes(f, text, auth)
<1>1. /\ text \in Seq(Byte) /\ Len(text) = 16 * ((Len(password) + 15) \div 16)
      /\ n = (Len(password) + 15) \div 16
  BY PaddedType
<1>2. n \in Nat /\ Len(text) \in Nat /\ Len(text) = 16 * n
  <2>1. Len(password) \in Nat
    BY LenProperties
  <2> QED BY <1>1, <2>1
<1> HIDE DEF text
<1>3. Writes(f, text, auth)
  BY <1>2, WritesExists
<1> HIDE DEF f
<1>4. f[n] \in Seq(Byte) /\ Len(f[n]) = 1 + 16 * n
  <2>1. n \in 0 .. Len(text) \div 16
    BY <1>2
  <2> HIDE DEF n
  <2> QED BY <1>1, <1>3, <2>1, WritesType, ZenonT(40)
<1>5. Encryption(password, auth) = SubSeq(f[n], 1, Len(text))
  BY EncryptionOf DEF f, text
<1> HIDE DEF n
<1>6. SubSeq(f[n], 1, Len(text)) \in Seq(Byte) /\ Len(SubSeq(f[n], 1, Len(text))) = Len(text)
  <2>1. Len(text) \in 0 .. Len(f[n])
    BY <1>2, <1>4
  <2> QED BY <1>4, <2>1, FirstPieces, ZenonT(40)
<1> QED BY <1>1, <1>5, <1>6

-----------------------------------------------------------------------------
(* Unhiding it. *)

(* A set of numbers that is not empty has a least one. *)
LEMMA LeastNumber ==
    ASSUME NEW I \in SUBSET Nat, I # {}
    PROVE  Min(I) \in I /\ \A j \in I : Min(I) <= j
<1>1. PICK x \in I : \A y \in I : ~ (<<y, x>> \in OpToRel(<, Nat))
  BY NatLessThanWellFounded, WFMin, Zenon
<1>2. x \in Nat /\ \A y \in I : y \in Nat /\ ~(y < x)
  BY <1>1 DEF OpToRel
<1>3. \E z \in I : \A y \in I : z <= y
  BY <1>2
<1>4. Min(I) \in I /\ \A y \in I : Min(I) =< y
  BY <1>3 DEF Min
<1> QED BY <1>4

(* Where the first zero of some bytes is, or that there is none. *)
LEMMA FirstZero ==
    ASSUME NEW s \in Seq(Byte), NEW d, d = SelectInSeq(s, LAMBDA b : b = 0)
    PROVE  /\ d \in 0 .. Len(s)
           /\ d = 0 => \A i \in 1 .. Len(s) : s[i] # 0
           /\ d # 0 => s[d] = 0 /\ \A i \in 1 .. d - 1 : s[i] # 0
<1> DEFINE I == {i \in 1 .. Len(s) : s[i] = 0}
<1>1. d = IF I # {} THEN Min(I) ELSE 0
  BY DEF SelectInSeq
<1>2. Len(s) \in Nat /\ I \in SUBSET Nat
  BY LenProperties
<1>3. CASE I = {}
  BY <1>1, <1>2, <1>3
<1>4. CASE I # {}
  <2> DEFINE m == Min(I)
  <2>1. m \in I /\ \A j \in I : m <= j
    <3> HIDE DEF I
    <3> QED BY <1>2, <1>4, LeastNumber
  <2>2. d = m
    BY <1>1, <1>4
  <2> HIDE DEF m
  <2> QED BY <1>2, <2>1, <2>2
<1> QED BY <1>3, <1>4

(* Where the first byte that is not zero is, or that there is none. *)
LEMMA FirstDigit ==
    ASSUME NEW s \in Seq(Byte), NEW d, d = SelectInSeq(s, LAMBDA b : b # 0)
    PROVE  /\ d \in 0 .. Len(s)
           /\ d = 0 => \A i \in 1 .. Len(s) : s[i] = 0
           /\ d # 0 => s[d] # 0 /\ \A i \in 1 .. d - 1 : s[i] = 0
<1> DEFINE I == {i \in 1 .. Len(s) : s[i] # 0}
<1>1. d = IF I # {} THEN Min(I) ELSE 0
  BY DEF SelectInSeq
<1>2. Len(s) \in Nat /\ I \in SUBSET Nat
  BY LenProperties
<1>3. CASE I = {}
  BY <1>1, <1>2, <1>3
<1>4. CASE I # {}
  <2> DEFINE m == Min(I)
  <2>1. m \in I /\ \A j \in I : m <= j
    <3> HIDE DEF I
    <3> QED BY <1>2, <1>4, LeastNumber
  <2>2. d = m
    BY <1>1, <1>4
  <2> HIDE DEF m
  <2> QED BY <1>2, <2>1, <2>2
<1> QED BY <1>3, <1>4

(* What Decryption cuts off behind the first zero. *)
Masked(data, auth) ==
    [k \in 1 .. Len(data) |->
        IF k > 16 * (Len(data) \div 16) THEN 0
        ELSE BitXor(data[k], [i \in 1 .. Len(data) \div 16 |-> Mask(data, auth, i)]
                                 [((k - 1) \div 16) + 1][((k - 1) % 16) + 1])]

(* Decryption is cut off at the first zero. *)
LEMMA DecryptionOf ==
    ASSUME NEW data, NEW auth
    PROVE  LET nul == SelectInSeq(Masked(data, auth), LAMBDA b : b = 0)
           IN  Decryption(data, auth)
                 = IF nul = 0 THEN Masked(data, auth) ELSE SubSeq(Masked(data, auth), 1, nul - 1)
BY DEF Decryption, Masked

(* The bytes of whole blocks are data bytes with the mask of their block. *)
LEMMA MaskedValue ==
    ASSUME NEW data \in Seq(Byte), NEW auth, NEW k \in 1 .. 16 * (Len(data) \div 16)
    PROVE  Masked(data, auth)[k]
             = BitXor(data[k], Mask(data, auth, ((k - 1) \div 16) + 1)[((k - 1) % 16) + 1])
<1> DEFINE n == Len(data) \div 16
           i == ((k - 1) \div 16) + 1
           e == ((k - 1) % 16) + 1
           mask == [x \in 1 .. n |-> Mask(data, auth, x)]
<1>1. k \in 1 .. Len(data) /\ ~(k > 16 * n) /\ i \in 1 .. n
  <2>1. Len(data) \in Nat
    BY LenProperties
  <2> QED BY <2>1
<1>2. Masked(data, auth)[k] = IF k > 16 * n THEN 0 ELSE BitXor(data[k], mask[i][e])
  BY <1>1 DEF Masked
<1> HIDE DEF n, i, e
<1>3. mask[i] = Mask(data, auth, i)
  BY <1>1
<1> HIDE DEF mask
<1>4. Masked(data, auth)[k] = BitXor(data[k], Mask(data, auth, i)[e])
  BY <1>1, <1>2, <1>3
<1> QED BY <1>4 DEF i, e

(* Unhiding leaves the length as it is. *)
LEMMA MaskedType ==
    ASSUME DigestTyped, NEW data \in Seq(Byte), NEW auth \in [1 .. 16 -> Byte]
    PROVE  Masked(data, auth) \in Seq(Byte) /\ Len(Masked(data, auth)) = Len(data)
<1>1. DOMAIN Masked(data, auth) = 1 .. Len(data)
      /\ Masked(data, auth) = [k \in 1 .. Len(data) |-> Masked(data, auth)[k]]
  BY DEF Masked
<1>2. Len(data) \in Nat
  BY LenProperties
<1>3. ASSUME NEW k \in 1 .. Len(data) PROVE Masked(data, auth)[k] \in Byte
  <2>1. CASE k > 16 * (Len(data) \div 16)
    <3>1. Masked(data, auth)[k] = 0
      BY <2>1 DEF Masked
    <3> QED BY <3>1 DEF Byte
  <2>2. CASE ~(k > 16 * (Len(data) \div 16))
    <3> DEFINE i == ((k - 1) \div 16) + 1
               e == ((k - 1) % 16) + 1
    <3>1. k \in 1 .. 16 * (Len(data) \div 16)
      BY <1>2, <2>2
    <3>2. i \in Nat /\ i > 0 /\ 16 * (i - 1) <= Len(data) /\ e \in 1 .. 16
      BY <1>2
    <3>3. Masked(data, auth)[k] = BitXor(data[k], Mask(data, auth, i)[e])
      BY <3>1, MaskedValue
    <3> HIDE DEF i, e
    <3>4. Mask(data, auth, i) \in [1 .. 16 -> Byte]
      BY <3>2, MaskType
    <3>5. data[k] \in Byte /\ Mask(data, auth, i)[e] \in Byte
      BY <3>2, <3>4, ElementOfSeq
    <3> QED BY <3>3, <3>5, AttributesAssumption
  <2> QED BY <2>1, <2>2
<1> DEFINE m == Masked(data, auth)
<1>4. m = [k \in 1 .. Len(data) |-> m[k]] /\ \A k \in 1 .. Len(data) : m[k] \in Byte
  BY <1>1, <1>3
<1> HIDE DEF m
<1>5. /\ [k \in 1 .. Len(data) |-> m[k]] \in Seq(Byte)
      /\ Len([k \in 1 .. Len(data) |-> m[k]]) = Len(data)
  BY <1>2, <1>4
<1>6. m \in Seq(Byte) /\ Len(m) = Len(data)
  BY <1>4, <1>5, Zenon
<1> QED BY <1>6 DEF m

(* An unhidden password is a sequence of bytes. *)
LEMMA DecryptionType ==
    ASSUME DigestTyped, NEW data \in Seq(Byte), NEW auth \in [1 .. 16 -> Byte]
    PROVE  Decryption(data, auth) \in Seq(Byte)
<1> DEFINE m == Masked(data, auth)
           nul == SelectInSeq(m, LAMBDA b : b = 0)
<1>1. m \in Seq(Byte)
  BY MaskedType
<1>2. Decryption(data, auth) = IF nul = 0 THEN m ELSE SubSeq(m, 1, nul - 1)
  BY DecryptionOf
<1> HIDE DEF m
<1>3. nul \in 0 .. Len(m)
  BY <1>1, FirstZero
<1> HIDE DEF nul
<1>4. nul # 0 => SubSeq(m, 1, nul - 1) \in Seq(Byte)
  <2>1. nul # 0 => nul - 1 \in 0 .. Len(m)
    <3>1. \A l \in Nat : \A i \in 0 .. l : i # 0 => i - 1 \in 0 .. l
      OBVIOUS
    <3> QED BY <1>1, <1>3, <3>1, LenProperties
  <2> QED BY <1>1, <2>1, FirstPieces
<1> QED BY <1>1, <1>2, <1>4

(* A password hidden as RFC 2865 says is the one that is found. *)
LEMMA DecryptionOfHides ==
    ASSUME DigestTyped, NEW data \in Seq(Byte), NEW auth \in [1 .. 16 -> Byte],
           NEW password \in Seq(Byte), Hides(data, password, auth)
    PROVE  Decryption(data, auth) = password
<1> DEFINE padded == password \o Zeros(Len(data) - Len(password))
           before(i) == IF i = 0 THEN auth ELSE SubSeq(data, 16 * i - 15, 16 * i)
           m == Masked(data, auth)
           nul == SelectInSeq(m, LAMBDA b : b = 0)
<1>1. /\ Len(data) % 16 = 0 /\ Len(password) <= Len(data)
      /\ \A k \in DOMAIN password : password[k] # 0
      /\ \A k \in DOMAIN data :
            data[k] = BitXor(padded[k], Digest(Secret \o before((k - 1) \div 16))[((k - 1) % 16) + 1])
  BY DEF Hides
<1>2. /\ Len(data) \in Nat /\ DOMAIN data = 1 .. Len(data) /\ 16 * (Len(data) \div 16) = Len(data)
      /\ Len(password) \in Nat /\ DOMAIN password = 1 .. Len(password)
  <2>1. /\ Len(data) \in Nat /\ DOMAIN data = 1 .. Len(data)
        /\ Len(password) \in Nat /\ DOMAIN password = 1 .. Len(password)
    BY LenProperties
  <2>2. ASSUME NEW n \in Nat, n % 16 = 0 PROVE 16 * (n \div 16) = n
    BY <2>2, SMTT(30)
  <2>3. 16 * (Len(data) \div 16) = Len(data)
    BY <1>1, <2>1, <2>2, Zenon
  <2> QED BY <2>1, <2>3, Zenon
<1>3. /\ padded \in Seq(Byte) /\ Len(padded) = Len(data)
      /\ \A k \in 1 .. Len(password) : padded[k] = password[k]
      /\ \A k \in Len(password) + 1 .. Len(data) : padded[k] = 0
  <2> DEFINE r == Len(data) - Len(password)
  <2>1. r \in Nat /\ Len(password) + r = Len(data)
    BY <1>1, <1>2
  <2> HIDE DEF r
  <2>2. Zeros(r) \in Seq(Byte) /\ Len(Zeros(r)) = r /\ \A i \in 1 .. r : Zeros(r)[i] = 0
    BY <2>1, ZerosType
  <2> DEFINE p == password \o Zeros(r)
  <2>3. /\ p \in Seq(Byte) /\ Len(p) = Len(password) + r
        /\ \A i \in 1 .. Len(password) + r :
              p[i] = IF i <= Len(password) THEN password[i] ELSE Zeros(r)[i - Len(password)]
    BY <2>2, ConcatProperties, ZenonT(40)
  <2> HIDE DEF p
  <2>4. ASSUME NEW k \in 1 .. Len(password) PROVE p[k] = password[k]
    <3>1. k \in 1 .. Len(password) + r /\ k <= Len(password)
      BY <1>2, <2>1
    <3> QED BY <2>3, <3>1
  <2>5. ASSUME NEW k \in Len(password) + 1 .. Len(data) PROVE p[k] = 0
    <3>1. k \in 1 .. Len(password) + r /\ ~(k <= Len(password)) /\ k - Len(password) \in 1 .. r
      BY <1>2, <2>1, SMTT(30)
    <3> QED BY <2>2, <2>3, <3>1
  <2> QED BY <2>1, <2>3, <2>4, <2>5, Zenon DEF p, r
<1> HIDE DEF padded
<1>4. m \in Seq(Byte) /\ Len(m) = Len(data)
  BY MaskedType
<1>5. ASSUME NEW k \in 1 .. Len(data) PROVE m[k] = padded[k]
  <2> DEFINE j == (k - 1) \div 16
             e == ((k - 1) % 16) + 1
             key == Digest(Secret \o before(j))
  <2>1. j \in Nat /\ e \in 1 .. 16 /\ 16 * j + 16 <= Len(data)
    <3>1. \A l \in Nat : 16 * (l \div 16) = l =>
             \A x \in 1 .. l : /\ (x - 1) \div 16 \in Nat
                              /\ ((x - 1) % 16) + 1 \in 1 .. 16
                              /\ 16 * ((x - 1) \div 16) + 16 <= l
      BY SMTT(30)
    <3> QED BY <1>2, <3>1
  <2>2. data[k] = BitXor(padded[k], key[e])
    BY <1>1, <1>2
  <2> DEFINE q == j + 1
  <2>3. m[k] = BitXor(data[k], Mask(data, auth, q)[e])
    BY <1>2, MaskedValue, ZenonT(40)
  <2> HIDE DEF j, e
  <2>a. q \in Nat /\ q > 0 /\ q - 1 = j /\ 16 * (q - 1) <= Len(data)
    BY <2>1, SMTT(30)
  <2> HIDE DEF q
  <2>4. Mask(data, auth, q) = key
    <3>1. before(j) = KeyBlock(data, auth, q)
      <4>1. CASE j = 0
        BY <2>1, <2>a, <4>1 DEF KeyBlock
      <4>2. CASE j # 0
        <5>1. q # 1 /\ 16 * j - 15 = 16 * ((q - 1) - 1) + 1 /\ 16 * j = 16 * (q - 1)
          BY <2>1, <2>a, <4>2
        <5>2. KeyBlock(data, auth, q) = SubSeq(data, 16 * ((q - 1) - 1) + 1, 16 * (q - 1))
          BY <5>1 DEF KeyBlock, Block
        <5>3. before(j) = SubSeq(data, 16 * j - 15, 16 * j)
          BY <4>2
        <5> QED BY <5>1, <5>2, <5>3, Zenon
      <4> QED BY <4>1, <4>2
    <3> HIDE DEF before
    <3> QED BY <3>1 DEF Mask
  <2>5. key \in [1 .. 16 -> Byte]
    <3>1. Mask(data, auth, q) \in [1 .. 16 -> Byte]
      BY <2>a, MaskType
    <3> HIDE DEF key
    <3> QED BY <2>4, <3>1
  <2> HIDE DEF key
  <2>6. key[e] \in Byte /\ padded[k] \in Byte
    BY <1>3, <2>1, <2>5, ElementOfSeq
  <2>7. m[k] = BitXor(BitXor(padded[k], key[e]), key[e])
    BY <2>2, <2>3, <2>4
  <2> QED BY <2>6, <2>7, AttributesAssumption
<1>6. Decryption(data, auth) = IF nul = 0 THEN m ELSE SubSeq(m, 1, nul - 1)
  BY DecryptionOf
<1> HIDE DEF m
<1>7. m = padded
  BY <1>3, <1>4, <1>5, SeqEqual
<1>8. /\ nul \in 0 .. Len(m)
      /\ nul = 0 => \A i \in 1 .. Len(m) : m[i] # 0
      /\ nul # 0 => m[nul] = 0 /\ \A i \in 1 .. nul - 1 : m[i] # 0
  BY <1>4, FirstZero
<1> HIDE DEF nul
<1>11. ASSUME NEW i \in 1 .. Len(password) PROVE m[i] # 0 /\ m[i] = password[i]
  <2>1. i \in 1 .. Len(data)
    BY <1>1, <1>2, SMTT(30)
  <2>2. password[i] # 0
    BY <1>1, <1>2
  <2> QED BY <1>3, <1>5, <2>1, <2>2
<1>9. CASE Len(password) = Len(data)
  <2>1. nul = 0
    <3>1. \A i \in 1 .. Len(m) : m[i] # 0
      BY <1>4, <1>9, <1>11
    <3> SUFFICES ASSUME nul # 0 PROVE FALSE
      OBVIOUS
    <3>2. nul \in 1 .. Len(m)
      BY <1>2, <1>4, <1>8
    <3> QED BY <1>8, <3>1, <3>2
  <2>2. padded = password
    BY <1>3, <1>9, SeqEqual
  <2> QED BY <1>6, <1>7, <2>1, <2>2
<1>10. CASE Len(password) # Len(data)
  <2>1. Len(password) + 1 \in 1 .. Len(data) /\ m[Len(password) + 1] = 0
    <3>1. /\ Len(password) + 1 \in 1 .. Len(data)
          /\ Len(password) + 1 \in Len(password) + 1 .. Len(data)
      <4>1. \A n, l \in Nat : n <= l /\ n # l => n + 1 \in 1 .. l /\ n + 1 \in n + 1 .. l
        OBVIOUS
      <4> QED BY <1>1, <1>2, <1>10, <4>1, Zenon
    <3>2. padded[Len(password) + 1] = 0
      BY <1>3, <3>1
    <3> QED BY <1>5, <3>1, <3>2, SMTT(30)
  <2>3. nul = Len(password) + 1
    <3>1. nul # 0
      BY <1>4, <1>8, <2>1
    <3>2. nul \in 1 .. Len(m) /\ ~(nul \in 1 .. Len(password))
      BY <1>2, <1>4, <1>8, <1>11, <3>1, SMTT(30)
    <3>3. ~(Len(password) + 1 \in 1 .. nul - 1)
      BY <1>8, <2>1, <3>1
    <3> QED BY <1>2, <1>4, <3>2, <3>3, SMTT(30)
  <2>4. nul - 1 = Len(password) /\ nul # 0 /\ Len(password) \in 0 .. Len(m)
    BY <1>1, <1>2, <1>4, <2>3
  <2>5. SubSeq(m, 1, Len(password)) = password
    <3>1. /\ SubSeq(m, 1, Len(password)) \in Seq(Byte)
          /\ Len(SubSeq(m, 1, Len(password))) = Len(password)
          /\ \A i \in 1 .. Len(password) : SubSeq(m, 1, Len(password))[i] = m[i]
      BY <1>4, <2>4, FirstPieces
    <3>2. \A i \in 1 .. Len(password) : m[i] = password[i]
      BY <1>11
    <3> QED BY <3>1, <3>2, SeqEqual
  <2> QED BY <1>6, <2>4, <2>5
<1> QED BY <1>9, <1>10

-----------------------------------------------------------------------------
(* Attributes on the wire. *)

(* What an attribute on the wire has behind its type and length bytes. *)
PieceData(piece) == SubSeq(piece, 3, Len(piece))

(* An attribute on the wire, for a reader that trusts the length byte: a
   vendor attribute has room for its inner header and says how long its value
   is. *)
FramedPiece(piece) ==
    /\ piece \in Seq(Byte) /\ Len(piece) \in 2 .. 255 /\ piece[2] = Len(piece)
    /\ piece[1] = VENDOR_SPECIFIC => Len(piece) >= 8 /\ piece[8] \in 2 .. Len(piece) - 6

(* Numbers that fit into a byte. *)
LEMMA SmallNumbers ==
    ASSUME NEW n \in Nat
    PROVE  n % 256 \in Byte /\ (n <= 255 => n \in Byte /\ n % 256 = n)
BY DEF Byte

(* Two sequences, one behind the other, and how to get each of them back. *)
LEMMA ConcatParts ==
    ASSUME NEW S, NEW s \in Seq(S), NEW t \in Seq(S)
    PROVE  /\ s \o t \in Seq(S) /\ Len(s \o t) = Len(s) + Len(t)
           /\ \A j \in 1 .. Len(s) : (s \o t)[j] = s[j]
           /\ \A j \in 1 .. Len(t) : (s \o t)[Len(s) + j] = t[j]
           /\ SubSeq(s \o t, 1, Len(s)) = s
           /\ SubSeq(s \o t, Len(s) + 1, Len(s \o t)) = t
<1> DEFINE u == s \o t
<1>1. /\ Len(s) \in Nat /\ Len(t) \in Nat /\ u \in Seq(S) /\ Len(u) = Len(s) + Len(t)
      /\ \A i \in 1 .. Len(s) + Len(t) : u[i] = IF i <= Len(s) THEN s[i] ELSE t[i - Len(s)]
  BY ConcatProperties, LenProperties
<1> HIDE DEF u
<1>2. ASSUME NEW j \in 1 .. Len(s) PROVE u[j] = s[j]
  <2>1. j \in 1 .. Len(s) + Len(t) /\ j <= Len(s)
    BY <1>1
  <2> QED BY <1>1, <2>1
<1>3. ASSUME NEW j \in 1 .. Len(t) PROVE u[Len(s) + j] = t[j]
  <2> SUFFICES ASSUME NEW k, k = Len(s) + j PROVE u[k] = t[j]
    OBVIOUS
  <2>1. k \in 1 .. Len(s) + Len(t) /\ ~(k <= Len(s)) /\ k - Len(s) = j
    BY <1>1
  <2> QED BY <1>1, <2>1
<1>4. SubSeq(u, 1, Len(s)) = s
  <2>1. Len(s) \in 0 .. Len(u)
    BY <1>1
  <2>2. /\ SubSeq(u, 1, Len(s)) \in Seq(S) /\ Len(SubSeq(u, 1, Len(s))) = Len(s)
        /\ \A i \in 1 .. Len(s) : SubSeq(u, 1, Len(s))[i] = u[i]
    BY <1>1, <2>1, FirstPieces
  <2> QED BY <1>2, <2>2, SeqEqual
<1>5. SubSeq(u, Len(s) + 1, Len(u)) = t
  <2> DEFINE m == Len(s) + 1
             n == Len(u)
             w == SubSeq(u, m, n)
  <2>1. m \in Int /\ n \in Int /\ n - m + 1 = Len(t) /\ (m <= n \/ Len(t) = 0)
        /\ \A i \in m .. n : u[i] \in S
    BY <1>1, ElementOfSeq
  <2>2. /\ w \in Seq(S) /\ Len(w) = IF m <= n THEN n - m + 1 ELSE 0
        /\ \A i \in 1 .. n - m + 1 : w[i] = u[m + i - 1]
    <3> HIDE DEF m, n
    <3> QED BY <2>1, SubSeqProperties
  <2> HIDE DEF w
  <2>3. Len(w) = Len(t)
    BY <1>1, <2>1, <2>2
  <2>4. ASSUME NEW i \in 1 .. Len(t) PROVE w[i] = t[i]
    <3>1. m + i - 1 = Len(s) + i
      BY <1>1
    <3> QED BY <1>3, <2>1, <2>2, <3>1
  <2>5. w = t
    BY <2>2, <2>3, <2>4, SeqEqual
  <2> QED BY <2>5 DEF w
<1> QED BY <1>1, <1>2, <1>3, <1>4, <1>5 DEF u

(* A header of two bytes before some data. *)
LEMMA HeaderOf ==
    ASSUME NEW type \in Byte, NEW n \in Byte, NEW data \in Seq(Byte)
    PROVE  /\ <<type, n>> \o data \in Seq(Byte) /\ Len(<<type, n>> \o data) = 2 + Len(data)
           /\ (<<type, n>> \o data)[1] = type /\ (<<type, n>> \o data)[2] = n
           /\ \A j \in 1 .. Len(data) : (<<type, n>> \o data)[2 + j] = data[j]
           /\ PieceData(<<type, n>> \o data) = data
<1> DEFINE h == <<type, n>>
           piece == h \o data
<1>1. h \in Seq(Byte) /\ Len(h) = 2 /\ h[1] = type /\ h[2] = n
  OBVIOUS
<1> HIDE DEF h
<1>2. /\ piece \in Seq(Byte) /\ Len(piece) = Len(h) + Len(data)
      /\ \A j \in 1 .. Len(h) : piece[j] = h[j]
      /\ \A j \in 1 .. Len(data) : piece[Len(h) + j] = data[j]
      /\ SubSeq(piece, Len(h) + 1, Len(piece)) = data
  <2>0. h \in Seq(Byte)
    BY <1>1
  <2>1. piece \in Seq(Byte) /\ Len(piece) = Len(h) + Len(data)
    BY <2>0, ConcatParts
  <2>2. \A j \in 1 .. Len(h) : piece[j] = h[j]
    BY <2>0, ConcatParts
  <2>3. \A j \in 1 .. Len(data) : piece[Len(h) + j] = data[j]
    BY <2>0, ConcatParts
  <2>4. SubSeq(piece, Len(h) + 1, Len(piece)) = data
    BY <2>0, ConcatParts
  <2> QED BY <2>1, <2>2, <2>3, <2>4
<1> HIDE DEF piece
<1>3. 1 \in 1 .. Len(h) /\ 2 \in 1 .. Len(h) /\ Len(h) + 1 = 3
  BY <1>1
<1>4. /\ piece \in Seq(Byte) /\ Len(piece) = 2 + Len(data)
      /\ piece[1] = type /\ piece[2] = n
      /\ \A j \in 1 .. Len(data) : piece[2 + j] = data[j]
      /\ PieceData(piece) = data
  BY <1>1, <1>2, <1>3 DEF PieceData
<1> QED BY <1>4, Zenon DEF piece, h

(* The data of an attribute is as long as WrittenSize says. *)
LEMMA DataType ==
    ASSUME DigestTyped, NEW a \in Attribute, NEW auth \in [1 .. 16 -> Byte], WrittenSize(a) <= 253
    PROVE  Data(a, auth) \in Seq(Byte) /\ Len(Data(a, auth)) = WrittenSize(a)
<1>1. a.value \in Seq(Byte) /\ a.type \in Byte /\ Len(a.value) \in Nat
  BY LenProperties DEF Attribute
<1>2. CASE a.class = "Encrypted"
  BY <1>1, <1>2, EncryptionType, ZenonT(40) DEF Data, WrittenSize
<1>3. CASE a.class = "Integer"
  <2>1. WrittenSize(a) = 2 + Len(a.value)
    BY <1>3 DEF WrittenSize
  <2> DEFINE size == 2 + Len(a.value)
             data == <<a.type, size>> \o a.value
  <2>2. size \in Byte
    <3> DEFINE n == Len(a.value)
    <3>1. n \in Nat /\ 2 + n <= 253
      BY <1>1, <2>1, Zenon
    <3> HIDE DEF n
    <3>2. 2 + n \in Nat /\ 2 + n <= 255
      BY <3>1
    <3>3. size \in Nat /\ size <= 255
      BY <3>2, Zenon DEF n
    <3> HIDE DEF size
    <3> QED BY <3>3, SmallNumbers
  <2>3. Data(a, auth) = data
    BY <1>3 DEF Data, IntegerData
  <2> HIDE DEF size
  <2>4. data \in Seq(Byte) /\ Len(data) = 2 + Len(a.value)
    BY <1>1, <2>2, HeaderOf
  <2> QED BY <2>1, <2>3, <2>4
<1>4. CASE a.class \notin {"Encrypted", "Integer"}
  BY <1>1, <1>4 DEF Data, WrittenSize
<1> QED BY <1>2, <1>3, <1>4

(* ToVector of an attribute whose data fits writes a well framed attribute. *)
LEMMA ToVectorFramed ==
    ASSUME DigestTyped, NEW a \in Attribute, NEW auth \in [1 .. 16 -> Byte],
           WrittenSize(a) <= 253, a.type # VENDOR_SPECIFIC
    PROVE  /\ FramedPiece(ToVector(a, auth)) /\ Len(ToVector(a, auth)) = 2 + WrittenSize(a)
           /\ ToVector(a, auth)[1] = a.type /\ PieceData(ToVector(a, auth)) = Data(a, auth)
<1> DEFINE data == Data(a, auth)
           size == 2 + Len(data)
<1>1. data \in Seq(Byte) /\ Len(data) = WrittenSize(a) /\ Len(data) \in Nat /\ Len(data) <= 253
  BY DataType, LenProperties
<1>2. ToVector(a, auth) = <<a.type, (2 + Len(data)) % 256>> \o data
  BY DEF ToVector
<1> HIDE DEF data
<1>3. a.type \in Byte /\ size \in Byte /\ size % 256 = size /\ size \in 2 .. 255
  <2>1. size \in Nat /\ size <= 255 /\ size \in 2 .. 255
    <3>1. \A m \in Nat : m <= 253 => 2 + m \in Nat /\ 2 + m <= 255 /\ 2 + m \in 2 .. 255
      OBVIOUS
    <3> QED BY <1>1, <3>1
  <2>2. a.type \in Byte
    BY DEF Attribute
  <2> HIDE DEF size
  <2> QED BY <2>1, <2>2, SmallNumbers
<1> DEFINE piece == ToVector(a, auth)
<1>4. piece = <<a.type, size>> \o data
  BY <1>2, <1>3, ZenonT(40)
<1>5. /\ piece \in Seq(Byte) /\ Len(piece) = size
      /\ piece[1] = a.type /\ piece[2] = size /\ PieceData(piece) = data
  <2>1. Len(piece) = 2 + Len(data) => Len(piece) = size
    OBVIOUS
  <2>2. a.type \in Byte /\ size \in Byte /\ data \in Seq(Byte)
    BY <1>1, <1>3
  <2> HIDE DEF piece, size
  <2>3. /\ piece \in Seq(Byte) /\ Len(piece) = 2 + Len(data)
        /\ piece[1] = a.type /\ piece[2] = size /\ PieceData(piece) = data
    BY <1>4, <2>2, HeaderOf, SMTT(30)
  <2> QED BY <2>1, <2>3
<1> HIDE DEF piece
<1>6. FramedPiece(piece)
  BY <1>3, <1>5, ZenonT(40) DEF FramedPiece
<1> QED BY <1>1, <1>5, <1>6 DEF piece, data

(* VendorToVector writes a well framed attribute too, with the vendor's
   number in three bytes if it fits. *)
LEMMA VendorToVectorFramed ==
    ASSUME NEW v \in Vendor, Len(v.value) <= 247
    PROVE  /\ FramedPiece(VendorToVector(v)) /\ Len(VendorToVector(v)) = 8 + Len(v.value)
           /\ VendorToVector(v)[1] = VENDOR_SPECIFIC
           /\ VendorToVector(v)[8] = 2 + Len(v.value)
           /\ v.id < 2^24 => PieceData(VendorToVector(v))
                               = <<0, v.id \div 2^16, (v.id \div 2^8) % 256, v.id % 256,
                                   v.type, 2 + Len(v.value)>> \o v.value
<1> DEFINE n == Len(v.value)
           b1 == (v.id \div 2^24) % 256
           b2 == (v.id \div 2^16) % 256
           b3 == (v.id \div 2^8) % 256
           b4 == v.id % 256
           outer == n + 8
           inner == n + 2
           head == <<VENDOR_SPECIFIC, outer, b1, b2, b3, b4, v.type, inner>>
           piece == VendorToVector(v)
<1>1. /\ n \in Nat /\ v.id \in Nat /\ v.type \in Byte /\ v.value \in Seq(Byte)
      /\ outer \in Byte /\ inner \in Byte /\ outer % 256 = outer /\ inner % 256 = inner
      /\ VENDOR_SPECIFIC \in Byte
  <2>1. v.id \in Nat /\ v.type \in Byte /\ v.value \in Seq(Byte)
    BY DEF Vendor
  <2>2. n \in Nat /\ n <= 247
    BY <2>1, LenProperties
  <2>3. outer \in Nat /\ outer <= 255 /\ inner \in Nat /\ inner <= 255
    BY <2>2
  <2>4. VENDOR_SPECIFIC \in Byte
    BY DEF VENDOR_SPECIFIC, Byte
  <2> HIDE DEF outer, inner, n
  <2> QED BY <2>1, <2>2, <2>3, <2>4, SmallNumbers
<1>2. b1 \in Byte /\ b2 \in Byte /\ b3 \in Byte /\ b4 \in Byte
  <2>1. \A m \in Nat : m \div 2^24 \in Nat /\ m \div 2^16 \in Nat /\ m \div 2^8 \in Nat
    OBVIOUS
  <2>2. \A m \in Nat : m % 256 \in Byte
    BY SmallNumbers, Zenon
  <2>3. v.id \in Nat
    BY <1>1, Zenon
  <2>4. v.id \div 2^24 \in Nat /\ v.id \div 2^16 \in Nat /\ v.id \div 2^8 \in Nat
    BY <2>1, <2>3, Zenon
  <2> QED BY <2>2, <2>3, <2>4, Zenon
<1>3. v.id < 2^24 => b1 = 0 /\ b2 = v.id \div 2^16
  <2>1. \A m \in Nat : m < 2^24 => (m \div 2^24) % 256 = 0 /\ (m \div 2^16) % 256 = m \div 2^16
    OBVIOUS
  <2> QED BY <1>1, <2>1, Zenon
<1>4. piece = <<VENDOR_SPECIFIC, outer>> \o <<b1, b2, b3, b4>> \o <<v.type, inner>> \o v.value
  <2>1. outer % 256 = outer /\ inner % 256 = inner
    BY <1>1, Zenon
  <2>2. piece = <<VENDOR_SPECIFIC, outer % 256>> \o <<b1, b2, b3, b4>> \o <<v.type, inner % 256>> \o v.value
    BY Zenon DEF VendorToVector, BigEndian
  <2> HIDE DEF outer, inner, b1, b2, b3, b4, piece
  <2> QED BY <2>1, <2>2
<1>a. outer \in 2 .. 255 /\ outer >= 8 /\ inner \in 2 .. outer - 6 /\ 8 + n = outer /\ inner = 2 + n
  <2>1. \A m \in Nat : m <= 247 =>
            /\ m + 8 \in 2 .. 255 /\ m + 8 >= 8 /\ m + 2 \in 2 .. m + 8 - 6
            /\ 8 + m = m + 8 /\ m + 2 = 2 + m
    OBVIOUS
  <2>2. n \in Nat /\ n <= 247
    BY <1>1
  <2> HIDE DEF n
  <2> QED BY <2>1, <2>2
<1> DEFINE value == v.value
<1>b. value \in Seq(Byte) /\ Len(value) = n
  BY <1>1
<1> HIDE DEF value, n, outer, inner, b1, b2, b3, b4, piece
<1>5. head = <<VENDOR_SPECIFIC, outer>> \o <<b1, b2, b3, b4>> \o <<v.type, inner>>
  OBVIOUS
<1>6. /\ head \in Seq(Byte) /\ Len(head) = 8 /\ head[1] = VENDOR_SPECIFIC /\ head[2] = outer
      /\ head[8] = inner
  BY <1>1, <1>2
<1>7. piece = head \o value
  BY <1>4, <1>5, Zenon DEF value
<1>8. /\ piece \in Seq(Byte) /\ Len(piece) = 8 + n
      /\ \A j \in 1 .. 8 : piece[j] = head[j]
  <2> HIDE DEF head
  <2>1. /\ head \o value \in Seq(Byte) /\ Len(head \o value) = Len(head) + Len(value)
        /\ \A j \in 1 .. Len(head) : (head \o value)[j] = head[j]
    <3>1. head \in Seq(Byte) /\ value \in Seq(Byte)
      BY <1>b, <1>6
    <3>2. head \o value \in Seq(Byte)
      BY <3>1, ConcatParts
    <3>3. Len(head \o value) = Len(head) + Len(value)
      BY <3>1, ConcatParts
    <3>4. \A j \in 1 .. Len(head) : (head \o value)[j] = head[j]
      BY <3>1, ConcatParts
    <3> QED BY <3>2, <3>3, <3>4
  <2> QED BY <1>b, <1>6, <1>7, <2>1
<1>9. piece[1] = VENDOR_SPECIFIC /\ piece[2] = outer /\ piece[8] = inner
  <2> HIDE DEF head
  <2> QED BY <1>6, <1>8
<1>10. FramedPiece(piece)
  <2>1. Len(piece) = outer
    BY <1>a, <1>8, Zenon
  <2>2. Len(piece) \in 2 .. 255 /\ Len(piece) >= 8 /\ piece[8] \in 2 .. Len(piece) - 6
    BY <1>a, <1>9, <2>1, Zenon
  <2> QED BY <1>8, <1>9, <2>1, <2>2, Zenon DEF FramedPiece
<1>11. ASSUME v.id < 2^24
       PROVE  PieceData(piece) = <<0, v.id \div 2^16, b3, b4, v.type, 2 + n>> \o v.value
  <2> DEFINE start == <<VENDOR_SPECIFIC, outer>>
             middle == <<b1, b2, b3, b4, v.type, inner>>
             rest == middle \o value
  <2>1. middle \in Seq(Byte) /\ Len(middle) = 6
    BY <1>1, <1>2
  <2>2. head = start \o middle
    OBVIOUS
  <2>3. start \in Seq(Byte)
    BY <1>1
  <2>4. piece = start \o rest
    <3> HIDE DEF start, middle, head
    <3>1. (start \o middle) \o value = start \o rest
      BY <1>b, <2>1, <2>3, ConcatAssociative, SMTT(30)
    <3> QED BY <1>7, <2>2, <3>1, Zenon
  <2>5. rest \in Seq(Byte)
    <3> HIDE DEF middle
    <3> QED BY <1>b, <2>1, ConcatProperties
  <2> HIDE DEF rest
  <2>6. PieceData(piece) = rest
    <3>1. VENDOR_SPECIFIC \in Byte /\ outer \in Byte
      BY <1>1
    <3> QED BY <2>4, <2>5, <3>1, HeaderOf
  <2> QED BY <1>3, <1>a, <1>11, <2>6 DEF rest, value
<1>12. piece[8] = 2 + n
  BY <1>a, <1>9, Zenon
<1> QED BY <1>8, <1>9, <1>10, <1>11, <1>12 DEF piece, n, b3, b4

-----------------------------------------------------------------------------
(* Parsing constructors. *)

(* What a constructor reads of a vendor attribute does not depend on what
   comes behind it. *)
LEMMA MakeVendorPrefix ==
    ASSUME NEW q \in Seq(Byte), NEW data \in Seq(Byte), Len(q) >= 6, q[6] \in 2 .. Len(q) - 4,
           Len(q) <= Len(data), \A j \in 1 .. Len(q) : data[j] = q[j]
    PROVE  /\ VendorFault(data) = VendorFault(q) /\ MakeVendor(data) = MakeVendor(q)
           /\ MakeVendor(q) \in Vendor
<1>1. Len(q) \in Nat /\ Len(data) \in Nat
  BY LenProperties
<1>2. /\ data[1] = q[1] /\ data[2] = q[2] /\ data[3] = q[3] /\ data[4] = q[4]
      /\ data[5] = q[5] /\ data[6] = q[6]
  BY <1>1
<1> DEFINE n == 6 + (q[6] - 2)
<1>3. n \in 7 - 1 .. Len(q) /\ n <= Len(data) /\ n \in Int
  BY <1>1
<1>4. VendorLength(data) = q[6] - 2 /\ VendorLength(q) = q[6] - 2
  BY <1>2 DEF VendorLength
<1> HIDE DEF n
<1>5. /\ SubSeq(q, 7, n) \in Seq(Byte)
      /\ Len(SubSeq(q, 7, n)) = IF 7 <= n THEN n - 7 + 1 ELSE 0
      /\ \A i \in 1 .. n - 7 + 1 : SubSeq(q, 7, n)[i] = q[7 + i - 1]
  <2>1. 7 \in Int /\ \A i \in 7 .. n : q[i] \in Byte
    BY <1>1, <1>3, ElementOfSeq
  <2> QED BY <1>3, <2>1, SubSeqProperties
<1>6. /\ SubSeq(data, 7, n) \in Seq(Byte)
      /\ Len(SubSeq(data, 7, n)) = IF 7 <= n THEN n - 7 + 1 ELSE 0
      /\ \A i \in 1 .. n - 7 + 1 : SubSeq(data, 7, n)[i] = data[7 + i - 1]
  <2>1. 7 \in Int /\ \A i \in 7 .. n : data[i] \in Byte
    BY <1>1, <1>3, ElementOfSeq
  <2> QED BY <1>3, <2>1, SubSeqProperties
<1>7. SubSeq(data, 7, n) = SubSeq(q, 7, n)
  <2>1. ASSUME NEW i \in 1 .. Len(SubSeq(q, 7, n))
        PROVE  SubSeq(data, 7, n)[i] = SubSeq(q, 7, n)[i]
    <3>1. i \in 1 .. n - 7 + 1
      BY <1>3, <1>5
    <3>2. 7 + i - 1 \in 1 .. Len(q)
      BY <1>1, <1>3, <3>1
    <3>3. data[7 + i - 1] = q[7 + i - 1]
      BY <3>2
    <3> QED BY <1>5, <1>6, <3>1, <3>3
  <2>2. Len(SubSeq(data, 7, n)) = Len(SubSeq(q, 7, n))
    BY <1>5, <1>6
  <2> QED BY <1>5, <1>6, <2>1, <2>2, SeqEqual
<1>8. MakeVendor(data) = MakeVendor(q)
  BY <1>2, <1>4, <1>7 DEF MakeVendor, n
<1>9. MakeVendor(q) \in Vendor
  <2>1. q[2] \in Nat /\ q[3] \in Nat /\ q[4] \in Nat /\ q[5] \in Byte
    <3>1. q[2] \in Byte /\ q[3] \in Byte /\ q[4] \in Byte /\ q[5] \in Byte
      BY <1>1, ElementOfSeq
    <3>2. \A b \in Byte : b \in Nat
      BY DEF Byte
    <3> QED BY <3>1, <3>2
  <2>2. q[2] * 2^16 + q[3] * 2^8 + q[4] \in Nat
    <3>1. \A a, b, c \in Nat : a * 2^16 + b * 2^8 + c \in Nat
      OBVIOUS
    <3> QED BY <2>1, <3>1
  <2> QED BY <1>4, <1>5, <2>1, <2>2 DEF MakeVendor, Vendor, n
<1> QED BY <1>2, <1>8, <1>9 DEF VendorFault

(* A number of three bytes, taken apart and put together again. *)
LEMMA VendorNumber ==
    ASSUME NEW id \in Nat, id < 2^24
    PROVE  /\ id \div 2^16 \in Byte /\ (id \div 2^8) % 256 \in Byte /\ id % 256 \in Byte
           /\ (id \div 2^16) * 2^16 + ((id \div 2^8) % 256) * 2^8 + (id % 256) = id
BY DEF Byte

(* A vendor attribute is read as it was written. *)
LEMMA VendorRead ==
    ASSUME NEW v \in Vendor, v.id < 2^24, Len(v.value) <= 247
    PROVE  LET data == <<0, v.id \div 2^16, (v.id \div 2^8) % 256, v.id % 256,
                         v.type, 2 + Len(v.value)>> \o v.value
           IN  VendorFault(data) = "none" /\ MakeVendor(data) = v
<1> DEFINE b2 == v.id \div 2^16
           b3 == (v.id \div 2^8) % 256
           b4 == v.id % 256
           size == 2 + Len(v.value)
           value == v.value
           head == <<0, b2, b3, b4, v.type, size>>
           data == head \o value
<1>1. /\ value \in Seq(Byte) /\ Len(value) \in Nat /\ v.id \in Nat /\ v.type \in Byte
      /\ size - 2 = Len(value) /\ size \in Nat /\ size <= 255
  BY LenProperties DEF Vendor
<1>2. /\ b2 \in Byte /\ b3 \in Byte /\ b4 \in Byte /\ b2 * 2^16 + b3 * 2^8 + b4 = v.id
      /\ size \in Byte /\ 0 \in Byte
  <2>1. /\ b2 \in Byte /\ b3 \in Byte /\ b4 \in Byte /\ b2 * 2^16 + b3 * 2^8 + b4 = v.id
    BY <1>1, VendorNumber
  <2>2. 0 \in Byte
    BY DEF Byte
  <2> HIDE DEF b2, b3, b4, size
  <2> QED BY <1>1, <2>1, <2>2, SmallNumbers
<1> HIDE DEF b2, b3, b4, size, value
<1>3. /\ head \in Seq(Byte) /\ Len(head) = 6
      /\ head[1] = 0 /\ head[2] = b2 /\ head[3] = b3 /\ head[4] = b4 /\ head[5] = v.type
      /\ head[6] = size
  BY <1>1, <1>2
<1> HIDE DEF head
<1>4. /\ Len(data) = Len(head) + Len(value)
      /\ \A j \in 1 .. Len(head) : data[j] = head[j]
      /\ SubSeq(data, Len(head) + 1, Len(data)) = value
  <2>0. head \in Seq(Byte) /\ value \in Seq(Byte)
    BY <1>1, <1>3
  <2>1. Len(data) = Len(head) + Len(value)
    BY <2>0, ConcatParts
  <2>2. \A j \in 1 .. Len(head) : data[j] = head[j]
    BY <2>0, ConcatParts
  <2>3. SubSeq(data, Len(head) + 1, Len(data)) = value
    BY <2>0, ConcatParts
  <2> QED BY <2>1, <2>2, <2>3
<1> HIDE DEF data
<1>5. /\ data[1] = 0 /\ data[2] = b2 /\ data[3] = b3 /\ data[4] = b4 /\ data[5] = v.type
      /\ data[6] = size
  BY <1>3, <1>4
<1>6. SubSeq(data, 7, 6 + (size - 2)) = value
  <2>1. Len(head) + 1 = 7 /\ Len(data) = 6 + (size - 2)
    BY <1>1, <1>3, <1>4
  <2> QED BY <1>4, <2>1
<1>7. MakeVendor(data) = [id |-> v.id, type |-> v.type, value |-> value]
  BY <1>2, <1>5, <1>6 DEF MakeVendor, VendorLength
<1>8. v = [id |-> v.id, type |-> v.type, value |-> value]
  BY DEF Vendor, value
<1>9. VendorFault(data) = "none"
  BY <1>5 DEF VendorFault
<1>10. MakeVendor(data) = v
  BY <1>7, <1>8
<1> QED BY <1>9, <1>10 DEF data, head, b2, b3, b4, size, value

(* Parsing constructors build objects of their classes, and of sizes that
   their classes can hold if the size check lets the data pass. *)
LEMMA MakeAttributeType ==
    ASSUME DigestTyped, NEW type \in Byte, NEW data \in Seq(Byte), NEW auth \in [1 .. 16 -> Byte]
    PROVE  /\ MakeAttribute(type, data, auth) \in Attribute
           /\ SizeFault(ClassOf(type), Len(data)) = "none"
                 => WellSized(MakeAttribute(type, data, auth))
<1> DEFINE class == ClassOf(type)
           a == MakeAttribute(type, data, auth)
<1>1. class \in {"String", "Encrypted", "ChapPassword", "IpAddress", "Integer", "Bytes"}
  BY DEF ClassOf
<1>2. a = [class |-> class, type |-> type, value |-> a.value]
  BY DEF MakeAttribute
<1>3. Len(data) \in Nat
  BY LenProperties
<1>4. a.value = CASE class = "Encrypted" -> Decryption(data, auth)
                  [] class = "Integer" -> Zeros(8 - Len(data)) \o data
                  [] OTHER -> data
  BY DEF MakeAttribute
<1> HIDE DEF class, a
<1>6. a.value \in Seq(Byte) => a \in Attribute
  <2>1. [class |-> class, type |-> type, value |-> a.value].value = a.value
    OBVIOUS
  <2> QED BY <1>1, <1>2, <2>1 DEF Attribute
<1>7. a.class = class
  BY <1>2
<1>8. CASE class = "Encrypted"
  <2>1. a.value \in Seq(Byte)
    BY <1>4, <1>8, DecryptionType
  <2> QED BY <1>6, <1>7, <1>8, <2>1 DEF WellSized, a
<1>9. CASE class = "Integer"
  <2> DEFINE m == 8 - Len(data)
             z == Zeros(m)
  <2>2. z \in Seq(Byte) /\ (m \in Nat => Len(z) = m)
    <3>1. CASE m \in Nat
      <4> HIDE DEF m
      <4> QED BY <3>1, ZerosType
    <3>2. CASE m \notin Nat
      <4>1. m \in Int /\ m < 1
        BY <1>3, <3>2
      <4> HIDE DEF m
      <4>2. Zeros(m) = <<>>
        BY <4>1 DEF Zeros
      <4>3. <<>> \in Seq(Byte)
        OBVIOUS
      <4> QED BY <3>2, <4>2, <4>3, Zenon
    <3> QED BY <3>1, <3>2
  <2>a. m = 8 - Len(data)
    OBVIOUS
  <2>4. a.value = z \o data
    BY <1>4, <1>9
  <2> HIDE DEF z, m
  <2>3. z \o data \in Seq(Byte) /\ Len(z \o data) = Len(z) + Len(data)
    BY <2>2, ConcatProperties
  <2>5. a.value \in Seq(Byte)
    BY <2>3, <2>4
  <2>6. ASSUME SizeFault(class, Len(data)) = "none" PROVE Len(a.value) = 8
    <3>1. Len(data) \in {1, 2, 4, 8}
      BY <1>9, <2>6 DEF SizeFault, IntegerFault
    <3>2. m \in Nat /\ m + Len(data) = 8
      <4>1. \A n \in {1, 2, 4, 8} : 8 - n \in Nat /\ (8 - n) + n = 8
        OBVIOUS
      <4> QED BY <2>a, <3>1, <4>1
    <3> QED BY <2>2, <2>3, <2>4, <3>2
  <2> QED BY <1>6, <1>7, <1>9, <2>5, <2>6 DEF WellSized, a, class
<1>10. CASE class \notin {"Encrypted", "Integer"}
  <2>1. a.value = data
    BY <1>4, <1>10
  <2>2. SizeFault(class, Len(data)) = "none" /\ class = "IpAddress" => Len(data) = 4
    BY DEF SizeFault, AddressFault
  <2>3. SizeFault(class, Len(data)) = "none" /\ class = "ChapPassword" => Len(data) > 0
    <3> SUFFICES ASSUME SizeFault(class, Len(data)) = "none", class = "ChapPassword"
                 PROVE  Len(data) > 0
      OBVIOUS
    <3>1. ChapFault(Len(data)) = "none"
      BY DEF SizeFault
    <3>2. Len(data) # 0
      <4>1. ChapFault(0) = "length_error"
        BY DEF ChapFault
      <4> QED BY <3>1, <4>1
    <3> QED BY <1>3, <3>2
  <2> QED BY <1>6, <1>7, <1>10, <2>1, <2>2, <2>3 DEF WellSized, a, class
<1> QED BY <1>8, <1>9, <1>10

-----------------------------------------------------------------------------
(* The pieces of a packet. *)

(* What Fits says of each attribute and of each vendor attribute. *)
LEMMA FitsType ==
    ASSUME NEW attributes, NEW vendors, Fits(attributes, vendors)
    PROVE  /\ attributes \in Seq(Attribute) /\ vendors \in Seq(Vendor)
           /\ Len(attributes) \in Nat /\ Len(vendors) \in Nat
           /\ \A i \in 1 .. Len(attributes) :
                 /\ attributes[i] \in Attribute
                 /\ attributes[i].type # VENDOR_SPECIFIC /\ WrittenSize(attributes[i]) <= 253
           /\ \A i \in 1 .. Len(vendors) : vendors[i] \in Vendor /\ Len(vendors[i].value) <= 247
<1>1. attributes \in Seq(Attribute) /\ vendors \in Seq(Vendor)
  BY DEF Fits
<1>2. /\ DOMAIN attributes = 1 .. Len(attributes) /\ DOMAIN vendors = 1 .. Len(vendors)
      /\ Len(attributes) \in Nat /\ Len(vendors) \in Nat
  BY <1>1, LenProperties
<1>3. \A i \in 1 .. Len(attributes) :
         attributes[i].type # VENDOR_SPECIFIC /\ WrittenSize(attributes[i]) <= 253
  BY <1>2 DEF Fits
<1>4. \A i \in 1 .. Len(vendors) : Len(vendors[i].value) <= 247
  BY <1>2, SMTT(30) DEF Fits
<1>5. /\ \A i \in 1 .. Len(attributes) : attributes[i] \in Attribute
      /\ \A i \in 1 .. Len(vendors) : vendors[i] \in Vendor
  BY <1>1, ElementOfSeq
<1> QED BY <1>1, <1>2, <1>3, <1>4, <1>5

(* The pieces of a packet: its attributes, then its vendor attributes, all of
   them well framed. *)
LEMMA PiecesOf ==
    ASSUME DigestTyped, NEW p, Fits(p.attributes, p.vendors), p.auth \in [1 .. 16 -> Byte]
    PROVE  /\ Pieces(p) \in Seq(Seq(Byte))
           /\ Len(Pieces(p)) = Len(p.attributes) + Len(p.vendors)
           /\ \A i \in 1 .. Len(p.attributes) : Pieces(p)[i] = ToVector(p.attributes[i], p.auth)
           /\ \A i \in 1 .. Len(p.vendors) :
                 Pieces(p)[Len(p.attributes) + i] = VendorToVector(p.vendors[i])
           /\ \A i \in 1 .. Len(Pieces(p)) : FramedPiece(Pieces(p)[i])
<1> DEFINE n == Len(p.attributes)
           m == Len(p.vendors)
           e(i) == ToVector(p.attributes[i], p.auth)
           g(i) == VendorToVector(p.vendors[i])
           s == [i \in 1 .. n |-> e(i)]
           t == [i \in 1 .. m |-> g(i)]
<1>1. n \in Nat /\ m \in Nat
  BY FitsType
<1>2. \A i \in 1 .. n : FramedPiece(e(i))
  <2> SUFFICES ASSUME NEW i \in 1 .. n PROVE FramedPiece(e(i))
    OBVIOUS
  <2>1. /\ p.attributes[i] \in Attribute /\ WrittenSize(p.attributes[i]) <= 253
        /\ p.attributes[i].type # VENDOR_SPECIFIC
    BY FitsType, SMTT(30)
  <2> QED BY <2>1, ToVectorFramed
<1>3. \A i \in 1 .. m : FramedPiece(g(i))
  <2> SUFFICES ASSUME NEW i \in 1 .. m PROVE FramedPiece(g(i))
    OBVIOUS
  <2>1. p.vendors[i] \in Vendor /\ Len(p.vendors[i].value) <= 247
    BY FitsType, ZenonT(40)
  <2> QED BY <2>1, VendorToVectorFramed, ZenonT(40)
<1>4. Pieces(p) = s \o t
  BY DEF Pieces
<1> HIDE DEF n, m, e, g
<1>5. s \in Seq(Seq(Byte)) /\ Len(s) = n /\ \A i \in 1 .. n : s[i] = e(i)
  <2>1. \A i \in 1 .. n : e(i) \in Seq(Byte)
    BY <1>2 DEF FramedPiece
  <2> QED BY <1>1, <2>1
<1>6. t \in Seq(Seq(Byte)) /\ Len(t) = m /\ \A i \in 1 .. m : t[i] = g(i)
  <2>1. \A i \in 1 .. m : g(i) \in Seq(Byte)
    BY <1>3 DEF FramedPiece
  <2> QED BY <1>1, <2>1
<1> DEFINE u == s \o t
<1> HIDE DEF s, t
<1>7. /\ u \in Seq(Seq(Byte)) /\ Len(u) = n + m
      /\ \A i \in 1 .. n : u[i] = e(i)
      /\ \A i \in 1 .. m : u[n + i] = g(i)
  <2>1. s \in Seq(Seq(Byte)) /\ t \in Seq(Seq(Byte))
    BY <1>5, <1>6
  <2>2. u \in Seq(Seq(Byte)) /\ Len(u) = Len(s) + Len(t)
    BY <2>1, ConcatParts
  <2>3. \A j \in 1 .. Len(s) : u[j] = s[j]
    BY <2>1, ConcatParts
  <2>4. \A j \in 1 .. Len(t) : u[Len(s) + j] = t[j]
    BY <2>1, ConcatParts
  <2> HIDE DEF u
  <2> QED BY <1>5, <1>6, <2>2, <2>3, <2>4
<1> HIDE DEF u
<1>8. ASSUME NEW i \in 1 .. n + m PROVE FramedPiece(u[i])
  <2>1. CASE i \in 1 .. n
    BY <1>2, <1>7, <2>1
  <2>2. CASE i \notin 1 .. n
    <3>1. i - n \in 1 .. m /\ n + (i - n) = i
      BY <1>1, <2>2
    <3>2. u[n + (i - n)] = g(i - n)
      BY <1>7, <3>1
    <3> QED BY <1>3, <3>1, <3>2
  <2> QED BY <2>1, <2>2
<1>9. Pieces(p) = u
  BY <1>4 DEF u
<1> QED BY <1>7, <1>8, <1>9 DEF n, m, e, g

(* The body of a packet that fits is as long with each authenticator, so its
   length fits into the header. *)
LEMMA BodyLength ==
    ASSUME DigestTyped, NEW p, Fits(p.attributes, p.vendors), p.auth \in [1 .. 16 -> Byte]
    PROVE  Body(p) \in Seq(Byte) /\ Len(Body(p)) \in Nat /\ Len(Body(p)) + 20 < 65536
<1> DEFINE q == [NoPacket EXCEPT !.attributes = p.attributes, !.vendors = p.vendors]
           n == Len(p.attributes)
           m == Len(p.vendors)
<1>1. q.attributes = p.attributes /\ q.vendors = p.vendors /\ q.auth = Zeros(16)
  BY SMTT(30) DEF NoPacket
<1>2. q.auth \in [1 .. 16 -> Byte]
  <2>1. Zeros(16) \in [1 .. 16 -> Byte]
    BY DEF Zeros, Byte
  <2> HIDE DEF q
  <2> QED BY <1>1, <2>1
<1>3. Len(Body(q)) + 20 < 65536
  BY DEF Fits
<1> HIDE DEF q
<1>4. Fits(q.attributes, q.vendors)
  BY <1>1
<1> DEFINE s == Pieces(p)
           t == Pieces(q)
<1>5. n \in Nat /\ m \in Nat
  BY FitsType
<1>6. /\ s \in Seq(Seq(Byte)) /\ Len(s) = n + m
      /\ \A i \in 1 .. n : s[i] = ToVector(p.attributes[i], p.auth)
      /\ \A i \in 1 .. m : s[n + i] = VendorToVector(p.vendors[i])
  BY PiecesOf
<1>7. /\ t \in Seq(Seq(Byte)) /\ Len(t) = n + m
      /\ \A i \in 1 .. n : t[i] = ToVector(p.attributes[i], q.auth)
      /\ \A i \in 1 .. m : t[n + i] = VendorToVector(p.vendors[i])
  BY <1>1, <1>2, <1>4, PiecesOf, ZenonT(40)
<1>8. \A i \in 1 .. n : /\ Len(ToVector(p.attributes[i], p.auth)) = 2 + WrittenSize(p.attributes[i])
                        /\ Len(ToVector(p.attributes[i], q.auth)) = 2 + WrittenSize(p.attributes[i])
  <2> SUFFICES ASSUME NEW i \in 1 .. n
               PROVE  /\ Len(ToVector(p.attributes[i], p.auth)) = 2 + WrittenSize(p.attributes[i])
                      /\ Len(ToVector(p.attributes[i], q.auth)) = 2 + WrittenSize(p.attributes[i])
    OBVIOUS
  <2>1. /\ p.attributes[i] \in Attribute /\ WrittenSize(p.attributes[i]) <= 253
        /\ p.attributes[i].type # VENDOR_SPECIFIC
    BY FitsType
  <2> QED BY <1>2, <2>1, ToVectorFramed
<1> HIDE DEF n, m, s, t
<1>9. ASSUME NEW i \in 1 .. Len(s) PROVE Len(s[i]) = Len(t[i])
  <2>1. CASE i \in 1 .. n
    BY <1>6, <1>7, <1>8, <2>1
  <2>2. CASE i \notin 1 .. n
    <3>1. i - n \in 1 .. m /\ n + (i - n) = i
      <4>1. \A a, b \in Nat : \A x \in 1 .. a + b :
               x \notin 1 .. a => x - a \in 1 .. b /\ a + (x - a) = x
        OBVIOUS
      <4>2. i \in 1 .. n + m
        BY <1>6, Zenon
      <4> QED BY <1>5, <2>2, <4>1, <4>2, Zenon
    <3>2. s[n + (i - n)] = t[n + (i - n)]
      BY <1>6, <1>7, <3>1
    <3> QED BY <3>1, <3>2
  <2> QED BY <2>1, <2>2
<1>10. Len(FlattenSeq(s)) = Len(FlattenSeq(t)) /\ FlattenSeq(s) \in Seq(Byte)
  <2>1. s \in Seq(Seq(Byte)) /\ t \in Seq(Seq(Byte)) /\ Len(s) = Len(t)
    BY <1>6, <1>7
  <2>2. FlattenSeq(s) \in Seq(Byte)
    BY <2>1, FlattenType
  <2>3. Len(FlattenSeq(s)) = Len(FlattenSeq(t))
    BY <1>9, <2>1, FlatLengths
  <2> QED BY <2>2, <2>3
<1>11. Body(p) = FlattenSeq(s) /\ Body(q) = FlattenSeq(t)
  BY DEF Body, s, t
<1> QED BY <1>3, <1>10, <1>11, LenProperties

-----------------------------------------------------------------------------
(* Datagrams. *)

(* What is before the authenticator of a datagram and what is behind it. *)
Start(bytes) == SubSeq(bytes, 1, 4)
Behind(bytes) == SubSeq(bytes, 21, Len(bytes))

(* A datagram of these parts. *)
Frame(type, id, size, auth, body) == <<type, id>> \o LengthBytes(size) \o auth \o body

(* The two bytes of the length give it back. *)
LEMMA LengthBytesOf ==
    ASSUME NEW size \in Nat, size < 65536
    PROVE  /\ LengthBytes(size) = <<size \div 256, size % 256>>
           /\ size \div 256 \in Byte /\ size % 256 \in Byte
           /\ (size \div 256) * 256 + (size % 256) = size
<1>1. (size \div 256) % 256 = size \div 256
  OBVIOUS
<1>2. size \div 256 \in Byte /\ size % 256 \in Byte
  BY DEF Byte
<1> QED BY <1>1, <1>2 DEF LengthBytes

(* f is a datagram with these parts. *)
HasParts(f, type, id, size, auth, body) ==
    /\ f \in Seq(Byte) /\ Len(f) = 20 + Len(body)
    /\ f[1] = type /\ f[2] = id /\ f[3] * 256 + f[4] = size
    /\ Start(f) = <<type, id>> \o LengthBytes(size)
    /\ Authenticator(f) = auth
    /\ Behind(f) = body
    /\ \A j \in 1 .. Len(body) : f[20 + j] = body[j]

(* The parts a datagram can be built of. *)
ArePartsOf(type, id, size, auth, body) ==
    /\ type \in Byte /\ id \in Byte /\ size \in Nat /\ size < 65536
    /\ auth \in [1 .. 16 -> Byte] /\ body \in Seq(Byte)

(* A datagram is taken apart as it was built. *)
LEMMA FrameBytes ==
    ASSUME NEW type, NEW id, NEW size, NEW auth, NEW body, ArePartsOf(type, id, size, auth, body)
    PROVE  HasParts(Frame(type, id, size, auth, body), type, id, size, auth, body)
<1>0. /\ type \in Byte /\ id \in Byte /\ size \in Nat /\ size < 65536
      /\ auth \in [1 .. 16 -> Byte] /\ body \in Seq(Byte)
  BY DEF ArePartsOf
<1> DEFINE high == size \div 256
           low == size % 256
           head == <<type, id, high, low>>
           front == head \o auth
           f == front \o body
<1>1. /\ LengthBytes(size) = <<high, low>> /\ high \in Byte /\ low \in Byte
      /\ high * 256 + low = size
  <2>1. LengthBytes(size) = <<high, low>>
    BY <1>0, LengthBytesOf
  <2>2. high \in Byte /\ low \in Byte
    <3>1. \A n \in Nat : n < 65536 => n \div 256 \in Byte /\ n % 256 \in Byte
      BY DEF Byte
    <3> QED BY <1>0, <3>1
  <2>3. high * 256 + low = size
    BY <1>0
  <2> HIDE DEF high, low
  <2> QED BY <2>1, <2>2, <2>3
<1> HIDE DEF high, low
<1>2. head = <<type, id>> \o LengthBytes(size)
  BY <1>1
<1>3. /\ head \in Seq(Byte) /\ Len(head) = 4
      /\ head[1] = type /\ head[2] = id /\ head[3] = high /\ head[4] = low
  BY <1>0, <1>1
<1> HIDE DEF head
<1>4. Frame(type, id, size, auth, body) = f
  <2>1. Frame(type, id, size, auth, body) = <<type, id>> \o LengthBytes(size) \o auth \o body
    BY DEF Frame
  <2> QED BY <1>2, <2>1
<1>5. auth \in Seq(Byte) /\ Len(auth) = 16
  BY <1>0, AuthenticatorType
<1>6. /\ front \in Seq(Byte) /\ Len(front) = 20
      /\ \A j \in 1 .. 4 : front[j] = head[j]
      /\ \A j \in 1 .. 16 : front[4 + j] = auth[j]
  <2>1. head \in Seq(Byte) /\ auth \in Seq(Byte)
    BY <1>3, <1>5
  <2>2. front \in Seq(Byte) /\ Len(front) = Len(head) + Len(auth)
    BY <1>0, <2>1, ConcatParts, SMTT(30)
  <2>3. \A j \in 1 .. Len(head) : front[j] = head[j]
    BY <1>0, <2>1, ConcatParts, SMTT(30)
  <2>4. \A j \in 1 .. Len(auth) : front[Len(head) + j] = auth[j]
    BY <1>0, <2>1, ConcatParts, SMTT(30)
  <2> HIDE DEF front
  <2> QED BY <1>3, <1>5, <2>2, <2>3, <2>4
<1> HIDE DEF front
<1>7. /\ f \in Seq(Byte) /\ Len(f) = 20 + Len(body)
      /\ \A j \in 1 .. 20 : f[j] = front[j]
      /\ \A j \in 1 .. Len(body) : f[20 + j] = body[j]
      /\ SubSeq(f, 21, Len(f)) = body
  <2>1. front \in Seq(Byte)
    BY <1>6
  <2>2. f \in Seq(Byte) /\ Len(f) = Len(front) + Len(body)
    BY <1>0, <2>1, ConcatParts, SMTT(30)
  <2>3. \A j \in 1 .. Len(front) : f[j] = front[j]
    BY <1>0, <2>1, ConcatParts, SMTT(30)
  <2>4. \A j \in 1 .. Len(body) : f[Len(front) + j] = body[j]
    BY <1>0, <2>1, ConcatParts, SMTT(30)
  <2>5. SubSeq(f, Len(front) + 1, Len(f)) = body
    BY <1>0, <2>1, ConcatParts, SMTT(30)
  <2>6. Len(front) = 20 /\ Len(front) + 1 = 21
    BY <1>6
  <2> HIDE DEF f
  <2> QED BY <2>2, <2>3, <2>4, <2>5, <2>6
<1> HIDE DEF f
<1>8. \A j \in 1 .. 4 : f[j] = head[j]
  <2>1. \A j \in 1 .. 4 : j \in 1 .. 20
    OBVIOUS
  <2> QED BY <1>6, <1>7, <2>1, Zenon
<1>9. f[1] = type /\ f[2] = id /\ f[3] * 256 + f[4] = size
  BY <1>1, <1>3, <1>8
<1>10. SubSeq(f, 1, 4) = head
  <2>1. Len(body) \in Nat /\ 4 \in 0 .. Len(f)
    BY <1>0, <1>7, LenProperties
  <2>2. /\ SubSeq(f, 1, 4) \in Seq(Byte) /\ Len(SubSeq(f, 1, 4)) = 4
        /\ \A i \in 1 .. 4 : SubSeq(f, 1, 4)[i] = f[i]
    BY <1>7, <2>1, FirstPieces
  <2> QED BY <1>3, <1>8, <2>2, SeqEqual
<1>11. Authenticator(f) = auth
  <2>1. \A i \in 5 .. 20 : f[i] \in Byte
    <3>1. Len(body) \in Nat
      BY <1>0, LenProperties
    <3>2. \A i \in 5 .. 20 : i \in 1 .. Len(f)
      <4>1. \A n \in Nat : \A i \in 5 .. 20 : i \in 1 .. 20 + n
        OBVIOUS
      <4> QED BY <1>7, <3>1, <4>1, Zenon
    <3> QED BY <1>7, <3>2, ElementOfSeq
  <2>2. /\ SubSeq(f, 5, 20) \in Seq(Byte) /\ Len(SubSeq(f, 5, 20)) = 16
        /\ \A i \in 1 .. 16 : SubSeq(f, 5, 20)[i] = f[5 + i - 1]
    <3>1. 5 \in Int /\ 20 \in Int /\ 20 - 5 + 1 = 16 /\ 5 <= 20
      OBVIOUS
    <3> QED BY <2>1, <3>1, SubSeqProperties
  <2>3. ASSUME NEW i \in 1 .. 16 PROVE SubSeq(f, 5, 20)[i] = auth[i]
    <3> SUFFICES ASSUME NEW k \in 1 .. 20, k = 4 + i PROVE SubSeq(f, 5, 20)[i] = auth[i]
      OBVIOUS
    <3>2. SubSeq(f, 5, 20)[i] = f[k]
      BY <2>2
    <3>3. f[k] = front[k]
      BY <1>7
    <3>4. front[k] = auth[i]
      BY <1>6
    <3> QED BY <3>2, <3>3, <3>4
  <2>4. SubSeq(f, 5, 20) = auth
    BY <1>5, <2>2, <2>3, SeqEqual, ZenonT(40)
  <2> QED BY <2>4 DEF Authenticator
<1>12. Start(f) = <<type, id>> \o LengthBytes(size)
  <2>1. Start(f) = head
    BY <1>10 DEF Start
  <2> QED BY <1>2, <2>1
<1>14. Behind(f) = body
  BY <1>7 DEF Behind
<1>15. f \in Seq(Byte) /\ Len(f) = 20 + Len(body) /\ \A j \in 1 .. Len(body) : f[20 + j] = body[j]
  BY <1>7
<1>13. /\ f \in Seq(Byte) /\ Len(f) = 20 + Len(body)
       /\ f[1] = type /\ f[2] = id /\ f[3] * 256 + f[4] = size
       /\ Start(f) = <<type, id>> \o LengthBytes(size)
       /\ Authenticator(f) = auth
       /\ Behind(f) = body
       /\ \A j \in 1 .. Len(body) : f[20 + j] = body[j]
  BY <1>9, <1>11, <1>12, <1>14, <1>15
<1>16. HasParts(f, type, id, size, auth, body)
  BY <1>13 DEF HasParts
<1> QED BY <1>4, <1>16

-----------------------------------------------------------------------------
(* What is sent. *)

(* The authenticator in the datagram of a packet. *)
WireAuth(p) ==
    IF p.recalc
    THEN Digest(Frame(p.type, p.id, 20 + Len(Body(p)), p.auth, Body(p)) \o Secret)
    ELSE p.auth

(* What makeSendBuffer needs of a packet. *)
Sendable(p) ==
    /\ p.type \in Byte /\ p.id \in Byte /\ p.recalc \in BOOLEAN /\ p.auth \in [1 .. 16 -> Byte]
    /\ Fits(p.attributes, p.vendors)

(* MakeSendBuffer builds a datagram of the packet's type, id and body with
   WireAuth, whether the digest is put in later or not. *)
LEMMA SendBuffer ==
    ASSUME DigestTyped, NEW p, Sendable(p)
    PROVE  /\ WireAuth(p) \in [1 .. 16 -> Byte]
           /\ MakeSendBuffer(p) = Frame(p.type, p.id, 20 + Len(Body(p)), WireAuth(p), Body(p))
<1> DEFINE body == Body(p)
           size == 20 + Len(body)
           plain == Frame(p.type, p.id, size, p.auth, body)
           digest == Digest(plain \o Secret)
<1>1. body \in Seq(Byte) /\ size \in Nat /\ size < 65536
  <2>1. Body(p) \in Seq(Byte) /\ Len(Body(p)) \in Nat /\ Len(Body(p)) + 20 < 65536
    BY BodyLength DEF Sendable
  <2> QED BY <2>1
<1>2. p.type \in Byte /\ p.id \in Byte /\ p.auth \in [1 .. 16 -> Byte]
  BY DEF Sendable
<1>3. plain = Framed(p, size)
  BY DEF Frame, Framed
<1>4. MakeSendBuffer(p) = IF p.recalc
                          THEN SubSeq(plain, 1, 4) \o digest \o SubSeq(plain, 21, Len(plain))
                          ELSE plain
  BY <1>3 DEF MakeSendBuffer
<1>5. WireAuth(p) = IF p.recalc THEN digest ELSE p.auth
  BY DEF WireAuth
<1> HIDE DEF body, size
<1>6. /\ plain \in Seq(Byte) /\ Start(plain) = <<p.type, p.id>> \o LengthBytes(size)
      /\ Behind(plain) = body
  <2>0. ArePartsOf(p.type, p.id, size, p.auth, body)
    BY <1>1, <1>2 DEF ArePartsOf
  <2>1. HasParts(plain, p.type, p.id, size, p.auth, body)
    BY <2>0, FrameBytes
  <2> HIDE DEF plain
  <2> QED BY <2>1 DEF HasParts
<1> HIDE DEF plain
<1>7. digest \in [1 .. 16 -> Byte]
  <2>1. plain \o Secret \in Seq(Byte)
    <3>1. plain \in Seq(Byte) /\ Secret \in Seq(Byte)
      BY <1>6, AttributesAssumption
    <3> QED BY <3>1, ConcatProperties
  <2> QED BY <2>1 DEF DigestTyped
<1> HIDE DEF digest
<1>8. MakeSendBuffer(p) = IF p.recalc THEN Start(plain) \o digest \o Behind(plain) ELSE plain
  BY <1>4 DEF Start, Behind
<1>9. p.recalc => MakeSendBuffer(p) = Frame(p.type, p.id, size, digest, body)
  BY <1>6, <1>8 DEF Frame
<1>10. ~p.recalc => MakeSendBuffer(p) = Frame(p.type, p.id, size, p.auth, body)
  BY <1>8 DEF plain
<1>11. MakeSendBuffer(p) = Frame(p.type, p.id, size, WireAuth(p), body)
  BY <1>5, <1>9, <1>10
<1> QED BY <1>2, <1>5, <1>7, <1>11 DEF size, body

(* The bytes of that datagram. *)
LEMMA SendBufferBytes ==
    ASSUME DigestTyped, NEW p, Sendable(p)
    PROVE  /\ HasParts(MakeSendBuffer(p), p.type, p.id, 20 + Len(Body(p)), WireAuth(p), Body(p))
           /\ Body(p) \in Seq(Byte) /\ Len(Body(p)) \in Nat
<1> DEFINE body == Body(p)
           size == 20 + Len(body)
           auth == WireAuth(p)
           f == Frame(p.type, p.id, size, auth, body)
<1>1. body \in Seq(Byte) /\ size \in Nat /\ size < 65536 /\ Len(body) \in Nat
  <2>1. Body(p) \in Seq(Byte) /\ Len(Body(p)) \in Nat /\ Len(Body(p)) + 20 < 65536
    BY BodyLength DEF Sendable
  <2> QED BY <2>1
<1>2. p.type \in Byte /\ p.id \in Byte /\ auth \in [1 .. 16 -> Byte]
  BY SendBuffer DEF Sendable
<1>3. MakeSendBuffer(p) = f
  BY SendBuffer
<1> HIDE DEF body, size, auth
<1>4. HasParts(f, p.type, p.id, size, auth, body)
  <2>1. ArePartsOf(p.type, p.id, size, auth, body)
    BY <1>1, <1>2 DEF ArePartsOf
  <2> QED BY <2>1, FrameBytes
<1> HIDE DEF f
<1> QED BY <1>1, <1>3, <1>4 DEF size, auth, body

-----------------------------------------------------------------------------
(* Datagrams as the parsing constructor sees them. *)

(* bytes begin with a header that announces the pieces, and are cut off or
   hold all of them. *)
WellFramed(bytes, pieces) ==
    /\ bytes \in Seq(Byte) /\ pieces \in Seq(Seq(Byte))
    /\ \A i \in 1 .. Len(pieces) : FramedPiece(pieces[i])
    /\ Len(bytes) >= 20 =>
          /\ bytes[3] * 256 + bytes[4] = 20 + Len(FlattenSeq(pieces))
          /\ Authenticator(bytes) \in [1 .. 16 -> Byte]
    /\ Len(bytes) >= 20 + Len(FlattenSeq(pieces)) =>
          \A j \in 1 .. Len(FlattenSeq(pieces)) : bytes[20 + j] = FlattenSeq(pieces)[j]

(* What the library sends is well framed. *)
LEMMA SentFramed ==
    ASSUME DigestTyped, NEW p, Sendable(p)
    PROVE  WellFramed(MakeSendBuffer(p), Pieces(p))
<1> DEFINE b == MakeSendBuffer(p)
<1>1. /\ b \in Seq(Byte) /\ b[3] * 256 + b[4] = 20 + Len(Body(p))
      /\ Authenticator(b) = WireAuth(p)
      /\ \A j \in 1 .. Len(Body(p)) : b[20 + j] = Body(p)[j]
  BY SendBufferBytes, ZenonT(40) DEF HasParts
<1>2. WireAuth(p) \in [1 .. 16 -> Byte]
  BY SendBuffer
<1>3. Pieces(p) \in Seq(Seq(Byte)) /\ \A i \in 1 .. Len(Pieces(p)) : FramedPiece(Pieces(p)[i])
  <2>1. Fits(p.attributes, p.vendors) /\ p.auth \in [1 .. 16 -> Byte]
    BY DEF Sendable
  <2> QED BY <2>1, PiecesOf
<1>4. Body(p) = FlattenSeq(Pieces(p))
  BY DEF Body
<1> HIDE DEF b
<1>5. WellFramed(b, Pieces(p))
  BY <1>1, <1>2, <1>3, <1>4 DEF WellFramed
<1> QED BY <1>5 DEF b

(* An attribute of a foreign datagram is well framed and carries the item's
   type and data. *)
LEMMA ItemPieceOf ==
    ASSUME NEW d, IsDatagram(d), NEW i \in 1 .. Len(d.items)
    PROVE  /\ d.items[i] \in Item /\ ItemPieces(d)[i] = ItemBytes(d.items[i])
           /\ FramedPiece(ItemBytes(d.items[i]))
           /\ ItemBytes(d.items[i])[1] = d.items[i].type
           /\ PieceData(ItemBytes(d.items[i])) = d.items[i].data
<1> DEFINE item == d.items[i]
           data == item.data
           type == item.type
           size == 2 + Len(data)
<1>1. item \in Item
  <2>1. d.items \in Seq(Item)
    BY DEF IsDatagram
  <2> QED BY <2>1, ElementOfSeq
<1>2. data \in Seq(Byte) /\ type \in Byte /\ Len(data) \in Nat
  BY <1>1, LenProperties DEF Item
<1>3. Len(data) <= 253 /\ (type = VENDOR_SPECIFIC => Len(data) >= 6 /\ data[6] \in 2 .. Len(data) - 4)
  <2>1. i \in DOMAIN d.items
    BY LenProperties DEF IsDatagram
  <2>2. \A j \in DOMAIN d.items :
           /\ Len(d.items[j].data) <= 253
           /\ d.items[j].type = VENDOR_SPECIFIC =>
                 Len(d.items[j].data) >= 6 /\ d.items[j].data[6] \in 2 .. Len(d.items[j].data) - 4
    BY DEF IsDatagram
  <2> QED BY <2>1, <2>2, Zenon
<1> HIDE DEF data, type
<1>4. size \in Byte /\ size \in 2 .. 255 /\ size \in Nat
  <2>1. \A n \in Nat : n <= 253 => 2 + n \in 2 .. 255 /\ 2 + n \in Nat /\ 2 + n <= 255
    OBVIOUS
  <2>2. size \in 2 .. 255 /\ size \in Nat /\ size <= 255
    BY <1>2, <1>3, <2>1
  <2> HIDE DEF size
  <2> QED BY <2>2, SmallNumbers
<1>5. size = 2 + Len(data)
  OBVIOUS
<1> HIDE DEF size
<1> DEFINE piece == <<type, size>> \o data
<1>6. /\ piece \in Seq(Byte) /\ Len(piece) = 2 + Len(data)
      /\ piece[1] = type /\ piece[2] = size
      /\ \A j \in 1 .. Len(data) : piece[2 + j] = data[j]
      /\ PieceData(piece) = data
  BY <1>2, <1>4, HeaderOf
<1> HIDE DEF piece
<1>7. type = VENDOR_SPECIFIC => Len(piece) >= 8 /\ piece[8] \in 2 .. Len(piece) - 6
  <2> SUFFICES ASSUME type = VENDOR_SPECIFIC
               PROVE  Len(piece) >= 8 /\ piece[8] \in 2 .. Len(piece) - 6
    OBVIOUS
  <2>1. Len(data) >= 6 /\ data[6] \in 2 .. Len(data) - 4
    BY <1>3
  <2>2. 6 \in 1 .. Len(data) /\ 2 + 6 = 8
    BY <1>2, <2>1
  <2>3. piece[8] = data[6]
    BY <1>6, <2>2
  <2>4. Len(piece) - 6 = Len(data) - 4 /\ Len(piece) >= 8
    BY <1>2, <1>6, <2>1
  <2> QED BY <2>1, <2>3, <2>4
<1>8. FramedPiece(piece)
  BY <1>4, <1>5, <1>6, <1>7 DEF FramedPiece
<1>9. piece = ItemBytes(item)
  BY <1>5 DEF ItemBytes, piece, type, data
<1>10. ItemPieces(d)[i] = ItemBytes(item)
  BY DEF ItemPieces
<1> QED BY <1>1, <1>6, <1>8, <1>9, <1>10 DEF type, data

(* All of them are. *)
LEMMA ItemPiecesOf ==
    ASSUME NEW d, IsDatagram(d)
    PROVE  /\ ItemPieces(d) \in Seq(Seq(Byte)) /\ Len(ItemPieces(d)) = Len(d.items)
           /\ \A i \in 1 .. Len(d.items) : FramedPiece(ItemPieces(d)[i])
<1> DEFINE e(i) == ItemBytes(d.items[i])
<1>1. Len(d.items) \in Nat
  BY LenProperties DEF IsDatagram
<1>2. \A i \in 1 .. Len(d.items) : FramedPiece(e(i))
  BY ItemPieceOf
<1>3. \A i \in 1 .. Len(d.items) : e(i) \in Seq(Byte)
  <2>1. \A piece : FramedPiece(piece) => piece \in Seq(Byte)
    BY DEF FramedPiece
  <2> QED BY <1>2, <2>1, Zenon
<1>4. ItemPieces(d) = [i \in 1 .. Len(d.items) |-> e(i)]
  BY DEF ItemPieces
<1> HIDE DEF e
<1>5. ItemPieces(d) \in Seq(Seq(Byte)) /\ Len(ItemPieces(d)) = Len(d.items)
  BY <1>1, <1>3, <1>4
<1>6. \A i \in 1 .. Len(d.items) : ItemPieces(d)[i] = e(i)
  BY <1>4
<1> QED BY <1>2, <1>5, <1>6

(* A foreign datagram is well framed, and it is complete unless more bytes
   are missing than were padded. *)
LEMMA ReceivedFramed ==
    ASSUME NEW d, IsDatagram(d)
    PROVE  /\ WellFramed(ReceivedBytes(d), ItemPieces(d))
           /\ d.missing <= Len(d.padding)
                 <=> Len(ReceivedBytes(d)) >= 20 + Len(FlattenSeq(ItemPieces(d)))
           /\ Len(FlattenSeq(ItemPieces(d))) \in Nat
           /\ Len(ReceivedBytes(d)) >= 20 =>
                 /\ Authenticator(ReceivedBytes(d)) = d.auth
                 /\ ReceivedBytes(d)[1] = d.type /\ ReceivedBytes(d)[2] = d.id
<1> DEFINE pieces == ItemPieces(d)
           body == FlattenSeq(pieces)
           size == 20 + Len(body)
           f == Frame(d.type, d.id, size, d.auth, body)
           w == f \o d.padding
           n == Len(w) - d.missing
           b == SubSeq(w, 1, n)
<1>1. /\ d.type \in Byte /\ d.id \in Byte /\ d.auth \in [1 .. 16 -> Byte]
      /\ d.padding \in Seq(Byte) /\ d.missing \in Nat /\ Len(body) + 20 < 65536
  BY DEF IsDatagram
<1>2. pieces \in Seq(Seq(Byte)) /\ \A i \in 1 .. Len(pieces) : FramedPiece(pieces[i])
  BY ItemPiecesOf
<1>3. ReceivedBytes(d) = b
  BY DEF ReceivedBytes, WholeBytes, Frame
<1> HIDE DEF pieces
<1>4. body \in Seq(Byte) /\ Len(body) \in Nat /\ Len(d.padding) \in Nat
  <2>1. body \in Seq(Byte)
    BY <1>2, FlattenType
  <2> QED BY <1>1, <2>1, LenProperties
<1> HIDE DEF body
<1>5. size \in Nat /\ size < 65536 /\ size >= 20
  BY <1>1, <1>4, SMTT(30)
<1> HIDE DEF size
<1>6. /\ f \in Seq(Byte) /\ Len(f) = 20 + Len(body)
      /\ f[3] * 256 + f[4] = size /\ Authenticator(f) = d.auth
      /\ f[1] = d.type /\ f[2] = d.id
      /\ \A j \in 1 .. Len(body) : f[20 + j] = body[j]
  <2>0. d.type \in Byte /\ d.id \in Byte /\ d.auth \in [1 .. 16 -> Byte] /\ body \in Seq(Byte)
    BY <1>1, <1>4
  <2>a. ArePartsOf(d.type, d.id, size, d.auth, body)
    BY <1>5, <2>0 DEF ArePartsOf
  <2>1. HasParts(f, d.type, d.id, size, d.auth, body)
    BY <2>a, FrameBytes
  <2> HIDE DEF f
  <2> QED BY <2>1 DEF HasParts
<1> HIDE DEF f
<1>7. /\ w \in Seq(Byte) /\ Len(w) = Len(f) + Len(d.padding)
      /\ \A j \in 1 .. Len(f) : w[j] = f[j]
  <2>0. f \in Seq(Byte) /\ d.padding \in Seq(Byte)
    BY <1>1, <1>6
  <2>1. w \in Seq(Byte) /\ Len(w) = Len(f) + Len(d.padding)
    BY <2>0, ConcatParts
  <2>2. \A j \in 1 .. Len(f) : w[j] = f[j]
    BY <2>0, ConcatParts
  <2> QED BY <2>1, <2>2
<1> HIDE DEF w
<1>8. n \in Int /\ n <= Len(w) /\ Len(w) \in Nat /\ Len(w) = size + Len(d.padding)
      /\ (n >= size <=> d.missing <= Len(d.padding))
  <2> DEFINE m == d.missing
             r == Len(d.padding)
  <2>1. \A l \in Nat : Len(w) = 20 + l + r => Len(w) - m \in Int /\ Len(w) - m <= Len(w)
           /\ Len(w) \in Nat /\ Len(w) = (20 + l) + r /\ (Len(w) - m >= 20 + l <=> m <= r)
    <3>1. m \in Nat /\ r \in Nat
      BY <1>1, <1>4
    <3> HIDE DEF m, r
    <3> QED BY <3>1
  <2>2. Len(w) = 20 + Len(body) + r /\ Len(body) \in Nat
    BY <1>4, <1>6, <1>7
  <2> HIDE DEF m, r
  <2>3. /\ Len(w) - m \in Int /\ Len(w) - m <= Len(w) /\ Len(w) \in Nat
        /\ Len(w) = (20 + Len(body)) + r /\ (Len(w) - m >= 20 + Len(body) <=> m <= r)
    BY <2>1, <2>2
  <2> QED BY <2>3 DEF size, m, r
<1> HIDE DEF n
<1>9. /\ b \in Seq(Byte) /\ Len(b) \in Nat /\ (Len(b) = n \/ (n < 1 /\ Len(b) = 0))
      /\ \A j \in 1 .. Len(b) : b[j] = w[j]
  <2>1. CASE n < 1
    <3>1. b = <<>>
      BY <1>8, <2>1, SubSeqEmpty
    <3>2. <<>> \in Seq(Byte) /\ Len(<<>>) = 0 /\ Len(<<>>) \in Nat /\ \A j \in 1 .. Len(<<>>) : <<>>[j] = w[j]
      OBVIOUS
    <3> HIDE DEF b
    <3> QED BY <2>1, <3>1, <3>2, Zenon
  <2>2. CASE ~(n < 1)
    <3>1. n \in 0 .. Len(w) /\ n \in Nat
      BY <1>8, <2>2
    <3>2. b \in Seq(Byte) /\ Len(b) = n /\ \A j \in 1 .. n : b[j] = w[j]
      BY <1>7, <3>1, FirstPieces
    <3> HIDE DEF b
    <3> QED BY <3>1, <3>2
  <2> QED BY <2>1, <2>2
<1> HIDE DEF b
<1>10. Len(b) >= 20 + Len(body) <=> d.missing <= Len(d.padding)
  BY <1>5, <1>8, <1>9 DEF size
<1>11. ASSUME Len(b) >= 20
       PROVE  /\ b[3] * 256 + b[4] = size /\ Authenticator(b) = d.auth
              /\ b[1] = d.type /\ b[2] = d.id
  <2>1. \A j \in 1 .. 20 : j \in 1 .. Len(b) /\ j \in 1 .. Len(f)
    <3>1. Len(f) \in Nat /\ Len(f) >= 20
      BY <1>4, <1>6
    <3>2. Len(b) \in Nat /\ Len(b) >= 20
      BY <1>9, <1>11
    <3> HIDE DEF f
    <3>3. \A x \in Nat : x >= 20 => \A j \in 1 .. 20 : j \in 1 .. x
      OBVIOUS
    <3> QED BY <3>1, <3>2, <3>3
  <2>2. \A j \in 1 .. 20 : b[j] = f[j] /\ b[j] \in Byte /\ f[j] \in Byte
    BY <1>6, <1>7, <1>9, <2>1, ElementOfSeq
  <2>3. SubSeq(b, 5, 20) = SubSeq(f, 5, 20)
    <3>0. 5 \in Int /\ 20 \in Int /\ 20 - 5 + 1 = 16 /\ 5 <= 20
      OBVIOUS
    <3>1. \A i \in 5 .. 20 : b[i] \in Byte /\ f[i] \in Byte
      BY <2>2
    <3>2. /\ SubSeq(b, 5, 20) \in Seq(Byte) /\ Len(SubSeq(b, 5, 20)) = 16
          /\ \A i \in 1 .. 16 : SubSeq(b, 5, 20)[i] = b[5 + i - 1]
      BY <3>0, <3>1, SubSeqProperties
    <3>3. /\ SubSeq(f, 5, 20) \in Seq(Byte) /\ Len(SubSeq(f, 5, 20)) = 16
          /\ \A i \in 1 .. 16 : SubSeq(f, 5, 20)[i] = f[5 + i - 1]
      BY <3>0, <3>1, SubSeqProperties
    <3>4. ASSUME NEW i \in 1 .. 16 PROVE SubSeq(b, 5, 20)[i] = SubSeq(f, 5, 20)[i]
      <4>1. 5 + i - 1 \in 1 .. 20
        OBVIOUS
      <4> QED BY <2>2, <3>2, <3>3, <4>1
    <3> QED BY <3>2, <3>3, <3>4, SeqEqual
  <2>4. Authenticator(b) = d.auth
    BY <1>6, <2>3 DEF Authenticator
  <2> QED BY <1>6, <2>2, <2>4, SMTT(30)
<1>12. ASSUME Len(b) >= 20 + Len(body), NEW j \in 1 .. Len(body)
       PROVE  b[20 + j] = body[j]
  <2> SUFFICES ASSUME NEW k, k = 20 + j PROVE b[k] = body[j]
    OBVIOUS
  <2>1. k \in 1 .. Len(b) /\ k \in 1 .. Len(f)
    BY <1>4, <1>6, <1>9, <1>12
  <2>2. f[k] = body[j]
    BY <1>6
  <2>3. b[k] = w[k] /\ w[k] = f[k]
    BY <1>7, <1>9, <2>1
  <2> QED BY <2>2, <2>3
<1>13. WellFramed(b, pieces)
  BY <1>1, <1>2, <1>9, <1>11, <1>12 DEF WellFramed, size, body
<1> QED BY <1>3, <1>4, <1>10, <1>11, <1>13 DEF pieces, body

-----------------------------------------------------------------------------
(* Sequences of lists, and numbers. *)

(* A sequence of which the pieces in one range hold one element each. *)
LEMMA FlattenPick ==
    ASSUME NEW S, NEW s \in Seq(Seq(S)), NEW x \in Seq(S), NEW lo \in Nat, lo + Len(x) <= Len(s),
           \A i \in 1 .. Len(s) :
              s[i] = IF lo < i /\ i <= lo + Len(x) THEN <<x[i - lo]>> ELSE <<>>
    PROVE  FlattenSeq(s) = x
<1> DEFINE n == Len(x)
           Count(k) == IF k <= lo THEN 0 ELSE IF k <= lo + n THEN k - lo ELSE n
           Done(k) == /\ Len(Flat(s, k)) = Count(k)
                      /\ \A j \in 1 .. Count(k) : Flat(s, k)[j] = x[j]
           T == {k \in Nat : k <= Len(s) => Done(k)}
<1>1. Len(s) \in Nat /\ n \in Nat
  BY LenProperties
<1>2. 0 \in T
  <2>1. 0 \in 0 .. Len(s)
    BY <1>1
  <2>2. Flat(s, 0) = <<>>
    BY <2>1, FlatType
  <2>3. Count(0) = 0
    BY <1>1
  <2>4. Len(Flat(s, 0)) = 0
    BY <2>2
  <2>5. \A j \in 1 .. 0 : Flat(s, 0)[j] = x[j]
    OBVIOUS
  <2> HIDE DEF Count
  <2> QED BY <2>3, <2>4, <2>5
<1>3. ASSUME NEW k \in Nat, k \in T PROVE k + 1 \in T
  <2>1. SUFFICES ASSUME k + 1 <= Len(s) PROVE Done(k + 1)
    BY <1>3, SMTT(30)
  <2>2. k <= Len(s) /\ k \in 0 .. Len(s) - 1 /\ k \in 0 .. Len(s) /\ k + 1 \in 1 .. Len(s)
    BY <1>1, <2>1
  <2>3. Done(k)
    <3> HIDE DEF Done
    <3> QED BY <1>3, <2>2
  <2> DEFINE c == Count(k)
             a == Flat(s, k)
             b == Flat(s, k + 1)
             piece == s[k + 1]
  <2>4. b = a \o piece /\ a \in Seq(S) /\ Len(a) = c /\ \A j \in 1 .. c : a[j] = x[j]
    <3>1. b = a \o piece
      BY <2>2, FlatStep
    <3>2. a \in Seq(S)
      BY <2>2, FlatType
    <3> HIDE DEF a, b, c, Count
    <3> QED BY <2>3, <3>1, <3>2 DEF a, c
  <2>5. c \in Nat
    BY <1>1
  <2>6. CASE lo < k + 1 /\ k + 1 <= lo + n
    <3> DEFINE e == x[(k + 1) - lo]
    <3>1. piece = <<e>> /\ (k + 1) - lo \in 1 .. n
      <4>1. piece = <<e>>
        BY <2>2, <2>6
      <4>2. n \in Nat /\ lo < k + 1 /\ k + 1 <= lo + n
        BY <1>1, <2>6
      <4> HIDE DEF n
      <4>3. (k + 1) - lo \in 1 .. n
        BY <4>2
      <4> QED BY <4>1, <4>3
    <3>2. c = k - lo /\ Count(k + 1) = c + 1 /\ c + 1 = (k + 1) - lo
      <4>1. \A p, q, r \in Nat : q < p + 1 /\ p + 1 <= q + r =>
               /\ (IF p <= q THEN 0 ELSE IF p <= q + r THEN p - q ELSE r) = p - q
               /\ (IF p + 1 <= q THEN 0 ELSE IF p + 1 <= q + r THEN (p + 1) - q ELSE r) = (p - q) + 1
               /\ (p - q) + 1 = (p + 1) - q
        OBVIOUS
      <4> HIDE DEF n
      <4> QED BY <1>1, <2>6, <4>1
    <3>3. e \in S
      BY <3>1, ElementOfSeq
    <3>4. e = x[c + 1]
      BY <3>2
    <3> HIDE DEF a, b, c, Count, piece, e
    <3>5. Len(b) = c + 1 /\ \A j \in 1 .. c : b[j] = a[j]
      BY <2>4, <2>5, <3>1, <3>3
    <3>6. b[c + 1] = e
      BY <2>4, <2>5, <3>1, <3>3, SMTT(30)
    <3>7. \A j \in 1 .. c + 1 : j \in 1 .. c \/ j = c + 1
      BY <2>5
    <3> QED BY <2>4, <3>2, <3>4, <3>5, <3>6, <3>7 DEF b
  <2>7. CASE ~(lo < k + 1 /\ k + 1 <= lo + n)
    <3>1. piece = <<>>
      BY <2>2, <2>7
    <3>2. Count(k + 1) = c
      <4>1. \A p, q, r \in Nat : ~(q < p + 1 /\ p + 1 <= q + r) =>
               (IF p + 1 <= q THEN 0 ELSE IF p + 1 <= q + r THEN (p + 1) - q ELSE r)
                 = (IF p <= q THEN 0 ELSE IF p <= q + r THEN p - q ELSE r)
        OBVIOUS
      <4> HIDE DEF n
      <4> QED BY <1>1, <2>7, <4>1
    <3>3. b = a
      <4> HIDE DEF a, b, c, Count, piece
      <4>1. a \o <<>> = a
        BY <2>4
      <4> QED BY <2>4, <3>1, <4>1
    <3> HIDE DEF a, b, c, Count, piece
    <3> QED BY <2>4, <3>2, <3>3 DEF b
  <2> QED BY <2>6, <2>7
<1> HIDE DEF T
<1>4. \A k \in Nat : k \in T
  BY <1>2, <1>3, SetInduction
<1>5. Done(Len(s))
  <2>1. Len(s) \in T
    BY <1>1, <1>4
  <2> HIDE DEF Done
  <2> QED BY <1>1, <2>1 DEF T
<1>6. Count(Len(s)) = n
  <2>1. \A p, q, r \in Nat : q + r <= p =>
           (IF p <= q THEN 0 ELSE IF p <= q + r THEN p - q ELSE r) = r
    OBVIOUS
  <2> HIDE DEF n
  <2> QED BY <1>1, <2>1 DEF n
<1>7. Flat(s, Len(s)) = FlattenSeq(s)
  <2>1. Len(s) \in 0 .. Len(s)
    BY <1>1
  <2> QED BY <2>1, FlatType
<1>8. FlattenSeq(s) \in Seq(S)
  BY FlattenType
<1> HIDE DEF Count
<1>9. Len(FlattenSeq(s)) = Len(x) /\ \A j \in 1 .. Len(x) : FlattenSeq(s)[j] = x[j]
  BY <1>5, <1>6, <1>7
<1> QED BY <1>8, <1>9, SeqEqual

(* Sequences that are related element by element stay so when flattened. *)
LEMMA FlattenRelated ==
    ASSUME NEW S, NEW s \in Seq(Seq(S)), NEW t \in Seq(Seq(S)), NEW R, Len(s) = Len(t),
           \A i \in 1 .. Len(s) :
              Len(s[i]) = Len(t[i]) /\ \A j \in 1 .. Len(s[i]) : <<s[i][j], t[i][j]>> \in R
    PROVE  /\ Len(FlattenSeq(s)) = Len(FlattenSeq(t))
           /\ \A j \in 1 .. Len(FlattenSeq(s)) : <<FlattenSeq(s)[j], FlattenSeq(t)[j]>> \in R
<1> DEFINE Done(k) == /\ Len(Flat(s, k)) = Len(Flat(t, k))
                      /\ \A j \in 1 .. Len(Flat(s, k)) : <<Flat(s, k)[j], Flat(t, k)[j]>> \in R
           T == {k \in Nat : k <= Len(s) => Done(k)}
<1>1. Len(s) \in Nat
  BY LenProperties
<1>2. 0 \in T
  <2>1. 0 \in 0 .. Len(s) /\ 0 \in 0 .. Len(t)
    BY <1>1
  <2>2. Flat(s, 0) = <<>>
    BY <2>1, FlatType
  <2>3. Flat(t, 0) = <<>>
    BY <2>1, FlatType
  <2> QED BY <2>2, <2>3
<1>3. ASSUME NEW k \in Nat, k \in T PROVE k + 1 \in T
  <2>1. SUFFICES ASSUME k + 1 <= Len(s) PROVE Done(k + 1)
    BY <1>3
  <2>2. /\ k <= Len(s) /\ k \in 0 .. Len(s) - 1 /\ k \in 0 .. Len(s) /\ k + 1 \in 1 .. Len(s)
        /\ k \in 0 .. Len(t) - 1 /\ k \in 0 .. Len(t) /\ k + 1 \in 1 .. Len(t)
    BY <1>1, <2>1
  <2>3. Done(k)
    <3> HIDE DEF Done
    <3> QED BY <1>3, <2>2
  <2> DEFINE a == Flat(s, k)
             b == s[k + 1]
             u == Flat(s, k + 1)
             c == Flat(t, k)
             d == t[k + 1]
             w == Flat(t, k + 1)
  <2>4. u = a \o b /\ a \in Seq(S) /\ b \in Seq(S)
    <3>1. u = a \o b
      BY <2>2, FlatStep
    <3>2. a \in Seq(S)
      BY <2>2, FlatType
    <3>3. b \in Seq(S)
      BY <2>2, ElementOfSeq
    <3> QED BY <3>1, <3>2, <3>3
  <2>5. w = c \o d /\ c \in Seq(S) /\ d \in Seq(S)
    <3>1. w = c \o d
      BY <2>2, FlatStep
    <3>2. c \in Seq(S)
      BY <2>2, FlatType
    <3>3. d \in Seq(S)
      BY <2>2, ElementOfSeq
    <3> QED BY <3>1, <3>2, <3>3
  <2>6. Len(b) = Len(d) /\ \A j \in 1 .. Len(b) : <<b[j], d[j]>> \in R
    BY <2>2
  <2>7. Len(a) = Len(c) /\ \A j \in 1 .. Len(a) : <<a[j], c[j]>> \in R
    BY <2>3
  <2> HIDE DEF a, b, c, d, u, w
  <2>8. /\ Len(u) = Len(a) + Len(b) /\ \A j \in 1 .. Len(a) : u[j] = a[j]
        /\ \A j \in 1 .. Len(b) : u[Len(a) + j] = b[j]
    BY <2>4, ConcatParts
  <2>9. /\ Len(w) = Len(c) + Len(d) /\ \A j \in 1 .. Len(c) : w[j] = c[j]
        /\ \A j \in 1 .. Len(d) : w[Len(c) + j] = d[j]
    BY <2>5, ConcatParts
  <2>10. Len(a) \in Nat /\ Len(b) \in Nat
    BY <2>4, LenProperties
  <2>11. ASSUME NEW j \in 1 .. Len(u) PROVE <<u[j], w[j]>> \in R
    <3>1. CASE j \in 1 .. Len(a)
      BY <2>7, <2>8, <2>9, <3>1
    <3>2. CASE j \notin 1 .. Len(a)
      <4>1. j - Len(a) \in 1 .. Len(b) /\ Len(a) + (j - Len(a)) = j
        BY <2>8, <2>10, <3>2
      <4> DEFINE i == j - Len(a)
      <4>2. i \in 1 .. Len(b) /\ Len(a) + i = j
        BY <4>1
      <4> HIDE DEF i
      <4>3. u[j] = b[i] /\ w[j] = d[i]
        BY <2>6, <2>7, <2>8, <2>9, <4>2
      <4> QED BY <2>6, <4>2, <4>3
    <3> QED BY <3>1, <3>2
  <2>12. Len(u) = Len(w)
    BY <2>6, <2>7, <2>8, <2>9
  <2> QED BY <2>11, <2>12 DEF u, w
<1> HIDE DEF T
<1>4. \A k \in Nat : k \in T
  BY <1>2, <1>3, SetInduction
<1>5. Done(Len(s))
  <2>1. Len(s) \in T
    BY <1>1, <1>4
  <2> HIDE DEF Done
  <2> QED BY <1>1, <2>1 DEF T
<1>6. Flat(s, Len(s)) = FlattenSeq(s)
  <2>1. Len(s) \in 0 .. Len(s)
    BY <1>1
  <2> QED BY <2>1, FlatType
<1>7. Flat(t, Len(t)) = FlattenSeq(t)
  <2>1. Len(t) \in 0 .. Len(t)
    BY <1>1
  <2> QED BY <2>1, FlatType
<1> QED BY <1>5, <1>6, <1>7

(* A number keeps its value when zeros are put before it. *)
LEMMA NumberPadded ==
    ASSUME NEW d \in Seq(Byte), NEW m \in Nat
    PROVE  Number(Zeros(m) \o d) = Number(d)
<1> DEFINE z == Zeros(m) \o d
           u == SelectInSeq(z, LAMBDA b : b # 0)
           v == SelectInSeq(d, LAMBDA b : b # 0)
<1>1. /\ z \in Seq(Byte) /\ Len(z) = m + Len(d)
      /\ \A i \in 1 .. m : z[i] = 0
      /\ \A i \in 1 .. Len(d) : z[m + i] = d[i]
  <2>1. Zeros(m) \in Seq(Byte) /\ Len(Zeros(m)) = m /\ \A i \in 1 .. m : Zeros(m)[i] = 0
    BY ZerosType
  <2>2. /\ z \in Seq(Byte) /\ Len(z) = Len(Zeros(m)) + Len(d)
        /\ \A i \in 1 .. Len(Zeros(m)) : z[i] = Zeros(m)[i]
        /\ \A i \in 1 .. Len(d) : z[Len(Zeros(m)) + i] = d[i]
    <3>1. ASSUME NEW y \in Seq(Byte)
          PROVE  /\ y \o d \in Seq(Byte) /\ Len(y \o d) = Len(y) + Len(d)
                 /\ \A i \in 1 .. Len(y) : (y \o d)[i] = y[i]
                 /\ \A i \in 1 .. Len(d) : (y \o d)[Len(y) + i] = d[i]
      <4> HIDE DEF z
      <4> QED BY ConcatParts
    <3> QED BY <2>1, <3>1
  <2> HIDE DEF z
  <2> QED BY <2>1, <2>2
<1>2. Len(d) \in Nat
  BY LenProperties
<1> HIDE DEF z
<1>3. /\ u \in 0 .. m + Len(d)
      /\ u = 0 => \A i \in 1 .. m + Len(d) : z[i] = 0
      /\ u # 0 => z[u] # 0 /\ \A i \in 1 .. u - 1 : z[i] = 0
  BY <1>1, FirstDigit
<1>4. /\ v \in 0 .. Len(d)
      /\ v = 0 => \A i \in 1 .. Len(d) : d[i] = 0
      /\ v # 0 => d[v] # 0 /\ \A i \in 1 .. v - 1 : d[i] = 0
  BY FirstDigit
<1>5. Number(z) = (IF u = 0 THEN <<>> ELSE SubSeq(z, u, Len(z)))
  BY DEF Number
<1>6. Number(d) = (IF v = 0 THEN <<>> ELSE SubSeq(d, v, Len(d)))
  BY DEF Number
<1> HIDE DEF u, v
<1>7. CASE v = 0
  <2>1. u = 0
    <3>1. SUFFICES ASSUME u # 0 PROVE FALSE
      OBVIOUS
    <3>2. z[u] # 0 /\ u \in 1 .. m + Len(d)
      BY <1>3, <3>1
    <3>3. CASE u <= m
      BY <1>1, <3>2, <3>3
    <3>4. CASE u > m
      <4> DEFINE i == u - m
      <4>1. i \in 1 .. Len(d) /\ m + i = u
        BY <1>2, <3>2, <3>4
      <4> HIDE DEF i
      <4> QED BY <1>1, <1>4, <1>7, <3>2, <4>1
    <3> QED BY <1>2, <3>2, <3>3, <3>4
  <2> QED BY <1>5, <1>6, <1>7, <2>1 DEF z
<1>8. CASE v # 0
  <2>1. v \in 1 .. Len(d) /\ d[v] # 0 /\ \A i \in 1 .. v - 1 : d[i] = 0
    BY <1>4, <1>8
  <2>2. m + v \in 1 .. m + Len(d) /\ z[m + v] # 0
    BY <1>1, <1>2, <2>1
  <2>3. u # 0
    BY <1>3, <2>2
  <2>4. u = m + v
    <3>1. u \in 1 .. m + Len(d) /\ z[u] # 0 /\ \A i \in 1 .. u - 1 : z[i] = 0
      BY <1>3, <2>3
    <3>2. ~(m + v < u)
      <4>1. m + v < u => m + v \in 1 .. u - 1
        BY <2>1, <2>2, <3>1
      <4> QED BY <2>2, <3>1, <4>1
    <3>3. ~(u <= m)
      <4>1. u <= m => u \in 1 .. m
        BY <3>1
      <4> QED BY <1>1, <3>1, <4>1
    <3>4. ~(m < u /\ u < m + v)
      <4>1. SUFFICES ASSUME m < u, u < m + v PROVE FALSE
        OBVIOUS
      <4> DEFINE i == u - m
      <4>2. i \in 1 .. v - 1 /\ i \in 1 .. Len(d) /\ m + i = u
        BY <1>2, <2>1, <3>1, <4>1
      <4> HIDE DEF i
      <4> QED BY <1>1, <2>1, <3>1, <4>2
    <3> QED BY <1>2, <2>1, <3>1, <3>2, <3>3, <3>4
  <2> DEFINE l == Len(d)
             x == SubSeq(z, m + v, m + l)
             y == SubSeq(d, v, l)
  <2>5. l \in Nat /\ l = Len(d) /\ v \in 1 .. l
    BY <1>2, <2>1
  <2> HIDE DEF l
  <2>6. /\ x \in Seq(Byte) /\ Len(x) = IF m + v <= m + l THEN (m + l) - (m + v) + 1 ELSE 0
        /\ \A i \in 1 .. (m + l) - (m + v) + 1 : x[i] = z[(m + v) + i - 1]
    <3>1. m + v \in Int /\ m + l \in Int /\ \A i \in m + v .. m + l : i \in 1 .. Len(z)
      BY <1>1, <2>5
    <3>2. \A i \in m + v .. m + l : z[i] \in Byte
      BY <1>1, <3>1, ElementOfSeq
    <3> QED BY <3>1, <3>2, SubSeqProperties
  <2>7. /\ y \in Seq(Byte) /\ Len(y) = IF v <= l THEN l - v + 1 ELSE 0
        /\ \A i \in 1 .. l - v + 1 : y[i] = d[v + i - 1]
    <3>1. v \in Int /\ l \in Int /\ \A i \in v .. l : i \in 1 .. Len(d)
      BY <2>5
    <3>2. \A i \in v .. l : d[i] \in Byte
      BY <3>1, ElementOfSeq
    <3> QED BY <3>1, <3>2, SubSeqProperties
  <2>8. (m + l) - (m + v) + 1 = l - v + 1 /\ v <= l /\ m + v <= m + l
    BY <2>5
  <2> HIDE DEF x, y
  <2>9. ASSUME NEW i \in 1 .. l - v + 1 PROVE x[i] = y[i]
    <3>1. x[i] = z[(m + v) + i - 1] /\ y[i] = d[v + i - 1]
      BY <2>6, <2>7, <2>8
    <3> DEFINE e == v + i - 1
    <3>2. (m + v) + i - 1 = m + e /\ e \in 1 .. Len(d)
      BY <2>5
    <3>3. z[m + e] = d[e]
      <4> HIDE DEF e
      <4> QED BY <1>1, <3>2
    <3> QED BY <3>1, <3>2, <3>3
  <2>10. Len(x) = l - v + 1 /\ Len(y) = l - v + 1
    BY <2>6, <2>7, <2>8
  <2>11. x = y
    BY <2>6, <2>7, <2>9, <2>10, SeqEqual
  <2> QED BY <1>1, <1>5, <1>6, <1>8, <2>3, <2>4, <2>5, <2>11 DEF x, y, z
<1> QED BY <1>7, <1>8 DEF z

-----------------------------------------------------------------------------
-----------------------------------------------------------------------------
(* What is read. *)

(* The constructor refuses this attribute. *)
Refused(piece) ==
    IF piece[1] = VENDOR_SPECIFIC THEN VendorFault(PieceData(piece)) # "none"
    ELSE SizeFault(ClassOf(piece[1]), Len(PieceData(piece))) # "none"

(* What an attribute on the wire adds to the packet's attributes ... *)
AttributesIn(piece, auth) ==
    IF piece[1] = VENDOR_SPECIFIC THEN <<>>
    ELSE <<MakeAttribute(piece[1], PieceData(piece), auth)>>

(* ... and to its vendor attributes. *)
VendorsIn(piece) ==
    IF piece[1] = VENDOR_SPECIFIC THEN <<MakeVendor(PieceData(piece))>> ELSE <<>>

(* The same for all attributes on the wire. *)
AllAttributesIn(pieces, auth) == [i \in 1 .. Len(pieces) |-> AttributesIn(pieces[i], auth)]
(* The vendor attributes of them all. *)
AllVendorsIn(pieces) == [i \in 1 .. Len(pieces) |-> VendorsIn(pieces[i])]

(* The packet when k attributes have been read. *)
Read(bytes, pieces, k) ==
    [type |-> bytes[1], id |-> bytes[2], recalc |-> FALSE, auth |-> Authenticator(bytes),
     attributes |-> Flat(AllAttributesIn(pieces, Authenticator(bytes)), k),
     vendors |-> Flat(AllVendorsIn(pieces), k)]

-----------------------------------------------------------------------------
(* The loop at a piece. *)

(* The bytes behind the first at ones are those of piece. *)
StandsAt(bytes, at, piece) ==
    /\ bytes \in Seq(Byte) /\ FramedPiece(piece) /\ at \in Nat /\ at + Len(piece) <= Len(bytes)
    /\ \A j \in 1 .. Len(piece) : bytes[at + j] = piece[j]

(* Behind the first k pieces stands the next one. *)
LEMMA AtPiece ==
    ASSUME NEW bytes, NEW pieces, WellFramed(bytes, pieces),
           Len(bytes) >= 20 + Len(FlattenSeq(pieces)), NEW k \in 0 .. Len(pieces) - 1
    PROVE  StandsAt(bytes, 20 + Len(Flat(pieces, k)), pieces[k + 1])
<1> DEFINE all == FlattenSeq(pieces)
           before == Len(Flat(pieces, k))
           piece == pieces[k + 1]
<1>1. /\ bytes \in Seq(Byte) /\ pieces \in Seq(Seq(Byte))
      /\ \A j \in 1 .. Len(all) : bytes[20 + j] = all[j]
      /\ \A i \in 1 .. Len(pieces) : FramedPiece(pieces[i])
  BY DEF WellFramed
<1>2. Len(pieces) \in Nat /\ k \in 0 .. Len(pieces) /\ k + 1 \in 1 .. Len(pieces)
  <2>1. Len(pieces) \in Nat
    BY <1>1, LenProperties
  <2> QED BY <2>1
<1>3. before \in Nat /\ all \in Seq(Byte)
  <2>1. pieces \in Seq(Seq(Byte))
    BY <1>1
  <2> QED BY <1>2, <2>1, FlatType, FlattenType
<1>4. /\ before + Len(piece) <= Len(all)
      /\ \A j \in 1 .. Len(piece) : all[before + j] = piece[j]
  <2>1. pieces \in Seq(Seq(Byte))
    BY <1>1
  <2> QED BY <2>1, FlatPiece, SMTT(30)
<1>5. FramedPiece(piece)
  BY <1>1, <1>2
<1>6. Len(piece) \in Nat
  BY <1>5 DEF FramedPiece
<1>7. Len(bytes) \in Nat /\ Len(all) \in Nat
  BY <1>1, <1>3, LenProperties
<1>8. Len(bytes) >= 20 + Len(all)
  OBVIOUS
<1> HIDE DEF before, piece, all
<1>9. ASSUME NEW j \in 1 .. Len(piece) PROVE bytes[(20 + before) + j] = piece[j]
  <2>1. before + j \in 1 .. Len(all) /\ 20 + (before + j) = (20 + before) + j
    BY <1>3, <1>4, <1>6, <1>7
  <2>2. bytes[20 + (before + j)] = all[before + j]
    BY <1>1, <2>1
  <2> QED BY <1>4, <2>1, <2>2
<1>10. 20 + before \in Nat /\ (20 + before) + Len(piece) <= Len(bytes)
  BY <1>3, <1>4, <1>6, <1>7, <1>8, SMTT(30)
<1>11. StandsAt(bytes, 20 + before, piece)
  BY <1>1, <1>5, <1>9, <1>10 DEF StandsAt
<1> QED BY <1>11 DEF before, piece

(* The data of a well framed attribute. *)
LEMMA PieceDataType ==
    ASSUME NEW piece, FramedPiece(piece)
    PROVE  /\ PieceData(piece) \in Seq(Byte) /\ Len(PieceData(piece)) = Len(piece) - 2
           /\ \A j \in 1 .. Len(piece) - 2 : PieceData(piece)[j] = piece[2 + j]
           /\ Len(piece) \in Nat /\ piece[1] \in Byte
<1>1. piece \in Seq(Byte) /\ Len(piece) \in 2 .. 255
  BY DEF FramedPiece
<1> DEFINE n == Len(piece)
           d == SubSeq(piece, 3, n)
<1>a. n \in Nat /\ n >= 2
  <2>1. Len(piece) \in 2 .. 255
    BY <1>1
  <2>2. \A x \in 2 .. 255 : x \in Nat /\ x >= 2
    OBVIOUS
  <2> QED BY <2>1, <2>2
<1>2. n \in Int /\ n >= 2 /\ 3 \in Int /\ \A i \in 3 .. n : piece[i] \in Byte
  <2>1. piece \in Seq(Byte)
    BY <1>1
  <2>2. \A i \in 1 .. Len(piece) : piece[i] \in Byte
    BY <2>1, ElementOfSeq
  <2>3. \A i \in 3 .. n : i \in 1 .. n
    BY <1>a
  <2> HIDE DEF d
  <2> QED BY <1>a, <2>2, <2>3
<1>3. /\ d \in Seq(Byte) /\ Len(d) = IF 3 <= n THEN n - 3 + 1 ELSE 0
      /\ \A i \in 1 .. n - 3 + 1 : d[i] = piece[3 + i - 1]
  <2> HIDE DEF n
  <2> QED BY <1>2, SubSeqProperties
<1> HIDE DEF d
<1> HIDE DEF n
<1>b. \A x \in Nat : x >= 2 => (IF 3 <= x THEN x - 3 + 1 ELSE 0) = x - 2
  OBVIOUS
<1>c. \A x \in Nat : \A j \in 1 .. x - 2 : 3 + j - 1 = 2 + j /\ j \in 1 .. x - 3 + 1
  OBVIOUS
<1>4. Len(d) = n - 2
  BY <1>a, <1>b, <1>3
<1>5. ASSUME NEW j \in 1 .. n - 2 PROVE d[j] = piece[2 + j]
  <2>1. 3 + j - 1 = 2 + j /\ j \in 1 .. n - 3 + 1
    BY <1>a, <1>c
  <2> QED BY <1>3, <2>1
<1>6. piece[1] \in Byte
  <2>1. piece \in Seq(Byte)
    BY <1>1
  <2>2. 1 \in 1 .. Len(piece)
    BY <1>a DEF n
  <2> QED BY <2>1, <2>2, ElementOfSeq
<1> QED BY <1>1, <1>3, <1>4, <1>5, <1>6 DEF d, n, PieceData

(* What the loop sees of an attribute is the piece's data. *)
LEMMA SeesAttribute ==
    ASSUME NEW bytes, NEW at, NEW piece, StandsAt(bytes, at, piece)
    PROVE  /\ bytes[at + 1] = piece[1] /\ bytes[at + 2] = Len(piece)
           /\ SubSeq(bytes, at + 3, at + bytes[at + 2]) = PieceData(piece)
<1> DEFINE m == at + 3
           n == at + Len(piece)
           d == SubSeq(bytes, m, n)
<1>1. /\ bytes \in Seq(Byte) /\ FramedPiece(piece) /\ at \in Nat /\ at + Len(piece) <= Len(bytes)
      /\ \A j \in 1 .. Len(piece) : bytes[at + j] = piece[j]
      /\ Len(piece) \in 2 .. 255 /\ piece[2] = Len(piece) /\ Len(bytes) \in Nat
  BY LenProperties DEF StandsAt, FramedPiece
<1>2. bytes[at + 1] = piece[1] /\ bytes[at + 2] = Len(piece)
  <2>1. 1 \in 1 .. Len(piece) /\ 2 \in 1 .. Len(piece)
    <3>1. Len(piece) \in 2 .. 255
      BY <1>1, Zenon
    <3>2. \A x \in 2 .. 255 : 1 \in 1 .. x /\ 2 \in 1 .. x
      OBVIOUS
    <3> QED BY <3>1, <3>2
  <2> QED BY <1>1, <2>1
<1>3. /\ PieceData(piece) \in Seq(Byte) /\ Len(PieceData(piece)) = Len(piece) - 2
      /\ \A j \in 1 .. Len(piece) - 2 : PieceData(piece)[j] = piece[2 + j]
  BY <1>1, PieceDataType
<1>4. m \in Int /\ n \in Int /\ n - m + 1 = Len(piece) - 2 /\ (m <= n \/ Len(piece) - 2 = 0)
      /\ \A i \in m .. n : i \in 1 .. Len(bytes)
  <2>1. \A a \in Nat, b \in 2 .. 255, c \in Nat : a + b <= c =>
           /\ a + 3 \in Int /\ a + b \in Int /\ (a + b) - (a + 3) + 1 = b - 2
           /\ (a + 3 <= a + b \/ b - 2 = 0) /\ \A i \in a + 3 .. a + b : i \in 1 .. c
    OBVIOUS
  <2> QED BY <1>1, <2>1
<1>5. \A i \in m .. n : bytes[i] \in Byte
  <2>1. bytes \in Seq(Byte)
    BY <1>1
  <2> QED BY <1>4, <2>1, ElementOfSeq
<1>6. /\ d \in Seq(Byte) /\ Len(d) = IF m <= n THEN n - m + 1 ELSE 0
      /\ \A i \in 1 .. n - m + 1 : d[i] = bytes[m + i - 1]
  <2> HIDE DEF m, n
  <2> QED BY <1>4, <1>5, SubSeqProperties, SMTT(40)
<1> HIDE DEF d
<1>7. Len(d) = Len(piece) - 2
  BY <1>1, <1>4, <1>6, Zenon
<1>8. ASSUME NEW j \in 1 .. Len(piece) - 2 PROVE d[j] = PieceData(piece)[j]
  <2>1. d[j] = bytes[m + j - 1]
    BY <1>4, <1>6
  <2>2. m + j - 1 = at + (2 + j) /\ 2 + j \in 1 .. Len(piece)
    BY <1>1
  <2>3. bytes[at + (2 + j)] = piece[2 + j]
    BY <1>1, <2>2
  <2> HIDE DEF m
  <2> QED BY <1>3, <2>1, <2>2, <2>3
<1>9. d = PieceData(piece)
  BY <1>3, <1>6, <1>7, <1>8, SeqEqual
<1> QED BY <1>2, <1>9 DEF d

(* A vendor attribute is parsed from the rest of the datagram, and as if the
   datagram ended with it. *)
LEMMA SeesVendor ==
    ASSUME NEW bytes, NEW at, NEW piece, StandsAt(bytes, at, piece), piece[1] = VENDOR_SPECIFIC
    PROVE  LET data == SubSeq(bytes, at + 3, Len(bytes))
           IN  /\ VendorFault(data) = VendorFault(PieceData(piece))
               /\ MakeVendor(data) = MakeVendor(PieceData(piece))
<1> DEFINE m == at + 3
           n == Len(bytes)
           d == SubSeq(bytes, m, n)
           q == PieceData(piece)
<1>1. /\ bytes \in Seq(Byte) /\ FramedPiece(piece) /\ at \in Nat /\ at + Len(piece) <= Len(bytes)
      /\ \A j \in 1 .. Len(piece) : bytes[at + j] = piece[j]
      /\ Len(piece) \in 8 .. 255 /\ piece[8] \in 2 .. Len(piece) - 6 /\ Len(bytes) \in Nat
  <2>1. /\ bytes \in Seq(Byte) /\ FramedPiece(piece) /\ at \in Nat /\ at + Len(piece) <= Len(bytes)
        /\ \A j \in 1 .. Len(piece) : bytes[at + j] = piece[j]
    BY DEF StandsAt
  <2>2. Len(bytes) \in Nat
    BY <2>1, LenProperties
  <2>3. Len(piece) \in 2 .. 255 /\ Len(piece) >= 8 /\ piece[8] \in 2 .. Len(piece) - 6
    BY <2>1 DEF FramedPiece
  <2>4. \A x \in 2 .. 255 : x >= 8 => x \in 8 .. 255
    OBVIOUS
  <2> QED BY <2>1, <2>2, <2>3, <2>4
<1>2. /\ q \in Seq(Byte) /\ Len(q) = Len(piece) - 2
      /\ \A j \in 1 .. Len(piece) - 2 : q[j] = piece[2 + j]
  BY <1>1, PieceDataType, SMTT(30)
<1> HIDE DEF q
<1>3. Len(q) >= 6 /\ q[6] \in 2 .. Len(q) - 4
  <2>1. 6 \in 1 .. Len(piece) - 2 /\ 2 + 6 = 8 /\ Len(q) >= 6 /\ Len(q) - 4 = Len(piece) - 6
    <3>1. Len(piece) \in 8 .. 255 /\ Len(q) = Len(piece) - 2
      BY <1>1, <1>2, Zenon
    <3> QED BY <3>1
  <2>2. q[6] = piece[8]
    BY <1>2, <2>1
  <2>3. piece[8] \in 2 .. Len(piece) - 6
    BY <1>1, Zenon
  <2> QED BY <2>1, <2>2, <2>3
<1>4. m \in Int /\ n \in Int /\ n - m + 1 >= Len(q) /\ m <= n /\ Len(q) \in Nat
      /\ \A i \in m .. n : i \in 1 .. Len(bytes)
  <2>1. \A a \in Nat, b \in 8 .. 255, c \in Nat : a + b <= c =>
           /\ a + 3 \in Int /\ c - (a + 3) + 1 >= b - 2 /\ a + 3 <= c /\ b - 2 \in Nat
           /\ \A i \in a + 3 .. c : i \in 1 .. c
    OBVIOUS
  <2>2. /\ at \in Nat /\ Len(piece) \in 8 .. 255 /\ n \in Nat /\ at + Len(piece) <= n
        /\ Len(q) = Len(piece) - 2
    BY <1>1, <1>2, Zenon
  <2>3. n \in Int
    BY <2>2
  <2> QED BY <2>1, <2>2, <2>3
<1>5. \A i \in m .. n : bytes[i] \in Byte
  <2>1. bytes \in Seq(Byte)
    BY <1>1
  <2> QED BY <1>4, <2>1, ElementOfSeq
<1>6. /\ d \in Seq(Byte) /\ Len(d) = IF m <= n THEN n - m + 1 ELSE 0
      /\ \A i \in 1 .. n - m + 1 : d[i] = bytes[m + i - 1]
  <2> HIDE DEF m, n
  <2> QED BY <1>4, <1>5, SubSeqProperties, SMTT(40)
<1> HIDE DEF d
<1>7. Len(q) <= Len(d)
  BY <1>4, <1>6
<1>8. ASSUME NEW j \in 1 .. Len(q) PROVE d[j] = q[j]
  <2>1. j \in 1 .. n - m + 1
    BY <1>4, SMTT(30)
  <2>2. d[j] = bytes[m + j - 1]
    BY <1>6, <2>1, SMTT(30)
  <2>3. m + j - 1 = at + (2 + j) /\ 2 + j \in 1 .. Len(piece) /\ j \in 1 .. Len(piece) - 2
    <3>1. at \in Nat /\ Len(piece) \in 8 .. 255 /\ Len(q) = Len(piece) - 2
      BY <1>1, <1>2, Zenon
    <3> QED BY <3>1
  <2>4. bytes[at + (2 + j)] = piece[2 + j]
    BY <1>1, <2>3
  <2> HIDE DEF m
  <2> QED BY <1>2, <2>2, <2>3, <2>4
<1>9. VendorFault(d) = VendorFault(q) /\ MakeVendor(d) = MakeVendor(q)
  BY <1>2, <1>3, <1>6, <1>7, <1>8, MakeVendorPrefix
<1> QED BY <1>9, SMTT(30) DEF d, q

(* Parsing a well framed vendor attribute gives a vendor attribute. *)
LEMMA VendorInType ==
    ASSUME NEW piece, FramedPiece(piece), piece[1] = VENDOR_SPECIFIC
    PROVE  MakeVendor(PieceData(piece)) \in Vendor
<1> DEFINE q == PieceData(piece)
<1>1. /\ q \in Seq(Byte) /\ Len(q) = Len(piece) - 2
      /\ \A j \in 1 .. Len(piece) - 2 : q[j] = piece[2 + j]
  BY PieceDataType
<1>2. Len(piece) \in 8 .. 255 /\ piece[8] \in 2 .. Len(piece) - 6
  <2>1. Len(piece) \in 2 .. 255 /\ Len(piece) >= 8 /\ piece[8] \in 2 .. Len(piece) - 6
    BY DEF FramedPiece
  <2>2. \A x \in 2 .. 255 : x >= 8 => x \in 8 .. 255
    OBVIOUS
  <2> QED BY <2>1, <2>2
<1> HIDE DEF q
<1>3. Len(q) >= 6 /\ q[6] \in 2 .. Len(q) - 4 /\ Len(q) <= Len(q)
  <2>1. 6 \in 1 .. Len(piece) - 2 /\ 2 + 6 = 8 /\ Len(q) >= 6 /\ Len(q) - 4 = Len(piece) - 6
    <3>1. Len(piece) \in 8 .. 255 /\ Len(q) = Len(piece) - 2
      BY <1>1, <1>2, Zenon
    <3> QED BY <3>1
  <2>2. q[6] = piece[8]
    BY <1>1, <2>1
  <2>3. piece[8] \in 2 .. Len(piece) - 6
    BY <1>2, Zenon
  <2>4. Len(q) <= Len(q)
    BY <1>1, LenProperties
  <2> QED BY <2>1, <2>2, <2>3, <2>4
<1>4. MakeVendor(q) \in Vendor
  <2>1. \A j \in 1 .. Len(q) : q[j] = q[j]
    OBVIOUS
  <2> QED BY <1>1, <1>3, <2>1, MakeVendorPrefix
<1> QED BY <1>4 DEF q

(* Records of packets. *)
Copied == FALSE

(* A packet of these parts. *)
Made(e, f, b, g, at, vd) ==
    [type |-> e, id |-> f, recalc |-> b, auth |-> g, attributes |-> at, vendors |-> vd]

(* Its parts. *)
LEMMA MadeFields ==
    ASSUME NEW e, NEW f, NEW b, NEW g, NEW at, NEW vd
    PROVE  /\ Made(e, f, b, g, at, vd).type = e /\ Made(e, f, b, g, at, vd).id = f
           /\ Made(e, f, b, g, at, vd).auth = g
           /\ Made(e, f, b, g, at, vd).attributes = at /\ Made(e, f, b, g, at, vd).vendors = vd
  BY DEF Made

(* The assignments to fields of a packet, as operators. *)
WithAttributes(r, x) == [r EXCEPT !.attributes = x]
WithVendors(r, x) == [r EXCEPT !.vendors = x]
WithHeader(r, x, y, z) == [r EXCEPT !.type = x, !.id = y, !.auth = z]

(* A packet with another list of attributes or of vendor attributes. *)
LEMMA MadeChanged ==
    ASSUME NEW e, NEW f, NEW b, NEW g, NEW at, NEW vd, NEW x
    PROVE  /\ WithAttributes(Made(e, f, b, g, at, vd), x) = Made(e, f, b, g, x, vd)
           /\ WithVendors(Made(e, f, b, g, at, vd), x) = Made(e, f, b, g, at, x)
  BY DEF Made, WithAttributes, WithVendors

(* A packet with one attribute more. *)
LEMMA MadeAppended ==
    ASSUME NEW e, NEW f, NEW b, NEW g, NEW at, NEW vd, NEW x, NEW p,
           p = Made(e, f, b, g, at, vd)
    PROVE  /\ WithAttributes(p, Append(p.attributes, x)) = Made(e, f, b, g, Append(at, x), vd)
           /\ WithVendors(p, Append(p.vendors, x)) = Made(e, f, b, g, at, Append(vd, x))
  BY MadeFields, MadeChanged

(* A packet with another header. *)
LEMMA MadeHeader ==
    ASSUME NEW e, NEW f, NEW b, NEW g, NEW at, NEW vd, NEW x, NEW y, NEW z
    PROVE  WithHeader(Made(e, f, b, g, at, vd), x, y, z) = Made(x, y, b, z, at, vd)
<1>1. [Made(e, f, b, g, at, vd) EXCEPT !.type = x] = Made(x, f, b, g, at, vd)
  BY DEF Made
<1>2. [Made(x, f, b, g, at, vd) EXCEPT !.id = y] = Made(x, y, b, g, at, vd)
  BY DEF Made
<1>3. [Made(x, y, b, g, at, vd) EXCEPT !.auth = z] = Made(x, y, b, z, at, vd)
  BY DEF Made
<1> QED BY <1>1, <1>2, <1>3 DEF WithHeader

(* Read in these terms. *)
LEMMA ReadMade ==
    ASSUME NEW bytes, NEW pieces, NEW k
    PROVE  Read(bytes, pieces, k)
             = Made(bytes[1], bytes[2], Copied, Authenticator(bytes),
                    Flat(AllAttributesIn(pieces, Authenticator(bytes)), k),
                    Flat(AllVendorsIn(pieces), k))
  BY DEF Read, Made, Copied

(* What an attribute on the wire is read as has the right type, and a size
   its class can hold if it was not refused. *)
LEMMA PieceRead ==
    ASSUME DigestTyped, NEW piece, FramedPiece(piece), NEW auth \in [1 .. 16 -> Byte]
    PROVE  /\ AttributesIn(piece, auth) \in Seq(Attribute)
           /\ VendorsIn(piece) \in Seq(Vendor)
           /\ ~Refused(piece) =>
                 AttributesIn(piece, auth) \in Seq({a \in Attribute : WellSized(a)})
<1> DEFINE a == MakeAttribute(piece[1], PieceData(piece), auth)
           v == MakeVendor(PieceData(piece))
           S == {b \in Attribute : WellSized(b)}
<1>1. CASE piece[1] = VENDOR_SPECIFIC
  <2>1. v \in Vendor
    BY <1>1, VendorInType
  <2>2. AttributesIn(piece, auth) = <<>> /\ VendorsIn(piece) = <<v>>
    BY <1>1 DEF AttributesIn, VendorsIn
  <2> HIDE DEF v, S
  <2> QED BY <2>1, <2>2 DEF S
<1>2. CASE piece[1] # VENDOR_SPECIFIC
  <2>1. PieceData(piece) \in Seq(Byte) /\ piece[1] \in Byte
    BY PieceDataType
  <2>2. a \in Attribute
    BY <2>1, MakeAttributeType
  <2>3. SizeFault(ClassOf(piece[1]), Len(PieceData(piece))) = "none" => WellSized(a)
    BY <2>1, MakeAttributeType
  <2>4. AttributesIn(piece, auth) = <<a>> /\ VendorsIn(piece) = <<>>
    BY <1>2 DEF AttributesIn, VendorsIn
  <2>5. ~Refused(piece) => SizeFault(ClassOf(piece[1]), Len(PieceData(piece))) = "none"
    BY <1>2 DEF Refused
  <2>6. ~Refused(piece) => a \in S
    BY <2>2, <2>3, <2>5
  <2> HIDE DEF a, S
  <2> QED BY <2>2, <2>4, <2>6 DEF S
<1> QED BY <1>1, <1>2

(* The same for all of them. *)
LEMMA AllType ==
    ASSUME DigestTyped, NEW pieces \in Seq(Seq(Byte)), NEW auth \in [1 .. 16 -> Byte],
           \A i \in 1 .. Len(pieces) : FramedPiece(pieces[i])
    PROVE  /\ AllAttributesIn(pieces, auth) \in Seq(Seq(Attribute))
           /\ AllVendorsIn(pieces) \in Seq(Seq(Vendor))
           /\ Len(AllAttributesIn(pieces, auth)) = Len(pieces) /\ Len(AllVendorsIn(pieces)) = Len(pieces)
           /\ \A i \in 1 .. Len(pieces) :
                 /\ AllAttributesIn(pieces, auth)[i] = AttributesIn(pieces[i], auth)
                 /\ AllVendorsIn(pieces)[i] = VendorsIn(pieces[i])
<1> DEFINE e(i) == AttributesIn(pieces[i], auth)
           g(i) == VendorsIn(pieces[i])
<1>1. Len(pieces) \in Nat
  BY LenProperties
<1>2. \A i \in 1 .. Len(pieces) : e(i) \in Seq(Attribute) /\ g(i) \in Seq(Vendor)
  BY PieceRead
<1> HIDE DEF e, g
<1>3. /\ [i \in 1 .. Len(pieces) |-> e(i)] \in Seq(Seq(Attribute))
      /\ Len([i \in 1 .. Len(pieces) |-> e(i)]) = Len(pieces)
  BY <1>1, <1>2
<1>4. /\ [i \in 1 .. Len(pieces) |-> g(i)] \in Seq(Seq(Vendor))
      /\ Len([i \in 1 .. Len(pieces) |-> g(i)]) = Len(pieces)
  BY <1>1, <1>2
<1> QED BY <1>3, <1>4 DEF AllAttributesIn, AllVendorsIn, e, g

(* What has been read is a packet, and one of objects that their classes can
   hold if nothing had to be refused. *)
LEMMA ReadType ==
    ASSUME DigestTyped, NEW bytes, NEW pieces, WellFramed(bytes, pieces), Len(bytes) >= 20,
           NEW k \in 0 .. Len(pieces)
    PROVE  Read(bytes, pieces, k) \in Packet
<1> DEFINE auth == Authenticator(bytes)
           s == AllAttributesIn(pieces, auth)
           t == AllVendorsIn(pieces)
<1>1. /\ bytes \in Seq(Byte) /\ pieces \in Seq(Seq(Byte)) /\ auth \in [1 .. 16 -> Byte]
      /\ \A i \in 1 .. Len(pieces) : FramedPiece(pieces[i])
  BY DEF WellFramed
<1>2. /\ s \in Seq(Seq(Attribute)) /\ t \in Seq(Seq(Vendor))
      /\ Len(s) = Len(pieces) /\ Len(t) = Len(pieces)
  <2> HIDE DEF auth
  <2> QED BY <1>1, AllType
<1> HIDE DEF s, t
<1>3. Flat(s, k) \in Seq(Attribute)
  <2>1. s \in Seq(Seq(Attribute)) /\ k \in 0 .. Len(s)
    BY <1>2
  <2> QED BY <2>1, FlatType
<1>4. Flat(t, k) \in Seq(Vendor)
  <2>1. t \in Seq(Seq(Vendor)) /\ k \in 0 .. Len(t)
    BY <1>2
  <2> QED BY <2>1, FlatType
<1>5. bytes[1] \in Byte /\ bytes[2] \in Byte
  <2>1. bytes \in Seq(Byte) /\ Len(bytes) \in Nat
    BY <1>1, LenProperties
  <2>2. 1 \in 1 .. Len(bytes) /\ 2 \in 1 .. Len(bytes)
    BY <2>1
  <2> QED BY <2>1, <2>2, ElementOfSeq
<1>6. Read(bytes, pieces, k) = [type |-> bytes[1], id |-> bytes[2], recalc |-> FALSE, auth |-> auth,
                                attributes |-> Flat(s, k), vendors |-> Flat(t, k)]
  BY DEF Read, s, t
<1> HIDE DEF auth
<1> QED BY <1>1, <1>3, <1>4, <1>5, <1>6 DEF Packet

(* If no attribute was refused, all of them have sizes that their classes can
   hold. *)
LEMMA ReadWellSized ==
    ASSUME DigestTyped, NEW bytes, NEW pieces, WellFramed(bytes, pieces), Len(bytes) >= 20,
           NEW k \in 0 .. Len(pieces), \A i \in 1 .. k : ~Refused(pieces[i])
    PROVE  \A i \in DOMAIN Read(bytes, pieces, k).attributes :
              WellSized(Read(bytes, pieces, k).attributes[i])
<1> DEFINE auth == Authenticator(bytes)
           s == AllAttributesIn(pieces, auth)
           S == {b \in Attribute : WellSized(b)}
           t == SubSeq(s, 1, k)
<1>1. /\ bytes \in Seq(Byte) /\ pieces \in Seq(Seq(Byte)) /\ auth \in [1 .. 16 -> Byte]
      /\ \A i \in 1 .. Len(pieces) : FramedPiece(pieces[i])
  BY DEF WellFramed
<1>2. /\ s \in Seq(Seq(Attribute)) /\ Len(s) = Len(pieces)
      /\ \A i \in 1 .. Len(pieces) : s[i] = AttributesIn(pieces[i], auth)
  <2> HIDE DEF auth
  <2> QED BY <1>1, AllType
<1>3. Len(pieces) \in Nat /\ k \in Nat /\ \A i \in 1 .. k : i \in 1 .. Len(pieces)
  <2>1. pieces \in Seq(Seq(Byte))
    BY <1>1
  <2>2. Len(pieces) \in Nat
    BY <2>1, LenProperties
  <2> QED BY <2>2
<1>4. \A i \in 1 .. k : s[i] \in Seq(S)
  <2> HIDE DEF s, auth, S
  <2>1. ASSUME NEW i \in 1 .. k PROVE AttributesIn(pieces[i], auth) \in Seq(S)
    <3>1. FramedPiece(pieces[i]) /\ ~Refused(pieces[i])
      BY <1>1, <1>3
    <3> QED BY <1>1, <3>1, PieceRead DEF S
  <2> QED BY <1>2, <1>3, <2>1
<1> HIDE DEF s, auth, S
<1>5. Len(t) = k /\ \A i \in 1 .. k : t[i] = s[i]
  <2>1. s \in Seq(Seq(Attribute)) /\ k \in 0 .. Len(s)
    BY <1>2
  <2> QED BY <2>1, FirstPieces
<1>6. t \in Seq(Seq(S))
  <2>1. t \in Seq(Seq(Attribute))
    <3>1. s \in Seq(Seq(Attribute)) /\ k \in 0 .. Len(s)
      BY <1>2
    <3> QED BY <3>1, FirstPieces
  <2>2. t = [i \in 1 .. Len(t) |-> t[i]]
    <3> HIDE DEF t
    <3> QED BY <2>1
  <2>3. \A i \in 1 .. Len(t) : t[i] \in Seq(S)
    BY <1>4, <1>5
  <2> HIDE DEF t
  <2>4. [i \in 1 .. k |-> t[i]] \in Seq(Seq(S))
    BY <1>3, <1>5, <2>3
  <2> QED BY <1>5, <2>2, <2>4
<1>7. Flat(s, k) \in Seq(S)
  BY <1>6, FlattenType DEF Flat
<1>8. Read(bytes, pieces, k).attributes = Flat(s, k)
  BY DEF Read, s, auth
<1>9. ASSUME NEW q \in Seq(S), NEW i \in DOMAIN q PROVE WellSized(q[i])
  <2>1. i \in 1 .. Len(q)
    OBVIOUS
  <2>2. q[i] \in S
    BY <2>1, ElementOfSeq
  <2> QED BY <2>2 DEF S
<1> QED BY <1>7, <1>8, <1>9

(* Before the first attribute, the packet has its header only. *)
LEMMA ReadStart ==
    ASSUME DigestTyped, NEW bytes, NEW pieces, WellFramed(bytes, pieces), Len(bytes) >= 20
    PROVE  Read(bytes, pieces, 0)
             = [NoPacket EXCEPT !.type = bytes[1], !.id = bytes[2], !.auth = Authenticator(bytes)]
<1> DEFINE auth == Authenticator(bytes)
           s == AllAttributesIn(pieces, auth)
           t == AllVendorsIn(pieces)
<1>1. /\ bytes \in Seq(Byte) /\ pieces \in Seq(Seq(Byte)) /\ auth \in [1 .. 16 -> Byte]
      /\ \A i \in 1 .. Len(pieces) : FramedPiece(pieces[i])
  BY DEF WellFramed
<1>2. /\ s \in Seq(Seq(Attribute)) /\ t \in Seq(Seq(Vendor))
      /\ Len(s) \in Nat /\ Len(t) \in Nat
  <2> HIDE DEF auth
  <2>1. s \in Seq(Seq(Attribute)) /\ t \in Seq(Seq(Vendor))
    BY <1>1, AllType
  <2> HIDE DEF s, t
  <2> QED BY <2>1, LenProperties
<1> HIDE DEF s, t
<1>3. Flat(s, 0) = <<>>
  <2>1. s \in Seq(Seq(Attribute)) /\ 0 \in 0 .. Len(s)
    BY <1>2
  <2> QED BY <2>1, FlatType
<1>4. Flat(t, 0) = <<>>
  <2>1. t \in Seq(Seq(Vendor)) /\ 0 \in 0 .. Len(t)
    BY <1>2
  <2> QED BY <2>1, FlatType
<1>5. Read(bytes, pieces, 0) = Made(bytes[1], bytes[2], Copied, auth, <<>>, <<>>)
  BY <1>3, <1>4, ReadMade DEF s, t
<1>6. NoPacket = Made(0, 0, Copied, Zeros(16), <<>>, <<>>)
  BY DEF NoPacket, Made, Copied
<1> HIDE DEF auth
<1>7. WithHeader(NoPacket, bytes[1], bytes[2], auth) = Made(bytes[1], bytes[2], Copied, auth, <<>>, <<>>)
  BY <1>6, MadeHeader
<1>8. WithHeader(NoPacket, bytes[1], bytes[2], auth)
        = [NoPacket EXCEPT !.type = bytes[1], !.id = bytes[2], !.auth = auth]
  BY DEF WithHeader
<1> QED BY <1>5, <1>7, <1>8 DEF auth

(* One more attribute has been read. *)
LEMMA ReadStep ==
    ASSUME DigestTyped, NEW bytes, NEW pieces, WellFramed(bytes, pieces), Len(bytes) >= 20,
           NEW k \in 0 .. Len(pieces) - 1
    PROVE  LET p == Read(bytes, pieces, k)
               piece == pieces[k + 1]
           IN  /\ piece[1] = VENDOR_SPECIFIC =>
                     WithVendors(p, Append(p.vendors, MakeVendor(PieceData(piece))))
                       = Read(bytes, pieces, k + 1)
               /\ piece[1] # VENDOR_SPECIFIC =>
                     WithAttributes(p, Append(p.attributes,
                                              MakeAttribute(piece[1], PieceData(piece), p.auth)))
                       = Read(bytes, pieces, k + 1)
<1> DEFINE auth == Authenticator(bytes)
           s == AllAttributesIn(pieces, auth)
           t == AllVendorsIn(pieces)
           piece == pieces[k + 1]
           a == MakeAttribute(piece[1], PieceData(piece), auth)
           v == MakeVendor(PieceData(piece))
<1>1. /\ bytes \in Seq(Byte) /\ pieces \in Seq(Seq(Byte)) /\ auth \in [1 .. 16 -> Byte]
      /\ \A i \in 1 .. Len(pieces) : FramedPiece(pieces[i])
  BY DEF WellFramed
<1>2. /\ s \in Seq(Seq(Attribute)) /\ t \in Seq(Seq(Vendor))
      /\ Len(s) = Len(pieces) /\ Len(t) = Len(pieces)
      /\ \A i \in 1 .. Len(pieces) : s[i] = AttributesIn(pieces[i], auth) /\ t[i] = VendorsIn(pieces[i])
  <2> HIDE DEF auth
  <2> QED BY <1>1, AllType
<1>3. Len(pieces) \in Nat /\ k + 1 \in 1 .. Len(pieces) /\ k \in 0 .. Len(pieces)
  <2>1. pieces \in Seq(Seq(Byte))
    BY <1>1
  <2>2. Len(pieces) \in Nat
    BY <2>1, LenProperties
  <2> QED BY <2>2
<1>4. s[k + 1] = AttributesIn(piece, auth) /\ t[k + 1] = VendorsIn(piece)
  BY <1>2, <1>3
<1> HIDE DEF s, t, auth
<1>5. Flat(s, k + 1) = Flat(s, k) \o AttributesIn(piece, auth) /\ Flat(s, k) \in Seq(Attribute)
  <2>1. s \in Seq(Seq(Attribute)) /\ k \in 0 .. Len(s) - 1 /\ k \in 0 .. Len(s)
    BY <1>2, <1>3
  <2>2. Flat(s, k) \in Seq(Attribute)
    BY <2>1, FlatType
  <2>3. Flat(s, k + 1) = Flat(s, k) \o s[k + 1]
    BY <2>1, FlatStep
  <2> QED BY <1>4, <2>2, <2>3
<1>6. Flat(t, k + 1) = Flat(t, k) \o VendorsIn(piece) /\ Flat(t, k) \in Seq(Vendor)
  <2>1. t \in Seq(Seq(Vendor)) /\ k \in 0 .. Len(t) - 1 /\ k \in 0 .. Len(t)
    BY <1>2, <1>3
  <2>2. Flat(t, k) \in Seq(Vendor)
    BY <2>1, FlatType
  <2>3. Flat(t, k + 1) = Flat(t, k) \o t[k + 1]
    BY <2>1, FlatStep
  <2> QED BY <1>4, <2>2, <2>3
<1>7. /\ Read(bytes, pieces, k) = Made(bytes[1], bytes[2], Copied, auth, Flat(s, k), Flat(t, k))
      /\ Read(bytes, pieces, k + 1)
           = Made(bytes[1], bytes[2], Copied, auth, Flat(s, k + 1), Flat(t, k + 1))
  BY ReadMade DEF s, t, auth
<1>8. /\ Read(bytes, pieces, k).auth = auth /\ Read(bytes, pieces, k).vendors = Flat(t, k)
      /\ Read(bytes, pieces, k).attributes = Flat(s, k)
  BY <1>7, MadeFields
<1>10. \A S, x : \A u \in Seq(S) : u \o <<>> = u
  OBVIOUS
<1>11. \A S : \A u \in Seq(S) : \A x \in S : u \o <<x>> = Append(u, x)
  OBVIOUS
<1>12. FramedPiece(piece)
  BY <1>1, <1>3
<1>13. CASE piece[1] = VENDOR_SPECIFIC
  <2>1. v \in Vendor
    BY <1>12, <1>13, VendorInType
  <2>2. AttributesIn(piece, auth) = <<>> /\ VendorsIn(piece) = <<v>>
    BY <1>13 DEF AttributesIn, VendorsIn
  <2>3. Flat(s, k + 1) = Flat(s, k) /\ Flat(t, k + 1) = Append(Flat(t, k), v)
    <3> HIDE DEF v, piece
    <3> QED BY <1>5, <1>6, <1>10, <1>11, <2>1, <2>2
  <2>4. WithVendors(Read(bytes, pieces, k), Append(Read(bytes, pieces, k).vendors, v)) = Read(bytes, pieces, k + 1)
    <3> HIDE DEF v
    <3>1. WithVendors(Read(bytes, pieces, k), Append(Read(bytes, pieces, k).vendors, v)) = Read(bytes, pieces, k + 1)
      <4> HIDE DEF v
      <4> DEFINE p == Read(bytes, pieces, k)
      <4>1. p = Made(bytes[1], bytes[2], Copied, auth, Flat(s, k), Flat(t, k))
        BY <1>7
      <4> HIDE DEF p
      <4>2. WithVendors(p, Append(p.vendors, v))
              = Made(bytes[1], bytes[2], Copied, auth, Flat(s, k), Append(Flat(t, k), v))
        BY <4>1, MadeAppended
      <4>3. Made(bytes[1], bytes[2], Copied, auth, Flat(s, k), Append(Flat(t, k), v)) = Read(bytes, pieces, k + 1)
        BY <1>7, <2>3
      <4>4. WithVendors(p, Append(p.vendors, v)) = Read(bytes, pieces, k + 1)
        BY <4>2, <4>3
      <4> QED BY <4>4 DEF p
    <3> QED BY <3>1
  <2> QED BY <1>13, <2>4
<1>14. CASE piece[1] # VENDOR_SPECIFIC
  <2>1. PieceData(piece) \in Seq(Byte) /\ piece[1] \in Byte
    BY <1>12, PieceDataType
  <2>2. a \in Attribute
    BY <1>1, <2>1, MakeAttributeType
  <2>3. AttributesIn(piece, auth) = <<a>> /\ VendorsIn(piece) = <<>>
    BY <1>14 DEF AttributesIn, VendorsIn
  <2>4. Flat(s, k + 1) = Append(Flat(s, k), a) /\ Flat(t, k + 1) = Flat(t, k)
    <3> HIDE DEF a, piece
    <3> QED BY <1>5, <1>6, <1>10, <1>11, <2>2, <2>3
  <2>5. WithAttributes(Read(bytes, pieces, k), Append(Read(bytes, pieces, k).attributes, a)) = Read(bytes, pieces, k + 1)
    <3> HIDE DEF a
    <3>1. WithAttributes(Read(bytes, pieces, k), Append(Read(bytes, pieces, k).attributes, a)) = Read(bytes, pieces, k + 1)
      <4> HIDE DEF a
      <4> DEFINE p == Read(bytes, pieces, k)
      <4>1. p = Made(bytes[1], bytes[2], Copied, auth, Flat(s, k), Flat(t, k))
        BY <1>7
      <4> HIDE DEF p
      <4>2. WithAttributes(p, Append(p.attributes, a))
              = Made(bytes[1], bytes[2], Copied, auth, Append(Flat(s, k), a), Flat(t, k))
        BY <4>1, MadeAppended
      <4>3. Made(bytes[1], bytes[2], Copied, auth, Append(Flat(s, k), a), Flat(t, k)) = Read(bytes, pieces, k + 1)
        BY <1>7, <2>4
      <4>4. WithAttributes(p, Append(p.attributes, a)) = Read(bytes, pieces, k + 1)
        BY <4>2, <4>3
      <4> QED BY <4>4 DEF p
    <3> QED BY <3>1
  <2> QED BY <1>8, <1>14, <2>5
<1> QED BY <1>13, <1>14

-----------------------------------------------------------------------------

(* The inductive invariant. *)

(* Where the datagram came from: its bytes are those of a packet or of a
   foreign datagram of the menus, and an answer is the answer to the last
   request. *)
FromRequester ==
    sent \in Requests /\ buffer = MakeSendBuffer(sent) /\ requestAuth = Authenticator(buffer)

FromResponder ==
    /\ buffer = MakeSendBuffer(sent)
    /\ \E a \in Answers, id \in Byte :
          sent = ResponsePacket(a.type, id, requestAuth, a.attributes, a.vendors, a.recalc)

FromForeign == sent \in Datagrams /\ buffer = ReceivedBytes(sent)

Provenance ==
    \/ phase = "idle" /\ origin = "none" /\ buffer = <<>>
    \/ phase # "idle" /\ origin = "requester" /\ FromRequester
    \/ phase # "idle" /\ origin = "responder" /\ FromResponder
    \/ phase # "idle" /\ origin = "foreign" /\ FromForeign

(* The attributes on the wire, header bytes included, and what each is read as. *)
SentPieces == IF origin = "foreign" THEN ItemPieces(sent) ELSE Pieces(sent)

(* Neither of the two checks of the length fails. *)
Complete == Len(buffer) >= 20 /\ Len(buffer) >= Length

(* The loop has read the first k attributes and stands behind them. *)
Reading ==
    /\ Complete
    /\ \E k \in 0 .. Len(SentPieces) :
          /\ index = 20 + Len(Flat(SentPieces, k))
          /\ \A i \in 1 .. k : ~Refused(SentPieces[i])
          /\ parsed = Read(buffer, SentPieces, k)

(* The whole datagram has been read and is an acceptable packet. *)
Accepted ==
    /\ Complete /\ index = Length
    /\ \A i \in 1 .. Len(SentPieces) : ~Refused(SentPieces[i])
    /\ parsed = Read(buffer, SentPieces, Len(SentPieces))
    /\ ~EapUnauthenticated(parsed.attributes)

(* There was a reason to refuse the datagram. *)
Rejected ==
    \/ ~Complete
    \/ \E i \in 1 .. Len(SentPieces) : Refused(SentPieces[i])
    \/ EapUnauthenticated(Read(buffer, SentPieces, Len(SentPieces)).attributes)

(* What each phase of the constructor has done. *)
Progress ==
    \/ phase \in {"idle", "header"} /\ fault = "none" /\ parsed = NoPacket /\ index = 0
    \/ phase = "attributes" /\ fault = "none" /\ Reading
    \/ phase = "accepted" /\ fault = "none" /\ Accepted
    \/ phase = "rejected" /\ fault # "none" /\ parsed = NoPacket /\ index = 0 /\ Rejected

(* The inductive invariant: the properties relate the parsed packet to the
   sent one, and only this says how far the loop has come and what it must
   have built by then. *)
IInv == Provenance /\ requestAuth \in [1 .. 16 -> Byte] /\ Progress

-----------------------------------------------------------------------------

(* The menus' requests can be sent. *)
LEMMA RequestsSendable == \A p \in Requests : p \in Packet /\ Sendable(p)
<1>1. \A p \in Requests : p \in Packet /\ Fits(p.attributes, p.vendors)
  BY PacketCodecAssumption
<1>2. ASSUME NEW p \in Packet PROVE p.type \in Byte /\ p.id \in Byte /\ p.recalc \in BOOLEAN
                                    /\ p.auth \in [1 .. 16 -> Byte]
  BY DEF Packet
<1> QED BY <1>1, <1>2 DEF Sendable

(* The answers of the menu can be sent, whatever request they answer. *)
LEMMA ResponseSendable ==
    ASSUME NEW a \in Answers, NEW id \in Byte, NEW auth \in [1 .. 16 -> Byte]
    PROVE  LET p == ResponsePacket(a.type, id, auth, a.attributes, a.vendors, a.recalc)
           IN  /\ Sendable(p) /\ p.attributes = a.attributes /\ p.vendors = a.vendors
               /\ p.auth = auth /\ p.type = a.type /\ p.id = id
<1> DEFINE p == ResponsePacket(a.type, id, auth, a.attributes, a.vendors, a.recalc)
<1>1. a.type \in Byte /\ a.recalc \in BOOLEAN /\ Fits(a.attributes, a.vendors)
  BY PacketCodecAssumption
<1>2. /\ p.type = a.type /\ p.id = id /\ p.auth = auth
      /\ p.attributes = a.attributes /\ p.vendors = a.vendors
  BY DEF ResponsePacket
<1>3. p.recalc \in BOOLEAN
  <2>1. p.recalc = (a.type = 2 \/ a.recalc)
    BY DEF ResponsePacket
  <2> QED BY <1>1, <2>1
<1> HIDE DEF p
<1>4. Sendable(p)
  BY <1>1, <1>2, <1>3 DEF Sendable
<1> QED BY <1>2, <1>4 DEF p

(* The sent packet of the library can be sent. *)
LEMMA OwnSendable ==
    ASSUME requestAuth \in [1 .. 16 -> Byte], FromRequester \/ FromResponder
    PROVE  Sendable(sent) /\ buffer = MakeSendBuffer(sent)
<1>1. CASE FromRequester
  BY <1>1, RequestsSendable DEF FromRequester
<1>2. CASE FromResponder
  <2>1. PICK a \in Answers, id \in Byte :
           sent = ResponsePacket(a.type, id, requestAuth, a.attributes, a.vendors, a.recalc)
    BY <1>2 DEF FromResponder
  <2>2. Sendable(ResponsePacket(a.type, id, requestAuth, a.attributes, a.vendors, a.recalc))
    BY ResponseSendable
  <2> QED BY <1>2, <2>1, <2>2 DEF FromResponder
<1> QED BY <1>1, <1>2

(* Whatever the datagram's origin is, its bytes are framed as SentPieces. *)
LEMMA BufferFramed ==
    ASSUME DigestTyped, Provenance, requestAuth \in [1 .. 16 -> Byte], phase # "idle"
    PROVE  WellFramed(buffer, SentPieces)
<1>1. CASE origin = "foreign" /\ FromForeign
  <2>1. IsDatagram(sent)
    BY <1>1, PacketCodecAssumption DEF FromForeign
  <2>2. WellFramed(ReceivedBytes(sent), ItemPieces(sent))
    BY <2>1, ReceivedFramed
  <2>3. buffer = ReceivedBytes(sent) /\ SentPieces = ItemPieces(sent)
    BY <1>1 DEF FromForeign, SentPieces
  <2> QED BY <2>2, <2>3
<1>2. CASE origin # "foreign" /\ (FromRequester \/ FromResponder)
  <2>1. Sendable(sent) /\ buffer = MakeSendBuffer(sent)
    BY <1>2, OwnSendable
  <2>2. WellFramed(MakeSendBuffer(sent), Pieces(sent))
    BY <2>1, SentFramed
  <2>3. SentPieces = Pieces(sent)
    BY <1>2 DEF SentPieces
  <2> QED BY <2>1, <2>2, <2>3
<1>3. \/ origin = "foreign" /\ FromForeign
      \/ origin # "foreign" /\ (FromRequester \/ FromResponder)
  BY DEF Provenance
<1> QED BY <1>1, <1>2, <1>3

(* The whole datagram is there. *)
LEMMA CompleteBuffer ==
    ASSUME WellFramed(buffer, SentPieces), Complete
    PROVE  /\ Len(buffer) >= 20 /\ Length = 20 + Len(FlattenSeq(SentPieces))
           /\ Len(buffer) >= 20 + Len(FlattenSeq(SentPieces))
           /\ Len(FlattenSeq(SentPieces)) \in Nat /\ Len(SentPieces) \in Nat
<1>1. SentPieces \in Seq(Seq(Byte)) /\ Len(buffer) >= 20 /\ Len(buffer) >= Length
  BY DEF WellFramed, Complete
<1>2. Length = 20 + Len(FlattenSeq(SentPieces))
  BY <1>1 DEF WellFramed, Length
<1>3. FlattenSeq(SentPieces) \in Seq(Byte)
  BY <1>1, FlattenType
<1>4. Len(FlattenSeq(SentPieces)) \in Nat
  BY <1>3, LenProperties
<1>5. Len(SentPieces) \in Nat
  BY <1>1, LenProperties
<1> QED BY <1>1, <1>2, <1>4, <1>5

(* Where the loop is. *)
LEMMA LoopAt ==
    ASSUME WellFramed(buffer, SentPieces), Complete, NEW k \in 0 .. Len(SentPieces),
           index = 20 + Len(Flat(SentPieces, k))
    PROVE  /\ index \in Nat /\ 20 <= index /\ index <= Length
           /\ index >= Length => k = Len(SentPieces) /\ index = Length
           /\ index < Length => /\ k \in 0 .. Len(SentPieces) - 1
                                /\ StandsAt(buffer, index, SentPieces[k + 1])
                                /\ 20 + Len(Flat(SentPieces, k + 1)) = index + Len(SentPieces[k + 1])
<1> DEFINE s == SentPieces
           all == FlattenSeq(s)
           at == Len(Flat(s, k))
<1>1. /\ s \in Seq(Seq(Byte)) /\ \A i \in 1 .. Len(s) : FramedPiece(s[i])
      /\ Length = 20 + Len(all) /\ Len(buffer) >= 20 + Len(all) /\ Len(all) \in Nat /\ Len(s) \in Nat
  BY CompleteBuffer DEF WellFramed
<1>2. at \in Nat /\ Flat(s, Len(s)) = all
  <2>1. s \in Seq(Seq(Byte))
    BY <1>1
  <2> QED BY <2>1, FlatType
<1>3. at <= Len(all)
  <2>1. s \in Seq(Seq(Byte)) /\ k \in 0 .. Len(s) /\ Len(s) \in 0 .. Len(s) /\ k <= Len(s)
    BY <1>1
  <2>2. Len(Flat(s, k)) <= Len(Flat(s, Len(s)))
    BY <2>1, FlatPrefix
  <2> QED BY <1>2, <2>2
<1>4. at >= Len(all) => k = Len(s)
  <2>1. s \in Seq(Seq(Byte)) /\ k \in 0 .. Len(s)
    BY <1>1
  <2>2. \A i \in 1 .. Len(s) : Len(s[i]) > 0
    <3>1. ASSUME NEW i \in 1 .. Len(s) PROVE Len(s[i]) > 0
      <4>1. Len(s[i]) \in 2 .. 255
        BY <1>1 DEF FramedPiece
      <4>2. \A n \in 2 .. 255 : n > 0
        OBVIOUS
      <4> QED BY <4>1, <4>2
    <3> QED BY <3>1
  <2> QED BY <2>1, <2>2, FlatEnd
<1> HIDE DEF all, at
<1>5. index = 20 + at
  BY DEF at
<1>6. at < Len(all) => k \in 0 .. Len(s) - 1
  <2>1. k = Len(s) => at = Len(all)
    BY <1>2 DEF at
  <2>2. at < Len(all) => at # Len(all)
    BY <1>1, <1>2
  <2> QED BY <1>1, <2>1, <2>2
<1>7. ASSUME k \in 0 .. Len(s) - 1 PROVE StandsAt(buffer, index, s[k + 1])
  BY <1>1, <1>5, <1>7, AtPiece DEF at, all
<1>8. ASSUME k \in 0 .. Len(s) - 1 PROVE 20 + Len(Flat(s, k + 1)) = index + Len(s[k + 1])
  <2>1. s \in Seq(Seq(Byte)) /\ k + 1 \in 1 .. Len(s)
    BY <1>1, <1>8
  <2>2. Len(Flat(s, k + 1)) = at + Len(s[k + 1])
    BY <2>1, <1>8, FlatStep DEF at
  <2>3. FramedPiece(s[k + 1])
    BY <1>1, <2>1
  <2>4. Len(s[k + 1]) \in Nat
    <3>1. Len(s[k + 1]) \in 2 .. 255
      BY <2>3, Zenon DEF FramedPiece
    <3>2. \A n \in 2 .. 255 : n \in Nat
      OBVIOUS
    <3> QED BY <3>1, <3>2
  <2>5. \A n, m \in Nat : 20 + (n + m) = (20 + n) + m
    OBVIOUS
  <2>6. 20 + (at + Len(s[k + 1])) = (20 + at) + Len(s[k + 1])
    BY <1>2, <2>4, <2>5
  <2> QED BY <1>5, <2>2, <2>6
<1>9. /\ index \in Nat /\ 20 <= index /\ index <= Length
      /\ index >= Length => at >= Len(all) /\ index = Length
      /\ index < Length => at < Len(all)
  BY <1>1, <1>2, <1>3, <1>5
<1> HIDE DEF s
<1> QED BY <1>4, <1>6, <1>7, <1>8, <1>9 DEF s

-----------------------------------------------------------------------------
(* Init and Next keep the invariant. *)

(* 16 zeros are an authenticator. *)
LEMMA ZerosAuthenticator == Zeros(16) \in [1 .. 16 -> Byte]
<1>1. 0 \in Byte
  BY DEF Byte
<1> QED BY <1>1 DEF Zeros

(* The invariant holds initially. *)
LEMMA InitInvariant == Init => IInv
<1> SUFFICES ASSUME Init PROVE IInv
  OBVIOUS
<1>1. requestAuth \in [1 .. 16 -> Byte]
  BY ZerosAuthenticator DEF Init
<1>2. Provenance
  BY DEF Init, Provenance
<1>3. Progress
  BY DEF Init, Progress
<1> QED BY <1>1, <1>2, <1>3 DEF IInv

(* The steps of the parsing constructor keep what it was given. *)
SameInput == UNCHANGED <<origin, sent, buffer, requestAuth>>

(* With the same input, everything said about it stays true. *)
LEMMA KeepsProvenance ==
    ASSUME IInv, SameInput, phase # "idle", phase' # "idle"
    PROVE  /\ Provenance' /\ requestAuth' \in [1 .. 16 -> Byte] /\ buffer' = buffer
           /\ SentPieces' = SentPieces /\ Complete' = Complete /\ Length' = Length
<1>1. /\ origin' = origin /\ sent' = sent /\ buffer' = buffer /\ requestAuth' = requestAuth
      /\ Provenance /\ requestAuth \in [1 .. 16 -> Byte]
  BY DEF SameInput, IInv
<1>2. /\ FromRequester' = FromRequester /\ FromResponder' = FromResponder
      /\ FromForeign' = FromForeign
  BY <1>1 DEF FromRequester, FromResponder, FromForeign
<1>3. Provenance'
  BY <1>1, <1>2 DEF Provenance
<1>4. /\ SentPieces' = SentPieces /\ Complete' = Complete /\ Length' = Length
  BY <1>1 DEF SentPieces, Complete, Length
<1> QED BY <1>1, <1>3, <1>4

(* A fault for which there is a reason keeps the invariant. *)
LEMMA ThrowKeeps ==
    ASSUME IInv, phase # "idle", NEW why, why # "none", Throw(why), Rejected
    PROVE  IInv'
<1>1. /\ phase' = "rejected" /\ fault' = why /\ parsed' = NoPacket /\ index' = 0 /\ SameInput
  BY DEF Throw, SameInput
<1>2. /\ Provenance' /\ requestAuth' \in [1 .. 16 -> Byte] /\ buffer' = buffer
      /\ SentPieces' = SentPieces /\ Complete' = Complete
  BY <1>1, KeepsProvenance
<1>3. Rejected'
  BY <1>2 DEF Rejected
<1>4. Progress'
  BY <1>1, <1>3 DEF Progress
<1> QED BY <1>2, <1>4 DEF IInv

(* So does going on behind an attribute that has been read. *)
LEMMA ContinueKeeps ==
    ASSUME IInv, phase # "idle", fault = "none", Complete, NEW at, Continue(at),
           NEW k \in 0 .. Len(SentPieces), at = 20 + Len(Flat(SentPieces, k)),
           \A i \in 1 .. k : ~Refused(SentPieces[i]),
           parsed' = Read(buffer, SentPieces, k)
    PROVE  IInv'
<1>1. /\ phase' = "attributes" /\ fault' = "none" /\ index' = at /\ SameInput
  BY DEF Continue, SameInput
<1>2. /\ Provenance' /\ requestAuth' \in [1 .. 16 -> Byte] /\ buffer' = buffer
      /\ SentPieces' = SentPieces /\ Complete' = Complete
  BY <1>1, KeepsProvenance
<1>3. Reading'
  BY <1>1, <1>2 DEF Reading
<1>4. Progress'
  BY <1>1, <1>3 DEF Progress
<1> QED BY <1>2, <1>4 DEF IInv

-----------------------------------------------------------------------------

(* A request is one of the menu's, and the authenticator kept is the one it
   was sent with. *)
LEMMA RequestKeeps == ASSUME DigestTyped, IInv, Request PROVE IInv'
<1>1. PICK p \in Requests : Deliver("requester", p, MakeSendBuffer(p))
  BY DEF Request
<1>2. requestAuth' = Authenticator(buffer') /\ buffer' = MakeSendBuffer(p) /\ sent' = p
      /\ origin' = "requester" /\ phase' = "header" /\ index' = 0 /\ parsed' = NoPacket
      /\ fault' = "none"
  BY <1>1 DEF Request, Deliver
<1>3. Sendable(p)
  BY RequestsSendable
<1>4. Authenticator(MakeSendBuffer(p)) = WireAuth(p) /\ WireAuth(p) \in [1 .. 16 -> Byte]
  BY <1>3, SendBuffer, SendBufferBytes DEF HasParts
<1>5. requestAuth' \in [1 .. 16 -> Byte]
  BY <1>2, <1>4
<1>6. FromRequester'
  BY <1>2 DEF FromRequester
<1>7. Provenance'
  BY <1>2, <1>6 DEF Provenance
<1>8. Progress'
  BY <1>2 DEF Progress
<1> QED BY <1>5, <1>7, <1>8 DEF IInv

(* A foreign datagram is one of the set. *)
LEMMA ReceiveForeignKeeps == ASSUME DigestTyped, IInv, ReceiveForeign PROVE IInv'
<1>1. PICK d \in Datagrams : Deliver("foreign", d, ReceivedBytes(d))
  BY DEF ReceiveForeign
<1>2. requestAuth' = requestAuth /\ buffer' = ReceivedBytes(d) /\ sent' = d
      /\ origin' = "foreign" /\ phase' = "header" /\ index' = 0 /\ parsed' = NoPacket
      /\ fault' = "none"
  BY <1>1 DEF ReceiveForeign, Deliver
<1>3. requestAuth' \in [1 .. 16 -> Byte]
  BY <1>2 DEF IInv
<1>4. FromForeign'
  BY <1>2 DEF FromForeign
<1>5. Provenance'
  BY <1>2, <1>4 DEF Provenance
<1>6. Progress'
  BY <1>2 DEF Progress
<1> QED BY <1>3, <1>5, <1>6 DEF IInv

(* An accepted request has the id and the authenticator of its datagram. *)
LEMMA AcceptedPacket ==
    ASSUME DigestTyped, IInv, phase = "accepted"
    PROVE  /\ Accepted /\ WellFramed(buffer, SentPieces) /\ parsed \in Packet
           /\ parsed.type = buffer[1] /\ parsed.id = buffer[2] /\ parsed.auth = Authenticator(buffer)
<1>1. Accepted
  BY DEF IInv, Progress
<1>2. WellFramed(buffer, SentPieces)
  BY BufferFramed DEF IInv
<1>3. parsed = Read(buffer, SentPieces, Len(SentPieces)) /\ Complete
  BY <1>1 DEF Accepted
<1>4. Len(buffer) >= 20 /\ Len(SentPieces) \in 0 .. Len(SentPieces)
  BY <1>2, <1>3, CompleteBuffer
<1>5. parsed \in Packet
  BY <1>2, <1>3, <1>4, ReadType
<1>6. /\ parsed.type = buffer[1] /\ parsed.id = buffer[2] /\ parsed.auth = Authenticator(buffer)
  BY <1>3, ReadMade, MadeFields
<1> QED BY <1>1, <1>2, <1>5, <1>6

(* The answer takes the authenticator of the request it answers. *)
LEMMA RespondKeeps == ASSUME DigestTyped, IInv, Respond PROVE IInv'
<1> DEFINE answer(a) == ResponsePacket(a.type, parsed.id, parsed.auth,
                                       a.attributes, a.vendors, a.recalc)
<1>1. PICK a \in Answers : Deliver("responder", answer(a), MakeSendBuffer(answer(a)))
  BY DEF Respond
<1>2. requestAuth' = requestAuth /\ buffer' = MakeSendBuffer(answer(a)) /\ sent' = answer(a)
      /\ origin' = "responder" /\ phase' = "header" /\ index' = 0 /\ parsed' = NoPacket
      /\ fault' = "none"
  <2> HIDE DEF answer
  <2> QED BY <1>1 DEF Respond, Deliver
<1>3. requestAuth \in [1 .. 16 -> Byte] /\ phase = "accepted" /\ origin = "requester"
  BY DEF IInv, Respond
<1>4. requestAuth = Authenticator(buffer)
  BY <1>3 DEF IInv, Provenance, FromRequester
<1>5. parsed.id \in Byte /\ parsed.auth = requestAuth
  <2>1. parsed \in Packet /\ parsed.auth = Authenticator(buffer)
    BY <1>3, AcceptedPacket
  <2> QED BY <1>4, <2>1 DEF Packet
<1>6. FromResponder'
  <2>1. sent' = ResponsePacket(a.type, parsed.id, requestAuth', a.attributes, a.vendors, a.recalc)
    BY <1>2, <1>5
  <2>2. buffer' = MakeSendBuffer(sent')
    BY <1>2
  <2> HIDE DEF answer
  <2> QED BY <1>5, <2>1, <2>2 DEF FromResponder
<1>7. Provenance'
  BY <1>2, <1>6 DEF Provenance
<1>8. Progress'
  BY <1>2 DEF Progress
<1> QED BY <1>2, <1>3, <1>7, <1>8 DEF IInv

(* The datagram is given up, accepted or not. *)
LEMMA DiscardKeeps == ASSUME IInv, Discard PROVE IInv'
<1>1. requestAuth' \in [1 .. 16 -> Byte]
  BY ZerosAuthenticator DEF Discard
<1>2. Provenance'
  BY DEF Discard, Provenance
<1>3. Progress'
  BY DEF Discard, Progress
<1> QED BY <1>1, <1>2, <1>3 DEF IInv

(* The two length checks and the three fields of the header. *)
LEMMA ParseHeaderKeeps == ASSUME DigestTyped, IInv, ParseHeader PROVE IInv'
<1>1. phase = "header" /\ fault = "none"
  BY DEF IInv, Progress, ParseHeader
<1>2. WellFramed(buffer, SentPieces)
  BY <1>1, BufferFramed DEF IInv
<1>3. CASE Len(buffer) < 20 /\ Throw("numberOfBytesIsLessThan20")
  <2>1. Len(buffer) \in Nat
    <3>1. buffer \in Seq(Byte)
      BY <1>2 DEF WellFramed
    <3> QED BY <3>1, LenProperties
  <2>2. Rejected
    BY <1>3, <2>1 DEF Rejected, Complete
  <2> QED BY <1>1, <1>3, <2>2, ThrowKeeps
<1>4. CASE Len(buffer) >= 20 /\ Len(buffer) < Length /\ Throw("requestLengthIsShort")
  <2>1. Rejected
    <3>1. SUFFICES ASSUME Complete PROVE FALSE
      BY DEF Rejected
    <3>2. Length \in Nat /\ Len(buffer) >= Length
      <4>1. Length = 20 + Len(FlattenSeq(SentPieces)) /\ Len(FlattenSeq(SentPieces)) \in Nat
        BY <1>2, <3>1, CompleteBuffer
      <4>2. Length \in Nat
        <5> HIDE DEF Length
        <5> QED BY <4>1
      <4> QED BY <3>1, <4>2 DEF Complete
    <3>3. Len(buffer) \in Nat
      <4>1. buffer \in Seq(Byte)
        BY <1>2 DEF WellFramed
      <4> QED BY <4>1, LenProperties
    <3> QED BY <1>4, <3>2, <3>3
  <2> QED BY <1>1, <1>4, <2>1, ThrowKeeps
<1>5. CASE /\ Len(buffer) >= 20 /\ Len(buffer) >= Length
           /\ parsed' = [NoPacket EXCEPT !.type = buffer[1], !.id = buffer[2],
                                        !.auth = Authenticator(buffer)]
           /\ Continue(20)
  <2>1. Complete
    BY <1>5 DEF Complete
  <2>2. Len(SentPieces) \in Nat /\ SentPieces \in Seq(Seq(Byte))
    BY <1>2, <2>1, CompleteBuffer DEF WellFramed
  <2>3. 0 \in 0 .. Len(SentPieces)
    BY <2>2
  <2>4. 20 = 20 + Len(Flat(SentPieces, 0))
    <3>1. Flat(SentPieces, 0) = <<>>
      BY <2>2, <2>3, FlatType
    <3> QED BY <3>1
  <2>5. parsed' = Read(buffer, SentPieces, 0)
    BY <1>2, <1>5, ReadStart
  <2>6. \A i \in 1 .. 0 : ~Refused(SentPieces[i])
    OBVIOUS
  <2> QED BY <1>1, <1>5, <2>1, <2>3, <2>4, <2>5, <2>6, ContinueKeeps
<1> QED BY <1>3, <1>4, <1>5 DEF ParseHeader

(* The loop stands at an attribute. *)
LEMMA LoopStep ==
    ASSUME DigestTyped, IInv, MoreAttributes
    PROVE  \E k \in 0 .. Len(SentPieces) - 1 :
              /\ WellFramed(buffer, SentPieces) /\ Complete /\ fault = "none"
              /\ StandsAt(buffer, index, SentPieces[k + 1])
              /\ 20 + Len(Flat(SentPieces, k + 1)) = index + Len(SentPieces[k + 1])
              /\ \A i \in 1 .. k : ~Refused(SentPieces[i])
              /\ parsed = Read(buffer, SentPieces, k)
<1>1. phase = "attributes" /\ index < Length /\ fault = "none" /\ Reading
  BY DEF MoreAttributes, IInv, Progress
<1>2. WellFramed(buffer, SentPieces) /\ Complete
  BY <1>1, BufferFramed DEF IInv, Reading
<1>3. PICK k \in 0 .. Len(SentPieces) :
         /\ index = 20 + Len(Flat(SentPieces, k))
         /\ \A i \in 1 .. k : ~Refused(SentPieces[i])
         /\ parsed = Read(buffer, SentPieces, k)
  BY <1>1 DEF Reading
<1>4. /\ k \in 0 .. Len(SentPieces) - 1
      /\ StandsAt(buffer, index, SentPieces[k + 1])
      /\ 20 + Len(Flat(SentPieces, k + 1)) = index + Len(SentPieces[k + 1])
  BY <1>1, <1>2, <1>3, LoopAt
<1> QED BY <1>1, <1>2, <1>3, <1>4

(* A vendor attribute: refused, or read and passed. *)
LEMMA ParseVendorKeeps == ASSUME DigestTyped, IInv, ParseVendor PROVE IInv'
<1> DEFINE data == SubSeq(buffer, index + 3, Len(buffer))
<1>1. PICK k \in 0 .. Len(SentPieces) - 1 :
         /\ WellFramed(buffer, SentPieces) /\ Complete /\ fault = "none"
         /\ StandsAt(buffer, index, SentPieces[k + 1])
         /\ 20 + Len(Flat(SentPieces, k + 1)) = index + Len(SentPieces[k + 1])
         /\ \A i \in 1 .. k : ~Refused(SentPieces[i])
         /\ parsed = Read(buffer, SentPieces, k)
  BY LoopStep DEF ParseVendor
<1> DEFINE piece == SentPieces[k + 1]
<1>2. Type = piece[1] /\ AttributeLength = Len(piece)
  BY <1>1, SeesAttribute DEF Type, AttributeLength
<1>3. Type = VENDOR_SPECIFIC /\ phase # "idle" /\ fault = "none"
  BY <1>1 DEF ParseVendor, MoreAttributes
<1>4. VendorFault(data) = VendorFault(PieceData(piece)) /\ MakeVendor(data) = MakeVendor(PieceData(piece))
  BY <1>1, <1>2, <1>3, SeesVendor
<1>5. Len(SentPieces) \in Nat /\ k + 1 \in 1 .. Len(SentPieces) /\ k + 1 \in 0 .. Len(SentPieces)
      /\ \A i \in 1 .. k + 1 : i \in 1 .. k \/ i = k + 1
  <2>1. Len(SentPieces) \in Nat
    BY <1>1, CompleteBuffer
  <2> QED BY <2>1
<1>6. Refused(piece) <=> VendorFault(data) # "none"
  BY <1>2, <1>3, <1>4 DEF Refused
<1>7. Len(buffer) >= 20
  BY <1>1 DEF Complete
<1>8. [parsed EXCEPT !.vendors = Append(@, MakeVendor(data))] = Read(buffer, SentPieces, k + 1)
  <2>1. WithVendors(parsed, Append(parsed.vendors, MakeVendor(data))) = Read(buffer, SentPieces, k + 1)
    BY <1>1, <1>2, <1>3, <1>4, <1>7, ReadStep
  <2> HIDE DEF data
  <2> QED BY <2>1 DEF WithVendors
<1> HIDE DEF data, piece
<1>9. CASE VendorFault(data) # "none" /\ Throw(VendorFault(data))
  <2>1. Rejected
    BY <1>5, <1>6, <1>9 DEF Rejected, piece
  <2> QED BY <1>3, <1>9, <2>1, ThrowKeeps
<1>10. CASE /\ VendorFault(data) = "none"
            /\ parsed' = [parsed EXCEPT !.vendors = Append(@, MakeVendor(data))]
            /\ Continue(index + AttributeLength)
  <2>1. \A i \in 1 .. k + 1 : ~Refused(SentPieces[i])
    BY <1>1, <1>5, <1>6, <1>10 DEF piece
  <2>2. index + AttributeLength = 20 + Len(Flat(SentPieces, k + 1))
    BY <1>1, <1>2 DEF piece
  <2>3. parsed' = Read(buffer, SentPieces, k + 1)
    BY <1>8, <1>10
  <2>4. Continue(index + AttributeLength)
    BY <1>10
  <2> QED BY <1>1, <1>3, <1>5, <2>1, <2>2, <2>3, <2>4, ContinueKeeps
<1> QED BY <1>9, <1>10 DEF ParseVendor, data

(* Any other attribute: refused, or read and passed. *)
LEMMA ParseAttributeKeeps == ASSUME DigestTyped, IInv, ParseAttribute PROVE IInv'
<1> DEFINE data == SubSeq(buffer, index + 3, index + AttributeLength)
           refusal == SizeFault(ClassOf(Type), Len(data))
<1>1. PICK k \in 0 .. Len(SentPieces) - 1 :
         /\ WellFramed(buffer, SentPieces) /\ Complete /\ fault = "none"
         /\ StandsAt(buffer, index, SentPieces[k + 1])
         /\ 20 + Len(Flat(SentPieces, k + 1)) = index + Len(SentPieces[k + 1])
         /\ \A i \in 1 .. k : ~Refused(SentPieces[i])
         /\ parsed = Read(buffer, SentPieces, k)
  BY LoopStep DEF ParseAttribute
<1> DEFINE piece == SentPieces[k + 1]
<1>2. Type = piece[1] /\ AttributeLength = Len(piece) /\ data = PieceData(piece)
  BY <1>1, SeesAttribute DEF Type, AttributeLength
<1>3. Type # VENDOR_SPECIFIC /\ phase # "idle" /\ fault = "none"
  BY <1>1 DEF ParseAttribute, MoreAttributes
<1>4. Len(SentPieces) \in Nat /\ k + 1 \in 1 .. Len(SentPieces) /\ k + 1 \in 0 .. Len(SentPieces)
      /\ \A i \in 1 .. k + 1 : i \in 1 .. k \/ i = k + 1
  <2>1. Len(SentPieces) \in Nat
    BY <1>1, CompleteBuffer
  <2> QED BY <2>1
<1> HIDE DEF data
<1>5. Refused(piece) <=> refusal # "none"
  BY <1>2, <1>3 DEF Refused
<1>6. Len(buffer) >= 20
  BY <1>1 DEF Complete
<1>7. [parsed EXCEPT !.attributes = Append(@, MakeAttribute(Type, data, parsed.auth))]
        = Read(buffer, SentPieces, k + 1)
  <2>1. WithAttributes(parsed, Append(parsed.attributes, MakeAttribute(Type, data, parsed.auth)))
          = Read(buffer, SentPieces, k + 1)
    BY <1>1, <1>2, <1>3, <1>6, ReadStep
  <2> QED BY <2>1 DEF WithAttributes
<1> HIDE DEF piece, refusal
<1>8. CASE refusal # "none" /\ Throw(refusal)
  <2>1. Rejected
    BY <1>4, <1>5, <1>8 DEF Rejected, piece
  <2> QED BY <1>3, <1>8, <2>1, ThrowKeeps
<1>9. CASE /\ refusal = "none"
           /\ parsed' = [parsed EXCEPT !.attributes =
                           Append(@, MakeAttribute(Type, data, parsed.auth))]
           /\ Continue(index + AttributeLength)
  <2>1. \A i \in 1 .. k + 1 : ~Refused(SentPieces[i])
    BY <1>1, <1>4, <1>5, <1>9 DEF piece
  <2>2. index + AttributeLength = 20 + Len(Flat(SentPieces, k + 1))
    BY <1>1, <1>2 DEF piece
  <2>3. parsed' = Read(buffer, SentPieces, k + 1)
    BY <1>7, <1>9
  <2>4. Continue(index + AttributeLength)
    BY <1>9
  <2> QED BY <1>1, <1>3, <1>4, <2>1, <2>2, <2>3, <2>4, ContinueKeeps
<1> QED BY <1>8, <1>9 DEF ParseAttribute, data, refusal

(* The loop has read everything. *)
LEMMA LoopEnd ==
    ASSUME DigestTyped, IInv, phase = "attributes", index >= Length
    PROVE  /\ WellFramed(buffer, SentPieces) /\ Complete /\ fault = "none" /\ index = Length
           /\ \A i \in 1 .. Len(SentPieces) : ~Refused(SentPieces[i])
           /\ parsed = Read(buffer, SentPieces, Len(SentPieces))
<1>1. fault = "none" /\ Reading
  BY DEF IInv, Progress
<1>2. WellFramed(buffer, SentPieces) /\ Complete
  BY <1>1, BufferFramed DEF IInv, Reading
<1>3. PICK k \in 0 .. Len(SentPieces) :
         /\ index = 20 + Len(Flat(SentPieces, k))
         /\ \A i \in 1 .. k : ~Refused(SentPieces[i])
         /\ parsed = Read(buffer, SentPieces, k)
  BY <1>1 DEF Reading
<1>4. k = Len(SentPieces) /\ index = Length
  BY <1>2, <1>3, LoopAt
<1> QED BY <1>1, <1>2, <1>3, <1>4

(* Behind the last attribute only the check of EAP messages is left. *)
LEMMA FinishParsingKeeps == ASSUME DigestTyped, IInv, FinishParsing PROVE IInv'
<1>1. /\ WellFramed(buffer, SentPieces) /\ Complete /\ fault = "none" /\ index = Length
      /\ \A i \in 1 .. Len(SentPieces) : ~Refused(SentPieces[i])
      /\ parsed = Read(buffer, SentPieces, Len(SentPieces))
  BY LoopEnd DEF FinishParsing
<1>2. phase # "idle"
  BY DEF FinishParsing
<1>3. CASE EapUnauthenticated(parsed.attributes) /\ Throw("eapMessageAttributeError")
  <2>1. Rejected
    BY <1>1, <1>3 DEF Rejected
  <2> QED BY <1>2, <1>3, <2>1, ThrowKeeps
<1>4. CASE /\ ~EapUnauthenticated(parsed.attributes) /\ phase' = "accepted"
           /\ UNCHANGED <<origin, sent, buffer, requestAuth, index, parsed, fault>>
  <2>1. SameInput /\ index' = index /\ parsed' = parsed /\ fault' = "none" /\ phase' = "accepted"
    BY <1>1, <1>4 DEF SameInput
  <2>2. /\ Provenance' /\ requestAuth' \in [1 .. 16 -> Byte] /\ buffer' = buffer
        /\ SentPieces' = SentPieces /\ Complete' = Complete /\ Length' = Length
    BY <1>2, <2>1, KeepsProvenance
  <2>3. Accepted'
    BY <1>1, <1>4, <2>1, <2>2 DEF Accepted
  <2>4. Progress'
    BY <2>1, <2>3 DEF Progress
  <2> QED BY <2>2, <2>4 DEF IInv
<1> QED BY <1>3, <1>4 DEF FinishParsing

(* Nothing happens. *)
LEMMA StutterKeeps == ASSUME IInv, UNCHANGED vars PROVE IInv'
<1>1. /\ phase' = phase /\ origin' = origin /\ sent' = sent /\ buffer' = buffer
      /\ requestAuth' = requestAuth /\ index' = index /\ parsed' = parsed /\ fault' = fault
  BY DEF vars
<1>2. Provenance'
  BY <1>1 DEF IInv, Provenance, FromRequester, FromResponder, FromForeign
<1>3. SentPieces' = SentPieces /\ Complete' = Complete /\ Length' = Length
  BY <1>1 DEF SentPieces, Complete, Length
<1>4. Reading' = Reading /\ Accepted' = Accepted /\ Rejected' = Rejected
  BY <1>1, <1>3 DEF Reading, Accepted, Rejected
<1>5. Progress'
  BY <1>1, <1>4 DEF IInv, Progress
<1> QED BY <1>1, <1>2, <1>5 DEF IInv

(* Every step keeps the invariant. *)
LEMMA NextKeeps == ASSUME DigestTyped PROVE IInv /\ [Next]_vars => IInv'
<1> SUFFICES ASSUME IInv, [Next]_vars PROVE IInv'
  OBVIOUS
<1>1. CASE Request
  BY <1>1, RequestKeeps
<1>2. CASE Respond
  BY <1>2, RespondKeeps
<1>3. CASE ReceiveForeign
  BY <1>3, ReceiveForeignKeeps
<1>4. CASE Discard
  BY <1>4, DiscardKeeps
<1>5. CASE ParseHeader
  BY <1>5, ParseHeaderKeeps
<1>6. CASE ParseVendor
  BY <1>6, ParseVendorKeeps
<1>7. CASE ParseAttribute
  BY <1>7, ParseAttributeKeeps
<1>8. CASE FinishParsing
  BY <1>8, FinishParsingKeeps
<1>9. CASE UNCHANGED vars
  BY <1>9, StutterKeeps
<1> QED BY <1>1, <1>2, <1>3, <1>4, <1>5, <1>6, <1>7, <1>8, <1>9 DEF Next

(* IInv is an invariant: in every phase of the constructor of Packet
   (src/packet.cpp, the parsing one) the loop stands behind k attributes of
   the datagram, has refused none of them and holds what these k attributes
   are read as. *)
THEOREM Invariant == ASSUME DigestTyped PROVE Spec => []IInv
<1>1. Init => IInv
  BY InitInvariant
<1>2. IInv /\ [Next]_vars => IInv'
  BY NextKeeps
<1> QED BY <1>1, <1>2, PTL DEF Spec

-----------------------------------------------------------------------------
(* What follows for the types and the bounds. *)

(* The empty packet is a packet. *)
LEMMA NoPacketType == NoPacket \in Packet /\ NoPacket.attributes = <<>>
<1>1. 0 \in Byte
  BY DEF Byte
<1>2. NoPacket \in Packet
  BY <1>1, ZerosAuthenticator DEF NoPacket, Packet
<1>3. NoPacket.attributes = <<>>
  BY DEF NoPacket
<1> QED BY <1>2, <1>3

(* The attributes have sizes that their classes can hold. *)
AllWellSized(p) == \A i \in DOMAIN p.attributes : WellSized(p.attributes[i])

(* The invariant gives the types of index and parsed. *)
LEMMA ParsedType ==
    ASSUME DigestTyped, IInv
    PROVE  index \in Nat /\ parsed \in Packet /\ AllWellSized(parsed)
<1>1. CASE parsed = NoPacket /\ index = 0
  BY <1>1, NoPacketType DEF AllWellSized
<1>2. CASE phase = "attributes" /\ Reading
  <2>1. WellFramed(buffer, SentPieces) /\ Complete
    BY <1>2, BufferFramed DEF IInv, Reading
  <2>2. PICK k \in 0 .. Len(SentPieces) :
           /\ index = 20 + Len(Flat(SentPieces, k))
           /\ \A i \in 1 .. k : ~Refused(SentPieces[i])
           /\ parsed = Read(buffer, SentPieces, k)
    BY <1>2 DEF Reading
  <2>3. index \in Nat
    BY <2>1, <2>2, LoopAt
  <2>4. Len(buffer) >= 20
    BY <2>1 DEF Complete
  <2>5. parsed \in Packet
    BY <2>1, <2>2, <2>4, ReadType
  <2>6. AllWellSized(parsed)
    BY <2>1, <2>2, <2>4, ReadWellSized DEF AllWellSized
  <2> QED BY <2>3, <2>5, <2>6
<1>3. CASE phase = "accepted"
  <2>1. Accepted /\ WellFramed(buffer, SentPieces) /\ parsed \in Packet
    BY <1>3, AcceptedPacket
  <2>2. /\ Complete /\ index = Length
        /\ \A i \in 1 .. Len(SentPieces) : ~Refused(SentPieces[i])
        /\ parsed = Read(buffer, SentPieces, Len(SentPieces))
    BY <2>1 DEF Accepted
  <2>3. /\ Len(buffer) >= 20 /\ Length = 20 + Len(FlattenSeq(SentPieces))
        /\ Len(FlattenSeq(SentPieces)) \in Nat /\ Len(SentPieces) \in Nat
    BY <2>1, <2>2, CompleteBuffer
  <2>4. index \in Nat
    <3> HIDE DEF Length
    <3> QED BY <2>2, <2>3
  <2>5. Len(SentPieces) \in 0 .. Len(SentPieces)
    BY <2>3
  <2>6. AllWellSized(parsed)
    BY <2>1, <2>2, <2>3, <2>5, ReadWellSized DEF AllWellSized
  <2> QED BY <2>1, <2>4, <2>6
<1> QED BY <1>1, <1>2, <1>3 DEF IInv, Progress

(* Every packet that the constructor has built so far, whole or in part, is
   well typed, and each of its attributes has a size that its class can hold:
   the size checks are complete. *)
THEOREM TypesHold == ASSUME DigestTyped PROVE Spec => []TypeOK
<1>1. ASSUME IInv PROVE TypeOK
  <2>1. /\ phase \in {"idle", "header", "attributes", "accepted", "rejected"}
        /\ (fault = "none") = (phase # "rejected")
    BY <1>1 DEF IInv, Progress
  <2>2. origin \in {"none", "requester", "responder", "foreign"}
    BY <1>1 DEF IInv, Provenance
  <2>3. buffer \in Seq(Byte)
    <3>1. CASE phase = "idle"
      BY <1>1, <3>1 DEF IInv, Provenance
    <3>2. CASE phase # "idle"
      BY <1>1, <3>2, BufferFramed DEF IInv, WellFramed
    <3> QED BY <3>1, <3>2
  <2>4. index \in Nat /\ parsed \in Packet
        /\ \A i \in DOMAIN parsed.attributes : WellSized(parsed.attributes[i])
    BY <1>1, ParsedType DEF AllWellSized
  <2>5. requestAuth \in [1 .. 16 -> Byte]
    BY <1>1 DEF IInv
  <2> QED BY <2>1, <2>2, <2>3, <2>4, <2>5 DEF TypeOK
<1> QED BY <1>1, Invariant, PTL

(* The position of the parsing loop never passes the length in the header:
   the loop trusts the length bytes of attributes (packet.cpp:99), and for
   datagrams of the library and well framed foreign ones it may. *)
THEOREM StaysInside == ASSUME DigestTyped PROVE Spec => []ParserInside
<1>1. ASSUME IInv, phase = "attributes" PROVE 20 <= index /\ index <= Length
  <2>1. Reading
    BY <1>1 DEF IInv, Progress
  <2>2. WellFramed(buffer, SentPieces) /\ Complete
    BY <1>1, <2>1, BufferFramed DEF IInv, Reading
  <2> QED BY <2>1, <2>2, LoopAt DEF Reading
<1>2. ASSUME IInv, phase = "accepted" PROVE 20 <= index /\ index <= Length
  <2>1. Accepted /\ WellFramed(buffer, SentPieces)
    BY <1>2, AcceptedPacket
  <2>2. /\ Length = 20 + Len(FlattenSeq(SentPieces)) /\ Len(FlattenSeq(SentPieces)) \in Nat
        /\ index = Length
    BY <2>1, CompleteBuffer DEF Accepted
  <2> HIDE DEF Length
  <2> QED BY <2>2
<1>3. IInv => ParserInside
  BY <1>1, <1>2 DEF ParserInside
<1> QED BY <1>3, Invariant, PTL

(* The digest that a packet with recalc carries. *)
LEMMA DigestInPlace ==
    ASSUME DigestTyped, Sendable(sent), buffer = MakeSendBuffer(sent), sent.recalc
    PROVE  /\ Authenticator(buffer)
                = Digest(SubSeq(buffer, 1, 4) \o sent.auth \o SubSeq(buffer, 21, Length) \o Secret)
           /\ buffer[1] = sent.type
<1> DEFINE body == Body(sent)
<1>1. /\ HasParts(buffer, sent.type, sent.id, 20 + Len(body), WireAuth(sent), body)
  BY SendBufferBytes
<1>2. /\ Length = 20 + Len(body) /\ Len(buffer) = 20 + Len(body)
      /\ Start(buffer) = <<sent.type, sent.id>> \o LengthBytes(20 + Len(body))
      /\ Behind(buffer) = body /\ Authenticator(buffer) = WireAuth(sent) /\ buffer[1] = sent.type
  BY <1>1 DEF HasParts, Length
<1>3. SubSeq(buffer, 21, Length) = body
  BY <1>2 DEF Behind
<1>4. SubSeq(buffer, 1, 4) = <<sent.type, sent.id>> \o LengthBytes(20 + Len(body))
  BY <1>2 DEF Start
<1>5. WireAuth(sent)
        = Digest(Frame(sent.type, sent.id, 20 + Len(body), sent.auth, body) \o Secret)
  BY DEF WireAuth
<1> HIDE DEF body
<1> QED BY <1>2, <1>3, <1>4, <1>5 DEF Frame

(* An Access-Accept that was parsed carries the digest of the datagram with
   the authenticator of the request's datagram in its place, and the secret; a
   request with recalc the digest over what its constructor put there
   (packet.cpp:188-207). *)
THEOREM AnswersSigned == ASSUME DigestTyped PROVE Spec => []Signed
<1>1. ASSUME IInv PROVE Signed
  <2> DEFINE proof(auth) == Digest(SubSeq(buffer, 1, 4) \o auth
                                   \o SubSeq(buffer, 21, Length) \o Secret)
  <2>1. SUFFICES ASSUME phase = "accepted"
                 PROVE  /\ origin = "responder" /\ (parsed.type = 2 \/ sent.recalc)
                              => parsed.auth = proof(requestAuth)
                        /\ origin = "requester" /\ sent.recalc => parsed.auth = proof(sent.auth)
    BY DEF Signed
  <2>2. parsed.type = buffer[1] /\ parsed.auth = Authenticator(buffer)
    BY <1>1, <2>1, AcceptedPacket
  <2>3. requestAuth \in [1 .. 16 -> Byte] /\ Provenance
    BY <1>1 DEF IInv
  <2>4. ASSUME origin = "requester", sent.recalc PROVE parsed.auth = proof(sent.auth)
    <3>1. FromRequester
      BY <2>1, <2>3, <2>4 DEF Provenance
    <3>2. Sendable(sent) /\ buffer = MakeSendBuffer(sent)
      BY <2>3, <3>1, OwnSendable
    <3> QED BY <2>2, <2>4, <3>2, DigestInPlace
  <2>5. ASSUME origin = "responder", parsed.type = 2 \/ sent.recalc
        PROVE  parsed.auth = proof(requestAuth)
    <3>1. FromResponder
      BY <2>1, <2>3, <2>5 DEF Provenance
    <3>2. Sendable(sent) /\ buffer = MakeSendBuffer(sent)
      BY <2>3, <3>1, OwnSendable
    <3>3. PICK a \in Answers, id \in Byte :
             sent = ResponsePacket(a.type, id, requestAuth, a.attributes, a.vendors, a.recalc)
      BY <3>1 DEF FromResponder
    <3>4. sent.auth = requestAuth /\ (sent.type = 2 => sent.recalc)
      BY <3>3 DEF ResponsePacket
    <3>5. HasParts(buffer, sent.type, sent.id, 20 + Len(Body(sent)), WireAuth(sent), Body(sent))
      BY <3>2, SendBufferBytes
    <3>6. buffer[1] = sent.type
      BY <3>5 DEF HasParts
    <3>7. sent.recalc
      BY <2>2, <2>5, <3>4, <3>6
    <3> QED BY <2>2, <3>2, <3>4, <3>7, DigestInPlace
  <2> QED BY <2>4, <2>5
<1> QED BY <1>1, Invariant, PTL

-----------------------------------------------------------------------------
(* What the library writes and reads. *)

(* An attribute that the library reads as it writes it. *)
ReadsBack(a) ==
    /\ a \in Attribute /\ a.type # VENDOR_SPECIFIC /\ WrittenSize(a) <= 253
    /\ a.class = ClassOf(a.type) /\ a.class \notin {"Integer", "Encrypted"}
    /\ RightSize(a.class, Len(a.value))

(* The size checks of the constructors and the sizes of RFC 2865 allow the
   same, class by class ... *)
LEMMA SizesOfClass ==
    ASSUME NEW size \in Nat,
           NEW class \in {"String", "Encrypted", "ChapPassword", "IpAddress", "Integer", "Bytes"}
    PROVE  SizeFault(class, size) = "none" <=> RightSize(class, size)
<1>2. CASE class = "IpAddress"
  BY <1>2 DEF SizeFault, RightSize, AddressFault
<1>3. CASE class = "Encrypted"
  BY <1>3 DEF SizeFault, RightSize, PasswordFault
<1>4. CASE class = "ChapPassword"
  <2>1. SizeFault(class, size) = ChapFault(size)
    BY <1>4 DEF SizeFault
  <2>2. RightSize(class, size) <=> size = 17
    BY <1>4 DEF RightSize
  <2>3. ChapFault(17) = "none"
    BY DEF ChapFault
  <2>4. size # 17 => ChapFault(size) \in {"length_error", "invalidAttributeSize"}
    BY DEF ChapFault
  <2> QED BY <2>1, <2>2, <2>3, <2>4
<1>5. CASE class = "Integer"
  BY <1>5 DEF SizeFault, RightSize, IntegerFault
<1>6. CASE class \in {"String", "Bytes"}
  BY <1>6 DEF SizeFault, RightSize
<1> QED BY <1>2, <1>3, <1>4, <1>5, <1>6

(* ... and for the class that a type stands for. *)
LEMMA SizesAllowed ==
    ASSUME NEW size \in Nat, NEW type \in Byte
    PROVE  SizeFault(ClassOf(type), size) = "none" <=> RightSize(ClassOf(type), size)
<1>1. ClassOf(type) \in {"String", "Encrypted", "ChapPassword", "IpAddress", "Integer", "Bytes"}
  BY DEF ClassOf
<1> QED BY <1>1, SizesOfClass

(* Classes that write their value as it is. *)
LEMMA PlainData ==
    ASSUME NEW a, a.class \notin {"Integer", "Encrypted"}, NEW auth
    PROVE  Data(a, auth) = a.value
  BY DEF Data

(* Such an attribute is written with every authenticator as the same bytes,
   which are read as this attribute. *)
LEMMA AttributeReadBack ==
    ASSUME DigestTyped, NEW a, ReadsBack(a),
           NEW auth \in [1 .. 16 -> Byte], NEW other \in [1 .. 16 -> Byte]
    PROVE  /\ ~Refused(ToVector(a, auth))
           /\ AttributesIn(ToVector(a, auth), other) = <<a>>
           /\ VendorsIn(ToVector(a, auth)) = <<>>
           /\ ToVector(a, other) = ToVector(a, auth)
<1> DEFINE piece == ToVector(a, auth)
           value == a.value
<1>1. /\ a \in Attribute /\ a.type # VENDOR_SPECIFIC /\ WrittenSize(a) <= 253
      /\ a.class = ClassOf(a.type) /\ a.class \notin {"Integer", "Encrypted"}
      /\ RightSize(a.class, Len(value))
  BY DEF ReadsBack
<1>2. value \in Seq(Byte) /\ a.type \in Byte
      /\ a = [class |-> a.class, type |-> a.type, value |-> value]
  BY <1>1 DEF Attribute
<1>3. Data(a, auth) = value /\ Data(a, other) = value
  BY <1>1, PlainData
<1>4. piece[1] = a.type /\ PieceData(piece) = value
  BY <1>1, <1>3, ToVectorFramed
<1>5. ToVector(a, other) = piece
  <2>1. ToVector(a, other) = <<a.type, (2 + Len(Data(a, other))) % 256>> \o Data(a, other)
    BY DEF ToVector
  <2>2. ToVector(a, auth) = <<a.type, (2 + Len(Data(a, auth))) % 256>> \o Data(a, auth)
    BY DEF ToVector
  <2> QED BY <1>3, <2>1, <2>2
<1>6. Len(value) \in Nat
  BY <1>2, LenProperties
<1> HIDE DEF piece, value
<1>7. SizeFault(ClassOf(a.type), Len(value)) = "none"
  BY <1>1, <1>2, <1>6, SizesAllowed
<1>8. ~Refused(piece)
  BY <1>1, <1>4, <1>7 DEF Refused
<1>9. MakeAttribute(a.type, value, other) = a
  <2>1. MakeAttribute(a.type, value, other) = [class |-> a.class, type |-> a.type, value |-> value]
    BY <1>1 DEF MakeAttribute
  <2> QED BY <1>2, <2>1
<1>10. AttributesIn(piece, other) = <<a>> /\ VendorsIn(piece) = <<>>
  BY <1>1, <1>4, <1>9 DEF AttributesIn, VendorsIn
<1> QED BY <1>5, <1>8, <1>10 DEF piece

(* So is a vendor attribute with a vendor number of three bytes. *)
LEMMA VendorReadBack ==
    ASSUME NEW v \in Vendor, Len(v.value) <= 247, v.id < 2^24, NEW auth
    PROVE  /\ ~Refused(VendorToVector(v))
           /\ AttributesIn(VendorToVector(v), auth) = <<>>
           /\ VendorsIn(VendorToVector(v)) = <<v>>
<1> DEFINE piece == VendorToVector(v)
           data == <<0, v.id \div 2^16, (v.id \div 2^8) % 256, v.id % 256,
                     v.type, 2 + Len(v.value)>> \o v.value
<1>1. piece[1] = VENDOR_SPECIFIC /\ PieceData(piece) = data
  BY VendorToVectorFramed, ZenonT(40)
<1>2. VendorFault(data) = "none" /\ MakeVendor(data) = v
  BY VendorRead
<1> HIDE DEF piece, data
<1> QED BY <1>1, <1>2 DEF Refused, AttributesIn, VendorsIn, piece

(* All parts of a readable packet are. *)
LEMMA ReadableParts ==
    ASSUME NEW p, Sendable(p), Readable(p.attributes, p.vendors)
    PROVE  /\ p.attributes \in Seq(Attribute) /\ p.vendors \in Seq(Vendor)
           /\ Len(p.attributes) \in Nat /\ Len(p.vendors) \in Nat
           /\ \A i \in 1 .. Len(p.attributes) : ReadsBack(p.attributes[i])
           /\ \A i \in 1 .. Len(p.vendors) :
                 /\ p.vendors[i] \in Vendor /\ Len(p.vendors[i].value) <= 247
                 /\ p.vendors[i].id < 2^24
           /\ ~EapUnauthenticated(p.attributes)
<1>1. Fits(p.attributes, p.vendors)
  BY DEF Sendable
<1>2. /\ p.attributes \in Seq(Attribute) /\ p.vendors \in Seq(Vendor)
      /\ Len(p.attributes) \in Nat /\ Len(p.vendors) \in Nat
      /\ \A i \in 1 .. Len(p.attributes) :
            /\ p.attributes[i] \in Attribute
            /\ p.attributes[i].type # VENDOR_SPECIFIC /\ WrittenSize(p.attributes[i]) <= 253
      /\ \A i \in 1 .. Len(p.vendors) : p.vendors[i] \in Vendor /\ Len(p.vendors[i].value) <= 247
  BY <1>1, FitsType
<1>3. DOMAIN p.attributes = 1 .. Len(p.attributes) /\ DOMAIN p.vendors = 1 .. Len(p.vendors)
  BY <1>2, LenProperties
<1>4. ASSUME NEW i \in 1 .. Len(p.attributes) PROVE ReadsBack(p.attributes[i])
  <2> DEFINE a == p.attributes[i]
  <2>1. /\ a.class = ClassOf(a.type) /\ a.class \notin {"Integer", "Encrypted"}
        /\ RightSize(a.class, Len(a.value))
    BY <1>3 DEF Readable
  <2>2. a \in Attribute /\ a.type # VENDOR_SPECIFIC /\ WrittenSize(a) <= 253
    BY <1>2
  <2> QED BY <2>1, <2>2 DEF ReadsBack
<1>5. \A i \in 1 .. Len(p.vendors) : p.vendors[i].id < 2^24
  BY <1>3 DEF Readable
<1>6. ~EapUnauthenticated(p.attributes)
  BY DEF Readable
<1> QED BY <1>2, <1>4, <1>5, <1>6

(* All that was written is read. *)
LEMMA SentRead ==
    ASSUME DigestTyped, NEW p, Sendable(p), Readable(p.attributes, p.vendors),
           NEW auth \in [1 .. 16 -> Byte]
    PROVE  /\ \A i \in 1 .. Len(Pieces(p)) : ~Refused(Pieces(p)[i])
           /\ FlattenSeq(AllAttributesIn(Pieces(p), auth)) = p.attributes
           /\ FlattenSeq(AllVendorsIn(Pieces(p))) = p.vendors
           /\ Len(Pieces(p)) = Len(p.attributes) + Len(p.vendors)
           /\ \A i \in 1 .. Len(p.attributes) :
                 Pieces(p)[i] = ToVector(p.attributes[i], auth)
<1> DEFINE pieces == Pieces(p)
           x == p.attributes
           y == p.vendors
           n == Len(x)
           m == Len(y)
           s == AllAttributesIn(pieces, auth)
           t == AllVendorsIn(pieces)
<1>1. /\ x \in Seq(Attribute) /\ y \in Seq(Vendor) /\ n \in Nat /\ m \in Nat
      /\ \A i \in 1 .. n : ReadsBack(x[i])
      /\ \A i \in 1 .. m : y[i] \in Vendor /\ Len(y[i].value) <= 247 /\ y[i].id < 2^24
  BY ReadableParts
<1>2. /\ pieces \in Seq(Seq(Byte)) /\ Len(pieces) = n + m
      /\ \A i \in 1 .. n : pieces[i] = ToVector(x[i], p.auth)
      /\ \A i \in 1 .. m : pieces[n + i] = VendorToVector(y[i])
      /\ \A i \in 1 .. Len(pieces) : FramedPiece(pieces[i])
  BY PiecesOf DEF Sendable
<1>3. p.auth \in [1 .. 16 -> Byte]
  BY DEF Sendable
<1> HIDE DEF pieces, x, y, n, m
<1>4. /\ s \in Seq(Seq(Attribute)) /\ t \in Seq(Seq(Vendor))
      /\ Len(s) = Len(pieces) /\ Len(t) = Len(pieces)
      /\ \A i \in 1 .. Len(pieces) : s[i] = AttributesIn(pieces[i], auth) /\ t[i] = VendorsIn(pieces[i])
  BY <1>2, AllType
<1> HIDE DEF s, t
<1>5. \A i \in 1 .. n + m : i \in 1 .. n \/ (i \notin 1 .. n /\ i - n \in 1 .. m /\ n + (i - n) = i)
  BY <1>1
<1>6. ASSUME NEW i \in 1 .. n
      PROVE  ~Refused(pieces[i]) /\ AttributesIn(pieces[i], auth) = <<x[i]>> /\ VendorsIn(pieces[i]) = <<>>
             /\ pieces[i] = ToVector(x[i], auth)
  <2>1. ReadsBack(x[i]) /\ pieces[i] = ToVector(x[i], p.auth)
    BY <1>1, <1>2
  <2>2. /\ ~Refused(ToVector(x[i], p.auth))
        /\ AttributesIn(ToVector(x[i], p.auth), auth) = <<x[i]>>
        /\ VendorsIn(ToVector(x[i], p.auth)) = <<>>
        /\ ToVector(x[i], auth) = ToVector(x[i], p.auth)
    BY <1>3, <2>1, AttributeReadBack
  <2> QED BY <2>1, <2>2
<1>7. ASSUME NEW i \in 1 .. m
      PROVE  /\ ~Refused(pieces[n + i]) /\ AttributesIn(pieces[n + i], auth) = <<>>
             /\ VendorsIn(pieces[n + i]) = <<y[i]>>
  <2>1. y[i] \in Vendor /\ Len(y[i].value) <= 247 /\ y[i].id < 2^24
        /\ pieces[n + i] = VendorToVector(y[i])
    BY <1>1, <1>2
  <2>2. /\ ~Refused(VendorToVector(y[i])) /\ AttributesIn(VendorToVector(y[i]), auth) = <<>>
        /\ VendorsIn(VendorToVector(y[i])) = <<y[i]>>
    BY <2>1, VendorReadBack
  <2> QED BY <2>1, <2>2
<1>8. ASSUME NEW i \in 1 .. n + m
      PROVE  /\ ~Refused(pieces[i])
             /\ s[i] = IF 0 < i /\ i <= 0 + n THEN <<x[i - 0]>> ELSE <<>>
             /\ t[i] = IF n < i /\ i <= n + m THEN <<y[i - n]>> ELSE <<>>
  <2>1. s[i] = AttributesIn(pieces[i], auth) /\ t[i] = VendorsIn(pieces[i])
    BY <1>2, <1>4
  <2>2. CASE i \in 1 .. n
    <3>1. (0 < i /\ i <= 0 + n) /\ ~(n < i /\ i <= n + m) /\ i - 0 = i
      BY <1>1, <2>2
    <3> QED BY <1>6, <2>1, <2>2, <3>1
  <2>3. CASE i \notin 1 .. n
    <3> DEFINE j == i - n
    <3>1. ~(0 < i /\ i <= 0 + n) /\ (n < i /\ i <= n + m) /\ j \in 1 .. m /\ n + j = i
      BY <1>1, <1>5, <2>3
    <3>2. ~Refused(pieces[n + j]) /\ AttributesIn(pieces[n + j], auth) = <<>>
          /\ VendorsIn(pieces[n + j]) = <<y[j]>>
      <4> HIDE DEF j
      <4> QED BY <1>7, <3>1
    <3> QED BY <2>1, <3>1, <3>2
  <2> QED BY <2>2, <2>3
<1>9. FlattenSeq(s) = x
  <2>1. 0 + Len(x) <= Len(s)
    BY <1>1, <1>2, <1>4, SMTT(30) DEF n
  <2>2. \A i \in 1 .. Len(s) : s[i] = IF 0 < i /\ i <= 0 + Len(x) THEN <<x[i - 0]>> ELSE <<>>
    BY <1>2, <1>4, <1>8 DEF n
  <2>3. s \in Seq(Seq(Attribute)) /\ x \in Seq(Attribute) /\ 0 \in Nat
    BY <1>1, <1>4
  <2> QED BY <2>1, <2>2, <2>3, FlattenPick
<1>10. FlattenSeq(t) = y
  <2>1. n + Len(y) <= Len(t)
    BY <1>1, <1>2, <1>4 DEF m
  <2>2. \A i \in 1 .. Len(t) : t[i] = IF n < i /\ i <= n + Len(y) THEN <<y[i - n]>> ELSE <<>>
    BY <1>2, <1>4, <1>8 DEF m
  <2>3. t \in Seq(Seq(Vendor)) /\ y \in Seq(Vendor) /\ n \in Nat
    BY <1>1, <1>4
  <2> QED BY <2>1, <2>2, <2>3, FlattenPick
<1>11. \A i \in 1 .. Len(pieces) : ~Refused(pieces[i])
  BY <1>2, <1>8
<1> QED BY <1>2, <1>6, <1>9, <1>10, <1>11 DEF s, t, pieces, x, y, n, m

(* Users send each other what the library reads as it writes it. *)
ReadableMenus ==
    /\ \A p \in Requests : Readable(p.attributes, p.vendors)
    /\ \A a \in Answers : Readable(a.attributes, a.vendors)

(* What users send under this hypothesis is readable. *)
LEMMA OwnReadable ==
    ASSUME ReadableMenus, requestAuth \in [1 .. 16 -> Byte], FromRequester \/ FromResponder
    PROVE  Readable(sent.attributes, sent.vendors)
<1>1. CASE FromRequester
  BY <1>1 DEF FromRequester, ReadableMenus
<1>2. CASE FromResponder
  <2>1. PICK a \in Answers, id \in Byte :
           sent = ResponsePacket(a.type, id, requestAuth, a.attributes, a.vendors, a.recalc)
    BY <1>2 DEF FromResponder
  <2>2. LET p == ResponsePacket(a.type, id, requestAuth, a.attributes, a.vendors, a.recalc)
        IN  p.attributes = a.attributes /\ p.vendors = a.vendors
    BY ResponseSendable
  <2>3. sent.attributes = a.attributes /\ sent.vendors = a.vendors
    BY <2>1, <2>2
  <2> QED BY <2>3 DEF ReadableMenus
<1> QED BY <1>1, <1>2

(* What a user sends arrives as it was sent. *)
LEMMA OwnFinished ==
    ASSUME DigestTyped, ReadableMenus, IInv, Finished, Own
    PROVE  /\ phase = "accepted" /\ Sendable(sent) /\ buffer = MakeSendBuffer(sent)
           /\ Readable(sent.attributes, sent.vendors)
           /\ parsed = Made(sent.type, sent.id, Copied, WireAuth(sent), sent.attributes, sent.vendors)
<1>1. requestAuth \in [1 .. 16 -> Byte] /\ Provenance /\ Progress
  BY DEF IInv
<1>2. FromRequester \/ FromResponder
  BY <1>1 DEF Finished, Own, Provenance
<1>3. Sendable(sent) /\ buffer = MakeSendBuffer(sent)
  BY <1>1, <1>2, OwnSendable
<1>4. Readable(sent.attributes, sent.vendors)
  BY <1>1, <1>2, OwnReadable
<1>5. SentPieces = Pieces(sent)
  BY DEF Own, SentPieces
<1> DEFINE n == Len(SentPieces)
           auth == WireAuth(sent)
<1>6. auth \in [1 .. 16 -> Byte]
  BY <1>3, SendBuffer
<1>7. /\ HasParts(buffer, sent.type, sent.id, 20 + Len(Body(sent)), auth, Body(sent))
      /\ Len(Body(sent)) \in Nat
  BY <1>3, SendBufferBytes
<1>8. /\ buffer[1] = sent.type /\ buffer[2] = sent.id /\ Authenticator(buffer) = auth
      /\ Len(buffer) = 20 + Len(Body(sent)) /\ Length = 20 + Len(Body(sent))
  BY <1>7 DEF HasParts, Length
<1>9. Complete
  <2> HIDE DEF Length
  <2> QED BY <1>7, <1>8 DEF Complete
<1>10. WellFramed(buffer, SentPieces)
  BY <1>1, BufferFramed DEF Finished
<1>11. SentPieces \in Seq(Seq(Byte)) /\ n \in Nat
       /\ \A i \in 1 .. n : FramedPiece(SentPieces[i])
  BY <1>9, <1>10, CompleteBuffer DEF WellFramed
<1> HIDE DEF auth, n
<1>12. /\ \A i \in 1 .. n : ~Refused(SentPieces[i])
       /\ FlattenSeq(AllAttributesIn(SentPieces, auth)) = sent.attributes
       /\ FlattenSeq(AllVendorsIn(SentPieces)) = sent.vendors
  BY <1>3, <1>4, <1>5, <1>6, SentRead DEF n
<1>13. /\ AllAttributesIn(SentPieces, auth) \in Seq(Seq(Attribute))
       /\ AllVendorsIn(SentPieces) \in Seq(Seq(Vendor))
       /\ Len(AllAttributesIn(SentPieces, auth)) = n /\ Len(AllVendorsIn(SentPieces)) = n
  <2>1. \A i \in 1 .. Len(SentPieces) : FramedPiece(SentPieces[i])
    BY <1>11 DEF n
  <2> QED BY <1>6, <1>11, <2>1, AllType DEF n
<1>14. Flat(AllAttributesIn(SentPieces, auth), n) = sent.attributes
  <2> DEFINE s == AllAttributesIn(SentPieces, auth)
  <2> HIDE DEF s
  <2>1. s \in Seq(Seq(Attribute)) /\ Len(s) = n /\ Len(s) \in 0 .. Len(s)
    BY <1>11, <1>13 DEF s
  <2>2. Flat(s, Len(s)) = FlattenSeq(s)
    BY <2>1, FlatType
  <2> QED BY <1>12, <2>1, <2>2 DEF s
<1>15. Flat(AllVendorsIn(SentPieces), n) = sent.vendors
  <2> DEFINE s == AllVendorsIn(SentPieces)
  <2> HIDE DEF s
  <2>1. s \in Seq(Seq(Vendor)) /\ Len(s) = n /\ Len(s) \in 0 .. Len(s)
    BY <1>11, <1>13 DEF s
  <2>2. Flat(s, Len(s)) = FlattenSeq(s)
    BY <2>1, FlatType
  <2> QED BY <1>12, <2>1, <2>2 DEF s
<1>16. Read(buffer, SentPieces, n)
         = Made(sent.type, sent.id, Copied, auth, sent.attributes, sent.vendors)
  BY <1>8, <1>14, <1>15, ReadMade
<1>17. Read(buffer, SentPieces, n).attributes = sent.attributes
  BY <1>16, MadeFields
<1>18. ~EapUnauthenticated(sent.attributes)
  BY <1>4 DEF Readable
<1>19. ~Rejected
  BY <1>9, <1>12, <1>17, <1>18 DEF Rejected, n
<1>20. phase = "accepted" /\ Accepted
  BY <1>1, <1>19 DEF Progress, Finished
<1>21. parsed = Read(buffer, SentPieces, n)
  BY <1>20 DEF Accepted, n
<1> QED BY <1>3, <1>4, <1>16, <1>20, <1>21 DEF auth

(* A packet of readable attributes is accepted by the other side and has the
   type, the id, the attributes and the vendor attributes that were sent, in
   their order, for all packets and all digests. *)
THEOREM ArrivesAsSent == ASSUME DigestTyped, ReadableMenus PROVE Spec => []RoundTrip
<1>1. ASSUME IInv, Finished, Own
      PROVE  /\ phase = "accepted" /\ parsed.type = sent.type /\ parsed.id = sent.id
             /\ SameContent(parsed, sent)
  <2>1. /\ phase = "accepted"
        /\ parsed = Made(sent.type, sent.id, Copied, WireAuth(sent), sent.attributes, sent.vendors)
    BY <1>1, OwnFinished
  <2>2. /\ parsed.type = sent.type /\ parsed.id = sent.id
        /\ parsed.attributes = sent.attributes /\ parsed.vendors = sent.vendors
    BY <2>1, MadeFields
  <2>3. SameContent(parsed, sent)
    BY <2>2 DEF SameContent
  <2> QED BY <2>1, <2>2, <2>3
<1>2. IInv => RoundTrip
  BY <1>1 DEF RoundTrip
<1> QED BY <1>2, Invariant, PTL

-----------------------------------------------------------------------------
(* Foreign datagrams. *)

(* Attributes that a reader takes for the same. *)
Same == {pair \in Attribute \X Attribute :
            Meaning(pair[1]) = Meaning(pair[2]) /\ pair[1].type = pair[2].type}

(* A piece is read as what the sender of the item meant. *)
ReadAs(piece, auth, item) ==
    /\ VendorsIn(piece) = item.vendors
    /\ Len(AttributesIn(piece, auth)) = Len(item.attributes)
    /\ \A j \in 1 .. Len(AttributesIn(piece, auth)) :
          <<AttributesIn(piece, auth)[j], item.attributes[j]>> \in Same

(* A piece with the type and the data of an item, without saying how it was
   built. *)
IsPieceOf(piece, item) ==
    /\ item \in Item /\ piece[1] = item.type /\ PieceData(piece) = item.data
    /\ item.type \in Byte /\ item.data \in Seq(Byte) /\ Len(item.data) \in Nat
    /\ item.attributes \in Seq(Attribute) /\ item.vendors \in Seq(Vendor)

(* The pieces of a foreign datagram are those of its items. *)
LEMMA PieceOfItem ==
    ASSUME NEW d, IsDatagram(d), NEW i \in 1 .. Len(d.items)
    PROVE  IsPieceOf(ItemPieces(d)[i], d.items[i])
<1> DEFINE item == d.items[i]
           piece == ItemPieces(d)[i]
<1>1. item \in Item /\ piece[1] = item.type /\ PieceData(piece) = item.data
  BY ItemPieceOf
<1> HIDE DEF item, piece
<1>2. /\ item.type \in Byte /\ item.data \in Seq(Byte)
      /\ item.attributes \in Seq(Attribute) /\ item.vendors \in Seq(Vendor)
  BY <1>1 DEF Item
<1>3. Len(item.data) \in Nat
  BY <1>2, LenProperties
<1>4. IsPieceOf(piece, item)
  BY <1>1, <1>2, <1>3 DEF IsPieceOf
<1> QED BY <1>4 DEF item, piece

(* The parsing constructor of the class that the type stands for builds what
   the sender meant. *)
LEMMA SameAttribute ==
    ASSUME DigestTyped, NEW a \in Attribute, NEW data \in Seq(Byte), NEW auth \in [1 .. 16 -> Byte],
           a.class = ClassOf(a.type), RightSize(a.class, Len(data)),
           IF a.class = "Encrypted" THEN Hides(data, a.value, auth) ELSE data = a.value
    PROVE  <<MakeAttribute(a.type, data, auth), a>> \in Same
<1> DEFINE made == MakeAttribute(a.type, data, auth)
           value == a.value
<1>1. value \in Seq(Byte) /\ a.type \in Byte
      /\ a = [class |-> a.class, type |-> a.type, value |-> value]
  BY DEF Attribute
<1>2. made \in Attribute
  BY <1>1, MakeAttributeType
<1>3. made.type = a.type
  BY DEF MakeAttribute
<1>4. CASE a.class = "Encrypted"
  <2>1. Decryption(data, auth) = value
    BY <1>1, <1>4, DecryptionOfHides
  <2>2. made = [class |-> a.class, type |-> a.type, value |-> Decryption(data, auth)]
    BY <1>4 DEF MakeAttribute
  <2>3. made = a
    <3> HIDE DEF value, made
    <3> QED BY <1>1, <2>1, <2>2
  <2>4. Meaning(made) = Meaning(a)
    <3> HIDE DEF made
    <3> QED BY <2>3
  <2> HIDE DEF made
  <2> QED BY <1>2, <1>3, <2>4 DEF Same, made
<1>5. CASE a.class = "Integer"
  <2> DEFINE long == Zeros(8 - Len(data)) \o data
  <2>1. made = [class |-> a.class, type |-> a.type, value |-> long]
    BY <1>5 DEF MakeAttribute
  <2>2. data = value
    BY <1>5
  <2>3. 8 - Len(data) \in Nat
    <3>1. Len(data) \in {1, 2, 4, 8}
      BY <1>5 DEF RightSize
    <3>2. \A n \in {1, 2, 4, 8} : 8 - n \in Nat
      OBVIOUS
    <3> QED BY <3>1, <3>2
  <2>4. Number(long) = Number(data)
    BY <2>3, NumberPadded
  <2> HIDE DEF made, long, value
  <2>5. Meaning(made) = [made EXCEPT !.value = Number(long)]
    BY <1>5, <2>1 DEF Meaning
  <2>6. Meaning(a) = [a EXCEPT !.value = Number(value)]
    BY <1>1, <1>5 DEF Meaning
  <2>7. [made EXCEPT !.value = Number(long)]
          = [class |-> a.class, type |-> a.type, value |-> Number(long)]
    BY <2>1
  <2>8. [a EXCEPT !.value = Number(value)]
          = [class |-> a.class, type |-> a.type, value |-> Number(value)]
    BY <1>1, SMTT(30)
  <2>9. Meaning(made) = Meaning(a)
    BY <2>2, <2>4, <2>5, <2>6, <2>7, <2>8
  <2> QED BY <1>2, <1>3, <2>9 DEF Same, made
<1>6. CASE a.class \notin {"Encrypted", "Integer"}
  <2>1. made = [class |-> a.class, type |-> a.type, value |-> data]
    BY <1>6 DEF MakeAttribute
  <2>2. data = value
    BY <1>6
  <2>3. made = a
    <3> HIDE DEF value, made
    <3> QED BY <1>1, <2>1, <2>2
  <2>4. Meaning(made) = Meaning(a)
    <3> HIDE DEF made
    <3> QED BY <2>3
  <2> HIDE DEF made
  <2> QED BY <1>2, <1>3, <2>4 DEF Same, made
<1> QED BY <1>4, <1>5, <1>6

(* An attribute is read as what it was meant for. *)
LEMMA AttributeItemRead ==
    ASSUME DigestTyped, NEW piece, NEW item, IsPieceOf(piece, item),
           NEW auth \in [1 .. 16 -> Byte], IsAttribute(item, auth)
    PROVE  /\ ~Refused(piece) /\ ReadAs(piece, auth, item)
           /\ item.attributes \o item.vendors # <<>>
<1> DEFINE a == item.attributes[1]
           data == item.data
<1>1. /\ item.type # VENDOR_SPECIFIC /\ item.vendors = <<>> /\ Len(item.attributes) = 1
      /\ a.type = item.type /\ a.class = ClassOf(item.type)
      /\ RightSize(a.class, Len(data))
      /\ IF a.class = "Encrypted" THEN Hides(data, a.value, auth) ELSE data = a.value
  BY DEF IsAttribute
<1>2. /\ piece[1] = item.type /\ PieceData(piece) = data
      /\ item.type \in Byte /\ data \in Seq(Byte) /\ Len(data) \in Nat
      /\ item.attributes \in Seq(Attribute)
  BY DEF IsPieceOf
<1>3. a \in Attribute
  <2>1. 1 \in 1 .. Len(item.attributes)
    BY <1>1
  <2> QED BY <1>2, <2>1, ElementOfSeq
<1> HIDE DEF a, data
<1>4. ~Refused(piece)
  <2>1. SizeFault(ClassOf(item.type), Len(data)) = "none"
    BY <1>1, <1>2, SizesAllowed
  <2> QED BY <1>1, <1>2, <2>1 DEF Refused
<1>5. <<MakeAttribute(item.type, data, auth), a>> \in Same
  BY <1>1, <1>2, <1>3, SameAttribute
<1>6. AttributesIn(piece, auth) = <<MakeAttribute(item.type, data, auth)>> /\ VendorsIn(piece) = <<>>
  BY <1>1, <1>2 DEF AttributesIn, VendorsIn
<1>7. ReadAs(piece, auth, item)
  <2> DEFINE made == MakeAttribute(item.type, data, auth)
  <2> HIDE DEF made
  <2>1. AttributesIn(piece, auth) = <<made>> /\ <<made, a>> \in Same
    BY <1>5, <1>6 DEF made
  <2>2. Len(<<made>>) = 1 /\ <<made>>[1] = made /\ item.attributes[1] = a
    BY DEF a
  <2>3. \A j \in 1 .. 1 : j = 1
    OBVIOUS
  <2> QED BY <1>1, <1>6, <2>1, <2>2, <2>3 DEF ReadAs
<1>8. item.attributes \o item.vendors # <<>>
  <2>1. \A s \in Seq(Attribute) : s \o <<>> = s
    OBVIOUS
  <2>2. item.attributes \o item.vendors = item.attributes
    BY <1>1, <1>2, <2>1
  <2>3. item.attributes # <<>>
    <3>1. Len(<<>>) = 0
      OBVIOUS
    <3>2. Len(item.attributes) # 0
      BY <1>1
    <3> QED BY <3>1, <3>2
  <2> QED BY <2>2, <2>3
<1> QED BY <1>4, <1>7, <1>8

(* The same for a vendor attribute: its number keeps its value. *)
LEMMA VendorItemRead ==
    ASSUME NEW piece, NEW item, IsPieceOf(piece, item), Len(item.data) <= 253,
           NEW auth, IsVendor(item)
    PROVE  /\ ~Refused(piece) /\ ReadAs(piece, auth, item)
           /\ item.attributes \o item.vendors # <<>>
<1> DEFINE v == item.vendors[1]
           data == <<0, v.id \div 2^16, (v.id \div 2^8) % 256, v.id % 256,
                     v.type, 2 + Len(v.value)>> \o v.value
<1>1. /\ item.type = VENDOR_SPECIFIC /\ item.attributes = <<>> /\ Len(item.vendors) = 1
      /\ v.id < 2^24 /\ item.data = data
  BY DEF IsVendor
<1>2. /\ piece[1] = item.type /\ PieceData(piece) = item.data /\ item.vendors \in Seq(Vendor)
  BY DEF IsPieceOf
<1>3. v \in Vendor
  <2>1. 1 \in 1 .. Len(item.vendors)
    BY <1>1
  <2> QED BY <1>2, <2>1, ElementOfSeq
<1> HIDE DEF v
<1>4. Len(v.value) <= 247
  <2>1. v.value \in Seq(Byte) /\ Len(v.value) \in Nat
    <3>1. v.value \in Seq(Byte)
      BY <1>3 DEF Vendor
    <3> QED BY <3>1, LenProperties
  <2> DEFINE head == <<0, v.id \div 2^16, (v.id \div 2^8) % 256, v.id % 256,
                       v.type, 2 + Len(v.value)>>
  <2>2. v.type \in Byte /\ v.id \in Nat
    BY <1>3 DEF Vendor
  <2>3. \A s \in Seq(Int), t \in Seq(Int) : Len(s \o t) = Len(s) + Len(t)
    OBVIOUS
  <2>4. head \in Seq(Int) /\ Len(head) = 6
    <3>1. v.type \in Int /\ 2 + Len(v.value) \in Int
      <4>1. \A b \in Byte : b \in Int
        BY DEF Byte
      <4>2. \A n \in Nat : 2 + n \in Int
        OBVIOUS
      <4> QED BY <2>1, <2>2, <4>1, <4>2
    <3>2. v.id \div 2^16 \in Byte /\ (v.id \div 2^8) % 256 \in Byte /\ v.id % 256 \in Byte
      BY <1>1, <2>2, VendorNumber
    <3>3. \A b \in Byte : b \in Int
      BY DEF Byte
    <3> QED BY <3>1, <3>2, <3>3
  <2>5. v.value \in Seq(Int)
    <3>1. \A b \in Byte : b \in Int
      BY DEF Byte
    <3>2. v.value = [i \in 1 .. Len(v.value) |-> v.value[i]]
      BY <2>1
    <3>3. \A i \in 1 .. Len(v.value) : v.value[i] \in Int
      BY <2>1, <3>1, ElementOfSeq
    <3> QED BY <2>1, <3>2, <3>3
  <2> HIDE DEF head
  <2>6. Len(head \o v.value) = 6 + Len(v.value)
    BY <2>3, <2>4, <2>5
  <2>7. Len(data) = 6 + Len(v.value)
    BY <2>6 DEF head
  <2> HIDE DEF data
  <2> QED BY <1>1, <2>1, <2>7
<1>5. VendorFault(data) = "none" /\ MakeVendor(data) = v
  BY <1>1, <1>3, <1>4, VendorRead
<1> HIDE DEF data
<1>6. ~Refused(piece) /\ AttributesIn(piece, auth) = <<>> /\ VendorsIn(piece) = <<v>>
  BY <1>1, <1>2, <1>5 DEF Refused, AttributesIn, VendorsIn
<1>7. item.vendors = <<v>>
  <2>1. \A s \in Seq(Vendor) : Len(s) = 1 => s = <<s[1]>>
    OBVIOUS
  <2> QED BY <1>1, <1>2, <2>1 DEF v
<1>8. ReadAs(piece, auth, item)
  <2>1. Len(<<>>) = 0 /\ \A j \in 1 .. 0 : FALSE
    OBVIOUS
  <2> QED BY <1>1, <1>6, <1>7, <2>1 DEF ReadAs
<1>9. item.attributes \o item.vendors # <<>>
  <2>1. \A s \in Seq(Vendor) : <<>> \o s = s
    OBVIOUS
  <2>2. item.attributes \o item.vendors = item.vendors
    BY <1>1, <1>2, <2>1
  <2>3. item.vendors # <<>>
    <3>1. Len(<<>>) = 0
      OBVIOUS
    <3>2. Len(item.vendors) # 0
      BY <1>1
    <3> QED BY <3>1, <3>2
  <2> QED BY <2>2, <2>3
<1> QED BY <1>6, <1>8, <1>9

(* An item that is neither is refused. *)
LEMMA NothingItemRefused ==
    ASSUME NEW piece, NEW item, IsPieceOf(piece, item), IsNothing(item)
    PROVE  Refused(piece) /\ item.attributes \o item.vendors = <<>>
<1>1. /\ piece[1] = item.type /\ PieceData(piece) = item.data
      /\ item.type \in Byte /\ Len(item.data) \in Nat
  BY DEF IsPieceOf
<1>2. /\ item.attributes = <<>> /\ item.vendors = <<>>
      /\ \/ item.type # VENDOR_SPECIFIC /\ ~RightSize(ClassOf(item.type), Len(item.data))
         \/ item.type = VENDOR_SPECIFIC /\ item.data[1] # 0
  BY DEF IsNothing
<1>3. CASE item.type # VENDOR_SPECIFIC /\ ~RightSize(ClassOf(item.type), Len(item.data))
  <2>1. SizeFault(ClassOf(item.type), Len(item.data)) # "none"
    BY <1>1, <1>3, SizesAllowed
  <2> QED BY <1>1, <1>2, <1>3, <2>1 DEF Refused
<1>4. CASE item.type = VENDOR_SPECIFIC /\ item.data[1] # 0
  <2>1. VendorFault(item.data) # "none"
    BY <1>4 DEF VendorFault
  <2> QED BY <1>1, <1>2, <1>4, <2>1 DEF Refused
<1> QED BY <1>2, <1>3, <1>4

(* An item is refused exactly if it is neither an attribute nor a vendor
   attribute, and otherwise read as it was meant. *)
LEMMA ItemRead ==
    ASSUME DigestTyped, NEW d, IsDatagram(d), NEW i \in 1 .. Len(d.items)
    PROVE  /\ Refused(ItemPieces(d)[i]) <=> d.items[i].attributes \o d.items[i].vendors = <<>>
           /\ ~Refused(ItemPieces(d)[i]) => ReadAs(ItemPieces(d)[i], d.auth, d.items[i])
<1> DEFINE item == d.items[i]
           piece == ItemPieces(d)[i]
           auth == d.auth
<1>1. auth \in [1 .. 16 -> Byte] /\ d.items \in Seq(Item)
  BY DEF IsDatagram
<1>2. IsPieceOf(piece, item)
  BY PieceOfItem
<1>3. i \in DOMAIN d.items
  BY <1>1, LenProperties
<1>4. Len(item.data) <= 253 /\ (IsAttribute(item, auth) \/ IsVendor(item) \/ IsNothing(item))
  <2>1. \A j \in DOMAIN d.items :
           /\ Len(d.items[j].data) <= 253
           /\ IsAttribute(d.items[j], d.auth) \/ IsVendor(d.items[j]) \/ IsNothing(d.items[j])
    BY DEF IsDatagram
  <2> QED BY <1>3, <2>1
<1> HIDE DEF item, piece, auth
<1>5. CASE IsAttribute(item, auth)
  <2>1. ~Refused(piece) /\ ReadAs(piece, auth, item) /\ item.attributes \o item.vendors # <<>>
    BY <1>1, <1>2, <1>5, AttributeItemRead
  <2> QED BY <2>1 DEF item, piece, auth
<1>6. CASE IsVendor(item)
  <2>1. ~Refused(piece) /\ ReadAs(piece, auth, item) /\ item.attributes \o item.vendors # <<>>
    BY <1>2, <1>4, <1>6, VendorItemRead
  <2> QED BY <2>1 DEF item, piece, auth
<1>7. CASE IsNothing(item)
  <2>1. Refused(piece) /\ item.attributes \o item.vendors = <<>>
    BY <1>2, <1>7, NothingItemRefused
  <2> QED BY <2>1 DEF item, piece, auth
<1> QED BY <1>4, <1>5, <1>6, <1>7

(* Two lists of attributes that a reader takes for the same. *)
SameAttributes(a, b) ==
    /\ a \in Seq(Attribute) /\ b \in Seq(Attribute) /\ Len(a) = Len(b)
    /\ \A j \in 1 .. Len(a) : <<a[j], b[j]>> \in Same

(* They mean the same, to a reader and to the check of EAP messages. *)
LEMMA SameMeaning ==
    ASSUME NEW a, NEW b, SameAttributes(a, b)
    PROVE  /\ [i \in DOMAIN a |-> Meaning(a[i])] = [i \in DOMAIN b |-> Meaning(b[i])]
           /\ EapUnauthenticated(a) <=> EapUnauthenticated(b)
<1>1. /\ DOMAIN a = 1 .. Len(a) /\ DOMAIN b = 1 .. Len(a)
  <2>1. a \in Seq(Attribute) /\ b \in Seq(Attribute) /\ Len(a) = Len(b)
    BY DEF SameAttributes
  <2> QED BY <2>1, LenProperties
<1>2. \A j \in DOMAIN a : Meaning(a[j]) = Meaning(b[j]) /\ a[j].type = b[j].type
  <2>1. ASSUME NEW x, NEW y, <<x, y>> \in Same PROVE Meaning(x) = Meaning(y) /\ x.type = y.type
    BY <2>1 DEF Same
  <2>2. \A j \in DOMAIN a : <<a[j], b[j]>> \in Same
    BY <1>1 DEF SameAttributes
  <2> QED BY <2>1, <2>2
<1>3. [i \in DOMAIN a |-> Meaning(a[i])] = [i \in DOMAIN b |-> Meaning(b[i])]
  <2>1. DOMAIN a = DOMAIN b
    BY <1>1
  <2> QED BY <1>2, <2>1
<1>4. {a[i].type : i \in DOMAIN a} = {b[i].type : i \in DOMAIN b}
  <2>1. DOMAIN a = DOMAIN b
    BY <1>1
  <2> QED BY <1>2, <2>1
<1>5. EapUnauthenticated(a) <=> EapUnauthenticated(b)
  BY <1>4 DEF EapUnauthenticated
<1> QED BY <1>3, <1>5

(* Without anything to refuse, a datagram is read as it was meant. *)
LEMMA ForeignRead ==
    ASSUME DigestTyped, NEW d, IsDatagram(d),
           \A i \in 1 .. Len(d.items) : ~Refused(ItemPieces(d)[i])
    PROVE  /\ SameAttributes(FlattenSeq(AllAttributesIn(ItemPieces(d), d.auth)), Meant(d).attributes)
           /\ FlattenSeq(AllVendorsIn(ItemPieces(d))) = Meant(d).vendors
<1> DEFINE pieces == ItemPieces(d)
           n == Len(d.items)
           s == AllAttributesIn(pieces, d.auth)
           t == [i \in 1 .. n |-> d.items[i].attributes]
           u == AllVendorsIn(pieces)
           w == [i \in 1 .. n |-> d.items[i].vendors]
<1>1. /\ pieces \in Seq(Seq(Byte)) /\ Len(pieces) = n
      /\ \A i \in 1 .. n : FramedPiece(pieces[i])
  BY ItemPiecesOf
<1>2. d.auth \in [1 .. 16 -> Byte] /\ d.items \in Seq(Item)
  BY DEF IsDatagram
<1>3. n \in Nat
  BY <1>2, LenProperties
<1> HIDE DEF pieces
<1>4. /\ s \in Seq(Seq(Attribute)) /\ u \in Seq(Seq(Vendor)) /\ Len(s) = n /\ Len(u) = n
      /\ \A i \in 1 .. n : s[i] = AttributesIn(pieces[i], d.auth) /\ u[i] = VendorsIn(pieces[i])
  <2>1. \A i \in 1 .. Len(pieces) : FramedPiece(pieces[i])
    BY <1>1
  <2> HIDE DEF n
  <2> QED BY <1>1, <1>2, <2>1, AllType
<1>5. ASSUME NEW i \in 1 .. n
      PROVE  /\ ReadAs(pieces[i], d.auth, d.items[i])
             /\ d.items[i].attributes \in Seq(Attribute) /\ d.items[i].vendors \in Seq(Vendor)
  <2>1. ReadAs(pieces[i], d.auth, d.items[i])
    BY ItemRead DEF pieces
  <2>2. IsPieceOf(pieces[i], d.items[i])
    BY PieceOfItem DEF pieces
  <2> QED BY <2>1, <2>2 DEF IsPieceOf
<1> DEFINE at(i) == d.items[i].attributes
           vd(i) == d.items[i].vendors
<1>6. t \in Seq(Seq(Attribute)) /\ Len(t) = n /\ \A i \in 1 .. n : t[i] = d.items[i].attributes
  <2>1. \A i \in 1 .. n : at(i) \in Seq(Attribute)
    BY <1>5
  <2> HIDE DEF at, n
  <2>2. /\ [i \in 1 .. n |-> at(i)] \in Seq(Seq(Attribute)) /\ Len([i \in 1 .. n |-> at(i)]) = n
        /\ \A i \in 1 .. n : [j \in 1 .. n |-> at(j)][i] = at(i)
    BY <1>3, <2>1
  <2> QED BY <2>2 DEF at
<1>7. \A i \in 1 .. n : w[i] = d.items[i].vendors
  OBVIOUS
<1> HIDE DEF t, s
<1>8. \A i \in 1 .. Len(s) :
         Len(s[i]) = Len(t[i]) /\ \A j \in 1 .. Len(s[i]) : <<s[i][j], t[i][j]>> \in Same
  <2>1. ASSUME NEW i \in 1 .. n
        PROVE  Len(s[i]) = Len(t[i]) /\ \A j \in 1 .. Len(s[i]) : <<s[i][j], t[i][j]>> \in Same
    <3>1. /\ Len(AttributesIn(pieces[i], d.auth)) = Len(d.items[i].attributes)
          /\ \A j \in 1 .. Len(AttributesIn(pieces[i], d.auth)) :
                <<AttributesIn(pieces[i], d.auth)[j], d.items[i].attributes[j]>> \in Same
      BY <1>5 DEF ReadAs
    <3> QED BY <1>4, <1>6, <3>1
  <2> QED BY <1>4, <2>1
<1>9. /\ Len(FlattenSeq(s)) = Len(FlattenSeq(t))
      /\ \A j \in 1 .. Len(FlattenSeq(s)) : <<FlattenSeq(s)[j], FlattenSeq(t)[j]>> \in Same
  <2>1. Len(s) = Len(t) /\ s \in Seq(Seq(Attribute)) /\ t \in Seq(Seq(Attribute))
    BY <1>4, <1>6
  <2> QED BY <1>8, <2>1, FlattenRelated
<1>10. FlattenSeq(s) \in Seq(Attribute) /\ FlattenSeq(t) \in Seq(Attribute)
  <2>1. s \in Seq(Seq(Attribute)) /\ t \in Seq(Seq(Attribute))
    BY <1>4, <1>6
  <2> QED BY <2>1, FlattenType
<1>11. u = w
  <2>1. \A i \in 1 .. n : VendorsIn(pieces[i]) = d.items[i].vendors
    BY <1>5 DEF ReadAs
  <2>2. u = [i \in 1 .. n |-> VendorsIn(pieces[i])]
    BY <1>1 DEF AllVendorsIn
  <2> HIDE DEF u
  <2> QED BY <2>1, <2>2
<1>12. Meant(d).attributes = FlattenSeq(t) /\ Meant(d).vendors = FlattenSeq(w)
  BY DEF Meant, t
<1> HIDE DEF u, w
<1>13. SameAttributes(FlattenSeq(s), FlattenSeq(t))
  BY <1>9, <1>10 DEF SameAttributes
<1> QED BY <1>11, <1>12, <1>13 DEF s, u, pieces

(* Valid in the terms of the pieces. *)
LEMMA ValidMeans ==
    ASSUME NEW d, IsDatagram(d)
    PROVE  Valid(d) <=> /\ d.missing <= Len(d.padding)
                        /\ \A i \in 1 .. Len(d.items) :
                              d.items[i].attributes \o d.items[i].vendors # <<>>
                        /\ ~EapUnauthenticated(Meant(d).attributes)
<1>1. DOMAIN d.items = 1 .. Len(d.items)
  <2>1. d.items \in Seq(Item)
    BY DEF IsDatagram
  <2> QED BY <2>1, LenProperties
<1> QED BY <1>1 DEF Valid, EapUnauthenticated, EAP_MESSAGE, MESSAGE_AUTHENTICATOR

(* A foreign datagram under the invariant. *)
LEMMA ForeignFacts ==
    ASSUME DigestTyped, IInv, phase # "idle", origin = "foreign"
    PROVE  /\ IsDatagram(sent) /\ SentPieces = ItemPieces(sent) /\ Len(SentPieces) = Len(sent.items)
           /\ WellFramed(buffer, SentPieces) /\ Len(SentPieces) \in Nat
           /\ Complete <=> sent.missing <= Len(sent.padding)
           /\ Complete => /\ Authenticator(buffer) = sent.auth
                          /\ buffer[1] = sent.type /\ buffer[2] = sent.id
<1>1. FromForeign
  BY DEF IInv, Provenance
<1>2. IsDatagram(sent) /\ buffer = ReceivedBytes(sent)
  BY <1>1, PacketCodecAssumption DEF FromForeign
<1>3. SentPieces = ItemPieces(sent)
  BY DEF SentPieces
<1>4. /\ WellFramed(buffer, SentPieces)
      /\ sent.missing <= Len(sent.padding) <=> Len(buffer) >= 20 + Len(FlattenSeq(SentPieces))
      /\ Len(FlattenSeq(SentPieces)) \in Nat
      /\ Len(buffer) >= 20 => /\ Authenticator(buffer) = sent.auth
                              /\ buffer[1] = sent.type /\ buffer[2] = sent.id
  BY <1>2, <1>3, ReceivedFramed
<1>5. Len(SentPieces) = Len(sent.items) /\ Len(SentPieces) \in Nat
  <2>1. SentPieces \in Seq(Seq(Byte)) /\ Len(SentPieces) = Len(sent.items)
    BY <1>2, <1>3, ItemPiecesOf
  <2> QED BY <2>1, LenProperties
<1>6. Len(buffer) \in Nat
  <2>1. buffer \in Seq(Byte)
    BY <1>4 DEF WellFramed
  <2> QED BY <2>1, LenProperties
<1>7. Len(buffer) >= 20 => Length = 20 + Len(FlattenSeq(SentPieces))
  BY <1>4 DEF WellFramed, Length
<1>8. Complete <=> Len(buffer) >= 20 + Len(FlattenSeq(SentPieces))
  <2> HIDE DEF Length
  <2> QED BY <1>4, <1>6, <1>7 DEF Complete
<1>9. Complete => Authenticator(buffer) = sent.auth /\ buffer[1] = sent.type /\ buffer[2] = sent.id
  BY <1>4 DEF Complete
<1> QED BY <1>2, <1>3, <1>4, <1>5, <1>8, <1>9

(* What has been read at the end of the loop. *)
LEMMA ForeignContent ==
    ASSUME DigestTyped, IInv, phase # "idle", origin = "foreign", Complete,
           \A i \in 1 .. Len(SentPieces) : ~Refused(SentPieces[i]),
           NEW p, p = Read(buffer, SentPieces, Len(SentPieces))
    PROVE  /\ SameAttributes(p.attributes, Meant(sent).attributes)
           /\ p.vendors = Meant(sent).vendors
<1> DEFINE n == Len(SentPieces)
<1>1. /\ IsDatagram(sent) /\ SentPieces = ItemPieces(sent) /\ n = Len(sent.items) /\ n \in Nat
      /\ WellFramed(buffer, SentPieces) /\ Authenticator(buffer) = sent.auth
  BY ForeignFacts
<1>2. SentPieces \in Seq(Seq(Byte)) /\ sent.auth \in [1 .. 16 -> Byte]
      /\ \A i \in 1 .. n : FramedPiece(SentPieces[i])
  BY <1>1 DEF WellFramed, IsDatagram
<1> DEFINE s == AllAttributesIn(SentPieces, sent.auth)
           t == AllVendorsIn(SentPieces)
<1>3. s \in Seq(Seq(Attribute)) /\ t \in Seq(Seq(Vendor)) /\ Len(s) = n /\ Len(t) = n
  <2>1. \A i \in 1 .. Len(SentPieces) : FramedPiece(SentPieces[i])
    BY <1>2
  <2> QED BY <1>2, <2>1, AllType
<1>4. /\ SameAttributes(FlattenSeq(s), Meant(sent).attributes)
      /\ FlattenSeq(t) = Meant(sent).vendors
  <2>1. \A i \in 1 .. Len(sent.items) : ~Refused(ItemPieces(sent)[i])
    BY <1>1
  <2> QED BY <1>1, <2>1, ForeignRead
<1>5. p.attributes = Flat(s, n) /\ p.vendors = Flat(t, n)
  BY <1>1, ReadMade, MadeFields
<1> HIDE DEF s, t, n
<1>6. Flat(s, n) = FlattenSeq(s)
  <2>1. s \in Seq(Seq(Attribute)) /\ Len(s) = n /\ Len(s) \in 0 .. Len(s)
    BY <1>1, <1>3
  <2>2. Flat(s, Len(s)) = FlattenSeq(s)
    BY <2>1, FlatType
  <2> QED BY <2>1, <2>2
<1>7. Flat(t, n) = FlattenSeq(t)
  <2>1. t \in Seq(Seq(Vendor)) /\ Len(t) = n /\ Len(t) \in 0 .. Len(t)
    BY <1>1, <1>3
  <2>2. Flat(t, Len(t)) = FlattenSeq(t)
    BY <2>1, FlatType
  <2> QED BY <2>1, <2>2
<1> QED BY <1>4, <1>5, <1>6, <1>7

(* A valid foreign datagram is accepted, and means to its reader what it
   meant to its sender: hidden passwords of any length are uncovered, numbers
   keep their value, vendor attributes their vendor. *)
THEOREM ForeignUnderstood == ASSUME DigestTyped PROVE Spec => []Understood
<1>1. ASSUME IInv, Finished, origin = "foreign", Valid(sent)
      PROVE  phase = "accepted" /\ SameContent(parsed, Meant(sent))
  <2>1. phase # "idle" /\ phase \in {"accepted", "rejected"}
    BY <1>1 DEF Finished
  <2>2. /\ IsDatagram(sent) /\ SentPieces = ItemPieces(sent) /\ Len(SentPieces) = Len(sent.items)
        /\ Complete <=> sent.missing <= Len(sent.padding)
    BY <1>1, <2>1, ForeignFacts
  <2>3. /\ Complete /\ ~EapUnauthenticated(Meant(sent).attributes)
        /\ \A i \in 1 .. Len(sent.items) : sent.items[i].attributes \o sent.items[i].vendors # <<>>
    BY <1>1, <2>2, ValidMeans
  <2>4. \A i \in 1 .. Len(SentPieces) : ~Refused(SentPieces[i])
    BY <2>2, <2>3, ItemRead
  <2> DEFINE p == Read(buffer, SentPieces, Len(SentPieces))
  <2>5. /\ SameAttributes(p.attributes, Meant(sent).attributes) /\ p.vendors = Meant(sent).vendors
    BY <1>1, <2>1, <2>3, <2>4, ForeignContent
  <2> HIDE DEF p
  <2>6. /\ [i \in DOMAIN p.attributes |-> Meaning(p.attributes[i])]
             = [i \in DOMAIN Meant(sent).attributes |-> Meaning(Meant(sent).attributes[i])]
        /\ EapUnauthenticated(p.attributes) <=> EapUnauthenticated(Meant(sent).attributes)
    BY <2>5, SameMeaning
  <2>7. ~Rejected
    BY <2>3, <2>4, <2>6 DEF Rejected, p
  <2>8. phase = "accepted" /\ Accepted
    BY <1>1, <2>1, <2>7 DEF IInv, Progress
  <2>9. parsed = p
    BY <2>8 DEF Accepted, p
  <2>10. SameContent(parsed, Meant(sent))
    BY <2>5, <2>6, <2>9 DEF SameContent
  <2> QED BY <2>8, <2>10
<1>2. IInv => Understood
  BY <1>1 DEF Understood
<1> QED BY <1>2, Invariant, PTL

(* A foreign datagram that is cut off, holds an attribute that its class
   cannot hold or an EAP-Message without Message-Authenticator is never
   accepted. *)
THEOREM ForeignRefused == ASSUME DigestTyped PROVE Spec => []InvalidRefused
<1>1. ASSUME IInv, phase = "accepted", origin = "foreign" PROVE Valid(sent)
  <2>1. /\ Accepted /\ phase # "idle"
    BY <1>1, AcceptedPacket
  <2>2. /\ Complete /\ ~EapUnauthenticated(parsed.attributes)
        /\ \A i \in 1 .. Len(SentPieces) : ~Refused(SentPieces[i])
        /\ parsed = Read(buffer, SentPieces, Len(SentPieces))
    BY <2>1 DEF Accepted
  <2>3. /\ IsDatagram(sent) /\ SentPieces = ItemPieces(sent) /\ Len(SentPieces) = Len(sent.items)
        /\ Complete <=> sent.missing <= Len(sent.padding)
    BY <1>1, <2>1, ForeignFacts
  <2>4. SameAttributes(parsed.attributes, Meant(sent).attributes)
    BY <1>1, <2>1, <2>2, ForeignContent
  <2>5. ~EapUnauthenticated(Meant(sent).attributes)
    BY <2>2, <2>4, SameMeaning
  <2>6. \A i \in 1 .. Len(sent.items) : sent.items[i].attributes \o sent.items[i].vendors # <<>>
    BY <2>2, <2>3, ItemRead
  <2> QED BY <2>2, <2>3, <2>5, <2>6, ValidMeans
<1>2. IInv => InvalidRefused
  BY <1>1 DEF InvalidRefused
<1> QED BY <1>2, Invariant, PTL

-----------------------------------------------------------------------------
(* Sending on what was received. *)

(* Two sequences of sequences, one behind the other. *)
LEMMA FlattenConcat ==
    ASSUME NEW S, NEW x \in Seq(Seq(S)), NEW y \in Seq(Seq(S))
    PROVE  FlattenSeq(x \o y) = FlattenSeq(x) \o FlattenSeq(y)
<1> DEFINE z == x \o y
           m == Len(x)
           fx == FlattenSeq(x)
<1>1. /\ z \in Seq(Seq(S)) /\ Len(z) = m + Len(y)
      /\ \A j \in 1 .. Len(y) : z[m + j] = y[j]
      /\ SubSeq(z, 1, m) = x
  <2>1. z \in Seq(Seq(S)) /\ Len(z) = m + Len(y)
    BY ConcatParts
  <2>2. \A j \in 1 .. Len(y) : z[m + j] = y[j]
    BY ConcatParts
  <2>3. SubSeq(z, 1, m) = x
    BY ConcatParts
  <2> QED BY <2>1, <2>2, <2>3
<1>2. m \in Nat /\ Len(y) \in Nat
  BY LenProperties
<1>3. fx \in Seq(S)
  BY FlattenType
<1> HIDE DEF z, m
<1> DEFINE T == {n \in Nat : n <= Len(y) => Flat(z, m + n) = fx \o Flat(y, n)}
<1>4. 0 \in T
  <2>1. Flat(z, m) = fx
    BY <1>1 DEF Flat
  <2>2. Flat(y, 0) = <<>>
    <3>1. 0 \in 0 .. Len(y)
      BY <1>2
    <3> QED BY <3>1, FlatType
  <2>3. fx \o <<>> = fx /\ m + 0 = m
    BY <1>2, <1>3
  <2> HIDE DEF fx
  <2> QED BY <2>1, <2>2, <2>3
<1>5. ASSUME NEW n \in Nat, n \in T PROVE n + 1 \in T
  <2> SUFFICES ASSUME n + 1 <= Len(y) PROVE Flat(z, m + (n + 1)) = fx \o Flat(y, n + 1)
    OBVIOUS
  <2>1. /\ n \in 0 .. Len(y) - 1 /\ n \in 0 .. Len(y) /\ n + 1 \in 1 .. Len(y)
        /\ m + n \in 0 .. Len(z) - 1 /\ m + (n + 1) = (m + n) + 1
    BY <1>1, <1>2
  <2>2. Flat(z, (m + n) + 1) = Flat(z, m + n) \o z[(m + n) + 1]
    BY <1>1, <2>1, FlatStep
  <2>3. Flat(y, n + 1) = Flat(y, n) \o y[n + 1]
    BY <2>1, FlatStep
  <2>4. Flat(z, m + n) = fx \o Flat(y, n)
    BY <1>5, <2>1
  <2>5. z[(m + n) + 1] = y[n + 1]
    BY <1>1, <2>1
  <2>6. Flat(y, n) \in Seq(S) /\ y[n + 1] \in Seq(S)
    BY <2>1, FlatType, ElementOfSeq
  <2>7. (fx \o Flat(y, n)) \o y[n + 1] = fx \o (Flat(y, n) \o y[n + 1])
    <3> DEFINE fy == Flat(y, n)
               last == y[n + 1]
    <3>1. fx \in Seq(S) /\ fy \in Seq(S) /\ last \in Seq(S)
      BY <1>3, <2>6
    <3> HIDE DEF fx, fy, last
    <3>2. (fx \o fy) \o last = fx \o (fy \o last)
      BY <3>1, ConcatAssociative, SMTT(30)
    <3> QED BY <3>2 DEF fx, fy, last
  <2> HIDE DEF fx
  <2> QED BY <2>1, <2>2, <2>3, <2>4, <2>5, <2>7
<1> HIDE DEF T
<1>6. \A n \in Nat : n \in T
  BY <1>4, <1>5, SetInduction
<1>7. Len(y) \in T
  BY <1>2, <1>6
<1>8. Flat(z, m + Len(y)) = fx \o Flat(y, Len(y))
  BY <1>2, <1>7 DEF T
<1>9. Flat(z, Len(z)) = FlattenSeq(z) /\ Flat(y, Len(y)) = FlattenSeq(y)
  <2>1. Len(z) \in 0 .. Len(z) /\ Len(y) \in 0 .. Len(y)
    BY <1>1, <1>2
  <2> QED BY <1>1, <2>1, FlatType
<1> QED BY <1>1, <1>8, <1>9 DEF z

(* Empty sequences flatten to an empty one. *)
LEMMA FlattenBlank ==
    ASSUME NEW S, NEW s \in Seq(Seq(S)), \A i \in 1 .. Len(s) : s[i] = <<>>
    PROVE  FlattenSeq(s) = <<>>
<1> DEFINE T == {n \in Nat : n <= Len(s) => Flat(s, n) = <<>>}
<1>0. Len(s) \in Nat
  BY LenProperties
<1>1. 0 \in T
  <2>1. 0 \in 0 .. Len(s)
    BY <1>0
  <2> QED BY <2>1, FlatType
<1>2. ASSUME NEW n \in Nat, n \in T PROVE n + 1 \in T
  <2> SUFFICES ASSUME n + 1 <= Len(s) PROVE Flat(s, n + 1) = <<>>
    OBVIOUS
  <2>1. n \in 0 .. Len(s) - 1 /\ n + 1 \in 1 .. Len(s)
    BY <1>0
  <2>2. Flat(s, n + 1) = Flat(s, n) \o s[n + 1]
    BY <2>1, FlatStep
  <2>3. Flat(s, n) = <<>> /\ s[n + 1] = <<>>
    BY <1>0, <1>2, <2>1
  <2>4. <<>> \o <<>> = <<>>
    OBVIOUS
  <2> QED BY <2>2, <2>3, <2>4
<1> HIDE DEF T
<1>3. \A n \in Nat : n \in T
  BY <1>1, <1>2, SetInduction
<1>4. Len(s) \in T
  BY <1>0, <1>3
<1>5. Flat(s, Len(s)) = FlattenSeq(s)
  <2>1. Len(s) \in 0 .. Len(s)
    BY <1>0
  <2> QED BY <2>1, FlatType
<1> QED BY <1>0, <1>4, <1>5 DEF T

(* The elements of u, each replaced by what f makes of it. *)
Mapped(f, u) == [i \in 1 .. Len(u) |-> f[u[i]]]

(* One element more. *)
LEMMA MappedAppend ==
    ASSUME NEW A, NEW B, NEW f, NEW u \in Seq(A), NEW x \in A, f[x] \in B,
           Mapped(f, u) \in Seq(B)
    PROVE  Mapped(f, u \o <<x>>) = Append(Mapped(f, u), f[x])
<1>1. /\ u \o <<x>> \in Seq(A) /\ Len(u \o <<x>>) = Len(u) + 1
      /\ \A i \in 1 .. Len(u) : (u \o <<x>>)[i] = u[i]
      /\ (u \o <<x>>)[Len(u) + 1] = x
  OBVIOUS
<1> DEFINE w == u \o <<x>>
           v == Mapped(f, u)
           a == Append(v, f[x])
           b == Mapped(f, w)
<1>2. Len(u) \in Nat
  BY LenProperties
<1>3. Len(v) = Len(u) /\ \A i \in 1 .. Len(u) : v[i] = f[u[i]]
  BY <1>2 DEF Mapped
<1>4. b = [i \in 1 .. Len(u) + 1 |-> f[w[i]]]
  BY <1>1 DEF Mapped
<1> HIDE DEF v, w, b
<1>5. /\ a \in Seq(B) /\ Len(a) = Len(u) + 1
      /\ \A i \in 1 .. Len(u) : a[i] = v[i]
      /\ a[Len(u) + 1] = f[x]
  <2>1. v \in Seq(B)
    BY DEF v
  <2> QED BY <1>3, <2>1
<1> HIDE DEF a
<1>6. ASSUME NEW i \in 1 .. Len(u) + 1 PROVE a[i] = f[w[i]]
  <2>1. CASE i \in 1 .. Len(u)
    BY <1>1, <1>3, <1>5, <2>1 DEF w
  <2>2. CASE i \notin 1 .. Len(u)
    <3>1. i = Len(u) + 1
      BY <1>2, <2>2
    <3> QED BY <1>1, <1>5, <3>1 DEF w
  <2> QED BY <2>1, <2>2
<1>7. a = [i \in 1 .. Len(u) + 1 |-> a[i]]
  BY <1>2, <1>5
<1>8. a = b
  BY <1>4, <1>6, <1>7
<1> QED BY <1>8 DEF a, b, v, w

(* What is kept of each sequence of bytes is nothing, or one element that f
   gives its bytes back. *)
GivesBack(f, A, s, t) ==
    /\ s \in Seq(Seq(A)) /\ t \in Seq(Seq(Byte)) /\ Len(s) = Len(t)
    /\ \A i \in 1 .. Len(s) : \/ s[i] = <<>> /\ t[i] = <<>>
                              \/ \E x \in A : s[i] = <<x>> /\ t[i] = f[x]

(* Then all that is kept gives all bytes back. *)
LEMMA FlattenMapped ==
    ASSUME NEW A, NEW f, NEW s, NEW t, GivesBack(f, A, s, t)
    PROVE  /\ Mapped(f, FlattenSeq(s)) \in Seq(Seq(Byte))
           /\ FlattenSeq(Mapped(f, FlattenSeq(s))) = FlattenSeq(t)
<1> DEFINE Good(n) == /\ Mapped(f, Flat(s, n)) \in Seq(Seq(Byte))
                      /\ FlattenSeq(Mapped(f, Flat(s, n))) = Flat(t, n)
           T == {n \in Nat : n <= Len(s) => Good(n)}
<1>0. /\ s \in Seq(Seq(A)) /\ t \in Seq(Seq(Byte)) /\ Len(s) \in Nat /\ Len(s) = Len(t)
      /\ \A i \in 1 .. Len(s) : \/ s[i] = <<>> /\ t[i] = <<>>
                                \/ \E x \in A : s[i] = <<x>> /\ t[i] = f[x]
  BY LenProperties DEF GivesBack
<1>1. 0 \in T
  <2>1. 0 \in 0 .. Len(s) /\ 0 \in 0 .. Len(t)
    BY <1>0
  <2>2. Flat(s, 0) = <<>>
    BY <1>0, <2>1, FlatType
  <2>3. Flat(t, 0) = <<>>
    BY <1>0, <2>1, FlatType
  <2>4. Mapped(f, <<>>) = <<>>
    BY DEF Mapped
  <2>5. <<>> \in Seq(Seq(Byte))
    OBVIOUS
  <2>6. Good(0)
    BY <2>2, <2>3, <2>4, <2>5, FlattenEmpty
  <2> HIDE DEF Good
  <2> QED BY <2>6
<1>2. ASSUME NEW n \in Nat, n \in T PROVE n + 1 \in T
  <2> SUFFICES ASSUME n + 1 <= Len(s) PROVE Good(n + 1)
    OBVIOUS
  <2>1. /\ n \in 0 .. Len(s) - 1 /\ n \in 0 .. Len(t) - 1 /\ n \in 0 .. Len(s)
        /\ n \in 0 .. Len(t) /\ n + 1 \in 1 .. Len(s) /\ n + 1 \in 1 .. Len(t)
    BY <1>0
  <2>2. Flat(s, n + 1) = Flat(s, n) \o s[n + 1]
    BY <1>0, <2>1, FlatStep
  <2>3. Flat(t, n + 1) = Flat(t, n) \o t[n + 1]
    BY <1>0, <2>1, FlatStep
  <2>4. Flat(s, n) \in Seq(A)
    BY <1>0, <2>1, FlatType
  <2>5. Flat(t, n) \in Seq(Byte) /\ t[n + 1] \in Seq(Byte)
    BY <1>0, <2>1, FlatType, ElementOfSeq
  <2>6. Good(n)
    BY <1>0, <1>2, <2>1
  <2>7. CASE s[n + 1] = <<>> /\ t[n + 1] = <<>>
    <3>1. Flat(s, n) \o <<>> = Flat(s, n) /\ Flat(t, n) \o <<>> = Flat(t, n)
      BY <2>4, <2>5
    <3> QED BY <2>2, <2>3, <2>6, <2>7, <3>1
  <2>8. ASSUME NEW x \in A, s[n + 1] = <<x>>, t[n + 1] = f[x] PROVE Good(n + 1)
    <3> DEFINE u == Mapped(f, Flat(s, n))
    <3>1. u \in Seq(Seq(Byte)) /\ FlattenSeq(u) = Flat(t, n) /\ f[x] \in Seq(Byte)
      BY <2>5, <2>6, <2>8
    <3>2. Mapped(f, Flat(s, n) \o <<x>>) = Append(u, f[x])
      BY <2>4, <3>1, MappedAppend
    <3> HIDE DEF u
    <3>3. FlattenSeq(Append(u, f[x])) = FlattenSeq(u) \o f[x]
      BY <3>1, FlattenAppend
    <3>4. Append(u, f[x]) \in Seq(Seq(Byte))
      BY <3>1
    <3> QED BY <2>2, <2>3, <2>8, <3>1, <3>2, <3>3, <3>4
  <2> QED BY <1>0, <2>1, <2>7, <2>8
<1> HIDE DEF T
<1>3. \A n \in Nat : n \in T
  BY <1>1, <1>2, SetInduction
<1>4. Good(Len(s))
  <2>1. Len(s) \in T
    BY <1>0, <1>3
  <2> QED BY <1>0, <2>1 DEF T
<1>5. Flat(s, Len(s)) = FlattenSeq(s) /\ Flat(t, Len(t)) = FlattenSeq(t)
  <2>1. Len(s) \in 0 .. Len(s) /\ Len(t) \in 0 .. Len(t)
    BY <1>0
  <2> QED BY <1>0, <2>1, FlatType
<1> QED BY <1>0, <1>4, <1>5

(* What was put into a sequence of lists is in all of them. *)
LEMMA FlattenHolds ==
    ASSUME NEW A, NEW s \in Seq(Seq(A)), NEW i \in 1 .. Len(s), NEW x, s[i] = <<x>>
    PROVE  \E j \in 1 .. Len(FlattenSeq(s)) : FlattenSeq(s)[j] = x
<1> DEFINE k == i - 1
           before == Len(Flat(s, k))
           all == FlattenSeq(s)
<1>1. k \in 0 .. Len(s) - 1 /\ k + 1 = i /\ k \in 0 .. Len(s)
  <2>1. Len(s) \in Nat
    BY LenProperties
  <2> QED BY <2>1
<1> HIDE DEF k
<1>2. /\ before + Len(s[k + 1]) <= Len(all)
      /\ \A j \in 1 .. Len(s[k + 1]) : all[before + j] = s[k + 1][j]
  BY <1>1, FlatPiece
<1>3. before \in Nat /\ Len(all) \in Nat
  <2>1. before \in Nat
    BY <1>1, FlatType
  <2>2. all \in Seq(A)
    BY FlattenType
  <2> QED BY <2>1, <2>2, LenProperties
<1> HIDE DEF before, all
<1>4. Len(<<x>>) = 1 /\ <<x>>[1] = x /\ 1 \in 1 .. 1
  OBVIOUS
<1>5. before + 1 <= Len(all) /\ all[before + 1] = x
  BY <1>1, <1>2, <1>4
<1>6. before + 1 \in 1 .. Len(all)
  BY <1>3, <1>5
<1> QED BY <1>5, <1>6 DEF all

(* An attribute that holds its data as it came writes it as it came. *)
LEMMA AttributeRewritten ==
    ASSUME NEW piece, FramedPiece(piece), piece[1] # VENDOR_SPECIFIC, NEW auth,
           ClassOf(piece[1]) \notin {"Integer", "Encrypted"}
    PROVE  ToVector(MakeAttribute(piece[1], PieceData(piece), auth), auth) = piece
<1> DEFINE type == piece[1]
           data == PieceData(piece)
           a == MakeAttribute(type, data, auth)
           n == Len(data)
<1>1. /\ data \in Seq(Byte) /\ n = Len(piece) - 2 /\ type \in Byte
      /\ \A j \in 1 .. Len(piece) - 2 : data[j] = piece[2 + j]
  BY PieceDataType
<1>2. piece \in Seq(Byte) /\ Len(piece) \in 2 .. 255 /\ piece[2] = Len(piece)
  BY DEF FramedPiece
<1>3. a.class = ClassOf(type) /\ a.type = type /\ a.value = data
  BY DEF MakeAttribute
<1>4. Data(a, auth) = data
  <2>1. a.class \notin {"Integer", "Encrypted"}
    <3> HIDE DEF a
    <3> QED BY <1>3
  <2> HIDE DEF a, type
  <2>2. Data(a, auth) = a.value
    BY <2>1, PlainData
  <2> QED BY <1>3, <2>2
<1> HIDE DEF a
<1>5. ToVector(a, auth) = <<type, (2 + n) % 256>> \o data
  <2>1. ToVector(a, auth) = <<a.type, (2 + Len(Data(a, auth))) % 256>> \o Data(a, auth)
    BY DEF ToVector
  <2> QED BY <1>3, <1>4, <2>1
<1> HIDE DEF type, data
<1>6. (2 + n) % 256 = Len(piece) /\ Len(piece) \in Byte /\ 2 + n = Len(piece)
  <2>1. \A l \in 2 .. 255 : (2 + (l - 2)) % 256 = l /\ l \in Byte /\ 2 + (l - 2) = l
    BY DEF Byte
  <2>2. Len(piece) \in 2 .. 255 /\ n = Len(piece) - 2
    BY <1>1, <1>2, Zenon
  <2> HIDE DEF n
  <2> QED BY <2>1, <2>2, Zenon
<1> DEFINE l == Len(piece)
           w == <<type, l>> \o data
<1>7. /\ w \in Seq(Byte) /\ Len(w) = 2 + n /\ w[1] = type /\ w[2] = l
      /\ \A j \in 1 .. n : w[2 + j] = data[j]
  <2>1. l \in Byte
    BY <1>6
  <2> HIDE DEF l
  <2> QED BY <1>1, <2>1, HeaderOf
<1>8. w = piece
  <2> HIDE DEF w
  <2>1. Len(w) = Len(piece)
    BY <1>6, <1>7
  <2>2. ASSUME NEW i \in 1 .. Len(w) PROVE w[i] = piece[i]
    <3>1. CASE i = 1
      BY <1>7, <3>1 DEF type
    <3>2. CASE i = 2
      BY <1>2, <1>7, <3>2
    <3>3. CASE i > 2
      <4> DEFINE j == i - 2
      <4>1. j \in 1 .. n /\ j \in 1 .. Len(piece) - 2 /\ 2 + j = i
        <5>1. Len(piece) \in 2 .. 255 /\ n = Len(piece) - 2 /\ Len(w) = Len(piece)
          BY <1>1, <1>2, <2>1, Zenon
        <5> HIDE DEF n
        <5> QED BY <3>3, <5>1
      <4> HIDE DEF j
      <4>2. w[2 + j] = data[j] /\ data[j] = piece[2 + j]
        BY <1>1, <1>7, <4>1
      <4> QED BY <4>1, <4>2
    <3>4. i = 1 \/ i = 2 \/ i > 2
      <4>1. Len(piece) \in 2 .. 255 /\ Len(w) = Len(piece)
        BY <1>2, <2>1, Zenon
      <4> QED BY <4>1
    <3> QED BY <3>1, <3>2, <3>3, <3>4
  <2> QED BY <1>2, <1>7, <2>1, <2>2, SeqEqual
<1>9. ToVector(a, auth) = piece
  BY <1>5, <1>6, <1>8
<1> QED BY <1>9 DEF a, type, data

(* The number of a vendor attribute gives its bytes back. *)
LEMMA NumberBytes ==
    ASSUME NEW x \in Byte, NEW y \in Byte, NEW z \in Byte
    PROVE  BigEndian(x * 2^16 + y * 2^8 + z) = <<0, x, y, z>>
<1> DEFINE n == x * 2^16 + y * 2^8 + z
<1>1. /\ (n \div 2^24) % 256 = 0 /\ (n \div 2^16) % 256 = x
      /\ (n \div 2^8) % 256 = y /\ n % 256 = z
  BY DEF Byte
<1> HIDE DEF n
<1>2. BigEndian(n) = <<0, x, y, z>>
  BY <1>1 DEF BigEndian
<1> QED BY <1>2 DEF n

(* A vendor attribute that is all of its Vendor-Specific attribute is written
   as it was read. *)
LEMMA VendorRewritten ==
    ASSUME NEW piece, FramedPiece(piece), piece[1] = VENDOR_SPECIFIC, ~Refused(piece),
           piece[8] = Len(piece) - 6
    PROVE  VendorToVector(MakeVendor(PieceData(piece))) = piece
<1> DEFINE data == PieceData(piece)
           n == Len(piece)
           m == 6 + VendorLength(data)
           value == SubSeq(data, 7, m)
           v == MakeVendor(data)
<1>1. /\ data \in Seq(Byte) /\ Len(data) = n - 2
      /\ \A j \in 1 .. n - 2 : data[j] = piece[2 + j]
  BY PieceDataType
<1>2. piece \in Seq(Byte) /\ n \in 8 .. 255 /\ piece[2] = n /\ piece[8] \in 2 .. n - 6
  BY DEF FramedPiece
<1>3. VendorFault(data) = "none"
  BY DEF Refused
<1>4. data[1] = 0
  BY <1>3 DEF VendorFault
<1> HIDE DEF data, n
<1>5. /\ piece[3] = data[1] /\ piece[4] = data[2] /\ piece[5] = data[3] /\ piece[6] = data[4]
      /\ piece[7] = data[5] /\ piece[8] = data[6]
  <2>1. \A j \in 1 .. 6 : j \in 1 .. n - 2
    BY <1>2
  <2>2. \A j \in 1 .. 6 : data[j] = piece[2 + j]
    BY <1>1, <2>1
  <2> QED BY <2>2
<1>6. data[2] \in Byte /\ data[3] \in Byte /\ data[4] \in Byte /\ data[5] \in Byte
  <2>1. 2 \in 1 .. Len(data) /\ 3 \in 1 .. Len(data) /\ 4 \in 1 .. Len(data) /\ 5 \in 1 .. Len(data)
    BY <1>1, <1>2
  <2> QED BY <1>1, <2>1, ElementOfSeq
<1>7. m = n - 2 /\ m = Len(data)
  <2>1. m = 6 + (data[6] - 2) /\ data[6] = n - 6
    BY <1>5 DEF VendorLength, n
  <2> HIDE DEF m
  <2> QED BY <1>1, <1>2, <2>1
<1> HIDE DEF m
<1>8. /\ value \in Seq(Byte) /\ Len(value) = n - 8
      /\ \A i \in 1 .. n - 8 : value[i] = data[6 + i]
  <2>0. m \in Int /\ 7 \in Int /\ Len(data) \in Nat
    BY <1>2, <1>7
  <2>1. \A i \in 7 .. m : data[i] \in Byte
    <3>1. \A i \in 7 .. m : i \in 1 .. Len(data)
      BY <1>7, <2>0
    <3> QED BY <1>1, <3>1, ElementOfSeq
  <2>2. /\ value \in Seq(Byte) /\ Len(value) = IF 7 <= m THEN m - 7 + 1 ELSE 0
        /\ \A i \in 1 .. m - 7 + 1 : value[i] = data[7 + i - 1]
    BY <2>0, <2>1, SubSeqProperties
  <2> HIDE DEF value
  <2>3. Len(value) = n - 8
    BY <1>2, <1>7, <2>2
  <2>4. ASSUME NEW i \in 1 .. n - 8 PROVE value[i] = data[6 + i]
    <3>1. i \in 1 .. m - 7 + 1 /\ 7 + i - 1 = 6 + i
      BY <1>2, <1>7
    <3> QED BY <2>2, <3>1
  <2> QED BY <2>2, <2>3, <2>4
<1>9. /\ v.id = data[2] * 2^16 + data[3] * 2^8 + data[4]
      /\ v.type = data[5] /\ v.value = value
  BY DEF MakeVendor, m
<1>10. BigEndian(v.id) = <<0, data[2], data[3], data[4]>>
  BY <1>6, <1>9, NumberBytes
<1> HIDE DEF value, v
<1>11. (Len(value) + 8) % 256 = n /\ (Len(value) + 2) % 256 = n - 6
  <2> DEFINE k == Len(value)
  <2>2. k \in Nat /\ n \in 8 .. 255 /\ k = n - 8
    BY <1>2, <1>8, LenProperties
  <2> HIDE DEF k
  <2>3. (k + 8) % 256 = n /\ (k + 2) % 256 = n - 6
    <3>1. k = n - 8 => (k + 8) % 256 = n /\ (k + 2) % 256 = n - 6
      <4>1. k + 8 = n /\ k + 2 = n - 6 /\ n \in 0 .. 255 /\ n - 6 \in 0 .. 255
        BY <2>2
      <4>2. \A l \in 0 .. 255 : l % 256 = l
        OBVIOUS
      <4> QED BY <4>1, <4>2, Zenon
    <3> QED BY <2>2, <3>1, Zenon
  <2> QED BY <2>3 DEF k
<1> DEFINE head == <<VENDOR_SPECIFIC, n, 0, data[2], data[3], data[4], data[5], n - 6>>
           w == head \o value
<1>12. VendorToVector(v) = w
  <2>1. VendorToVector(v)
          = <<VENDOR_SPECIFIC, (Len(value) + 8) % 256>> \o BigEndian(v.id)
              \o <<v.type, (Len(value) + 2) % 256>> \o value
    BY <1>9 DEF VendorToVector
  <2>2. VendorToVector(v) = <<VENDOR_SPECIFIC, n>> \o <<0, data[2], data[3], data[4]>>
                              \o <<data[5], n - 6>> \o value
    BY <1>9, <1>10, <1>11, <2>1
  <2>3. head = <<VENDOR_SPECIFIC, n>> \o <<0, data[2], data[3], data[4]>> \o <<data[5], n - 6>>
    OBVIOUS
  <2> HIDE DEF head
  <2> QED BY <2>2, <2>3
<1>13. head \in Seq(Byte) /\ Len(head) = 8 /\ \A i \in 1 .. 8 : head[i] = piece[i]
  <2>1. n \in Byte /\ n - 6 \in Byte /\ 0 \in Byte /\ VENDOR_SPECIFIC \in Byte
    BY <1>2 DEF Byte, VENDOR_SPECIFIC
  <2>2. head \in Seq(Byte) /\ Len(head) = 8
    BY <1>6, <2>1
  <2>3. /\ head[1] = piece[1] /\ head[2] = piece[2] /\ head[3] = piece[3] /\ head[4] = piece[4]
        /\ head[5] = piece[5] /\ head[6] = piece[6] /\ head[7] = piece[7]
    BY <1>2, <1>4, <1>5
  <2>4. head[8] = piece[8]
    BY DEF n
  <2> HIDE DEF head
  <2>5. \A i \in 1 .. 8 : i = 1 \/ i = 2 \/ i = 3 \/ i = 4 \/ i = 5 \/ i = 6 \/ i = 7 \/ i = 8
    OBVIOUS
  <2>6. \A i \in 1 .. 8 : head[i] = piece[i]
    BY <2>3, <2>4, <2>5
  <2> QED BY <2>2, <2>6
<1> HIDE DEF head
<1>14. /\ w \in Seq(Byte) /\ Len(w) = 8 + Len(value)
       /\ \A j \in 1 .. 8 : w[j] = head[j]
       /\ \A j \in 1 .. Len(value) : w[8 + j] = value[j]
  <2>0. head \in Seq(Byte) /\ value \in Seq(Byte)
    BY <1>8, <1>13
  <2>1. w \in Seq(Byte) /\ Len(w) = Len(head) + Len(value)
    BY <2>0, ConcatParts
  <2>2. \A j \in 1 .. Len(head) : w[j] = head[j]
    BY <2>0, ConcatParts
  <2>3. \A j \in 1 .. Len(value) : w[Len(head) + j] = value[j]
    BY <2>0, ConcatParts
  <2> HIDE DEF w
  <2> QED BY <1>13, <2>1, <2>2, <2>3
<1> HIDE DEF w
<1>15. w = piece
  <2>0. Len(piece) = n
    BY Zenon DEF n
  <2>1. Len(w) = Len(piece) /\ Len(piece) = n
    <3>1. n \in Int /\ Len(w) = 8 + Len(value) /\ Len(value) = n - 8
      BY <1>2, <1>8, <1>14
    <3>2. Len(w) = n
      BY <3>1
    <3> QED BY <2>0, <3>2, Zenon
  <2>2. ASSUME NEW i \in 1 .. Len(w) PROVE w[i] = piece[i]
    <3>1. CASE i \in 1 .. 8
      BY <1>13, <1>14, <3>1
    <3>2. CASE i \notin 1 .. 8
      <4>1. /\ i - 8 \in 1 .. Len(value) /\ i - 8 \in 1 .. n - 8 /\ 8 + (i - 8) = i
            /\ 6 + (i - 8) \in 1 .. n - 2 /\ 2 + (6 + (i - 8)) = i
        BY <1>2, <1>8, <2>1, <3>2
      <4>2. w[i] = value[i - 8] /\ value[i - 8] = data[6 + (i - 8)]
        BY <1>8, <1>14, <4>1
      <4> QED BY <1>1, <4>1, <4>2
    <3> QED BY <3>1, <3>2
  <2> QED BY <1>2, <1>14, <2>1, <2>2, SeqEqual
<1> QED BY <1>12, <1>15 DEF v, data

(* The pieces of a datagram that are not vendor attributes, and those that
   are; nothing stands for the others. *)
PlainParts(pieces) ==
    [i \in 1 .. Len(pieces) |-> IF pieces[i][1] = VENDOR_SPECIFIC THEN <<>> ELSE pieces[i]]

VendorParts(pieces) ==
    [i \in 1 .. Len(pieces) |-> IF pieces[i][1] = VENDOR_SPECIFIC THEN pieces[i] ELSE <<>>]

(* They are sequences of bytes, like the pieces. *)
LEMMA PartsType ==
    ASSUME NEW pieces \in Seq(Seq(Byte))
    PROVE  /\ PlainParts(pieces) \in Seq(Seq(Byte)) /\ VendorParts(pieces) \in Seq(Seq(Byte))
           /\ Len(PlainParts(pieces)) = Len(pieces) /\ Len(VendorParts(pieces)) = Len(pieces)
<1> DEFINE e(i) == IF pieces[i][1] = VENDOR_SPECIFIC THEN <<>> ELSE pieces[i]
           g(i) == IF pieces[i][1] = VENDOR_SPECIFIC THEN pieces[i] ELSE <<>>
<1>1. Len(pieces) \in Nat
  BY LenProperties
<1>2. \A i \in 1 .. Len(pieces) : e(i) \in Seq(Byte) /\ g(i) \in Seq(Byte)
  <2>1. <<>> \in Seq(Byte)
    OBVIOUS
  <2> QED BY <2>1, ElementOfSeq
<1> HIDE DEF e, g
<1>3. /\ [i \in 1 .. Len(pieces) |-> e(i)] \in Seq(Seq(Byte))
      /\ Len([i \in 1 .. Len(pieces) |-> e(i)]) = Len(pieces)
  BY <1>1, <1>2
<1>4. /\ [i \in 1 .. Len(pieces) |-> g(i)] \in Seq(Seq(Byte))
      /\ Len([i \in 1 .. Len(pieces) |-> g(i)]) = Len(pieces)
  BY <1>1, <1>2
<1> QED BY <1>3, <1>4 DEF PlainParts, VendorParts, e, g

(* What is read of the attributes that are not vendor attributes is written
   as they came, one behind the other ... *)
LEMMA PlainRewritten ==
    ASSUME DigestTyped, NEW pieces \in Seq(Seq(Byte)), NEW auth \in [1 .. 16 -> Byte],
           \A i \in 1 .. Len(pieces) : FramedPiece(pieces[i]),
           \A i \in 1 .. Len(pieces) :
              pieces[i][1] # VENDOR_SPECIFIC
                => ClassOf(pieces[i][1]) \notin {"Integer", "Encrypted"},
           NEW u, u = FlattenSeq(AllAttributesIn(pieces, auth))
    PROVE  /\ [i \in 1 .. Len(u) |-> ToVector(u[i], auth)] \in Seq(Seq(Byte))
           /\ FlattenSeq([i \in 1 .. Len(u) |-> ToVector(u[i], auth)])
                = FlattenSeq(PlainParts(pieces))
<1> DEFINE f == [a \in Attribute |-> ToVector(a, auth)]
           s == AllAttributesIn(pieces, auth)
           t == PlainParts(pieces)
<1>1. /\ s \in Seq(Seq(Attribute)) /\ Len(s) = Len(pieces)
      /\ \A i \in 1 .. Len(pieces) : s[i] = AttributesIn(pieces[i], auth)
  BY AllType
<1>2. /\ t \in Seq(Seq(Byte)) /\ Len(t) = Len(pieces)
      /\ \A i \in 1 .. Len(pieces) :
            t[i] = IF pieces[i][1] = VENDOR_SPECIFIC THEN <<>> ELSE pieces[i]
  <2>1. t \in Seq(Seq(Byte)) /\ Len(t) = Len(pieces)
    BY PartsType
  <2> QED BY <2>1 DEF PlainParts
<1>3. ASSUME NEW i \in 1 .. Len(pieces)
      PROVE  \/ s[i] = <<>> /\ t[i] = <<>>
             \/ \E x \in Attribute : s[i] = <<x>> /\ t[i] = f[x]
  <2> DEFINE piece == pieces[i]
             x == MakeAttribute(piece[1], PieceData(piece), auth)
  <2>1. s[i] = AttributesIn(piece, auth)
        /\ t[i] = IF piece[1] = VENDOR_SPECIFIC THEN <<>> ELSE piece
    BY <1>1, <1>2
  <2>2. FramedPiece(piece)
    OBVIOUS
  <2> HIDE DEF s, t
  <2>3. CASE piece[1] = VENDOR_SPECIFIC
    BY <2>1, <2>3 DEF AttributesIn
  <2>4. CASE piece[1] # VENDOR_SPECIFIC
    <3>1. PieceData(piece) \in Seq(Byte) /\ piece[1] \in Byte
      BY <2>2, PieceDataType
    <3>2. x \in Attribute
      BY <3>1, MakeAttributeType
    <3>3. ToVector(x, auth) = piece
      BY <2>2, <2>4, AttributeRewritten
    <3>4. s[i] = <<x>> /\ t[i] = piece
      BY <2>1, <2>4 DEF AttributesIn
    <3> HIDE DEF x, piece
    <3>5. f[x] = piece
      BY <3>2, <3>3
    <3> QED BY <3>2, <3>4, <3>5
  <2> QED BY <2>3, <2>4
<1>4. u \in Seq(Attribute) /\ u = FlattenSeq(s)
  BY <1>1, FlattenType
<1> HIDE DEF s, t, f
<1>5. /\ Mapped(f, u) \in Seq(Seq(Byte)) /\ FlattenSeq(Mapped(f, u)) = FlattenSeq(t)
  <2>1. GivesBack(f, Attribute, s, t)
    BY <1>1, <1>2, <1>3 DEF GivesBack
  <2> QED BY <1>4, <2>1, FlattenMapped
<1>6. Mapped(f, u) = [i \in 1 .. Len(u) |-> ToVector(u[i], auth)]
  <2>1. \A i \in 1 .. Len(u) : u[i] \in Attribute
    BY <1>4, ElementOfSeq
  <2>2. \A i \in 1 .. Len(u) : f[u[i]] = ToVector(u[i], auth)
    BY <2>1 DEF f
  <2> QED BY <2>2 DEF Mapped
<1> QED BY <1>5, <1>6 DEF t

(* ... and what is read of the vendor attributes too. *)
LEMMA VendorsRewritten ==
    ASSUME DigestTyped, NEW pieces \in Seq(Seq(Byte)),
           \A i \in 1 .. Len(pieces) : FramedPiece(pieces[i]) /\ ~Refused(pieces[i]),
           \A i \in 1 .. Len(pieces) :
              pieces[i][1] = VENDOR_SPECIFIC => pieces[i][8] = Len(pieces[i]) - 6,
           NEW u, u = FlattenSeq(AllVendorsIn(pieces))
    PROVE  /\ [i \in 1 .. Len(u) |-> VendorToVector(u[i])] \in Seq(Seq(Byte))
           /\ FlattenSeq([i \in 1 .. Len(u) |-> VendorToVector(u[i])])
                = FlattenSeq(VendorParts(pieces))
<1> DEFINE f == [v \in Vendor |-> VendorToVector(v)]
           s == AllVendorsIn(pieces)
           t == VendorParts(pieces)
<1>1. /\ s \in Seq(Seq(Vendor)) /\ Len(s) = Len(pieces)
      /\ \A i \in 1 .. Len(pieces) : s[i] = VendorsIn(pieces[i])
  BY ZerosAuthenticator, AllType
<1>2. /\ t \in Seq(Seq(Byte)) /\ Len(t) = Len(pieces)
      /\ \A i \in 1 .. Len(pieces) :
            t[i] = IF pieces[i][1] = VENDOR_SPECIFIC THEN pieces[i] ELSE <<>>
  <2>1. t \in Seq(Seq(Byte)) /\ Len(t) = Len(pieces)
    BY PartsType
  <2> QED BY <2>1 DEF VendorParts
<1>3. ASSUME NEW i \in 1 .. Len(pieces)
      PROVE  \/ s[i] = <<>> /\ t[i] = <<>>
             \/ \E x \in Vendor : s[i] = <<x>> /\ t[i] = f[x]
  <2> DEFINE piece == pieces[i]
             x == MakeVendor(PieceData(piece))
  <2>1. s[i] = VendorsIn(piece)
        /\ t[i] = IF piece[1] = VENDOR_SPECIFIC THEN piece ELSE <<>>
    BY <1>1, <1>2
  <2>2. FramedPiece(piece) /\ ~Refused(piece)
    OBVIOUS
  <2> HIDE DEF s, t
  <2>3. CASE piece[1] # VENDOR_SPECIFIC
    BY <2>1, <2>3 DEF VendorsIn
  <2>4. CASE piece[1] = VENDOR_SPECIFIC
    <3>1. x \in Vendor
      BY <2>2, <2>4, VendorInType
    <3>2. VendorToVector(x) = piece
      BY <2>2, <2>4, VendorRewritten
    <3>3. s[i] = <<x>> /\ t[i] = piece
      BY <2>1, <2>4 DEF VendorsIn
    <3> HIDE DEF x, piece
    <3>4. f[x] = piece
      BY <3>1, <3>2
    <3> QED BY <3>1, <3>3, <3>4
  <2> QED BY <2>3, <2>4
<1>4. u \in Seq(Vendor) /\ u = FlattenSeq(s)
  BY <1>1, FlattenType
<1> HIDE DEF s, t, f
<1>5. /\ Mapped(f, u) \in Seq(Seq(Byte)) /\ FlattenSeq(Mapped(f, u)) = FlattenSeq(t)
  <2>1. GivesBack(f, Vendor, s, t)
    BY <1>1, <1>2, <1>3 DEF GivesBack
  <2> QED BY <1>4, <2>1, FlattenMapped
<1>6. Mapped(f, u) = [i \in 1 .. Len(u) |-> VendorToVector(u[i])]
  <2>1. \A i \in 1 .. Len(u) : u[i] \in Vendor
    BY <1>4, ElementOfSeq
  <2>2. \A i \in 1 .. Len(u) : f[u[i]] = VendorToVector(u[i])
    BY <2>1 DEF f
  <2> QED BY <2>2 DEF Mapped
<1> QED BY <1>5, <1>6 DEF t

(* The pieces of a packet: vendor attributes are the last ones, and each is
   all of its Vendor-Specific attribute. *)
LEMMA OwnPieces ==
    ASSUME DigestTyped, NEW p, Sendable(p), NEW i \in 1 .. Len(Pieces(p))
    PROVE  /\ Len(Pieces(p)) = Len(p.attributes) + Len(p.vendors)
           /\ Len(p.attributes) \in Nat /\ Len(p.vendors) \in Nat
           /\ i <= Len(p.attributes) => Pieces(p)[i][1] # VENDOR_SPECIFIC
           /\ i > Len(p.attributes) => /\ Pieces(p)[i][1] = VENDOR_SPECIFIC
                                       /\ Pieces(p)[i][8] = Len(Pieces(p)[i]) - 6
<1> DEFINE n == Len(p.attributes)
           m == Len(p.vendors)
<1>0. Fits(p.attributes, p.vendors) /\ p.auth \in [1 .. 16 -> Byte]
  BY DEF Sendable
<1>1. n \in Nat /\ m \in Nat
  BY <1>0, FitsType
<1>2. /\ Len(Pieces(p)) = n + m
      /\ \A j \in 1 .. n : Pieces(p)[j] = ToVector(p.attributes[j], p.auth)
      /\ \A j \in 1 .. m : Pieces(p)[n + j] = VendorToVector(p.vendors[j])
  BY <1>0, PiecesOf
<1>3. ASSUME i <= n PROVE Pieces(p)[i][1] # VENDOR_SPECIFIC
  <2>1. i \in 1 .. n
    BY <1>1, <1>2, <1>3
  <2>2. /\ p.attributes[i] \in Attribute /\ WrittenSize(p.attributes[i]) <= 253
        /\ p.attributes[i].type # VENDOR_SPECIFIC
    BY <1>0, <2>1, FitsType
  <2>3. ToVector(p.attributes[i], p.auth)[1] = p.attributes[i].type
    BY <1>0, <2>2, ToVectorFramed
  <2> QED BY <1>2, <2>1, <2>2, <2>3
<1>4. ASSUME i > n PROVE Pieces(p)[i][1] = VENDOR_SPECIFIC /\ Pieces(p)[i][8] = Len(Pieces(p)[i]) - 6
  <2> DEFINE v == p.vendors[i - n]
             piece == VendorToVector(v)
  <2>1. i - n \in 1 .. m /\ n + (i - n) = i
    <3>1. i \in 1 .. n + m
      BY <1>2
    <3> HIDE DEF n, m
    <3> QED BY <1>1, <1>4, <3>1
  <2>2. v \in Vendor /\ Len(v.value) <= 247
    BY <1>0, <2>1, FitsType
  <2>3. Len(v.value) \in Nat
    BY <2>2, LenProperties DEF Vendor
  <2>4. piece[1] = VENDOR_SPECIFIC /\ Len(piece) = 8 + Len(v.value) /\ piece[8] = 2 + Len(v.value)
    BY <2>2, VendorToVectorFramed
  <2>5. Pieces(p)[i] = piece
    BY <1>2, <2>1
  <2> HIDE DEF piece, v
  <2> QED BY <2>3, <2>4, <2>5
<1> QED BY <1>1, <1>2, <1>3, <1>4

(* So is each vendor attribute of a foreign datagram that was not refused. *)
LEMMA ForeignPiece ==
    ASSUME NEW d, IsDatagram(d), NEW i \in 1 .. Len(d.items), ~Refused(ItemPieces(d)[i]),
           d.items[i].type = VENDOR_SPECIFIC
    PROVE  ItemPieces(d)[i][8] = Len(ItemPieces(d)[i]) - 6
<1> DEFINE item == d.items[i]
           piece == ItemPieces(d)[i]
           v == item.vendors[1]
           value == v.value
<1>1. IsPieceOf(piece, item) /\ FramedPiece(piece)
  BY PieceOfItem, ItemPieceOf
<1>2. IsVendor(item)
  <2>1. i \in DOMAIN d.items
    BY LenProperties DEF IsDatagram
  <2>2. IsAttribute(item, d.auth) \/ IsVendor(item) \/ IsNothing(item)
    <3>1. \A j \in DOMAIN d.items :
             IsAttribute(d.items[j], d.auth) \/ IsVendor(d.items[j]) \/ IsNothing(d.items[j])
      BY DEF IsDatagram
    <3> QED BY <2>1, <3>1
  <2>3. ~IsNothing(item)
    BY <1>1, NothingItemRefused
  <2>4. ~IsAttribute(item, d.auth)
    BY DEF IsAttribute
  <2> QED BY <2>2, <2>3, <2>4
<1>3. /\ Len(item.vendors) = 1
      /\ item.data = <<0, v.id \div 2^16, (v.id \div 2^8) % 256, v.id % 256,
                       v.type, 2 + Len(value)>> \o value
  BY <1>2 DEF IsVendor
<1>4. value \in Seq(Byte) /\ v.id \in Nat /\ Len(value) \in Nat
  <2>1. item.vendors \in Seq(Vendor)
    BY <1>1 DEF IsPieceOf
  <2>3. 1 \in 1 .. Len(item.vendors)
    <3>1. Len(item.vendors) = 1
      BY <1>3, Zenon
    <3> QED BY <3>1
  <2>2. v \in Vendor
    BY <2>1, <2>3, ElementOfSeq
  <2> HIDE DEF v
  <2> QED BY <2>2, LenProperties DEF Vendor
<1>5. item.data[6] = 2 + Len(value) /\ Len(item.data) = 6 + Len(value)
  <2> DEFINE size == 2 + Len(value)
             x == v.id \div 2^16
             y == (v.id \div 2^8) % 256
             z == v.id % 256
             e == v.type
             head == <<0, x, y, z, e, size>>
             S == {0, x, y, z, e, size} \cup Byte
  <2>3. item.data = head \o value
    BY <1>3
  <2>0. value \in Seq(S)
    <3>1. Byte \subseteq S
      OBVIOUS
    <3> HIDE DEF S
    <3> QED BY <1>4, <3>1
  <2> HIDE DEF size, x, y, z, e
  <2>1. head[6] = size /\ Len(head) = 6
    OBVIOUS
  <2>2. head \in Seq(S) /\ value \in Seq(S)
    BY <2>0
  <2> HIDE DEF head
  <2>4. Len(head \o value) = Len(head) + Len(value)
    BY <2>2, ConcatParts
  <2>5. \A j \in 1 .. Len(head) : (head \o value)[j] = head[j]
    BY <2>2, ConcatParts
  <2>6. 6 \in 1 .. Len(head)
    BY <2>1
  <2> QED BY <2>1, <2>3, <2>4, <2>5, <2>6 DEF size
<1>6. PieceData(piece) = item.data
  BY <1>1 DEF IsPieceOf
<1>7. /\ Len(PieceData(piece)) = Len(piece) - 2 /\ Len(piece) \in Nat
      /\ \A j \in 1 .. Len(piece) - 2 : PieceData(piece)[j] = piece[2 + j]
  BY <1>1, PieceDataType
<1> HIDE DEF piece, value, item
<1>8. 6 \in 1 .. Len(piece) - 2 /\ 2 + 6 = 8
  BY <1>4, <1>5, <1>6, <1>7
<1>9. piece[8] = Len(piece) - 6
  BY <1>4, <1>5, <1>6, <1>7, <1>8
<1> QED BY <1>9 DEF piece

(* Each vendor attribute of a datagram that was accepted. *)
LEMMA VendorPieces ==
    ASSUME DigestTyped, IInv, phase = "accepted", NEW i \in 1 .. Len(SentPieces),
           SentPieces[i][1] = VENDOR_SPECIFIC
    PROVE  SentPieces[i][8] = Len(SentPieces[i]) - 6
<1>1. Accepted /\ Provenance /\ requestAuth \in [1 .. 16 -> Byte]
  BY AcceptedPacket DEF IInv
<1>2. ~Refused(SentPieces[i])
  BY <1>1 DEF Accepted
<1>3. CASE origin = "foreign"
  <2>1. IsDatagram(sent) /\ SentPieces = ItemPieces(sent) /\ Len(SentPieces) = Len(sent.items)
    BY <1>3, ForeignFacts
  <2>2. i \in 1 .. Len(sent.items)
    BY <2>1
  <2>3. ItemPieces(sent)[i][1] = sent.items[i].type
    BY <2>1, <2>2, ItemPieceOf
  <2> QED BY <1>2, <2>1, <2>2, <2>3, ForeignPiece
<1>4. CASE origin # "foreign"
  <2>1. FromRequester \/ FromResponder
    BY <1>1, <1>4 DEF Provenance
  <2>2. Sendable(sent) /\ SentPieces = Pieces(sent)
    BY <1>1, <1>4, <2>1, OwnSendable DEF SentPieces
  <2>3. i \in 1 .. Len(Pieces(sent))
    BY <2>2
  <2>4. /\ i <= Len(sent.attributes) => Pieces(sent)[i][1] # VENDOR_SPECIFIC
        /\ i > Len(sent.attributes) => Pieces(sent)[i][8] = Len(Pieces(sent)[i]) - 6
        /\ Len(sent.attributes) \in Nat
    BY <2>2, <2>3, OwnPieces
  <2>5. i <= Len(sent.attributes) \/ i > Len(sent.attributes)
    BY <2>4
  <2> QED BY <2>2, <2>4, <2>5
<1> QED BY <1>3, <1>4

(* The packet that was built of them. *)
LEMMA AcceptedContent ==
    ASSUME DigestTyped, IInv, phase = "accepted"
    PROVE  /\ SentPieces \in Seq(Seq(Byte)) /\ Authenticator(buffer) \in [1 .. 16 -> Byte]
           /\ \A i \in 1 .. Len(SentPieces) : FramedPiece(SentPieces[i]) /\ ~Refused(SentPieces[i])
           /\ parsed.attributes = FlattenSeq(AllAttributesIn(SentPieces, Authenticator(buffer)))
           /\ parsed.vendors = FlattenSeq(AllVendorsIn(SentPieces))
           /\ parsed.recalc = FALSE
<1> DEFINE n == Len(SentPieces)
           auth == Authenticator(buffer)
           s == AllAttributesIn(SentPieces, auth)
           t == AllVendorsIn(SentPieces)
<1>1. Accepted /\ WellFramed(buffer, SentPieces)
  BY AcceptedPacket
<1>2. /\ Complete /\ \A i \in 1 .. n : ~Refused(SentPieces[i])
      /\ parsed = Read(buffer, SentPieces, n)
  BY <1>1 DEF Accepted
<1>3. Len(buffer) >= 20 /\ n \in Nat
  BY <1>1, <1>2, CompleteBuffer
<1>4. /\ SentPieces \in Seq(Seq(Byte)) /\ auth \in [1 .. 16 -> Byte]
      /\ \A i \in 1 .. n : FramedPiece(SentPieces[i])
  BY <1>1, <1>3 DEF WellFramed
<1>5. parsed.attributes = Flat(s, n) /\ parsed.vendors = Flat(t, n)
  BY <1>2, ReadMade, MadeFields
<1>6. parsed.recalc = FALSE
  BY <1>2 DEF Read
<1> HIDE DEF auth
<1>7. s \in Seq(Seq(Attribute)) /\ t \in Seq(Seq(Vendor)) /\ Len(s) = n /\ Len(t) = n
  BY <1>4, AllType
<1> HIDE DEF s, t, n
<1>8. Flat(s, n) = FlattenSeq(s)
  <2>1. s \in Seq(Seq(Attribute)) /\ Len(s) = n /\ Len(s) \in 0 .. Len(s)
    BY <1>3, <1>7
  <2>2. Flat(s, Len(s)) = FlattenSeq(s)
    BY <2>1, FlatType
  <2> QED BY <2>1, <2>2
<1>9. Flat(t, n) = FlattenSeq(t)
  <2>1. t \in Seq(Seq(Vendor)) /\ Len(t) = n /\ Len(t) \in 0 .. Len(t)
    BY <1>3, <1>7
  <2>2. Flat(t, Len(t)) = FlattenSeq(t)
    BY <2>1, FlatType
  <2> QED BY <2>1, <2>2
<1>10. parsed.attributes = FlattenSeq(s) /\ parsed.vendors = FlattenSeq(t)
  BY <1>5, <1>8, <1>9
<1> QED BY <1>2, <1>4, <1>6, <1>10 DEF s, t, auth, n

(* If none of its attributes is an Integer or an Encrypted, no piece was one. *)
LEMMA VerbatimPieces ==
    ASSUME DigestTyped, NEW pieces \in Seq(Seq(Byte)), NEW auth \in [1 .. 16 -> Byte],
           \A i \in 1 .. Len(pieces) : FramedPiece(pieces[i]),
           Verbatim(FlattenSeq(AllAttributesIn(pieces, auth))),
           NEW i \in 1 .. Len(pieces), pieces[i][1] # VENDOR_SPECIFIC
    PROVE  ClassOf(pieces[i][1]) \notin {"Integer", "Encrypted"}
<1> DEFINE s == AllAttributesIn(pieces, auth)
           all == FlattenSeq(s)
           x == MakeAttribute(pieces[i][1], PieceData(pieces[i]), auth)
<1>1. /\ s \in Seq(Seq(Attribute)) /\ Len(s) = Len(pieces)
      /\ s[i] = AttributesIn(pieces[i], auth)
  BY AllType
<1>2. s[i] = <<x>>
  BY <1>1 DEF AttributesIn
<1>3. x.class = ClassOf(pieces[i][1])
  BY DEF MakeAttribute
<1>4. \A j \in DOMAIN all : all[j].class \notin {"Integer", "Encrypted"}
  BY DEF Verbatim
<1> HIDE DEF s, x
<1>5. i \in 1 .. Len(s)
  BY <1>1
<1>6. PICK j \in 1 .. Len(all) : all[j] = x
  BY <1>1, <1>2, <1>5, FlattenHolds
<1>7. j \in DOMAIN all
  <2>1. all \in Seq(Attribute)
    BY <1>1, FlattenType
  <2> HIDE DEF all
  <2>2. DOMAIN all = 1 .. Len(all)
    BY <2>1
  <2> QED BY <1>6, <2>2, Zenon
<1> QED BY <1>3, <1>4, <1>6, <1>7

(* Sent on, it is the pieces again, with the vendor attributes last. *)
LEMMA ResentBody ==
    ASSUME DigestTyped, IInv, phase = "accepted", Verbatim(parsed.attributes)
    PROVE  Body(parsed) = FlattenSeq(PlainParts(SentPieces)) \o FlattenSeq(VendorParts(SentPieces))
<1> DEFINE pieces == SentPieces
           auth == Authenticator(buffer)
           u == parsed.attributes
           w == parsed.vendors
           x == [i \in 1 .. Len(u) |-> ToVector(u[i], auth)]
           y == [i \in 1 .. Len(w) |-> VendorToVector(w[i])]
<1>1. /\ pieces \in Seq(Seq(Byte)) /\ auth \in [1 .. 16 -> Byte]
      /\ \A i \in 1 .. Len(pieces) : FramedPiece(pieces[i]) /\ ~Refused(pieces[i])
      /\ u = FlattenSeq(AllAttributesIn(pieces, auth))
      /\ w = FlattenSeq(AllVendorsIn(pieces))
  BY AcceptedContent
<1>2. parsed.auth = auth
  BY AcceptedPacket
<1>3. \A i \in 1 .. Len(pieces) :
         pieces[i][1] = VENDOR_SPECIFIC => pieces[i][8] = Len(pieces[i]) - 6
  BY VendorPieces
<1>4. Verbatim(u)
  OBVIOUS
<1>5. Body(parsed) = FlattenSeq(x \o y)
  BY <1>2 DEF Body, Pieces
<1> HIDE DEF pieces, auth, u, w
<1>6. \A i \in 1 .. Len(pieces) :
         pieces[i][1] # VENDOR_SPECIFIC => ClassOf(pieces[i][1]) \notin {"Integer", "Encrypted"}
  <2>1. \A i \in 1 .. Len(pieces) : FramedPiece(pieces[i])
    BY <1>1
  <2>2. Verbatim(FlattenSeq(AllAttributesIn(pieces, auth)))
    BY <1>1, <1>4
  <2> QED BY <1>1, <2>1, <2>2, VerbatimPieces
<1>7. x \in Seq(Seq(Byte)) /\ FlattenSeq(x) = FlattenSeq(PlainParts(pieces))
  BY <1>1, <1>6, PlainRewritten
<1>8. y \in Seq(Seq(Byte)) /\ FlattenSeq(y) = FlattenSeq(VendorParts(pieces))
  BY <1>1, <1>3, VendorsRewritten
<1> HIDE DEF x, y
<1>9. FlattenSeq(x \o y) = FlattenSeq(x) \o FlattenSeq(y)
  BY <1>7, <1>8, FlattenConcat
<1> QED BY <1>5, <1>7, <1>8, <1>9 DEF pieces

(* A sequence begins with one and goes on with another. *)
Joins(r, a, b, S) ==
    /\ r \in Seq(S) /\ a \in Seq(S) /\ b \in Seq(S) /\ Len(r) = Len(a) + Len(b)
    /\ \A i \in 1 .. Len(a) : r[i] = a[i]
    /\ \A i \in 1 .. Len(b) : r[Len(a) + i] = b[i]

(* Then it is both of them. *)
LEMMA IsConcat ==
    ASSUME NEW S, NEW a, NEW b, NEW r, Joins(r, a, b, S)
    PROVE  r = a \o b
<1> DEFINE z == a \o b
           n == Len(a)
           m == Len(b)
<1>0. a \in Seq(S) /\ b \in Seq(S) /\ r \in Seq(S)
  BY DEF Joins
<1>1. z \in Seq(S) /\ Len(z) = n + m
  BY <1>0, ConcatParts
<1>2. \A i \in 1 .. n : z[i] = a[i]
  BY <1>0, ConcatParts
<1>3. \A i \in 1 .. m : z[n + i] = b[i]
  BY <1>0, ConcatParts
<1>4. n \in Nat /\ m \in Nat
  BY <1>0, LenProperties
<1>5. /\ Len(r) = n + m /\ \A i \in 1 .. n : r[i] = a[i]
      /\ \A i \in 1 .. m : r[n + i] = b[i]
  BY DEF Joins
<1> HIDE DEF z, n, m
<1>6. ASSUME NEW i \in 1 .. n + m PROVE z[i] = r[i]
  <2>1. CASE i \in 1 .. n
    BY <1>2, <1>5, <2>1
  <2>2. CASE i \notin 1 .. n
    <3>1. i - n \in 1 .. m /\ n + (i - n) = i
      BY <1>4, <2>2
    <3>2. z[n + (i - n)] = r[n + (i - n)]
      BY <1>3, <1>5, <3>1
    <3> QED BY <3>1, <3>2
  <2> QED BY <2>1, <2>2
<1>7. z = r
  BY <1>0, <1>1, <1>5, <1>6, SeqEqual
<1> QED BY <1>7 DEF z

(* A packet of the library has them last already. *)
LEMMA OwnParts ==
    ASSUME DigestTyped, NEW p, Sendable(p)
    PROVE  Body(p) = FlattenSeq(PlainParts(Pieces(p))) \o FlattenSeq(VendorParts(Pieces(p)))
<1> DEFINE pieces == Pieces(p)
           n == Len(p.attributes)
           m == Len(p.vendors)
           before == SubSeq(pieces, 1, n)
           behind == SubSeq(pieces, n + 1, n + m)
           none == [i \in 1 .. n |-> <<>>]
           nothing == [i \in 1 .. m |-> <<>>]
<1>0. Fits(p.attributes, p.vendors) /\ p.auth \in [1 .. 16 -> Byte]
  BY DEF Sendable
<1>1. pieces \in Seq(Seq(Byte)) /\ Len(pieces) = n + m
  BY <1>0, PiecesOf
<1>2. n \in Nat /\ m \in Nat
  BY <1>0, FitsType
<1>3. \A i \in 1 .. n + m : /\ i <= n => pieces[i][1] # VENDOR_SPECIFIC
                            /\ i > n => pieces[i][1] = VENDOR_SPECIFIC
  BY <1>1, OwnPieces
<1>4. Body(p) = FlattenSeq(pieces)
  BY DEF Body
<1> HIDE DEF pieces, n, m
<1>5. \A i \in 1 .. n + m : pieces[i] \in Seq(Byte)
  BY <1>1, ElementOfSeq
<1>6. /\ before \in Seq(Seq(Byte)) /\ Len(before) = n
      /\ \A i \in 1 .. n : before[i] = pieces[i]
  <2>1. pieces \in Seq(Seq(Byte)) /\ n \in 0 .. Len(pieces)
    BY <1>1, <1>2
  <2> QED BY <2>1, FirstPieces
<1>7. /\ behind \in Seq(Seq(Byte)) /\ Len(behind) = m
      /\ \A i \in 1 .. m : behind[i] = pieces[n + i]
  <2>1. n + 1 \in Int /\ n + m \in Int
    BY <1>2
  <2>2. \A i \in n + 1 .. n + m : pieces[i] \in Seq(Byte)
    BY <1>2, <1>5
  <2>3. /\ behind \in Seq(Seq(Byte))
        /\ Len(behind) = IF n + 1 <= n + m THEN (n + m) - (n + 1) + 1 ELSE 0
        /\ \A i \in 1 .. (n + m) - (n + 1) + 1 : behind[i] = pieces[(n + 1) + i - 1]
    BY <2>1, <2>2, SubSeqProperties
  <2> HIDE DEF behind
  <2>4. Len(behind) = m
    BY <1>2, <2>3
  <2>5. ASSUME NEW i \in 1 .. m PROVE behind[i] = pieces[n + i]
    <3>1. i \in 1 .. (n + m) - (n + 1) + 1 /\ (n + 1) + i - 1 = n + i
      BY <1>2
    <3> QED BY <2>3, <3>1
  <2> QED BY <2>3, <2>4, <2>5
<1> HIDE DEF before, behind
<1>8. /\ none \in Seq(Seq(Byte)) /\ Len(none) = n /\ \A i \in 1 .. n : none[i] = <<>>
      /\ nothing \in Seq(Seq(Byte)) /\ Len(nothing) = m /\ \A i \in 1 .. m : nothing[i] = <<>>
  BY <1>2
<1> HIDE DEF none, nothing
<1>9. /\ \A i \in 1 .. n : i \in 1 .. n + m /\ i <= n
      /\ \A i \in 1 .. m : n + i \in 1 .. n + m /\ n + i > n
  BY <1>2
<1>10. pieces = before \o behind
  <2>1. Joins(pieces, before, behind, Seq(Byte))
    BY <1>1, <1>6, <1>7 DEF Joins
  <2> QED BY <2>1, IsConcat
<1>11. PlainParts(pieces) = before \o nothing
  <2> DEFINE r == PlainParts(pieces)
  <2>1. r \in Seq(Seq(Byte)) /\ Len(r) = n + m
    BY <1>1, PartsType
  <2>2. \A i \in 1 .. n + m :
           r[i] = IF pieces[i][1] = VENDOR_SPECIFIC THEN <<>> ELSE pieces[i]
    BY <1>1 DEF PlainParts
  <2> HIDE DEF r
  <2>3. \A i \in 1 .. n : r[i] = before[i]
    BY <1>2, <1>3, <1>6, <1>9, <2>2
  <2>4. \A i \in 1 .. m : r[n + i] = nothing[i]
    BY <1>2, <1>3, <1>8, <1>9, <2>2
  <2>5. Joins(r, before, nothing, Seq(Byte))
    BY <1>6, <1>8, <2>1, <2>3, <2>4 DEF Joins
  <2> QED BY <2>5, IsConcat DEF r
<1>12. VendorParts(pieces) = none \o behind
  <2> DEFINE r == VendorParts(pieces)
  <2>1. r \in Seq(Seq(Byte)) /\ Len(r) = n + m
    BY <1>1, PartsType
  <2>2. \A i \in 1 .. n + m :
           r[i] = IF pieces[i][1] = VENDOR_SPECIFIC THEN pieces[i] ELSE <<>>
    BY <1>1 DEF VendorParts
  <2> HIDE DEF r
  <2>3. \A i \in 1 .. n : r[i] = none[i]
    BY <1>2, <1>3, <1>8, <1>9, <2>2
  <2>4. \A i \in 1 .. m : r[n + i] = behind[i]
    BY <1>2, <1>3, <1>7, <1>9, <2>2
  <2>5. Joins(r, none, behind, Seq(Byte))
    BY <1>8, <1>7, <2>1, <2>3, <2>4 DEF Joins
  <2> QED BY <2>5, IsConcat DEF r
<1>13. /\ FlattenSeq(before \o behind) = FlattenSeq(before) \o FlattenSeq(behind)
       /\ FlattenSeq(before \o nothing) = FlattenSeq(before) \o FlattenSeq(nothing)
       /\ FlattenSeq(none \o behind) = FlattenSeq(none) \o FlattenSeq(behind)
  BY <1>6, <1>7, <1>8, FlattenConcat
<1>14. FlattenSeq(none) = <<>> /\ FlattenSeq(nothing) = <<>>
  BY <1>8, FlattenBlank
<1>15. FlattenSeq(before) \in Seq(Byte) /\ FlattenSeq(behind) \in Seq(Byte)
  BY <1>6, <1>7, FlattenType
<1>16. /\ FlattenSeq(before) \o <<>> = FlattenSeq(before)
       /\ <<>> \o FlattenSeq(behind) = FlattenSeq(behind)
  BY <1>15
<1> QED BY <1>4, <1>10, <1>11, <1>12, <1>13, <1>14, <1>16 DEF pieces

(* What OnWire says of a foreign datagram. *)
LEMMA ForeignParts ==
    ASSUME NEW d, IsDatagram(d)
    PROVE  /\ OnWire(d, FALSE) = FlattenSeq(PlainParts(ItemPieces(d)))
           /\ OnWire(d, TRUE) = FlattenSeq(VendorParts(ItemPieces(d)))
<1> DEFINE n == Len(d.items)
           e(i) == IF (d.items[i].type = VENDOR_SPECIFIC) = FALSE THEN ItemBytes(d.items[i]) ELSE <<>>
           g(i) == IF (d.items[i].type = VENDOR_SPECIFIC) = TRUE THEN ItemBytes(d.items[i]) ELSE <<>>
           pieces == ItemPieces(d)
           plain(i) == IF pieces[i][1] = VENDOR_SPECIFIC THEN <<>> ELSE pieces[i]
           vendor(i) == IF pieces[i][1] = VENDOR_SPECIFIC THEN pieces[i] ELSE <<>>
<1>1. Len(pieces) = n
  BY ItemPiecesOf
<1>2. ASSUME NEW i \in 1 .. n PROVE e(i) = plain(i) /\ g(i) = vendor(i)
  <2>1. pieces[i] = ItemBytes(d.items[i]) /\ pieces[i][1] = d.items[i].type
    BY ItemPieceOf
  <2> QED BY <2>1
<1>3. OnWire(d, FALSE) = FlattenSeq([i \in 1 .. n |-> e(i)])
  BY DEF OnWire
<1>4. OnWire(d, TRUE) = FlattenSeq([i \in 1 .. n |-> g(i)])
  BY DEF OnWire
<1>5. /\ PlainParts(pieces) = [i \in 1 .. n |-> plain(i)]
      /\ VendorParts(pieces) = [i \in 1 .. n |-> vendor(i)]
  BY <1>1 DEF PlainParts, VendorParts
<1> HIDE DEF e, g, plain, vendor
<1>6. /\ [i \in 1 .. n |-> e(i)] = [i \in 1 .. n |-> plain(i)]
      /\ [i \in 1 .. n |-> g(i)] = [i \in 1 .. n |-> vendor(i)]
  BY <1>2
<1> QED BY <1>3, <1>4, <1>5, <1>6

(* A packet that was received from anybody and is sent on carries its
   attributes byte by byte, if none of them is an Integer or an Encrypted; a
   datagram of the library is reproduced as a whole. *)
THEOREM SentOnUnchanged == ASSUME DigestTyped PROVE Spec => []Reencodes
<1>1. ASSUME IInv, phase = "accepted", Verbatim(parsed.attributes)
      PROVE  MakeSendBuffer(parsed) = IF Own THEN buffer ELSE Regrouped(sent)
  <2> DEFINE plain == FlattenSeq(PlainParts(SentPieces))
             vendor == FlattenSeq(VendorParts(SentPieces))
             body == plain \o vendor
  <2>1. /\ Accepted /\ parsed.type = buffer[1] /\ parsed.id = buffer[2]
        /\ parsed.auth = Authenticator(buffer)
    BY <1>1, AcceptedPacket
  <2>2. parsed.recalc = FALSE
    BY <1>1, AcceptedContent
  <2>3. Body(parsed) = body
    BY <1>1, ResentBody
  <2> HIDE DEF plain, vendor
  <2>4. MakeSendBuffer(parsed)
          = Frame(buffer[1], buffer[2], 20 + Len(body), Authenticator(buffer), body)
    <3>1. MakeSendBuffer(parsed) = Framed(parsed, 20 + Len(Body(parsed)))
      BY <2>2 DEF MakeSendBuffer
    <3> QED BY <2>1, <2>3, <3>1 DEF Framed, Frame
  <2>5. Provenance /\ requestAuth \in [1 .. 16 -> Byte]
    BY <1>1 DEF IInv
  <2>6. CASE Own
    <3>1. FromRequester \/ FromResponder
      BY <1>1, <2>5, <2>6 DEF Own, Provenance
    <3>2. Sendable(sent) /\ buffer = MakeSendBuffer(sent)
      BY <2>5, <3>1, OwnSendable
    <3>3. SentPieces = Pieces(sent)
      BY <2>6 DEF Own, SentPieces
    <3>4. Body(sent) = body
      BY <3>2, <3>3, OwnParts DEF plain, vendor
    <3>5. buffer = Frame(sent.type, sent.id, 20 + Len(Body(sent)), WireAuth(sent), Body(sent))
      BY <3>2, SendBuffer
    <3>6. HasParts(buffer, sent.type, sent.id, 20 + Len(Body(sent)), WireAuth(sent), Body(sent))
      BY <3>2, SendBufferBytes
    <3>7. buffer[1] = sent.type /\ buffer[2] = sent.id /\ Authenticator(buffer) = WireAuth(sent)
      BY <3>6 DEF HasParts
    <3> QED BY <2>4, <2>6, <3>4, <3>5, <3>7
  <2>7. CASE ~Own
    <3>1. origin = "foreign"
      BY <1>1, <2>5, <2>7 DEF Own, Provenance
    <3>2. Complete
      BY <2>1 DEF Accepted
    <3>3. /\ IsDatagram(sent) /\ SentPieces = ItemPieces(sent)
          /\ Authenticator(buffer) = sent.auth /\ buffer[1] = sent.type /\ buffer[2] = sent.id
      BY <1>1, <3>1, <3>2, ForeignFacts
    <3>4. OnWire(sent, FALSE) = plain /\ OnWire(sent, TRUE) = vendor
      BY <3>3, ForeignParts DEF plain, vendor
    <3>5. Regrouped(sent) = Frame(sent.type, sent.id, 20 + Len(body), sent.auth, body)
      BY <3>4 DEF Regrouped, Frame
    <3> QED BY <2>4, <2>7, <3>3, <3>5
  <2> QED BY <2>6, <2>7
<1>2. IInv => Reencodes
  BY <1>1 DEF Reencodes
<1> QED BY <1>2, Invariant, PTL

=============================================================================
