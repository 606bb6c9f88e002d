---------------------------- MODULE LoaderProofs ----------------------------
(***************************************************************************)
(* Theorems about DictionaryLoader.tla, for every menu of lines and every  *)
(* bound: what a dictionary holds comes from its lines, an exception means *)
(* that two lines contradict each other, and lines that do not contradict  *)
(* each other are loaded as they are written.                              *)
(***************************************************************************)
EXTENDS DictionaryLoader, SequenceTheorems, TLAPS

(* The tables with these codes and names. *)
TablesOf(codes, names) ==
    [right : [codes -> names \cup {NoName}], reverse : [names -> codes \cup {NoCode}]]
ScopedTablesOf(codes, names, scopes) ==
    [right : [scopes -> [codes -> names \cup {NoName}]],
     reverse : [scopes -> [names -> codes \cup {NoCode}]]]
LinesOf(codes, names, S) == \A l \in S : l.code \in codes /\ l.name \in names
At(t, s) == [right |-> t.right[s], reverse |-> t.reverse[s]]

(* The table of one entry. *)
EntryOf(codes, names, c, n) ==
    [right |-> [k \in codes |-> IF k = c THEN n ELSE NoName],
     reverse |-> [m \in names |-> IF m = n THEN c ELSE NoCode]]

(* Every entry of table t comes from a line of S. *)
Sourced(t, S) ==
    /\ \A c \in DOMAIN t.right :
          t.right[c] # NoName => \E l \in S : l.code = c /\ l.name = t.right[c]
    /\ \A n \in DOMAIN t.reverse :
          t.reverse[n] # NoCode => \E l \in S : l.name = n /\ l.code = t.reverse[n]

(* Every line of S has its entries in table t. *)
Whole(t, S) == \A l \in S : t.right[l.code] = l.name /\ t.reverse[l.name] = l.code

(* Table new is made from the entries of t and u, and of all of them. *)
Joins(new, t, u) ==
    /\ \A c \in DOMAIN new.right : new.right[c] \in {t.right[c], u.right[c]}
    /\ \A n \in DOMAIN new.reverse : new.reverse[n] \in {t.reverse[n], u.reverse[n]}
JoinsAll(new, t, u) ==
    /\ Joins(new, t, u)
    /\ \A c \in DOMAIN new.right :
          new.right[c] = NoName => t.right[c] = NoName /\ u.right[c] = NoName
    /\ \A n \in DOMAIN new.reverse :
          new.reverse[n] = NoCode => t.reverse[n] = NoCode /\ u.reverse[n] = NoCode

(* The dictionaries, and the tables in them: each of a member and a scope. *)
DictionarySet ==
    [attributes : TablesOf(AttrCodes, AttrNames),
     vendorNames : TablesOf(VendorIds, VendorNames),
     attributeValues : ScopedTablesOf(ValueCodes, ValueNames, AttrNames),
     vendorAttributes : ScopedTablesOf(AttrCodes, AttrNames, VendorNames),
     vendorAttributeValues : ScopedTablesOf(ValueCodes, ValueNames, AttrNames),
     types : [Keys -> Types \cup {NoType}],
     unresolved : [UnresolvedKeys -> Types \cup {NoType}]]

Places ==
    [of : {"attributes", "vendorNames"}, scope : {0}]
    \cup [of : {"vendorAttributes"}, scope : VendorNames]
    \cup [of : {"attributeValues", "vendorAttributeValues"}, scope : AttrNames]

CodesAt(p) ==
    CASE p.of \in {"attributes", "vendorAttributes"} -> AttrCodes
      [] p.of = "vendorNames" -> VendorIds
      [] p.of \in {"attributeValues", "vendorAttributeValues"} -> ValueCodes
NamesAt(p) ==
    CASE p.of \in {"attributes", "vendorAttributes"} -> AttrNames
      [] p.of = "vendorNames" -> VendorNames
      [] p.of \in {"attributeValues", "vendorAttributeValues"} -> ValueNames
TableAt(dict, p) ==
    CASE p.of = "attributes" -> dict.attributes
      [] p.of = "vendorNames" -> dict.vendorNames
      [] p.of = "vendorAttributes" -> At(dict.vendorAttributes, p.scope)
      [] p.of = "attributeValues" -> At(dict.attributeValues, p.scope)
      [] p.of = "vendorAttributeValues" -> At(dict.vendorAttributeValues, p.scope)
LinesAt(S, p) ==
    CASE p.of = "attributes" -> AttributesOf(S, NoVendor)
      [] p.of = "vendorNames" -> Of(S, "VENDOR")
      [] p.of = "vendorAttributes" -> AttributesOf(S, p.scope)
      [] p.of = "attributeValues" -> ValuesOf(S, FALSE, p.scope)
      [] p.of = "vendorAttributeValues" -> ValuesOf(S, TRUE, p.scope)

(* The place of the table a line is added to. *)
PlaceOf(l) ==
    CASE l.kind = "VENDOR" -> [of |-> "vendorNames", scope |-> 0]
      [] l.kind = "ATTRIBUTE" /\ l.vendor = NoVendor -> [of |-> "attributes", scope |-> 0]
      [] l.kind = "ATTRIBUTE" /\ l.vendor # NoVendor ->
            [of |-> "vendorAttributes", scope |-> l.vendor]
      [] l.kind = "VALUE" /\ ~l.ofVendor -> [of |-> "attributeValues", scope |-> l.attribute]
      [] l.kind = "VALUE" /\ l.ofVendor ->
            [of |-> "vendorAttributeValues", scope |-> l.attribute]

(* What a dictionary holds comes from the lines S, ...                     *)
TablesSourced(dict, S) == \A p \in Places : Sourced(TableAt(dict, p), LinesAt(S, p))
TypesSourced(dict, S) ==
    \A k \in Keys : dict.types[k] # NoType => dict.types[k] \in TypesOf(S, k)
WaitingSourced(dict, S) ==
    \A u \in UnresolvedKeys : dict.unresolved[u] # NoType =>
        \E l \in AttributesOf(S, u[2]) : ByteOf(l.code) = u[1] /\ l.type = dict.unresolved[u]

(* ... and all of it is there: a type may wait for its vendor.             *)
TablesWhole(dict, S) == \A p \in Places : Whole(TableAt(dict, p), LinesAt(S, p))
TypeThere(dict, l) ==
    \/ l.vendor = NoVendor /\ dict.types[<<ByteOf(l.code), 0>>] # NoType
    \/ /\ l.vendor # NoVendor
       /\ \/ dict.unresolved[<<ByteOf(l.code), l.vendor>>] # NoType
          \/ /\ dict.vendorNames.reverse[l.vendor] # NoCode
             /\ dict.types[<<ByteOf(l.code), dict.vendorNames.reverse[l.vendor]>>] # NoType
TypesWhole(dict, S) == \A l \in Of(S, "ATTRIBUTE") : TypeThere(dict, l)

Represents(dict, S) ==
    /\ TablesSourced(dict, S) /\ TypesSourced(dict, S) /\ WaitingSourced(dict, S)
    /\ Consistent(S) => TablesWhole(dict, S) /\ TypesWhole(dict, S)

-----------------------------------------------------------------------------
(* Tables in general. *)
LEMMA JoinSourced ==
    ASSUME NEW codes, NEW names, NEW S, NEW T,
           NEW t \in TablesOf(codes, names), NEW u \in TablesOf(codes, names),
           NEW new \in TablesOf(codes, names),
           Joins(new, t, u), Sourced(t, S), Sourced(u, T)
    PROVE  Sourced(new, S \cup T)
BY DEF TablesOf, Joins, Sourced

LEMMA JoinWhole ==
    ASSUME NEW codes, NEW names, NEW S, NEW T,
           NoName \notin names, NoCode \notin codes,
           NEW t \in TablesOf(codes, names), NEW u \in TablesOf(codes, names),
           NEW new \in TablesOf(codes, names),
           LinesOf(codes, names, S \cup T), OneToOne(S \cup T),
           JoinsAll(new, t, u), Sourced(t, S), Sourced(u, T), Whole(t, S), Whole(u, T)
    PROVE  Whole(new, S \cup T)
<1>1. Sourced(new, S \cup T)
  BY JoinSourced DEF JoinsAll
<1>2. ASSUME NEW l \in S \cup T
      PROVE  new.right[l.code] = l.name /\ new.reverse[l.name] = l.code
  <2>1. l.code \in codes /\ l.name \in names
    BY DEF LinesOf
  <2>2. /\ t.right[l.code] = l.name \/ u.right[l.code] = l.name
        /\ t.reverse[l.name] = l.code \/ u.reverse[l.name] = l.code
    BY DEF Whole
  <2>3. new.right[l.code] # NoName /\ new.reverse[l.name] # NoCode
    BY <2>1, <2>2 DEF JoinsAll, TablesOf
  <2>4. PICK m \in S \cup T : m.code = l.code /\ m.name = new.right[l.code]
    BY <1>1, <2>1, <2>3 DEF Sourced, TablesOf
  <2>5. PICK n \in S \cup T : n.name = l.name /\ n.code = new.reverse[l.name]
    BY <1>1, <2>1, <2>3 DEF Sourced, TablesOf
  <2> QED BY <2>4, <2>5 DEF OneToOne
<1> QED BY <1>2 DEF Whole

(* Two codes of one name come from two lines that contradict each other. *)
LEMMA SharedName ==
    ASSUME NEW codes, NEW names, NEW S, NEW T,
           NEW t \in TablesOf(codes, names), NEW u \in TablesOf(codes, names),
           Sourced(t, S), Sourced(u, T),
           NEW c \in codes, NEW k \in codes, k # c, u.right[c] # NoName,
           t.right[k] = u.right[c] \/ u.right[k] = u.right[c]
    PROVE  ~OneToOne(S \cup T)
<1>1. PICK l \in T : l.code = c /\ l.name = u.right[c]
  BY DEF Sourced, TablesOf
<1>2. PICK m \in S \cup T : m.code = k /\ m.name = u.right[c]
  BY DEF Sourced, TablesOf
<1> QED BY <1>1, <1>2 DEF OneToOne

(* A table that holds its lines and nothing else is what they mean. *)
LEMMA WholeTable ==
    ASSUME NEW codes, NEW names, NEW S, NEW t \in TablesOf(codes, names),
           Sourced(t, S), Whole(t, S)
    PROVE  t = TableOf(S, codes, names)
<1>1. ASSUME NEW c \in codes
      PROVE  t.right[c] = IF \E l \in S : l.code = c
                          THEN (CHOOSE l \in S : l.code = c).name ELSE NoName
  BY DEF Sourced, Whole, TablesOf
<1>2. ASSUME NEW n \in names
      PROVE  t.reverse[n] = IF \E l \in S : l.name = n
                            THEN (CHOOSE l \in S : l.name = n).code ELSE NoCode
  BY DEF Sourced, Whole, TablesOf
<1>3. t.right = RightOf(S, codes)
  BY <1>1 DEF RightOf, TablesOf
<1>4. t.reverse = ReverseOf(S, names)
  BY <1>2 DEF ReverseOf, TablesOf
<1> QED BY <1>3, <1>4 DEF TableOf, TablesOf

-----------------------------------------------------------------------------
(* What add and append do to one table, for the kinds of tables there are. *)

LEMMA EntryWhole ==
    ASSUME NEW codes, NEW names, NEW l, l.code \in codes, l.name \in names
    PROVE  /\ EntryOf(codes, names, l.code, l.name) \in TablesOf(codes, names)
           /\ Sourced(EntryOf(codes, names, l.code, l.name), {l})
           /\ Whole(EntryOf(codes, names, l.code, l.name), {l})
BY DEF EntryOf, TablesOf, Sourced, Whole

LEMMA AttrCopies ==
    ASSUME NEW r \in [AttrCodes -> AttrNames \cup {NoName}],
           NEW a \in [AttrCodes -> AttrNames \cup {NoName}]
    PROVE  /\ Attr!Appended(r, a) \in [AttrCodes -> AttrNames \cup {NoName}]
           /\ \A c \in AttrCodes : Attr!Appended(r, a)[c] \in {r[c], a[c]}
           /\ Attr!Clashes(r, a) = {} => \A c \in AttrCodes :
                 Attr!Appended(r, a)[c] = NoName => r[c] = NoName /\ a[c] = NoName
BY DEF Attr!Appended, Attr!Copied, Attr!CopiedBelow

LEMMA AttrAppended ==
    ASSUME NEW t \in TablesOf(AttrCodes, AttrNames),
           NEW u \in TablesOf(AttrCodes, AttrNames)
    PROVE  /\ Attr!AppendedTable(t, u) \in TablesOf(AttrCodes, AttrNames)
           /\ Joins(Attr!AppendedTable(t, u), t, u)
           /\ Attr!Clashes(t.right, u.right) = {} =>
                 JoinsAll(Attr!AppendedTable(t, u), t, u)
<1>1. /\ Attr!Appended(t.right, u.right) \in [AttrCodes -> AttrNames \cup {NoName}]
      /\ \A c \in AttrCodes : Attr!Appended(t.right, u.right)[c] \in {t.right[c], u.right[c]}
      /\ Attr!Clashes(t.right, u.right) = {} => \A c \in AttrCodes :
            Attr!Appended(t.right, u.right)[c] = NoName =>
               t.right[c] = NoName /\ u.right[c] = NoName
  BY AttrCopies DEF TablesOf
<1>2. /\ Attr!Emplaced(t.reverse, u.reverse) \in [AttrNames -> AttrCodes \cup {NoCode}]
      /\ \A n \in AttrNames :
            /\ Attr!Emplaced(t.reverse, u.reverse)[n] \in {t.reverse[n], u.reverse[n]}
            /\ Attr!Emplaced(t.reverse, u.reverse)[n] = NoCode =>
                  t.reverse[n] = NoCode /\ u.reverse[n] = NoCode
  BY DEF Attr!Emplaced, TablesOf
<1> QED BY <1>1, <1>2 DEF Attr!AppendedTable, TablesOf, Joins, JoinsAll

LEMMA AttrAdded ==
    ASSUME NEW t \in TablesOf(AttrCodes, AttrNames), NEW c \in AttrCodes, NEW n \in AttrNames
    PROVE  /\ Attr!AddedTable(t, c, n) \in TablesOf(AttrCodes, AttrNames)
           /\ JoinsAll(Attr!AddedTable(t, c, n), t, EntryOf(AttrCodes, AttrNames, c, n))
BY DictionariesAssumption
   DEF Attr!AddedTable, Attr!Emplaced, Attr!Entry, Attr!EmptyReverse, TablesOf, EntryOf,
       Joins, JoinsAll

LEMMA AttrClash ==
    ASSUME NEW t \in TablesOf(AttrCodes, AttrNames),
           NEW u \in TablesOf(AttrCodes, AttrNames), NEW S, NEW T,
           Sourced(t, S), Sourced(u, T), Attr!Clashes(t.right, u.right) # {}
    PROVE  ~OneToOne(S \cup T)
<1>1. PICK c \in AttrCodes, k \in AttrCodes :
         /\ k # c
         /\ u.right[c] # NoName
         /\ t.right[k] = u.right[c] \/ u.right[k] = u.right[c]
  BY DEF Attr!Clashes, Attr!NameTaken, Attr!CopiedBelow
<1> QED BY <1>1, SharedName

LEMMA AttrTaken ==
    ASSUME NEW t \in TablesOf(AttrCodes, AttrNames), NEW S, Sourced(t, S),
           NEW l, l.code \in AttrCodes, l.name \in AttrNames,
           Attr!NameTaken(t.right, l.code, l.name)
    PROVE  ~OneToOne(S \cup {l})
<1>1. PICK k \in AttrCodes \ {l.code} : t.right[k] = l.name
  BY DEF Attr!NameTaken
<1>2. PICK m \in S : m.code = k /\ m.name = l.name
  BY <1>1, DictionariesAssumption DEF Sourced, TablesOf
<1> QED BY <1>1, <1>2 DEF OneToOne

LEMMA VendCopies ==
    ASSUME NEW r \in [VendorIds -> VendorNames \cup {NoName}],
           NEW a \in [VendorIds -> VendorNames \cup {NoName}]
    PROVE  /\ Vend!Appended(r, a) \in [VendorIds -> VendorNames \cup {NoName}]
           /\ \A c \in VendorIds : Vend!Appended(r, a)[c] \in {r[c], a[c]}
           /\ Vend!Clashes(r, a) = {} => \A c \in VendorIds :
                 Vend!Appended(r, a)[c] = NoName => r[c] = NoName /\ a[c] = NoName
BY DEF Vend!Appended, Vend!Copied, Vend!CopiedBelow

LEMMA VendAppended ==
    ASSUME NEW t \in TablesOf(VendorIds, VendorNames),
           NEW u \in TablesOf(VendorIds, VendorNames)
    PROVE  /\ Vend!AppendedTable(t, u) \in TablesOf(VendorIds, VendorNames)
           /\ Joins(Vend!AppendedTable(t, u), t, u)
           /\ Vend!Clashes(t.right, u.right) = {} =>
                 JoinsAll(Vend!AppendedTable(t, u), t, u)
<1>1. /\ Vend!Appended(t.right, u.right) \in [VendorIds -> VendorNames \cup {NoName}]
      /\ \A c \in VendorIds : Vend!Appended(t.right, u.right)[c] \in {t.right[c], u.right[c]}
      /\ Vend!Clashes(t.right, u.right) = {} => \A c \in VendorIds :
            Vend!Appended(t.right, u.right)[c] = NoName =>
               t.right[c] = NoName /\ u.right[c] = NoName
  BY VendCopies DEF TablesOf
<1>2. /\ Vend!Emplaced(t.reverse, u.reverse) \in [VendorNames -> VendorIds \cup {NoCode}]
      /\ \A n \in VendorNames :
            /\ Vend!Emplaced(t.reverse, u.reverse)[n] \in {t.reverse[n], u.reverse[n]}
            /\ Vend!Emplaced(t.reverse, u.reverse)[n] = NoCode =>
                  t.reverse[n] = NoCode /\ u.reverse[n] = NoCode
  BY DEF Vend!Emplaced, TablesOf
<1> QED BY <1>1, <1>2 DEF Vend!AppendedTable, TablesOf, Joins, JoinsAll

LEMMA VendAdded ==
    ASSUME NEW t \in TablesOf(VendorIds, VendorNames), NEW c \in VendorIds, NEW n \in VendorNames
    PROVE  /\ Vend!AddedTable(t, c, n) \in TablesOf(VendorIds, VendorNames)
           /\ JoinsAll(Vend!AddedTable(t, c, n), t, EntryOf(VendorIds, VendorNames, c, n))
BY DictionariesAssumption
   DEF Vend!AddedTable, Vend!Emplaced, Vend!Entry, Vend!EmptyReverse, TablesOf, EntryOf,
       Joins, JoinsAll

LEMMA VendClash ==
    ASSUME NEW t \in TablesOf(VendorIds, VendorNames),
           NEW u \in TablesOf(VendorIds, VendorNames), NEW S, NEW T,
           Sourced(t, S), Sourced(u, T), Vend!Clashes(t.right, u.right) # {}
    PROVE  ~OneToOne(S \cup T)
<1>1. PICK c \in VendorIds, k \in VendorIds :
         /\ k # c
         /\ u.right[c] # NoName
         /\ t.right[k] = u.right[c] \/ u.right[k] = u.right[c]
  BY DEF Vend!Clashes, Vend!NameTaken, Vend!CopiedBelow
<1> QED BY <1>1, SharedName

LEMMA VendTaken ==
    ASSUME NEW t \in TablesOf(VendorIds, VendorNames), NEW S, Sourced(t, S),
           NEW l, l.code \in VendorIds, l.name \in VendorNames,
           Vend!NameTaken(t.right, l.code, l.name)
    PROVE  ~OneToOne(S \cup {l})
<1>1. PICK k \in VendorIds \ {l.code} : t.right[k] = l.name
  BY DEF Vend!NameTaken
<1>2. PICK m \in S : m.code = k /\ m.name = l.name
  BY <1>1, DictionariesAssumption DEF Sourced, TablesOf
<1> QED BY <1>1, <1>2 DEF OneToOne

LEMMA ValCopies ==
    ASSUME NEW r \in [ValueCodes -> ValueNames \cup {NoName}],
           NEW a \in [ValueCodes -> ValueNames \cup {NoName}]
    PROVE  /\ Val!Appended(r, a) \in [ValueCodes -> ValueNames \cup {NoName}]
           /\ \A c \in ValueCodes : Val!Appended(r, a)[c] \in {r[c], a[c]}
           /\ Val!Clashes(r, a) = {} => \A c \in ValueCodes :
                 Val!Appended(r, a)[c] = NoName => r[c] = NoName /\ a[c] = NoName
BY DEF Val!Appended, Val!Copied, Val!CopiedBelow

LEMMA ValAppended ==
    ASSUME NEW t \in TablesOf(ValueCodes, ValueNames),
           NEW u \in TablesOf(ValueCodes, ValueNames)
    PROVE  /\ Val!AppendedTable(t, u) \in TablesOf(ValueCodes, ValueNames)
           /\ Joins(Val!AppendedTable(t, u), t, u)
           /\ Val!Clashes(t.right, u.right) = {} =>
                 JoinsAll(Val!AppendedTable(t, u), t, u)
<1>1. /\ Val!Appended(t.right, u.right) \in [ValueCodes -> ValueNames \cup {NoName}]
      /\ \A c \in ValueCodes : Val!Appended(t.right, u.right)[c] \in {t.right[c], u.right[c]}
      /\ Val!Clashes(t.right, u.right) = {} => \A c \in ValueCodes :
            Val!Appended(t.right, u.right)[c] = NoName =>
               t.right[c] = NoName /\ u.right[c] = NoName
  BY ValCopies DEF TablesOf
<1>2. /\ Val!Emplaced(t.reverse, u.reverse) \in [ValueNames -> ValueCodes \cup {NoCode}]
      /\ \A n \in ValueNames :
            /\ Val!Emplaced(t.reverse, u.reverse)[n] \in {t.reverse[n], u.reverse[n]}
            /\ Val!Emplaced(t.reverse, u.reverse)[n] = NoCode =>
                  t.reverse[n] = NoCode /\ u.reverse[n] = NoCode
  BY DEF Val!Emplaced, TablesOf
<1> QED BY <1>1, <1>2 DEF Val!AppendedTable, TablesOf, Joins, JoinsAll

LEMMA ValAdded ==
    ASSUME NEW t \in TablesOf(ValueCodes, ValueNames), NEW c \in ValueCodes, NEW n \in ValueNames
    PROVE  /\ Val!AddedTable(t, c, n) \in TablesOf(ValueCodes, ValueNames)
           /\ JoinsAll(Val!AddedTable(t, c, n), t, EntryOf(ValueCodes, ValueNames, c, n))
BY DictionariesAssumption
   DEF Val!AddedTable, Val!Emplaced, Val!Entry, Val!EmptyReverse, TablesOf, EntryOf,
       Joins, JoinsAll

LEMMA ValClash ==
    ASSUME NEW t \in TablesOf(ValueCodes, ValueNames),
           NEW u \in TablesOf(ValueCodes, ValueNames), NEW S, NEW T,
           Sourced(t, S), Sourced(u, T), Val!Clashes(t.right, u.right) # {}
    PROVE  ~OneToOne(S \cup T)
<1>1. PICK c \in ValueCodes, k \in ValueCodes :
         /\ k # c
         /\ u.right[c] # NoName
         /\ t.right[k] = u.right[c] \/ u.right[k] = u.right[c]
  BY DEF Val!Clashes, Val!NameTaken, Val!CopiedBelow
<1> QED BY <1>1, SharedName

LEMMA ValTaken ==
    ASSUME NEW t \in TablesOf(ValueCodes, ValueNames), NEW S, Sourced(t, S),
           NEW l, l.code \in ValueCodes, l.name \in ValueNames,
           Val!NameTaken(t.right, l.code, l.name)
    PROVE  ~OneToOne(S \cup {l})
<1>1. PICK k \in ValueCodes \ {l.code} : t.right[k] = l.name
  BY DEF Val!NameTaken
<1>2. PICK m \in S : m.code = k /\ m.name = l.name
  BY <1>1, DictionariesAssumption DEF Sourced, TablesOf
<1> QED BY <1>1, <1>2 DEF OneToOne

LEMMA AttrScopedAppended ==
    ASSUME NEW t \in ScopedTablesOf(AttrCodes, AttrNames, VendorNames),
           NEW u \in ScopedTablesOf(AttrCodes, AttrNames, VendorNames)
    PROVE  /\ Attr!ScopedAppendedTable(t, u) \in ScopedTablesOf(AttrCodes, AttrNames, VendorNames)
           /\ \A s \in VendorNames :
                 Joins(At(Attr!ScopedAppendedTable(t, u), s), At(t, s), At(u, s))
           /\ ~Attr!ScopedClash(t.right, u.right) =>
                 \A s \in VendorNames :
                    JoinsAll(At(Attr!ScopedAppendedTable(t, u), s), At(t, s), At(u, s))
<1> DEFINE new == Attr!ScopedAppendedTable(t, u)
<1>1. ASSUME NEW s \in VendorNames
      PROVE  /\ Attr!Appended(t.right[s], u.right[s]) \in [AttrCodes -> AttrNames \cup {NoName}]
             /\ \A c \in AttrCodes :
                   Attr!Appended(t.right[s], u.right[s])[c] \in {t.right[s][c], u.right[s][c]}
             /\ Attr!Clashes(t.right[s], u.right[s]) = {} => \A c \in AttrCodes :
                   Attr!Appended(t.right[s], u.right[s])[c] = NoName =>
                      t.right[s][c] = NoName /\ u.right[s][c] = NoName
  <2>1. /\ t.right[s] \in [AttrCodes -> AttrNames \cup {NoName}]
        /\ u.right[s] \in [AttrCodes -> AttrNames \cup {NoName}]
    BY DEF ScopedTablesOf
  <2> QED BY ONLY <2>1, AttrCopies
<1>2. /\ new.right = Attr!ScopedAppended(t.right, u.right)
      /\ new.reverse = IF Attr!ScopedClash(t.right, u.right) THEN t.reverse
                       ELSE Attr!ScopedAssigned(t.reverse, u.reverse)
      /\ new = [right |-> new.right, reverse |-> new.reverse]
  BY DEF Attr!ScopedAppendedTable
<1> HIDE DEF new
<1>3. /\ new.right \in [VendorNames -> [AttrCodes -> AttrNames \cup {NoName}]]
      /\ \A s \in VendorNames : \A c \in AttrCodes :
            /\ new.right[s][c] \in {t.right[s][c], u.right[s][c]}
            /\ ~Attr!ScopedClash(t.right, u.right) /\ new.right[s][c] = NoName =>
                  t.right[s][c] = NoName /\ u.right[s][c] = NoName
  <2>1. ASSUME NEW s \in VendorNames
        PROVE  /\ new.right[s] \in [AttrCodes -> AttrNames \cup {NoName}]
               /\ \A c \in AttrCodes :
                     /\ new.right[s][c] \in {t.right[s][c], u.right[s][c]}
                     /\ ~Attr!ScopedClash(t.right, u.right) /\ new.right[s][c] = NoName =>
                           t.right[s][c] = NoName /\ u.right[s][c] = NoName
    <3>1. CASE Attr!Reached(t.right, u.right, s)
      <4>1. new.right[s] = Attr!Appended(t.right[s], u.right[s])
        BY <1>2, <3>1 DEF Attr!ScopedAppended
      <4>2. ~Attr!ScopedClash(t.right, u.right) => Attr!Clashes(t.right[s], u.right[s]) = {}
        BY DEF Attr!ScopedClash
      <4> QED BY <1>1, <4>1, <4>2
    <3>2. CASE ~Attr!Reached(t.right, u.right, s)
      <4>1. new.right[s] = t.right[s]
        BY <1>2, <3>2 DEF Attr!ScopedAppended
      <4>2. Attr!ScopedClash(t.right, u.right)
        BY <3>2 DEF Attr!Reached, Attr!ScopedClash
      <4> QED BY <4>1, <4>2 DEF ScopedTablesOf
    <3> QED BY <3>1, <3>2
  <2>2. new.right = [s \in VendorNames |-> new.right[s]]
    BY <1>2 DEF Attr!ScopedAppended
  <2> QED BY <2>1, <2>2
<1>4. /\ new.reverse \in [VendorNames -> [AttrNames -> AttrCodes \cup {NoCode}]]
      /\ \A s \in VendorNames : \A n \in AttrNames :
            /\ new.reverse[s][n] \in {t.reverse[s][n], u.reverse[s][n]}
            /\ ~Attr!ScopedClash(t.right, u.right) /\ new.reverse[s][n] = NoCode =>
                  t.reverse[s][n] = NoCode /\ u.reverse[s][n] = NoCode
  BY <1>2 DEF Attr!ScopedAssigned, Attr!Assigned, ScopedTablesOf
<1>5. new \in ScopedTablesOf(AttrCodes, AttrNames, VendorNames)
  BY <1>2, <1>3, <1>4 DEF ScopedTablesOf
<1>6. ASSUME NEW s \in VendorNames
      PROVE  /\ Joins(At(new, s), At(t, s), At(u, s))
             /\ ~Attr!ScopedClash(t.right, u.right) => JoinsAll(At(new, s), At(t, s), At(u, s))
  BY <1>3, <1>4 DEF Joins, JoinsAll, At
<1> QED BY <1>5, <1>6 DEF new

LEMMA AttrScopedAdded ==
    ASSUME NEW t \in ScopedTablesOf(AttrCodes, AttrNames, VendorNames), NEW s \in VendorNames,
           NEW c \in AttrCodes, NEW n \in AttrNames
    PROVE  /\ Attr!ScopedAddedTable(t, s, c, n) \in
                 ScopedTablesOf(AttrCodes, AttrNames, VendorNames)
           /\ JoinsAll(At(Attr!ScopedAddedTable(t, s, c, n), s), At(t, s),
                       EntryOf(AttrCodes, AttrNames, c, n))
           /\ \A r \in VendorNames \ {s} :
                 At(Attr!ScopedAddedTable(t, s, c, n), r) = At(t, r)
<1> DEFINE new == Attr!ScopedAddedTable(t, s, c, n)
           one == Attr!AddedTable(At(t, s), c, n)
<1>1. At(t, s) \in TablesOf(AttrCodes, AttrNames)
  BY DEF At, TablesOf, ScopedTablesOf
<1>2. /\ one \in TablesOf(AttrCodes, AttrNames)
      /\ JoinsAll(one, At(t, s), EntryOf(AttrCodes, AttrNames, c, n))
  BY <1>1, AttrAdded
<1>3. /\ one.right = [t.right[s] EXCEPT ![c] = n]
      /\ one.reverse = Attr!Emplaced(t.reverse[s], Attr!Entry(n, c))
      /\ one = [right |-> one.right, reverse |-> one.reverse]
  BY DEF Attr!AddedTable, At
<1>4. /\ new = [right |-> new.right, reverse |-> new.reverse]
      /\ new.right = [t.right EXCEPT ![s] = [t.right[s] EXCEPT ![c] = n]]
      /\ new.reverse = [t.reverse EXCEPT ![s] = Attr!Emplaced(t.reverse[s], Attr!Entry(n, c))]
  BY DEF Attr!ScopedAddedTable
<1> HIDE DEF new, one
<1>5. /\ new.right = [t.right EXCEPT ![s] = one.right]
      /\ new.reverse = [t.reverse EXCEPT ![s] = one.reverse]
  BY <1>3, <1>4
<1>6. new \in ScopedTablesOf(AttrCodes, AttrNames, VendorNames)
  <2>1. one.right \in [AttrCodes -> AttrNames \cup {NoName}]
    BY <1>2 DEF TablesOf
  <2>2. one.reverse \in [AttrNames -> AttrCodes \cup {NoCode}]
    BY <1>2 DEF TablesOf
  <2>3. new.right \in [VendorNames -> [AttrCodes -> AttrNames \cup {NoName}]]
    BY <1>5, <2>1 DEF ScopedTablesOf
  <2>4. new.reverse \in [VendorNames -> [AttrNames -> AttrCodes \cup {NoCode}]]
    BY <1>5, <2>2 DEF ScopedTablesOf
  <2> QED BY <1>4, <2>3, <2>4 DEF ScopedTablesOf
<1>7. At(new, s) = one
  BY <1>3, <1>5 DEF At, ScopedTablesOf
<1>8. \A r \in VendorNames \ {s} : At(new, r) = At(t, r)
  BY <1>5 DEF At, ScopedTablesOf
<1> QED BY <1>2, <1>6, <1>7, <1>8 DEF new

LEMMA ValScopedAppended ==
    ASSUME NEW t \in ScopedTablesOf(ValueCodes, ValueNames, AttrNames),
           NEW u \in ScopedTablesOf(ValueCodes, ValueNames, AttrNames)
    PROVE  /\ Val!ScopedAppendedTable(t, u) \in ScopedTablesOf(ValueCodes, ValueNames, AttrNames)
           /\ \A s \in AttrNames :
                 Joins(At(Val!ScopedAppendedTable(t, u), s), At(t, s), At(u, s))
           /\ ~Val!ScopedClash(t.right, u.right) =>
                 \A s \in AttrNames :
                    JoinsAll(At(Val!ScopedAppendedTable(t, u), s), At(t, s), At(u, s))
<1> DEFINE new == Val!ScopedAppendedTable(t, u)
<1>1. ASSUME NEW s \in AttrNames
      PROVE  /\ Val!Appended(t.right[s], u.right[s]) \in [ValueCodes -> ValueNames \cup {NoName}]
             /\ \A c \in ValueCodes :
                   Val!Appended(t.right[s], u.right[s])[c] \in {t.right[s][c], u.right[s][c]}
             /\ Val!Clashes(t.right[s], u.right[s]) = {} => \A c \in ValueCodes :
                   Val!Appended(t.right[s], u.right[s])[c] = NoName =>
                      t.right[s][c] = NoName /\ u.right[s][c] = NoName
  <2>1. /\ t.right[s] \in [ValueCodes -> ValueNames \cup {NoName}]
        /\ u.right[s] \in [ValueCodes -> ValueNames \cup {NoName}]
    BY DEF ScopedTablesOf
  <2> QED BY ONLY <2>1, ValCopies
<1>2. /\ new.right = Val!ScopedAppended(t.right, u.right)
      /\ new.reverse = IF Val!ScopedClash(t.right, u.right) THEN t.reverse
                       ELSE Val!ScopedAssigned(t.reverse, u.reverse)
      /\ new = [right |-> new.right, reverse |-> new.reverse]
  BY DEF Val!ScopedAppendedTable
<1> HIDE DEF new
<1>3. /\ new.right \in [AttrNames -> [ValueCodes -> ValueNames \cup {NoName}]]
      /\ \A s \in AttrNames : \A c \in ValueCodes :
            /\ new.right[s][c] \in {t.right[s][c], u.right[s][c]}
            /\ ~Val!ScopedClash(t.right, u.right) /\ new.right[s][c] = NoName =>
                  t.right[s][c] = NoName /\ u.right[s][c] = NoName
  <2>1. ASSUME NEW s \in AttrNames
        PROVE  /\ new.right[s] \in [ValueCodes -> ValueNames \cup {NoName}]
               /\ \A c \in ValueCodes :
                     /\ new.right[s][c] \in {t.right[s][c], u.right[s][c]}
                     /\ ~Val!ScopedClash(t.right, u.right) /\ new.right[s][c] = NoName =>
                           t.right[s][c] = NoName /\ u.right[s][c] = NoName
    <3>1. CASE Val!Reached(t.right, u.right, s)
      <4>1. new.right[s] = Val!Appended(t.right[s], u.right[s])
        BY <1>2, <3>1 DEF Val!ScopedAppended
      <4>2. ~Val!ScopedClash(t.right, u.right) => Val!Clashes(t.right[s], u.right[s]) = {}
        BY DEF Val!ScopedClash
      <4> QED BY <1>1, <4>1, <4>2
    <3>2. CASE ~Val!Reached(t.right, u.right, s)
      <4>1. new.right[s] = t.right[s]
        BY <1>2, <3>2 DEF Val!ScopedAppended
      <4>2. Val!ScopedClash(t.right, u.right)
        BY <3>2 DEF Val!Reached, Val!ScopedClash
      <4> QED BY <4>1, <4>2 DEF ScopedTablesOf
    <3> QED BY <3>1, <3>2
  <2>2. new.right = [s \in AttrNames |-> new.right[s]]
    BY <1>2 DEF Val!ScopedAppended
  <2> QED BY <2>1, <2>2
<1>4. /\ new.reverse \in [AttrNames -> [ValueNames -> ValueCodes \cup {NoCode}]]
      /\ \A s \in AttrNames : \A n \in ValueNames :
            /\ new.reverse[s][n] \in {t.reverse[s][n], u.reverse[s][n]}
            /\ ~Val!ScopedClash(t.right, u.right) /\ new.reverse[s][n] = NoCode =>
                  t.reverse[s][n] = NoCode /\ u.reverse[s][n] = NoCode
  BY <1>2 DEF Val!ScopedAssigned, Val!Assigned, ScopedTablesOf
<1>5. new \in ScopedTablesOf(ValueCodes, ValueNames, AttrNames)
  BY <1>2, <1>3, <1>4 DEF ScopedTablesOf
<1>6. ASSUME NEW s \in AttrNames
      PROVE  /\ Joins(At(new, s), At(t, s), At(u, s))
             /\ ~Val!ScopedClash(t.right, u.right) => JoinsAll(At(new, s), At(t, s), At(u, s))
  BY <1>3, <1>4 DEF Joins, JoinsAll, At
<1> QED BY <1>5, <1>6 DEF new

LEMMA ValScopedAdded ==
    ASSUME NEW t \in ScopedTablesOf(ValueCodes, ValueNames, AttrNames), NEW s \in AttrNames,
           NEW c \in ValueCodes, NEW n \in ValueNames
    PROVE  /\ Val!ScopedAddedTable(t, s, c, n) \in
                 ScopedTablesOf(ValueCodes, ValueNames, AttrNames)
           /\ JoinsAll(At(Val!ScopedAddedTable(t, s, c, n), s), At(t, s),
                       EntryOf(ValueCodes, ValueNames, c, n))
           /\ \A r \in AttrNames \ {s} :
                 At(Val!ScopedAddedTable(t, s, c, n), r) = At(t, r)
<1> DEFINE new == Val!ScopedAddedTable(t, s, c, n)
           one == Val!AddedTable(At(t, s), c, n)
<1>1. At(t, s) \in TablesOf(ValueCodes, ValueNames)
  BY DEF At, TablesOf, ScopedTablesOf
<1>2. /\ one \in TablesOf(ValueCodes, ValueNames)
      /\ JoinsAll(one, At(t, s), EntryOf(ValueCodes, ValueNames, c, n))
  BY <1>1, ValAdded
<1>3. /\ one.right = [t.right[s] EXCEPT ![c] = n]
      /\ one.reverse = Val!Emplaced(t.reverse[s], Val!Entry(n, c))
      /\ one = [right |-> one.right, reverse |-> one.reverse]
  BY DEF Val!AddedTable, At
<1>4. /\ new = [right |-> new.right, reverse |-> new.reverse]
      /\ new.right = [t.right EXCEPT ![s] = [t.right[s] EXCEPT ![c] = n]]
      /\ new.reverse = [t.reverse EXCEPT ![s] = Val!Emplaced(t.reverse[s], Val!Entry(n, c))]
  BY DEF Val!ScopedAddedTable
<1> HIDE DEF new, one
<1>5. /\ new.right = [t.right EXCEPT ![s] = one.right]
      /\ new.reverse = [t.reverse EXCEPT ![s] = one.reverse]
  BY <1>3, <1>4
<1>6. new \in ScopedTablesOf(ValueCodes, ValueNames, AttrNames)
  <2>1. one.right \in [ValueCodes -> ValueNames \cup {NoName}]
    BY <1>2 DEF TablesOf
  <2>2. one.reverse \in [ValueNames -> ValueCodes \cup {NoCode}]
    BY <1>2 DEF TablesOf
  <2>3. new.right \in [AttrNames -> [ValueCodes -> ValueNames \cup {NoName}]]
    BY <1>5, <2>1 DEF ScopedTablesOf
  <2>4. new.reverse \in [AttrNames -> [ValueNames -> ValueCodes \cup {NoCode}]]
    BY <1>5, <2>2 DEF ScopedTablesOf
  <2> QED BY <1>4, <2>3, <2>4 DEF ScopedTablesOf
<1>7. At(new, s) = one
  BY <1>3, <1>5 DEF At, ScopedTablesOf
<1>8. \A r \in AttrNames \ {s} : At(new, r) = At(t, r)
  BY <1>5 DEF At, ScopedTablesOf
<1> QED BY <1>2, <1>6, <1>7, <1>8 DEF new

-----------------------------------------------------------------------------
(* The places of the tables. *)
LEMMA PlaceKinds ==
    ASSUME NEW p \in Places
    PROVE  \/ p.of \in {"attributes", "vendorNames"}
           \/ p.of = "vendorAttributes" /\ p.scope \in VendorNames
           \/ p.of \in {"attributeValues", "vendorAttributeValues"} /\ p.scope \in AttrNames
BY DEF Places

LEMMA PlaceTable ==
    ASSUME NEW dict \in DictionarySet, NEW p \in Places
    PROVE  TableAt(dict, p) \in TablesOf(CodesAt(p), NamesAt(p))
BY PlaceKinds DEF DictionarySet, TableAt, CodesAt, NamesAt, At, TablesOf, ScopedTablesOf

LEMMA PlaceNothing ==
    ASSUME NEW p \in Places
    PROVE  NoName \notin NamesAt(p) /\ NoCode \notin CodesAt(p)
BY PlaceKinds, DictionariesAssumption DEF NamesAt, CodesAt

LEMMA MenuLines ==
    ASSUME NEW l \in Menu
    PROVE  \/ /\ l.kind = "VENDOR" /\ l.name \in VendorNames /\ l.code \in VendorIds
           \/ /\ l.kind = "ATTRIBUTE" /\ l.vendor \in VendorNames \cup {NoVendor}
              /\ l.name \in AttrNames /\ l.code \in AttrCodes /\ l.type \in Types
           \/ /\ l.kind = "VALUE" /\ l.ofVendor \in BOOLEAN /\ l.attribute \in AttrNames
              /\ l.name \in ValueNames /\ l.code \in ValueCodes
<1>1. CASE l \in VendorLines
  BY <1>1 DEF VendorLines
<1>2. ASSUME NEW v \in VendorNames \cup {NoVendor}, l \in AttributeLines(v)
      PROVE  /\ l.kind = "ATTRIBUTE" /\ l.vendor \in VendorNames \cup {NoVendor}
             /\ l.name \in AttrNames /\ l.code \in AttrCodes /\ l.type \in Types
  BY <1>2 DEF AttributeLines
<1>3. ASSUME NEW v \in VendorNames \cup {NoVendor}, l \in ValueLines(v)
      PROVE  /\ l.kind = "VALUE" /\ l.ofVendor \in BOOLEAN /\ l.attribute \in AttrNames
             /\ l.name \in ValueNames /\ l.code \in ValueCodes
  BY <1>3 DEF ValueLines
<1>4. l \in VendorLines \/ \E v \in VendorNames \cup {NoVendor} :
         l \in AttributeLines(v) \/ l \in ValueLines(v)
  BY LoaderAssumption
<1> QED BY <1>1, <1>2, <1>3, <1>4

LEMMA PlaceLines ==
    ASSUME NEW S \in SUBSET Menu, NEW p \in Places
    PROVE  LinesOf(CodesAt(p), NamesAt(p), LinesAt(S, p))
BY PlaceKinds, MenuLines
   DEF LinesOf, LinesAt, CodesAt, NamesAt, AttributesOf, ValuesOf, Of

LEMMA PlaceUnion ==
    ASSUME NEW S, NEW T, NEW p \in Places
    PROVE  LinesAt(S \cup T, p) = LinesAt(S, p) \cup LinesAt(T, p)
BY PlaceKinds DEF LinesAt, AttributesOf, ValuesOf, Of

LEMMA PlaceConsistent ==
    ASSUME NEW S, Consistent(S), NEW p \in Places
    PROVE  OneToOne(LinesAt(S, p))
BY PlaceKinds DEF Consistent, LinesAt

LEMMA ConsistentParts ==
    ASSUME NEW S, NEW T, Consistent(S \cup T)
    PROVE  Consistent(S) /\ Consistent(T)
<1>1. ASSUME NEW R, R \subseteq S \cup T
      PROVE  Consistent(R)
  <2>1. \A k : TypesOf(R, k) \subseteq TypesOf(S \cup T, k)
    BY <1>1 DEF TypesOf, Of
  <2>2. \A k \in Keys : \A t, u \in TypesOf(R, k) : t = u
    BY <2>1 DEF Consistent
  <2>3. \A v \in VendorNames \cup {NoVendor} : OneToOne(AttributesOf(R, v))
    BY <1>1 DEF Consistent, OneToOne, AttributesOf, Of
  <2>4. \A b \in BOOLEAN, a \in AttrNames : OneToOne(ValuesOf(R, b, a))
    BY <1>1 DEF Consistent, OneToOne, ValuesOf, Of
  <2>5. OneToOne(Of(R, "VENDOR"))
    BY <1>1 DEF Consistent, OneToOne, Of
  <2> QED BY <2>2, <2>3, <2>4, <2>5 DEF Consistent
<1> QED BY <1>1

-----------------------------------------------------------------------------
(* append. *)
LEMMA AppendMembers ==
    ASSUME NEW d, NEW e
    PROVE  LET new == AppendedDictionaries(d, e)
           IN  /\ new = [attributes |-> new.attributes, vendorNames |-> new.vendorNames,
                         attributeValues |-> new.attributeValues,
                         vendorAttributes |-> new.vendorAttributes,
                         vendorAttributeValues |-> new.vendorAttributeValues,
                         types |-> new.types, unresolved |-> new.unresolved]
               /\ new.attributes = Attr!AppendedTable(d.attributes, e.attributes)
               /\ \/ new.vendorNames = Vend!AppendedTable(d.vendorNames, e.vendorNames)
                  \/ AppendThrows(d, e) /\ new.vendorNames = d.vendorNames
               /\ \/ new.attributeValues =
                        Val!ScopedAppendedTable(d.attributeValues, e.attributeValues)
                  \/ AppendThrows(d, e) /\ new.attributeValues = d.attributeValues
               /\ \/ new.vendorAttributes =
                        Attr!ScopedAppendedTable(d.vendorAttributes, e.vendorAttributes)
                  \/ AppendThrows(d, e) /\ new.vendorAttributes = d.vendorAttributes
               /\ \/ new.vendorAttributeValues =
                        Val!ScopedAppendedTable(d.vendorAttributeValues,
                                                e.vendorAttributeValues)
                  \/ AppendThrows(d, e) /\ new.vendorAttributeValues = d.vendorAttributeValues
               /\ \/ /\ new.types = InsertTypes(d.types, e.types)
                     /\ new.unresolved = InsertTypes(d.unresolved, e.unresolved)
                  \/ /\ AppendThrows(d, e)
                     /\ new.types = d.types /\ new.unresolved = d.unresolved
<1> DEFINE clash == Clashing(d, e)
           new == AppendedDictionaries(d, e)
<1>1. DOMAIN clash = {"attributes", "vendorNames", "attributeValues", "vendorAttributes",
                      "vendorAttributeValues"}
  BY DEF Clashing
<1>2. ~AppendThrows(d, e) => /\ ~clash.attributes /\ ~clash.vendorNames
                             /\ ~clash.attributeValues /\ ~clash.vendorAttributes
                             /\ ~clash.vendorAttributeValues
  BY <1>1 DEF AppendThrows
<1> HIDE DEF clash
<1> QED BY <1>2 DEF AppendedDictionaries, clash, MergedUnresolved

LEMMA AppendThrowing ==
    ASSUME NEW d, NEW e, AppendThrows(d, e)
    PROVE  \/ Attr!Clashes(d.attributes.right, e.attributes.right) # {}
           \/ Vend!Clashes(d.vendorNames.right, e.vendorNames.right) # {}
           \/ Val!ScopedClash(d.attributeValues.right, e.attributeValues.right)
           \/ Attr!ScopedClash(d.vendorAttributes.right, e.vendorAttributes.right)
           \/ Val!ScopedClash(d.vendorAttributeValues.right, e.vendorAttributeValues.right)
<1> DEFINE clash == Clashing(d, e)
<1>1. PICK member \in DOMAIN clash : clash[member]
  BY DEF AppendThrows
<1>2. member \in {"attributes", "vendorNames", "attributeValues", "vendorAttributes",
                  "vendorAttributeValues"}
  BY DEF Clashing
<1>3. CASE member = "attributes"
  BY <1>1, <1>3 DEF Clashing
<1>4. CASE member = "vendorNames"
  BY <1>1, <1>4 DEF Clashing
<1>5. CASE member = "attributeValues"
  BY <1>1, <1>5 DEF Clashing
<1>6. CASE member = "vendorAttributes"
  BY <1>1, <1>6 DEF Clashing
<1>7. CASE member = "vendorAttributeValues"
  BY <1>1, <1>7 DEF Clashing
<1> QED BY <1>2, <1>3, <1>4, <1>5, <1>6, <1>7

LEMMA AppendNotThrowing ==
    ASSUME NEW d, NEW e, ~AppendThrows(d, e)
    PROVE  /\ Attr!Clashes(d.attributes.right, e.attributes.right) = {}
           /\ Vend!Clashes(d.vendorNames.right, e.vendorNames.right) = {}
           /\ ~Val!ScopedClash(d.attributeValues.right, e.attributeValues.right)
           /\ ~Attr!ScopedClash(d.vendorAttributes.right, e.vendorAttributes.right)
           /\ ~Val!ScopedClash(d.vendorAttributeValues.right, e.vendorAttributeValues.right)
BY DEF AppendThrows, Clashing

LEMMA AppendTables ==
    ASSUME NEW d \in DictionarySet, NEW e \in DictionarySet
    PROVE  /\ AppendedDictionaries(d, e) \in DictionarySet
           /\ \A p \in Places :
                 /\ Joins(TableAt(AppendedDictionaries(d, e), p), TableAt(d, p), TableAt(e, p))
                 /\ ~AppendThrows(d, e) =>
                       JoinsAll(TableAt(AppendedDictionaries(d, e), p),
                                TableAt(d, p), TableAt(e, p))
<1> DEFINE new == AppendedDictionaries(d, e)
<1>1. /\ d.attributes \in TablesOf(AttrCodes, AttrNames)
      /\ e.attributes \in TablesOf(AttrCodes, AttrNames)
      /\ d.vendorNames \in TablesOf(VendorIds, VendorNames)
      /\ e.vendorNames \in TablesOf(VendorIds, VendorNames)
      /\ d.attributeValues \in ScopedTablesOf(ValueCodes, ValueNames, AttrNames)
      /\ e.attributeValues \in ScopedTablesOf(ValueCodes, ValueNames, AttrNames)
      /\ d.vendorAttributes \in ScopedTablesOf(AttrCodes, AttrNames, VendorNames)
      /\ e.vendorAttributes \in ScopedTablesOf(AttrCodes, AttrNames, VendorNames)
      /\ d.vendorAttributeValues \in ScopedTablesOf(ValueCodes, ValueNames, AttrNames)
      /\ e.vendorAttributeValues \in ScopedTablesOf(ValueCodes, ValueNames, AttrNames)
      /\ d.types \in [Keys -> Types \cup {NoType}]
      /\ e.types \in [Keys -> Types \cup {NoType}]
      /\ d.unresolved \in [UnresolvedKeys -> Types \cup {NoType}]
      /\ e.unresolved \in [UnresolvedKeys -> Types \cup {NoType}]
  BY DEF DictionarySet
<1>2. ASSUME NEW t, NEW u, NEW codes, NEW names, t \in TablesOf(codes, names)
      PROVE  Joins(t, t, u)
  BY <1>2 DEF Joins
<1>3. /\ new.attributes \in TablesOf(AttrCodes, AttrNames)
      /\ Joins(new.attributes, d.attributes, e.attributes)
      /\ ~AppendThrows(d, e) => JoinsAll(new.attributes, d.attributes, e.attributes)
  <2>1. d.attributes \in TablesOf(AttrCodes, AttrNames)
        /\ e.attributes \in TablesOf(AttrCodes, AttrNames)
    BY <1>1
  <2>2. new.attributes = Attr!AppendedTable(d.attributes, e.attributes)
    BY AppendMembers
  <2> HIDE DEF new
  <2>3. /\ new.attributes \in TablesOf(AttrCodes, AttrNames)
        /\ Joins(new.attributes, d.attributes, e.attributes)
        /\ Attr!Clashes(d.attributes.right, e.attributes.right) = {} =>
              JoinsAll(new.attributes, d.attributes, e.attributes)
    BY <2>1, <2>2, AttrAppended
  <2> QED BY <2>3, AppendNotThrowing
<1>4. /\ new.vendorNames \in TablesOf(VendorIds, VendorNames)
      /\ Joins(new.vendorNames, d.vendorNames, e.vendorNames)
      /\ ~AppendThrows(d, e) => JoinsAll(new.vendorNames, d.vendorNames, e.vendorNames)
  <2>1. CASE new.vendorNames = Vend!AppendedTable(d.vendorNames, e.vendorNames)
    BY <1>1, <2>1, VendAppended, AppendNotThrowing
  <2>2. CASE AppendThrows(d, e) /\ new.vendorNames = d.vendorNames
    BY <1>1, <2>2, <1>2
  <2> QED BY <2>1, <2>2, AppendMembers
<1>5. /\ new.attributeValues \in ScopedTablesOf(ValueCodes, ValueNames, AttrNames)
      /\ \A s \in AttrNames :
            /\ Joins(At(new.attributeValues, s), At(d.attributeValues, s),
                     At(e.attributeValues, s))
            /\ ~AppendThrows(d, e) =>
                  JoinsAll(At(new.attributeValues, s), At(d.attributeValues, s),
                           At(e.attributeValues, s))
  <2>1. CASE new.attributeValues = Val!ScopedAppendedTable(d.attributeValues, e.attributeValues)
    BY <1>1, <2>1, ValScopedAppended, AppendNotThrowing
  <2>2. CASE AppendThrows(d, e) /\ new.attributeValues = d.attributeValues
    BY <1>1, <2>2 DEF Joins
  <2> QED BY <2>1, <2>2, AppendMembers
<1>6. /\ new.vendorAttributes \in ScopedTablesOf(AttrCodes, AttrNames, VendorNames)
      /\ \A s \in VendorNames :
            /\ Joins(At(new.vendorAttributes, s), At(d.vendorAttributes, s),
                     At(e.vendorAttributes, s))
            /\ ~AppendThrows(d, e) =>
                  JoinsAll(At(new.vendorAttributes, s), At(d.vendorAttributes, s),
                           At(e.vendorAttributes, s))
  <2>1. CASE new.vendorAttributes =
                Attr!ScopedAppendedTable(d.vendorAttributes, e.vendorAttributes)
    BY <1>1, <2>1, AttrScopedAppended, AppendNotThrowing
  <2>2. CASE AppendThrows(d, e) /\ new.vendorAttributes = d.vendorAttributes
    BY <1>1, <2>2 DEF Joins
  <2> QED BY <2>1, <2>2, AppendMembers
<1>7. /\ new.vendorAttributeValues \in ScopedTablesOf(ValueCodes, ValueNames, AttrNames)
      /\ \A s \in AttrNames :
            /\ Joins(At(new.vendorAttributeValues, s), At(d.vendorAttributeValues, s),
                     At(e.vendorAttributeValues, s))
            /\ ~AppendThrows(d, e) =>
                  JoinsAll(At(new.vendorAttributeValues, s), At(d.vendorAttributeValues, s),
                           At(e.vendorAttributeValues, s))
  <2>1. CASE new.vendorAttributeValues =
                Val!ScopedAppendedTable(d.vendorAttributeValues, e.vendorAttributeValues)
    BY <1>1, <2>1, ValScopedAppended, AppendNotThrowing
  <2>2. CASE AppendThrows(d, e) /\ new.vendorAttributeValues = d.vendorAttributeValues
    BY <1>1, <2>2 DEF Joins
  <2> QED BY <2>1, <2>2, AppendMembers
<1>8. /\ new.types \in [Keys -> Types \cup {NoType}]
      /\ new.unresolved \in [UnresolvedKeys -> Types \cup {NoType}]
  <2>1. /\ new.types = d.types \/ new.types = InsertTypes(d.types, e.types)
        /\ new.unresolved = d.unresolved
              \/ new.unresolved = InsertTypes(d.unresolved, e.unresolved)
    BY AppendMembers
  <2>2. /\ InsertTypes(d.types, e.types) \in [Keys -> Types \cup {NoType}]
        /\ InsertTypes(d.unresolved, e.unresolved) \in [UnresolvedKeys -> Types \cup {NoType}]
    BY <1>1 DEF InsertTypes
  <2> QED BY <1>1, <2>1, <2>2
<1>9. new = [attributes |-> new.attributes, vendorNames |-> new.vendorNames,
             attributeValues |-> new.attributeValues,
             vendorAttributes |-> new.vendorAttributes,
             vendorAttributeValues |-> new.vendorAttributeValues,
             types |-> new.types, unresolved |-> new.unresolved]
  BY AppendMembers
<1> HIDE DEF new
<1>10. new \in DictionarySet
  BY <1>3, <1>4, <1>5, <1>6, <1>7, <1>8, <1>9 DEF DictionarySet
<1>11. ASSUME NEW p \in Places
       PROVE  /\ Joins(TableAt(new, p), TableAt(d, p), TableAt(e, p))
              /\ ~AppendThrows(d, e) => JoinsAll(TableAt(new, p), TableAt(d, p), TableAt(e, p))
  BY <1>3, <1>4, <1>5, <1>6, <1>7, PlaceKinds DEF TableAt
<1> QED BY <1>10, <1>11 DEF new

(* append throws only over lines that contradict each other. *)
LEMMA AppendConflict ==
    ASSUME NEW d \in DictionarySet, NEW e \in DictionarySet, NEW S, NEW T,
           TablesSourced(d, S), TablesSourced(e, T), AppendThrows(d, e)
    PROVE  ~Consistent(S \cup T)
<1>1. ASSUME NEW p \in Places
      PROVE  /\ TableAt(d, p) \in TablesOf(CodesAt(p), NamesAt(p))
             /\ TableAt(e, p) \in TablesOf(CodesAt(p), NamesAt(p))
             /\ Sourced(TableAt(d, p), LinesAt(S, p))
             /\ Sourced(TableAt(e, p), LinesAt(T, p))
             /\ Consistent(S \cup T) => OneToOne(LinesAt(S, p) \cup LinesAt(T, p))
  <2>1. LinesAt(S \cup T, p) = LinesAt(S, p) \cup LinesAt(T, p)
    BY PlaceUnion
  <2>2. Consistent(S \cup T) => OneToOne(LinesAt(S \cup T, p))
    BY PlaceConsistent
  <2> QED BY <2>1, <2>2, PlaceTable DEF TablesSourced
<1>2. CASE Attr!Clashes(d.attributes.right, e.attributes.right) # {}
  <2> DEFINE p == [of |-> "attributes", scope |-> 0]
  <2>1. p \in Places /\ CodesAt(p) = AttrCodes /\ NamesAt(p) = AttrNames
    BY DEF Places, CodesAt, NamesAt
  <2>2. TableAt(d, p) = d.attributes /\ TableAt(e, p) = e.attributes
    BY DEF TableAt
  <2> HIDE DEF p
  <2> QED BY <1>1, <1>2, <2>1, <2>2, AttrClash
<1>3. CASE Vend!Clashes(d.vendorNames.right, e.vendorNames.right) # {}
  <2> DEFINE p == [of |-> "vendorNames", scope |-> 0]
  <2>1. p \in Places /\ CodesAt(p) = VendorIds /\ NamesAt(p) = VendorNames
    BY DEF Places, CodesAt, NamesAt
  <2>2. TableAt(d, p) = d.vendorNames /\ TableAt(e, p) = e.vendorNames
    BY DEF TableAt
  <2> HIDE DEF p
  <2> QED BY <1>1, <1>3, <2>1, <2>2, VendClash
<1>4. CASE Val!ScopedClash(d.attributeValues.right, e.attributeValues.right)
  <2>1. PICK s \in AttrNames :
           Val!Clashes(d.attributeValues.right[s], e.attributeValues.right[s]) # {}
    BY <1>4 DEF Val!ScopedClash
  <2> DEFINE p == [of |-> "attributeValues", scope |-> s]
  <2>2. p \in Places /\ CodesAt(p) = ValueCodes /\ NamesAt(p) = ValueNames
    BY DEF Places, CodesAt, NamesAt
  <2>3. /\ TableAt(d, p).right = d.attributeValues.right[s]
        /\ TableAt(e, p).right = e.attributeValues.right[s]
    BY DEF TableAt, At
  <2> HIDE DEF p
  <2> QED BY <1>1, <2>1, <2>2, <2>3, ValClash
<1>5. CASE Attr!ScopedClash(d.vendorAttributes.right, e.vendorAttributes.right)
  <2>1. PICK s \in VendorNames :
           Attr!Clashes(d.vendorAttributes.right[s], e.vendorAttributes.right[s]) # {}
    BY <1>5 DEF Attr!ScopedClash
  <2> DEFINE p == [of |-> "vendorAttributes", scope |-> s]
  <2>2. p \in Places /\ CodesAt(p) = AttrCodes /\ NamesAt(p) = AttrNames
    BY DEF Places, CodesAt, NamesAt
  <2>3. /\ TableAt(d, p).right = d.vendorAttributes.right[s]
        /\ TableAt(e, p).right = e.vendorAttributes.right[s]
    BY DEF TableAt, At
  <2> HIDE DEF p
  <2> QED BY <1>1, <2>1, <2>2, <2>3, AttrClash
<1>6. CASE Val!ScopedClash(d.vendorAttributeValues.right, e.vendorAttributeValues.right)
  <2>1. PICK s \in AttrNames :
           Val!Clashes(d.vendorAttributeValues.right[s], e.vendorAttributeValues.right[s]) # {}
    BY <1>6 DEF Val!ScopedClash
  <2> DEFINE p == [of |-> "vendorAttributeValues", scope |-> s]
  <2>2. p \in Places /\ CodesAt(p) = ValueCodes /\ NamesAt(p) = ValueNames
    BY DEF Places, CodesAt, NamesAt
  <2>3. /\ TableAt(d, p).right = d.vendorAttributeValues.right[s]
        /\ TableAt(e, p).right = e.vendorAttributeValues.right[s]
    BY DEF TableAt, At
  <2> HIDE DEF p
  <2> QED BY <1>1, <2>1, <2>2, <2>3, ValClash
<1> QED BY <1>2, <1>3, <1>4, <1>5, <1>6, AppendThrowing

LEMMA TypesOfUnion ==
    ASSUME NEW S, NEW T, NEW k
    PROVE  TypesOf(S, k) \subseteq TypesOf(S \cup T, k)
           /\ TypesOf(T, k) \subseteq TypesOf(S \cup T, k)
BY DEF TypesOf, Of

(* A dictionary made of the lines S, to which one made of the lines T is   *)
(* appended, is made of both.                                              *)
LEMMA AppendRepresents ==
    ASSUME NEW d \in DictionarySet, NEW e \in DictionarySet,
           NEW S \in SUBSET Menu, NEW T \in SUBSET Menu,
           Represents(d, S), Represents(e, T)
    PROVE  Represents(AppendedDictionaries(d, e), S \cup T)
<1> DEFINE new == AppendedDictionaries(d, e)
<1>1. /\ new \in DictionarySet
      /\ \A p \in Places :
            /\ Joins(TableAt(new, p), TableAt(d, p), TableAt(e, p))
            /\ ~AppendThrows(d, e) => JoinsAll(TableAt(new, p), TableAt(d, p), TableAt(e, p))
  BY AppendTables
<1>2. /\ \/ /\ new.types = InsertTypes(d.types, e.types)
            /\ new.unresolved = InsertTypes(d.unresolved, e.unresolved)
         \/ /\ AppendThrows(d, e)
            /\ new.types = d.types /\ new.unresolved = d.unresolved
  BY AppendMembers
<1> HIDE DEF new
<1>3. /\ d.types \in [Keys -> Types \cup {NoType}]
      /\ d.unresolved \in [UnresolvedKeys -> Types \cup {NoType}]
  BY DEF DictionarySet
<1>4. TablesSourced(new, S \cup T)
  <2> SUFFICES ASSUME NEW p \in Places
               PROVE  Sourced(TableAt(new, p), LinesAt(S \cup T, p))
    BY DEF TablesSourced
  <2>1. /\ TableAt(d, p) \in TablesOf(CodesAt(p), NamesAt(p))
        /\ TableAt(e, p) \in TablesOf(CodesAt(p), NamesAt(p))
        /\ TableAt(new, p) \in TablesOf(CodesAt(p), NamesAt(p))
    BY <1>1, PlaceTable
  <2>2. Sourced(TableAt(d, p), LinesAt(S, p)) /\ Sourced(TableAt(e, p), LinesAt(T, p))
    BY DEF Represents, TablesSourced
  <2>3. Sourced(TableAt(new, p), LinesAt(S, p) \cup LinesAt(T, p))
    BY <1>1, <2>1, <2>2, JoinSourced
  <2>4. LinesAt(S \cup T, p) = LinesAt(S, p) \cup LinesAt(T, p)
    BY PlaceUnion
  <2> QED BY <2>3, <2>4
<1>5. TypesSourced(new, S \cup T)
  <2>1. \A k \in Keys : new.types[k] \in {d.types[k], e.types[k]}
    BY <1>2, <1>3 DEF InsertTypes
  <2> QED BY <2>1, TypesOfUnion DEF Represents, TypesSourced
<1>6. WaitingSourced(new, S \cup T)
  <2>1. \A u \in UnresolvedKeys : new.unresolved[u] \in {d.unresolved[u], e.unresolved[u]}
    BY <1>2, <1>3 DEF InsertTypes
  <2>2. ASSUME NEW v
        PROVE  AttributesOf(S \cup T, v) = AttributesOf(S, v) \cup AttributesOf(T, v)
    BY DEF AttributesOf, Of
  <2>3. ASSUME NEW u \in UnresolvedKeys, new.unresolved[u] # NoType
        PROVE  \E l \in AttributesOf(S \cup T, u[2]) :
                  ByteOf(l.code) = u[1] /\ l.type = new.unresolved[u]
    <3>1. CASE new.unresolved[u] = d.unresolved[u]
      BY <2>2, <2>3, <3>1 DEF Represents, WaitingSourced
    <3>2. CASE new.unresolved[u] = e.unresolved[u]
      BY <2>2, <2>3, <3>2 DEF Represents, WaitingSourced
    <3> QED BY <2>1, <3>1, <3>2
  <2> QED BY <2>3 DEF WaitingSourced
<1>7. ASSUME Consistent(S \cup T)
      PROVE  TablesWhole(new, S \cup T) /\ TypesWhole(new, S \cup T)
  <2>1. Consistent(S) /\ Consistent(T)
    BY <1>7, ConsistentParts
  <2>2. ~AppendThrows(d, e)
    BY <1>7, AppendConflict DEF Represents
  <2>3. TablesWhole(new, S \cup T)
    <3> SUFFICES ASSUME NEW p \in Places
                 PROVE  Whole(TableAt(new, p), LinesAt(S \cup T, p))
      BY DEF TablesWhole
    <3>1. /\ TableAt(d, p) \in TablesOf(CodesAt(p), NamesAt(p))
          /\ TableAt(e, p) \in TablesOf(CodesAt(p), NamesAt(p))
          /\ TableAt(new, p) \in TablesOf(CodesAt(p), NamesAt(p))
      BY <1>1, PlaceTable
    <3>2. Sourced(TableAt(d, p), LinesAt(S, p)) /\ Sourced(TableAt(e, p), LinesAt(T, p))
      BY DEF Represents, TablesSourced
    <3>3. Whole(TableAt(d, p), LinesAt(S, p)) /\ Whole(TableAt(e, p), LinesAt(T, p))
      BY <2>1 DEF Represents, TablesWhole
    <3>4. LinesAt(S \cup T, p) = LinesAt(S, p) \cup LinesAt(T, p)
      BY PlaceUnion
    <3>5. LinesOf(CodesAt(p), NamesAt(p), LinesAt(S \cup T, p))
      <4>1. S \cup T \in SUBSET Menu
        OBVIOUS
      <4> QED BY <4>1, PlaceLines
    <3>6. /\ LinesOf(CodesAt(p), NamesAt(p), LinesAt(S, p) \cup LinesAt(T, p))
          /\ OneToOne(LinesAt(S, p) \cup LinesAt(T, p))
      <4>1. OneToOne(LinesAt(S \cup T, p))
        BY <1>7, PlaceConsistent
      <4> QED BY <3>4, <3>5, <4>1
    <3>7. JoinsAll(TableAt(new, p), TableAt(d, p), TableAt(e, p))
      BY <1>1, <2>2
    <3>8. Whole(TableAt(new, p), LinesAt(S, p) \cup LinesAt(T, p))
      BY <3>1, <3>2, <3>3, <3>6, <3>7, PlaceNothing, JoinWhole
    <3> QED BY <3>8, <3>4
  <2>4. TypesWhole(new, S \cup T)
    <3> SUFFICES ASSUME NEW l \in Of(S \cup T, "ATTRIBUTE")
                 PROVE  TypeThere(new, l)
      BY DEF TypesWhole
    <3>1. /\ \A k \in Keys : d.types[k] # NoType \/ e.types[k] # NoType => new.types[k] # NoType
          /\ \A u \in UnresolvedKeys :
                d.unresolved[u] # NoType \/ e.unresolved[u] # NoType => new.unresolved[u] # NoType
      BY <1>2, <1>3, <2>2 DEF InsertTypes
    <3>2. TypeThere(d, l) \/ TypeThere(e, l)
      BY <2>1 DEF Represents, TypesWhole, Of
    <3>3. /\ l.vendor \in VendorNames \cup {NoVendor} /\ l.code \in AttrCodes
      BY MenuLines DEF Of
    <3>4. ASSUME NEW v \in VendorNames
          PROVE  /\ d.vendorNames.reverse[v] # NoCode =>
                       new.vendorNames.reverse[v] = d.vendorNames.reverse[v]
                 /\ e.vendorNames.reverse[v] # NoCode =>
                       new.vendorNames.reverse[v] = e.vendorNames.reverse[v]
      <4> DEFINE p == [of |-> "vendorNames", scope |-> 0]
      <4>1. p \in Places
        BY DEF Places
      <4>2. /\ TableAt(d, p) = d.vendorNames /\ TableAt(e, p) = e.vendorNames
            /\ TableAt(new, p) = new.vendorNames
        BY DEF TableAt
      <4>3. /\ d.vendorNames \in TablesOf(VendorIds, VendorNames)
            /\ e.vendorNames \in TablesOf(VendorIds, VendorNames)
        BY DEF DictionarySet
      <4> HIDE DEF p
      <4>4. LinesAt(S \cup T, p) = LinesAt(S, p) \cup LinesAt(T, p)
        BY <4>1, PlaceUnion
      <4>5. /\ Sourced(d.vendorNames, LinesAt(S, p)) /\ Sourced(e.vendorNames, LinesAt(T, p))
            /\ Whole(new.vendorNames, LinesAt(S, p) \cup LinesAt(T, p))
        BY <2>3, <4>1, <4>2, <4>4 DEF Represents, TablesSourced, TablesWhole
      <4> QED BY <4>3, <4>5 DEF Sourced, Whole, TablesOf
    <3>5. CASE l.vendor = NoVendor
      <4>1. <<ByteOf(l.code), 0>> \in Keys
        BY <3>3 DEF Keys
      <4> QED BY <3>1, <3>2, <3>5, <4>1 DEF TypeThere
    <3>6. CASE l.vendor # NoVendor
      <4>1. l.vendor \in VendorNames
        BY <3>3, <3>6
      <4>2. <<ByteOf(l.code), l.vendor>> \in UnresolvedKeys
        BY <3>3, <4>1 DEF UnresolvedKeys
      <4>3. /\ d.vendorNames.reverse[l.vendor] # NoCode =>
                  <<ByteOf(l.code), d.vendorNames.reverse[l.vendor]>> \in Keys
            /\ e.vendorNames.reverse[l.vendor] # NoCode =>
                  <<ByteOf(l.code), e.vendorNames.reverse[l.vendor]>> \in Keys
        BY <3>3, <4>1 DEF Keys, DictionarySet, TablesOf
      <4>4. CASE \/ d.unresolved[<<ByteOf(l.code), l.vendor>>] # NoType
                 \/ e.unresolved[<<ByteOf(l.code), l.vendor>>] # NoType
        BY <3>1, <3>6, <4>2, <4>4 DEF TypeThere
      <4>5. CASE /\ d.vendorNames.reverse[l.vendor] # NoCode
                 /\ d.types[<<ByteOf(l.code), d.vendorNames.reverse[l.vendor]>>] # NoType
        <5>1. new.vendorNames.reverse[l.vendor] = d.vendorNames.reverse[l.vendor]
          BY <3>4, <4>1, <4>5
        <5>2. new.types[<<ByteOf(l.code), d.vendorNames.reverse[l.vendor]>>] # NoType
          BY <3>1, <4>3, <4>5
        <5> QED BY <3>6, <4>5, <5>1, <5>2 DEF TypeThere
      <4>6. CASE /\ e.vendorNames.reverse[l.vendor] # NoCode
                 /\ e.types[<<ByteOf(l.code), e.vendorNames.reverse[l.vendor]>>] # NoType
        <5>1. new.vendorNames.reverse[l.vendor] = e.vendorNames.reverse[l.vendor]
          BY <3>4, <4>1, <4>6
        <5>2. new.types[<<ByteOf(l.code), e.vendorNames.reverse[l.vendor]>>] # NoType
          BY <3>1, <4>3, <4>6
        <5> QED BY <3>6, <4>6, <5>1, <5>2 DEF TypeThere
      <4> QED BY <3>2, <3>6, <4>4, <4>5, <4>6 DEF TypeThere
    <3> QED BY <3>5, <3>6
  <2> QED BY <2>3, <2>4
<1> QED BY <1>4, <1>5, <1>6, <1>7 DEF Represents, new

-----------------------------------------------------------------------------
(* One line. *)
LEMMA SamePlace ==
    ASSUME NEW p \in Places, NEW q \in Places
    PROVE  p = q <=> p.of = q.of /\ p.scope = q.scope
BY DEF Places

LEMMA LinePlace ==
    ASSUME NEW l \in Menu
    PROVE  /\ PlaceOf(l) \in Places
           /\ l.code \in CodesAt(PlaceOf(l)) /\ l.name \in NamesAt(PlaceOf(l))
           /\ \A p \in Places : LinesAt({l}, p) = IF p = PlaceOf(l) THEN {l} ELSE {}
<1>1. CASE l.kind = "VENDOR"
  <2>1. PlaceOf(l) = [of |-> "vendorNames", scope |-> 0]
    BY <1>1 DEF PlaceOf
  <2>2. l.name \in VendorNames /\ l.code \in VendorIds
    BY <1>1, MenuLines
  <2>3. /\ Of({l}, "VENDOR") = {l}
        /\ \A v : AttributesOf({l}, v) = {}
        /\ \A b, a : ValuesOf({l}, b, a) = {}
    BY <1>1 DEF AttributesOf, ValuesOf, Of
  <2>4. ASSUME NEW p \in Places
        PROVE  LinesAt({l}, p) = IF p = PlaceOf(l) THEN {l} ELSE {}
    <3>1. PlaceOf(l) \in Places
      BY <2>1, <2>2 DEF Places
    <3>2. p = PlaceOf(l) <=> p.of = "vendorNames"
      BY <2>1, <3>1, SamePlace DEF Places
    <3>3. CASE p = PlaceOf(l)
      BY <2>2, <2>3, <3>2, <3>3 DEF LinesAt
    <3>4. CASE p # PlaceOf(l)
      BY <2>2, <2>3, <3>2, <3>4, PlaceKinds DEF LinesAt
    <3> QED BY <3>3, <3>4
  <2> QED BY <2>1, <2>2, <2>4 DEF Places, CodesAt, NamesAt
<1>2. CASE l.kind = "ATTRIBUTE" /\ l.vendor = NoVendor
  <2>1. PlaceOf(l) = [of |-> "attributes", scope |-> 0]
    BY <1>2 DEF PlaceOf
  <2>2. l.name \in AttrNames /\ l.code \in AttrCodes
    BY <1>2, MenuLines
  <2>3. /\ Of({l}, "VENDOR") = {}
        /\ \A v : AttributesOf({l}, v) = IF v = NoVendor THEN {l} ELSE {}
        /\ \A b, a : ValuesOf({l}, b, a) = {}
    BY <1>2 DEF AttributesOf, ValuesOf, Of
  <2>4. ASSUME NEW p \in Places
        PROVE  LinesAt({l}, p) = IF p = PlaceOf(l) THEN {l} ELSE {}
    <3>1. PlaceOf(l) \in Places
      BY <2>1, <2>2 DEF Places
    <3>2. p = PlaceOf(l) <=> p.of = "attributes"
      BY <2>1, <3>1, SamePlace DEF Places
    <3>3. CASE p = PlaceOf(l)
      BY <2>2, <2>3, <3>2, <3>3 DEF LinesAt
    <3>4. CASE p # PlaceOf(l)
      BY <2>2, <2>3, <3>2, <3>4, PlaceKinds, DictionariesAssumption DEF LinesAt
    <3> QED BY <3>3, <3>4
  <2> QED BY <2>1, <2>2, <2>4 DEF Places, CodesAt, NamesAt
<1>3. CASE l.kind = "ATTRIBUTE" /\ l.vendor # NoVendor
  <2>1. PlaceOf(l) = [of |-> "vendorAttributes", scope |-> l.vendor]
    BY <1>3 DEF PlaceOf
  <2>2. l.name \in AttrNames /\ l.code \in AttrCodes /\ l.vendor \in VendorNames
    BY <1>3, MenuLines
  <2>3. /\ Of({l}, "VENDOR") = {}
        /\ \A v : AttributesOf({l}, v) = IF v = l.vendor THEN {l} ELSE {}
        /\ \A b, a : ValuesOf({l}, b, a) = {}
    BY <1>3 DEF AttributesOf, ValuesOf, Of
  <2>4. ASSUME NEW p \in Places
        PROVE  LinesAt({l}, p) = IF p = PlaceOf(l) THEN {l} ELSE {}
    <3>1. PlaceOf(l) \in Places
      BY <2>1, <2>2 DEF Places
    <3>2. p = PlaceOf(l) <=> p.of = "vendorAttributes" /\ p.scope = l.vendor
      BY <2>1, <3>1, SamePlace DEF Places
    <3>3. CASE p = PlaceOf(l)
      BY <2>2, <2>3, <3>2, <3>3 DEF LinesAt
    <3>4. CASE p # PlaceOf(l)
      BY <1>3, <2>3, <3>2, <3>4, PlaceKinds DEF LinesAt
    <3> QED BY <3>3, <3>4
  <2> QED BY <2>1, <2>2, <2>4 DEF Places, CodesAt, NamesAt
<1>4. CASE l.kind = "VALUE"
  <2> DEFINE member == IF l.ofVendor THEN "vendorAttributeValues" ELSE "attributeValues"
  <2>1. PlaceOf(l) = [of |-> member, scope |-> l.attribute]
    BY <1>4 DEF PlaceOf
  <2>2. /\ l.name \in ValueNames /\ l.code \in ValueCodes /\ l.attribute \in AttrNames
        /\ l.ofVendor \in BOOLEAN
    BY <1>4, MenuLines
  <2>3. /\ Of({l}, "VENDOR") = {}
        /\ \A v : AttributesOf({l}, v) = {}
        /\ \A b, a : ValuesOf({l}, b, a) =
                        IF b = l.ofVendor /\ a = l.attribute THEN {l} ELSE {}
    BY <1>4 DEF AttributesOf, ValuesOf, Of
  <2>4. ASSUME NEW p \in Places
        PROVE  LinesAt({l}, p) = IF p = PlaceOf(l) THEN {l} ELSE {}
    <3>1. PlaceOf(l) \in Places
      BY <2>1, <2>2 DEF Places
    <3>2. p = PlaceOf(l) <=> p.of = member /\ p.scope = l.attribute
      BY <2>1, <3>1, SamePlace DEF Places
    <3>3. CASE p = PlaceOf(l)
      BY <2>2, <2>3, <3>2, <3>3 DEF LinesAt
    <3>4. CASE p # PlaceOf(l)
      <4>1. CASE l.ofVendor = TRUE
        <5>1. \A x : ValuesOf({l}, FALSE, x) = {}
          BY <2>3, <4>1
        <5>2. p.of = "vendorAttributeValues" => p.scope # l.attribute
          BY <3>2, <3>4, <4>1
        <5> QED BY <2>3, <3>4, <5>1, <5>2, PlaceKinds DEF LinesAt
      <4>2. CASE l.ofVendor = FALSE
        <5>1. \A x : ValuesOf({l}, TRUE, x) = {}
          BY <2>3, <4>2
        <5>2. p.of = "attributeValues" => p.scope # l.attribute
          BY <3>2, <3>4, <4>2
        <5> QED BY <2>3, <3>4, <5>1, <5>2, PlaceKinds DEF LinesAt
      <4> QED BY <2>2, <4>1, <4>2
    <3> QED BY <3>3, <3>4
  <2> QED BY <2>1, <2>2, <2>4 DEF Places, CodesAt, NamesAt
<1> QED BY <1>1, <1>2, <1>3, <1>4, MenuLines

(* The type of an ATTRIBUTE line is stored or waits, and no other type is  *)
(* changed.                                                                *)
LEMMA LineTypes ==
    ASSUME NEW d \in DictionarySet, NEW l \in Menu, l.kind = "ATTRIBUTE"
    PROVE  /\ WithType(d, l) = [d EXCEPT !.types = WithType(d, l).types,
                                         !.unresolved = WithType(d, l).unresolved]
           /\ WithType(d, l).types \in [Keys -> Types \cup {NoType}]
           /\ WithType(d, l).unresolved \in [UnresolvedKeys -> Types \cup {NoType}]
           /\ \A k \in Keys :
                 \/ WithType(d, l).types[k] = d.types[k]
                 \/ /\ d.types[k] = NoType
                    /\ WithType(d, l).types[k] = l.type /\ k[1] = ByteOf(l.code)
                    /\ \/ l.vendor = NoVendor /\ k[2] = 0
                       \/ /\ l.vendor # NoVendor
                          /\ d.vendorNames.reverse[l.vendor] \in VendorIds
                          /\ k[2] = d.vendorNames.reverse[l.vendor]
           /\ \A u \in UnresolvedKeys :
                 \/ WithType(d, l).unresolved[u] = d.unresolved[u]
                 \/ /\ d.unresolved[u] = NoType
                    /\ WithType(d, l).unresolved[u] = l.type
                    /\ l.vendor # NoVendor /\ u = <<ByteOf(l.code), l.vendor>>
           /\ TypeThere(WithType(d, l), l)
<1> DEFINE id == IF l.vendor = NoVendor THEN 0 ELSE d.vendorNames.reverse[l.vendor]
           byte == ByteOf(l.code)
           new == WithType(d, l)
<1>1. /\ l.code \in AttrCodes /\ l.type \in Types /\ l.type # NoType
      /\ l.vendor = NoVendor \/ l.vendor \in VendorNames
  BY MenuLines, DictionariesAssumption
<1>2. /\ d.types \in [Keys -> Types \cup {NoType}]
      /\ d.unresolved \in [UnresolvedKeys -> Types \cup {NoType}]
      /\ l.vendor # NoVendor => d.vendorNames.reverse[l.vendor] \in VendorIds \cup {NoCode}
  BY <1>1 DEF DictionarySet, TablesOf
<1>3. CASE id # NoCode
  <2>1. new = [d EXCEPT !.types = EmplaceType(d.types, <<byte, id>>, l.type)]
    BY <1>3 DEF WithType
  <2>2. <<byte, id>> \in Keys /\ (l.vendor = NoVendor \/ id \in VendorIds)
    BY <1>1, <1>2, <1>3 DEF Keys
  <2>3. /\ new.types = [d.types EXCEPT ![<<byte, id>>] =
                           IF d.types[<<byte, id>>] = NoType THEN l.type
                           ELSE d.types[<<byte, id>>]]
        /\ new.unresolved = d.unresolved /\ new.vendorNames = d.vendorNames
    BY <2>1 DEF EmplaceType, DictionarySet
  <2>4. new = [d EXCEPT !.types = new.types, !.unresolved = new.unresolved]
    BY <2>1, <2>3 DEF DictionarySet
  <2>5. new.types \in [Keys -> Types \cup {NoType}]
    BY <1>1, <1>2, <2>2, <2>3
  <2>6. ASSUME NEW k \in Keys
        PROVE  \/ new.types[k] = d.types[k]
               \/ d.types[k] = NoType /\ new.types[k] = l.type /\ k = <<byte, id>>
    BY <1>2, <2>2, <2>3
  <2>7. new.types[<<byte, id>>] # NoType
    BY <1>1, <1>2, <2>2, <2>3
  <2>8. TypeThere(new, l)
    BY <1>3, <2>3, <2>7 DEF TypeThere
  <2>9. ASSUME NEW k \in Keys, k = <<byte, id>>
        PROVE  /\ k[1] = ByteOf(l.code)
               /\ \/ l.vendor = NoVendor /\ k[2] = 0
                  \/ /\ l.vendor # NoVendor
                     /\ d.vendorNames.reverse[l.vendor] \in VendorIds
                     /\ k[2] = d.vendorNames.reverse[l.vendor]
    BY <2>2, <2>9
  <2> HIDE DEF new
  <2>10. new.unresolved \in [UnresolvedKeys -> Types \cup {NoType}]
    BY <1>2, <2>3
  <2> QED BY <2>3, <2>4, <2>5, <2>6, <2>8, <2>9, <2>10 DEF new
<1>4. CASE id = NoCode
  <2>1. l.vendor \in VendorNames /\ l.vendor # NoVendor
    BY <1>1, <1>4, DictionariesAssumption
  <2>2. <<byte, l.vendor>> \in UnresolvedKeys
    BY <1>1, <2>1 DEF UnresolvedKeys
  <2>3. new = [d EXCEPT !.unresolved = EmplaceType(d.unresolved, <<byte, l.vendor>>, l.type)]
    BY <1>4 DEF WithType
  <2>4. /\ new.unresolved = [d.unresolved EXCEPT ![<<byte, l.vendor>>] =
                                IF d.unresolved[<<byte, l.vendor>>] = NoType THEN l.type
                                ELSE d.unresolved[<<byte, l.vendor>>]]
        /\ new.types = d.types
    BY <2>3 DEF EmplaceType, DictionarySet
  <2>5. new = [d EXCEPT !.types = new.types, !.unresolved = new.unresolved]
    BY <2>3, <2>4 DEF DictionarySet
  <2>6. new.unresolved \in [UnresolvedKeys -> Types \cup {NoType}]
    BY <1>1, <1>2, <2>2, <2>4
  <2>7. ASSUME NEW u \in UnresolvedKeys
        PROVE  \/ new.unresolved[u] = d.unresolved[u]
               \/ /\ d.unresolved[u] = NoType /\ new.unresolved[u] = l.type
                  /\ u = <<byte, l.vendor>>
    BY <1>2, <2>2, <2>4
  <2>8. new.unresolved[<<byte, l.vendor>>] # NoType
    BY <1>1, <1>2, <2>2, <2>4
  <2>9. TypeThere(new, l)
    BY <2>1, <2>8 DEF TypeThere
  <2> HIDE DEF new
  <2>10. new.types \in [Keys -> Types \cup {NoType}]
    BY <1>2, <2>4
  <2> QED BY <2>1, <2>4, <2>5, <2>6, <2>7, <2>9, <2>10 DEF new
<1> QED BY <1>3, <1>4

(* A line that is added: the table at its place has its entry as well, and *)
(* the other tables are as they were.                                      *)
LEMMA LineTables ==
    ASSUME NEW d \in DictionarySet, NEW l \in Menu
    PROVE  /\ WithLine(d, l) \in DictionarySet
           /\ JoinsAll(TableAt(WithLine(d, l), PlaceOf(l)), TableAt(d, PlaceOf(l)),
                       EntryOf(CodesAt(PlaceOf(l)), NamesAt(PlaceOf(l)), l.code, l.name))
           /\ \A p \in Places \ {PlaceOf(l)} : TableAt(WithLine(d, l), p) = TableAt(d, p)
           /\ \A v \in VendorNames : d.vendorNames.reverse[v] # NoCode =>
                 WithLine(d, l).vendorNames.reverse[v] = d.vendorNames.reverse[v]
           /\ l.kind # "ATTRIBUTE" => /\ WithLine(d, l).types = d.types
                                      /\ WithLine(d, l).unresolved = d.unresolved
           /\ l.kind = "ATTRIBUTE" =>
                 \E t \in DictionarySet :
                    /\ t.vendorNames = d.vendorNames /\ t.types = d.types
                    /\ t.unresolved = d.unresolved /\ WithLine(d, l) = WithType(t, l)
<1> DEFINE new == WithLine(d, l)
           place == PlaceOf(l)
<1>1. CASE l.kind = "VENDOR"
  <2> DEFINE table == Vend!AddedTable(d.vendorNames, l.code, l.name)
  <2>1. /\ l.name \in VendorNames /\ l.code \in VendorIds
        /\ d.vendorNames \in TablesOf(VendorIds, VendorNames)
    BY <1>1, MenuLines DEF DictionarySet
  <2>2. /\ table \in TablesOf(VendorIds, VendorNames)
        /\ JoinsAll(table, d.vendorNames, EntryOf(VendorIds, VendorNames, l.code, l.name))
    BY <2>1, VendAdded
  <2>3. \A v \in VendorNames : d.vendorNames.reverse[v] # NoCode =>
           table.reverse[v] = d.vendorNames.reverse[v]
    BY DEF Vend!AddedTable, Vend!Emplaced
  <2> HIDE DEF table
  <2>4. new = [d EXCEPT !.vendorNames = table]
    BY <1>1 DEF WithLine, table
  <2>5. /\ new \in DictionarySet /\ new.vendorNames = table
        /\ new.attributes = d.attributes /\ new.attributeValues = d.attributeValues
        /\ new.vendorAttributes = d.vendorAttributes
        /\ new.vendorAttributeValues = d.vendorAttributeValues
        /\ new.types = d.types /\ new.unresolved = d.unresolved
    BY <2>2, <2>4 DEF DictionarySet
  <2> HIDE DEF new
  <2>6. place = [of |-> "vendorNames", scope |-> 0]
    BY <1>1 DEF PlaceOf
  <2>7. /\ TableAt(new, place) = table /\ TableAt(d, place) = d.vendorNames
        /\ CodesAt(place) = VendorIds /\ NamesAt(place) = VendorNames
    BY <2>5, <2>6 DEF TableAt, CodesAt, NamesAt
  <2>8. ASSUME NEW p \in Places \ {place}
        PROVE  TableAt(new, p) = TableAt(d, p)
    <3>1. p.of # "vendorNames"
      BY <2>6, SamePlace DEF Places
    <3> QED BY <2>5, <3>1, PlaceKinds DEF TableAt
  <2> QED BY <1>1, <2>2, <2>3, <2>5, <2>7, <2>8 DEF new
<1>2. CASE l.kind = "ATTRIBUTE" /\ l.vendor = NoVendor
  <2> DEFINE table == Attr!AddedTable(d.attributes, l.code, l.name)
             t == [d EXCEPT !.attributes = table]
  <2>1. /\ l.name \in AttrNames /\ l.code \in AttrCodes
        /\ l.vendor # NoVendor => l.vendor \in VendorNames
        /\ d.attributes \in TablesOf(AttrCodes, AttrNames)
    BY <1>2, MenuLines DEF DictionarySet
  <2>2. /\ table \in TablesOf(AttrCodes, AttrNames)
        /\ JoinsAll(table, d.attributes, EntryOf(AttrCodes, AttrNames, l.code, l.name))
    BY <2>1, AttrAdded
  <2> HIDE DEF table
  <2>4. new = WithType(t, l)
    BY <1>2 DEF WithLine, table
  <2>5. /\ t \in DictionarySet /\ t.attributes = table
        /\ t.vendorNames = d.vendorNames /\ t.attributeValues = d.attributeValues
        /\ t.vendorAttributes = d.vendorAttributes
        /\ t.vendorAttributeValues = d.vendorAttributeValues
        /\ t.types = d.types /\ t.unresolved = d.unresolved
    BY <2>2 DEF DictionarySet
  <2> HIDE DEF t, new
  <2>6. /\ new = [t EXCEPT !.types = new.types, !.unresolved = new.unresolved]
        /\ new.types \in [Keys -> Types \cup {NoType}]
        /\ new.unresolved \in [UnresolvedKeys -> Types \cup {NoType}]
    BY <1>2, <2>4, <2>5, LineTypes
  <2>7. /\ new \in DictionarySet /\ new.attributes = table
        /\ new.vendorNames = d.vendorNames /\ new.attributeValues = d.attributeValues
        /\ new.vendorAttributes = d.vendorAttributes
        /\ new.vendorAttributeValues = d.vendorAttributeValues
    BY <2>5, <2>6 DEF DictionarySet
  <2>8. place = [of |-> "attributes", scope |-> 0]
    BY <1>2 DEF PlaceOf
  <2>9. /\ JoinsAll(TableAt(new, place), TableAt(d, place),
                    EntryOf(CodesAt(place), NamesAt(place), l.code, l.name))
    BY <2>2, <2>7, <2>8 DEF TableAt, CodesAt, NamesAt
  <2>10. ASSUME NEW p \in Places \ {place}
        PROVE  TableAt(new, p) = TableAt(d, p)
    <3>1. p.of # "attributes"
      BY <2>8, SamePlace DEF Places
    <3> QED BY <2>7, <3>1, PlaceKinds DEF TableAt
  <2>11. \E x \in DictionarySet :
            /\ x.vendorNames = d.vendorNames /\ x.types = d.types
            /\ x.unresolved = d.unresolved /\ new = WithType(x, l)
    BY <2>4, <2>5
  <2> QED BY <1>2, <2>7, <2>9, <2>10, <2>11 DEF new
<1>3. CASE l.kind = "ATTRIBUTE" /\ l.vendor # NoVendor
  <2> DEFINE table == Attr!ScopedAddedTable(d.vendorAttributes, l.vendor, l.code, l.name)
             t == [d EXCEPT !.vendorAttributes = table]
  <2>1. /\ l.name \in AttrNames /\ l.code \in AttrCodes
        /\ l.vendor # NoVendor => l.vendor \in VendorNames
        /\ d.vendorAttributes \in ScopedTablesOf(AttrCodes, AttrNames, VendorNames)
    BY <1>3, MenuLines DEF DictionarySet
  <2>2. /\ table \in ScopedTablesOf(AttrCodes, AttrNames, VendorNames)
        /\ JoinsAll(At(table, l.vendor), At(d.vendorAttributes, l.vendor),
                    EntryOf(AttrCodes, AttrNames, l.code, l.name))
        /\ \A s \in VendorNames \ {l.vendor} : At(table, s) = At(d.vendorAttributes, s)
    BY <1>3, <2>1, AttrScopedAdded
  <2> HIDE DEF table
  <2>4. new = WithType(t, l)
    BY <1>3 DEF WithLine, table
  <2>5. /\ t \in DictionarySet /\ t.vendorAttributes = table
        /\ t.attributes = d.attributes /\ t.vendorNames = d.vendorNames
        /\ t.attributeValues = d.attributeValues
        /\ t.vendorAttributeValues = d.vendorAttributeValues
        /\ t.types = d.types /\ t.unresolved = d.unresolved
    BY <2>2 DEF DictionarySet
  <2> HIDE DEF t, new
  <2>6. /\ new = [t EXCEPT !.types = new.types, !.unresolved = new.unresolved]
        /\ new.types \in [Keys -> Types \cup {NoType}]
        /\ new.unresolved \in [UnresolvedKeys -> Types \cup {NoType}]
    BY <1>3, <2>4, <2>5, LineTypes
  <2>7. /\ new \in DictionarySet /\ new.vendorAttributes = table
        /\ new.attributes = d.attributes /\ new.vendorNames = d.vendorNames
        /\ new.attributeValues = d.attributeValues
        /\ new.vendorAttributeValues = d.vendorAttributeValues
    BY <2>5, <2>6 DEF DictionarySet
  <2>8. place = [of |-> "vendorAttributes", scope |-> l.vendor]
    BY <1>3 DEF PlaceOf
  <2>9. /\ JoinsAll(TableAt(new, place), TableAt(d, place),
                    EntryOf(CodesAt(place), NamesAt(place), l.code, l.name))
    BY <2>2, <2>7, <2>8 DEF TableAt, CodesAt, NamesAt
  <2>10. ASSUME NEW p \in Places \ {place}
        PROVE  TableAt(new, p) = TableAt(d, p)
    <3>1. place \in Places
      BY LinePlace
    <3>2. p.of = "vendorAttributes" => p.scope # l.vendor
      BY <2>8, <3>1, SamePlace
    <3> QED BY <2>2, <2>7, <3>2, PlaceKinds DEF TableAt
  <2>11. \E x \in DictionarySet :
            /\ x.vendorNames = d.vendorNames /\ x.types = d.types
            /\ x.unresolved = d.unresolved /\ new = WithType(x, l)
    BY <2>4, <2>5
  <2> QED BY <1>3, <2>7, <2>9, <2>10, <2>11 DEF new
<1>4. CASE l.kind = "VALUE" /\ ~l.ofVendor
  <2> DEFINE table == Val!ScopedAddedTable(d.attributeValues, l.attribute, l.code, l.name)
  <2>1. /\ l.name \in ValueNames /\ l.code \in ValueCodes /\ l.attribute \in AttrNames
        /\ d.attributeValues \in ScopedTablesOf(ValueCodes, ValueNames, AttrNames)
    BY <1>4, MenuLines DEF DictionarySet
  <2>2. /\ table \in ScopedTablesOf(ValueCodes, ValueNames, AttrNames)
        /\ JoinsAll(At(table, l.attribute), At(d.attributeValues, l.attribute),
                    EntryOf(ValueCodes, ValueNames, l.code, l.name))
        /\ \A s \in AttrNames \ {l.attribute} : At(table, s) = At(d.attributeValues, s)
    BY <1>4, <2>1, ValScopedAdded
  <2> HIDE DEF table
  <2>3. new = [d EXCEPT !.attributeValues = table]
    BY <1>4 DEF WithLine, table
  <2>4. /\ new \in DictionarySet /\ new.attributeValues = table
        /\ new.attributes = d.attributes /\ new.vendorNames = d.vendorNames
        /\ new.vendorAttributes = d.vendorAttributes
        /\ new.vendorAttributeValues = d.vendorAttributeValues
        /\ new.types = d.types /\ new.unresolved = d.unresolved
    BY <2>2, <2>3 DEF DictionarySet
  <2> HIDE DEF new
  <2>5. place = [of |-> "attributeValues", scope |-> l.attribute]
    BY <1>4 DEF PlaceOf
  <2>6. JoinsAll(TableAt(new, place), TableAt(d, place),
                 EntryOf(CodesAt(place), NamesAt(place), l.code, l.name))
    BY <2>2, <2>4, <2>5 DEF TableAt, CodesAt, NamesAt
  <2>7. ASSUME NEW p \in Places \ {place}
        PROVE  TableAt(new, p) = TableAt(d, p)
    <3>1. place \in Places
      BY LinePlace
    <3>2. p.of = "attributeValues" => p.scope # l.attribute
      BY <2>5, <3>1, SamePlace
    <3> QED BY <2>2, <2>4, <3>2, PlaceKinds DEF TableAt
  <2> QED BY <1>4, <2>4, <2>6, <2>7 DEF new
<1>5. CASE l.kind = "VALUE" /\ l.ofVendor
  <2> DEFINE table == Val!ScopedAddedTable(d.vendorAttributeValues, l.attribute, l.code, l.name)
  <2>1. /\ l.name \in ValueNames /\ l.code \in ValueCodes /\ l.attribute \in AttrNames
        /\ d.vendorAttributeValues \in ScopedTablesOf(ValueCodes, ValueNames, AttrNames)
    BY <1>5, MenuLines DEF DictionarySet
  <2>2. /\ table \in ScopedTablesOf(ValueCodes, ValueNames, AttrNames)
        /\ JoinsAll(At(table, l.attribute), At(d.vendorAttributeValues, l.attribute),
                    EntryOf(ValueCodes, ValueNames, l.code, l.name))
        /\ \A s \in AttrNames \ {l.attribute} : At(table, s) = At(d.vendorAttributeValues, s)
    BY <1>5, <2>1, ValScopedAdded
  <2> HIDE DEF table
  <2>3. new = [d EXCEPT !.vendorAttributeValues = table]
    BY <1>5 DEF WithLine, table
  <2>4. /\ new \in DictionarySet /\ new.vendorAttributeValues = table
        /\ new.attributes = d.attributes /\ new.vendorNames = d.vendorNames
        /\ new.attributeValues = d.attributeValues
        /\ new.vendorAttributes = d.vendorAttributes
        /\ new.types = d.types /\ new.unresolved = d.unresolved
    BY <2>2, <2>3 DEF DictionarySet
  <2> HIDE DEF new
  <2>5. place = [of |-> "vendorAttributeValues", scope |-> l.attribute]
    BY <1>5 DEF PlaceOf
  <2>6. JoinsAll(TableAt(new, place), TableAt(d, place),
                 EntryOf(CodesAt(place), NamesAt(place), l.code, l.name))
    BY <2>2, <2>4, <2>5 DEF TableAt, CodesAt, NamesAt
  <2>7. ASSUME NEW p \in Places \ {place}
        PROVE  TableAt(new, p) = TableAt(d, p)
    <3>1. place \in Places
      BY LinePlace
    <3>2. p.of = "vendorAttributeValues" => p.scope # l.attribute
      BY <2>5, <3>1, SamePlace
    <3> QED BY <2>2, <2>4, <3>2, PlaceKinds DEF TableAt
  <2> QED BY <1>5, <2>4, <2>6, <2>7 DEF new
<1> QED BY <1>1, <1>2, <1>3, <1>4, <1>5, MenuLines

(* add throws only over lines that contradict each other. *)
LEMMA LineConflict ==
    ASSUME NEW d \in DictionarySet, NEW S, NEW l \in Menu, TablesSourced(d, S), LineTaken(d, l)
    PROVE  ~Consistent(S \cup {l})
<1> DEFINE p == PlaceOf(l)
<1>1. /\ p \in Places /\ l.code \in CodesAt(p) /\ l.name \in NamesAt(p)
      /\ LinesAt({l}, p) = {l}
  BY LinePlace
<1>2. \E k \in CodesAt(p) \ {l.code} : TableAt(d, p).right[k] = l.name
  <2>1. CASE l.kind = "VENDOR"
    BY <2>1 DEF LineTaken, PlaceOf, CodesAt, TableAt, Vend!NameTaken
  <2>2. CASE l.kind = "ATTRIBUTE" /\ l.vendor = NoVendor
    BY <2>2 DEF LineTaken, PlaceOf, CodesAt, TableAt, Attr!NameTaken
  <2>3. CASE l.kind = "ATTRIBUTE" /\ l.vendor # NoVendor
    BY <2>3 DEF LineTaken, PlaceOf, CodesAt, TableAt, At, Attr!NameTakenInScope, Attr!NameTaken
  <2>4. CASE l.kind = "VALUE" /\ ~l.ofVendor
    BY <2>4 DEF LineTaken, PlaceOf, CodesAt, TableAt, At, Val!NameTakenInScope, Val!NameTaken
  <2>5. CASE l.kind = "VALUE" /\ l.ofVendor
    BY <2>5 DEF LineTaken, PlaceOf, CodesAt, TableAt, At, Val!NameTakenInScope, Val!NameTaken
  <2> QED BY <2>1, <2>2, <2>3, <2>4, <2>5, MenuLines
<1> HIDE DEF p
<1>3. TableAt(d, p) \in TablesOf(CodesAt(p), NamesAt(p))
  BY <1>1, PlaceTable
<1>4. PICK k \in CodesAt(p) \ {l.code} : TableAt(d, p).right[k] = l.name
  BY <1>2
<1>5. PICK m \in LinesAt(S, p) : m.code = k /\ m.name = l.name
  BY <1>1, <1>3, <1>4, PlaceNothing DEF TablesSourced, Sourced, TablesOf
<1>6. LinesAt(S \cup {l}, p) = LinesAt(S, p) \cup {l}
  <2>1. LinesAt(S \cup {l}, p) = LinesAt(S, p) \cup LinesAt({l}, p)
    BY <1>1, PlaceUnion
  <2> QED BY <1>1, <2>1
<1>7. ~OneToOne(LinesAt(S \cup {l}, p))
  BY <1>4, <1>5, <1>6 DEF OneToOne
<1> QED BY <1>1, <1>7, PlaceConsistent

(* What a line does to the types. *)
LEMMA LineAllTypes ==
    ASSUME NEW d \in DictionarySet, NEW l \in Menu
    PROVE  /\ \A k \in Keys :
                 \/ WithLine(d, l).types[k] = d.types[k]
                 \/ /\ d.types[k] = NoType /\ l.kind = "ATTRIBUTE"
                    /\ WithLine(d, l).types[k] = l.type /\ k[1] = ByteOf(l.code)
                    /\ \/ l.vendor = NoVendor /\ k[2] = 0
                       \/ /\ l.vendor # NoVendor
                          /\ d.vendorNames.reverse[l.vendor] \in VendorIds
                          /\ k[2] = d.vendorNames.reverse[l.vendor]
           /\ \A u \in UnresolvedKeys :
                 \/ WithLine(d, l).unresolved[u] = d.unresolved[u]
                 \/ /\ d.unresolved[u] = NoType /\ l.kind = "ATTRIBUTE"
                    /\ WithLine(d, l).unresolved[u] = l.type
                    /\ l.vendor # NoVendor /\ u = <<ByteOf(l.code), l.vendor>>
           /\ l.kind = "ATTRIBUTE" => TypeThere(WithLine(d, l), l)
<1>1. CASE l.kind # "ATTRIBUTE"
  BY <1>1, LineTables
<1>2. CASE l.kind = "ATTRIBUTE"
  <2>1. PICK t \in DictionarySet :
           /\ t.vendorNames = d.vendorNames /\ t.types = d.types
           /\ t.unresolved = d.unresolved /\ WithLine(d, l) = WithType(t, l)
    BY <1>2, LineTables
  <2>2. /\ \A k \in Keys :
              \/ WithType(t, l).types[k] = t.types[k]
              \/ /\ t.types[k] = NoType
                 /\ WithType(t, l).types[k] = l.type /\ k[1] = ByteOf(l.code)
                 /\ \/ l.vendor = NoVendor /\ k[2] = 0
                    \/ /\ l.vendor # NoVendor
                       /\ t.vendorNames.reverse[l.vendor] \in VendorIds
                       /\ k[2] = t.vendorNames.reverse[l.vendor]
        /\ \A u \in UnresolvedKeys :
              \/ WithType(t, l).unresolved[u] = t.unresolved[u]
              \/ /\ t.unresolved[u] = NoType
                 /\ WithType(t, l).unresolved[u] = l.type
                 /\ l.vendor # NoVendor /\ u = <<ByteOf(l.code), l.vendor>>
        /\ TypeThere(WithType(t, l), l)
    BY <1>2, LineTypes
  <2> QED BY <1>2, <2>1, <2>2
<1> QED BY <1>1, <1>2

(* A dictionary made of the lines S, to which line l is added, is made of   *)
(* S and l.                                                                *)
LEMMA LineRepresents ==
    ASSUME NEW d \in DictionarySet, NEW S \in SUBSET Menu, NEW l \in Menu, Represents(d, S)
    PROVE  Represents(WithLine(d, l), S \cup {l})
<1> DEFINE new == WithLine(d, l)
           here == PlaceOf(l)
           entry == EntryOf(CodesAt(here), NamesAt(here), l.code, l.name)
<1>1. /\ new \in DictionarySet
      /\ JoinsAll(TableAt(new, here), TableAt(d, here), entry)
      /\ \A p \in Places \ {here} : TableAt(new, p) = TableAt(d, p)
      /\ \A v \in VendorNames : d.vendorNames.reverse[v] # NoCode =>
            new.vendorNames.reverse[v] = d.vendorNames.reverse[v]
  BY LineTables
<1>2. /\ \A k \in Keys :
            \/ new.types[k] = d.types[k]
            \/ /\ d.types[k] = NoType /\ l.kind = "ATTRIBUTE"
               /\ new.types[k] = l.type /\ k[1] = ByteOf(l.code)
               /\ \/ l.vendor = NoVendor /\ k[2] = 0
                  \/ /\ l.vendor # NoVendor
                     /\ d.vendorNames.reverse[l.vendor] \in VendorIds
                     /\ k[2] = d.vendorNames.reverse[l.vendor]
      /\ \A u \in UnresolvedKeys :
            \/ new.unresolved[u] = d.unresolved[u]
            \/ /\ d.unresolved[u] = NoType /\ l.kind = "ATTRIBUTE"
               /\ new.unresolved[u] = l.type
               /\ l.vendor # NoVendor /\ u = <<ByteOf(l.code), l.vendor>>
      /\ l.kind = "ATTRIBUTE" => TypeThere(new, l)
  BY LineAllTypes
<1>3. /\ here \in Places /\ l.code \in CodesAt(here) /\ l.name \in NamesAt(here)
      /\ \A p \in Places : LinesAt({l}, p) = IF p = here THEN {l} ELSE {}
  BY LinePlace
<1>4. /\ entry \in TablesOf(CodesAt(here), NamesAt(here))
      /\ Sourced(entry, {l}) /\ Whole(entry, {l})
  BY <1>3, EntryWhole
<1> HIDE DEF new, here, entry
<1>5. ASSUME NEW p \in Places
      PROVE  /\ LinesAt(S \cup {l}, p) =
                   IF p = here THEN LinesAt(S, p) \cup {l} ELSE LinesAt(S, p)
             /\ TableAt(d, p) \in TablesOf(CodesAt(p), NamesAt(p))
             /\ TableAt(new, p) \in TablesOf(CodesAt(p), NamesAt(p))
             /\ Sourced(TableAt(d, p), LinesAt(S, p))
  <2>1. LinesAt(S \cup {l}, p) = LinesAt(S, p) \cup LinesAt({l}, p)
    BY PlaceUnion
  <2> QED BY <1>1, <1>3, <2>1, PlaceTable DEF Represents, TablesSourced
<1>6. TablesSourced(new, S \cup {l})
  <2>1. Sourced(TableAt(new, here), LinesAt(S, here) \cup {l})
    BY <1>1, <1>3, <1>4, <1>5, JoinSourced DEF JoinsAll
  <2>2. ASSUME NEW p \in Places
        PROVE  Sourced(TableAt(new, p), LinesAt(S \cup {l}, p))
    BY <1>1, <1>5, <2>1
  <2> QED BY <2>2 DEF TablesSourced
<1>7. TypesSourced(new, S \cup {l})
  <2> SUFFICES ASSUME NEW k \in Keys, new.types[k] # NoType
               PROVE  new.types[k] \in TypesOf(S \cup {l}, k)
    BY DEF TypesSourced
  <2>1. CASE new.types[k] = d.types[k]
    BY <2>1, TypesOfUnion DEF Represents, TypesSourced
  <2>2. CASE new.types[k] # d.types[k]
    <3>1. /\ l.kind = "ATTRIBUTE" /\ new.types[k] = l.type /\ k[1] = ByteOf(l.code)
          /\ \/ l.vendor = NoVendor /\ k[2] = 0
             \/ /\ l.vendor # NoVendor
                /\ d.vendorNames.reverse[l.vendor] \in VendorIds
                /\ k[2] = d.vendorNames.reverse[l.vendor]
      BY <1>2, <2>2
    <3>2. CASE l.vendor = NoVendor
      BY <3>1, <3>2 DEF TypesOf, Of
    <3>3. CASE l.vendor # NoVendor
      <4> DEFINE p == [of |-> "vendorNames", scope |-> 0]
      <4>1. p \in Places /\ TableAt(d, p) = d.vendorNames /\ LinesAt(S, p) = Of(S, "VENDOR")
        BY DEF Places, TableAt, LinesAt
      <4>2. Sourced(d.vendorNames, Of(S, "VENDOR"))
        BY <1>5, <4>1
      <4>3. /\ l.vendor \in VendorNames /\ d.vendorNames \in TablesOf(VendorIds, VendorNames)
            /\ d.vendorNames.reverse[l.vendor] # NoCode
        BY <3>1, <3>3, MenuLines, DictionariesAssumption DEF DictionarySet
      <4>4. PICK v \in Of(S, "VENDOR") : v.name = l.vendor /\ v.code = k[2]
        BY <3>1, <3>3, <4>2, <4>3 DEF Sourced, TablesOf
      <4>5. v \in Of(S \cup {l}, "VENDOR") /\ l \in Of(S \cup {l}, "ATTRIBUTE")
        BY <3>1 DEF Of
      <4> QED BY <3>1, <4>4, <4>5 DEF TypesOf
    <3> QED BY <3>2, <3>3
  <2> QED BY <2>1, <2>2
<1>8. WaitingSourced(new, S \cup {l})
  <2> SUFFICES ASSUME NEW u \in UnresolvedKeys, new.unresolved[u] # NoType
               PROVE  \E m \in AttributesOf(S \cup {l}, u[2]) :
                         ByteOf(m.code) = u[1] /\ m.type = new.unresolved[u]
    BY DEF WaitingSourced
  <2>1. CASE new.unresolved[u] = d.unresolved[u]
    BY <2>1 DEF Represents, WaitingSourced, AttributesOf, Of
  <2>2. CASE new.unresolved[u] # d.unresolved[u]
    BY <1>2, <2>2 DEF AttributesOf, Of
  <2> QED BY <2>1, <2>2
<1>9. ASSUME Consistent(S \cup {l})
      PROVE  TablesWhole(new, S \cup {l}) /\ TypesWhole(new, S \cup {l})
  <2>1. TablesWhole(d, S) /\ TypesWhole(d, S)
    BY <1>9, ConsistentParts DEF Represents
  <2>2. TablesWhole(new, S \cup {l})
    <3>1. Whole(TableAt(new, here), LinesAt(S, here) \cup {l})
      <4>1. LinesOf(CodesAt(here), NamesAt(here), LinesAt(S, here) \cup {l})
        BY <1>3, PlaceLines DEF LinesOf
      <4>2. OneToOne(LinesAt(S, here) \cup {l})
        <5>1. OneToOne(LinesAt(S \cup {l}, here))
          BY <1>3, <1>9, PlaceConsistent
        <5> QED BY <1>3, <1>5, <5>1
      <4>3. Whole(TableAt(d, here), LinesAt(S, here))
        BY <1>3, <2>1 DEF TablesWhole
      <4> QED BY <1>1, <1>3, <1>4, <1>5, <4>1, <4>2, <4>3, PlaceNothing, JoinWhole
    <3>2. ASSUME NEW p \in Places
          PROVE  Whole(TableAt(new, p), LinesAt(S \cup {l}, p))
      BY <1>1, <1>5, <2>1, <3>1 DEF TablesWhole
    <3> QED BY <3>2 DEF TablesWhole
  <2>3. TypesWhole(new, S \cup {l})
    <3> SUFFICES ASSUME NEW m \in Of(S \cup {l}, "ATTRIBUTE")
                 PROVE  TypeThere(new, m)
      BY DEF TypesWhole
    <3>1. CASE m = l
      BY <1>2, <3>1 DEF Of
    <3>2. CASE m \in Of(S, "ATTRIBUTE")
      <4>1. TypeThere(d, m)
        BY <2>1, <3>2 DEF TypesWhole
      <4>2. /\ \A k \in Keys : d.types[k] # NoType => new.types[k] # NoType
            /\ \A u \in UnresolvedKeys : d.unresolved[u] # NoType => new.unresolved[u] # NoType
        BY <1>2
      <4>3. m.vendor \in VendorNames \cup {NoVendor} /\ m.code \in AttrCodes
        BY MenuLines DEF Of
      <4>4. CASE m.vendor = NoVendor
        <5>1. <<ByteOf(m.code), 0>> \in Keys
          BY <4>3 DEF Keys
        <5> QED BY <4>1, <4>2, <4>4, <5>1 DEF TypeThere
      <4>5. CASE m.vendor # NoVendor /\ d.unresolved[<<ByteOf(m.code), m.vendor>>] # NoType
        <5>1. <<ByteOf(m.code), m.vendor>> \in UnresolvedKeys
          BY <4>3, <4>5 DEF UnresolvedKeys
        <5> QED BY <4>2, <4>5, <5>1 DEF TypeThere
      <4>6. CASE /\ m.vendor # NoVendor /\ d.vendorNames.reverse[m.vendor] # NoCode
                 /\ d.types[<<ByteOf(m.code), d.vendorNames.reverse[m.vendor]>>] # NoType
        <5>1. m.vendor \in VendorNames
          BY <4>3, <4>6
        <5>2. <<ByteOf(m.code), d.vendorNames.reverse[m.vendor]>> \in Keys
          BY <4>3, <4>6, <5>1 DEF Keys, DictionarySet, TablesOf
        <5>3. new.vendorNames.reverse[m.vendor] = d.vendorNames.reverse[m.vendor]
          BY <1>1, <4>6, <5>1
        <5> QED BY <4>2, <4>6, <5>2, <5>3 DEF TypeThere
      <4> QED BY <4>1, <4>4, <4>5, <4>6 DEF TypeThere
    <3> QED BY <3>1, <3>2 DEF Of
  <2> QED BY <2>2, <2>3
<1> QED BY <1>6, <1>7, <1>8, <1>9 DEF Represents, new

-----------------------------------------------------------------------------
(* resolve(). *)
LEMMA VendorSource ==
    ASSUME NEW d \in DictionarySet, NEW S, TablesSourced(d, S),
           NEW n \in VendorNames, d.vendorNames.reverse[n] # NoCode
    PROVE  /\ d.vendorNames.reverse[n] \in VendorIds
           /\ \E v \in Of(S, "VENDOR") : v.name = n /\ v.code = d.vendorNames.reverse[n]
<1> DEFINE p == [of |-> "vendorNames", scope |-> 0]
<1>1. p \in Places /\ TableAt(d, p) = d.vendorNames /\ LinesAt(S, p) = Of(S, "VENDOR")
  BY DEF Places, TableAt, LinesAt
<1>2. Sourced(d.vendorNames, Of(S, "VENDOR"))
  BY <1>1 DEF TablesSourced
<1>3. d.vendorNames \in TablesOf(VendorIds, VendorNames)
  BY DEF DictionarySet
<1> QED BY <1>2, <1>3 DEF Sourced, TablesOf

(* The types once some entries are emplaced. *)
LEMMA TypesAfterForm ==
    ASSUME NEW d \in DictionarySet, NEW done \in SUBSET Unresolved(d),
           \A u \in done : VendorKnown(d, u), NEW types \in TypesAfter(d, done)
    PROVE  /\ types \in [Keys -> Types \cup {NoType}]
           /\ \A k \in Keys :
                 \/ types[k] = d.types[k]
                 \/ /\ d.types[k] = NoType
                    /\ \E u \in done : KeyOf(d, u) = k /\ types[k] = d.unresolved[u]
           /\ \A u \in done : KeyOf(d, u) \in Keys /\ types[KeyOf(d, u)] # NoType
<1> DEFINE keys == {KeyOf(d, u) : u \in done}
<1>1. /\ d.types \in [Keys -> Types \cup {NoType}]
      /\ d.unresolved \in [UnresolvedKeys -> Types \cup {NoType}]
      /\ d.vendorNames.reverse \in [VendorNames -> VendorIds \cup {NoCode}]
  BY DEF DictionarySet, TablesOf
<1>2. \A u \in done : u \in UnresolvedKeys /\ d.unresolved[u] # NoType
  BY DEF Unresolved
<1>3. ASSUME NEW u \in done
      PROVE  KeyOf(d, u) \in Keys
  <2>1. /\ u[1] \in {ByteOf(c) : c \in AttrCodes} /\ u[2] \in VendorNames
        /\ d.vendorNames.reverse[u[2]] # NoCode
    BY <1>2 DEF UnresolvedKeys, VendorKnown
  <2> QED BY <1>1, <2>1 DEF KeyOf, Keys
<1>4. PICK f \in [keys -> done] :
         /\ \A k \in keys : KeyOf(d, f[k]) = k
         /\ types = InsertTypes(d.types,
                      [k \in Keys |-> IF k \in keys THEN d.unresolved[f[k]] ELSE NoType])
  BY DEF TypesAfter
<1>5. \A k \in keys : f[k] \in done /\ KeyOf(d, f[k]) = k
  BY <1>4
<1>6. types = [k \in Keys |-> IF d.types[k] = NoType
                              THEN IF k \in keys THEN d.unresolved[f[k]] ELSE NoType
                              ELSE d.types[k]]
  BY <1>1, <1>4 DEF InsertTypes
<1>7. \A u \in done : KeyOf(d, u) \in keys
  OBVIOUS
<1> HIDE DEF keys
<1>8. types \in [Keys -> Types \cup {NoType}]
  BY <1>1, <1>2, <1>5, <1>6
<1>9. ASSUME NEW k \in Keys
      PROVE  \/ types[k] = d.types[k]
             \/ /\ d.types[k] = NoType
                /\ \E u \in done : KeyOf(d, u) = k /\ types[k] = d.unresolved[u]
  BY <1>5, <1>6
<1>10. \A u \in done : types[KeyOf(d, u)] # NoType
  BY <1>2, <1>3, <1>5, <1>6, <1>7
<1> QED BY <1>3, <1>8, <1>9, <1>10

(* A dictionary some or all of whose waiting types are resolved is made of *)
(* the lines it was made of.                                               *)
LEMMA ResolveRepresents ==
    ASSUME NEW d \in DictionarySet, NEW S \in SUBSET Menu, Represents(d, S),
           NEW done \in SUBSET Unresolved(d), \A u \in done : VendorKnown(d, u),
           NEW types \in TypesAfter(d, done),
           NEW unresolved \in [UnresolvedKeys -> Types \cup {NoType}],
           \/ unresolved = d.unresolved
           \/ /\ unresolved = EmptyDictionaries.unresolved /\ done = Unresolved(d)
    PROVE  /\ [d EXCEPT !.types = types, !.unresolved = unresolved] \in DictionarySet
           /\ Represents([d EXCEPT !.types = types, !.unresolved = unresolved], S)
<1> DEFINE new == [d EXCEPT !.types = types, !.unresolved = unresolved]
<1>1. /\ types \in [Keys -> Types \cup {NoType}]
      /\ \A k \in Keys :
            \/ types[k] = d.types[k]
            \/ /\ d.types[k] = NoType
               /\ \E u \in done : KeyOf(d, u) = k /\ types[k] = d.unresolved[u]
      /\ \A u \in done : KeyOf(d, u) \in Keys /\ types[KeyOf(d, u)] # NoType
  BY TypesAfterForm
<1>2. /\ new \in DictionarySet /\ new.types = types /\ new.unresolved = unresolved
      /\ new.attributes = d.attributes /\ new.vendorNames = d.vendorNames
      /\ new.attributeValues = d.attributeValues
      /\ new.vendorAttributes = d.vendorAttributes
      /\ new.vendorAttributeValues = d.vendorAttributeValues
  BY <1>1 DEF DictionarySet
<1> HIDE DEF new
<1>3. \A p \in Places : TableAt(new, p) = TableAt(d, p)
  BY <1>2, PlaceKinds DEF TableAt
<1>4. TablesSourced(new, S) /\ (Consistent(S) => TablesWhole(new, S))
  BY <1>3 DEF Represents, TablesSourced, TablesWhole
<1>5. TypesSourced(new, S)
  <2> SUFFICES ASSUME NEW k \in Keys, types[k] # NoType
               PROVE  types[k] \in TypesOf(S, k)
    BY <1>2 DEF TypesSourced
  <2>1. CASE types[k] = d.types[k]
    BY <2>1 DEF Represents, TypesSourced
  <2>2. CASE types[k] # d.types[k]
    <3>1. PICK u \in done : KeyOf(d, u) = k /\ types[k] = d.unresolved[u]
      BY <1>1, <2>2
    <3>2. /\ u \in UnresolvedKeys /\ d.unresolved[u] # NoType
          /\ u[2] \in VendorNames /\ d.vendorNames.reverse[u[2]] # NoCode
          /\ k[1] = u[1] /\ k[2] = d.vendorNames.reverse[u[2]]
      BY <3>1 DEF Unresolved, UnresolvedKeys, VendorKnown, KeyOf
    <3>3. PICK l \in AttributesOf(S, u[2]) : ByteOf(l.code) = u[1] /\ l.type = d.unresolved[u]
      BY <3>2 DEF Represents, WaitingSourced
    <3>4. PICK v \in Of(S, "VENDOR") : v.name = u[2] /\ v.code = d.vendorNames.reverse[u[2]]
      BY <3>2, VendorSource DEF Represents
    <3> QED BY <3>1, <3>2, <3>3, <3>4 DEF TypesOf, AttributesOf
  <2> QED BY <2>1, <2>2
<1>6. WaitingSourced(new, S)
  <2>1. \A u \in UnresolvedKeys : unresolved[u] # NoType => unresolved[u] = d.unresolved[u]
    BY DEF EmptyDictionaries
  <2> QED BY <1>2, <2>1 DEF Represents, WaitingSourced
<1>7. ASSUME Consistent(S)
      PROVE  TypesWhole(new, S)
  <2> SUFFICES ASSUME NEW l \in Of(S, "ATTRIBUTE")
               PROVE  TypeThere(new, l)
    BY DEF TypesWhole
  <2>1. TypeThere(d, l)
    BY <1>7 DEF Represents, TypesWhole
  <2>2. l.vendor \in VendorNames \cup {NoVendor} /\ l.code \in AttrCodes
    BY MenuLines DEF Of
  <2>3. \A k \in Keys : d.types[k] # NoType => types[k] # NoType
    BY <1>1
  <2>4. CASE l.vendor = NoVendor
    <3>1. <<ByteOf(l.code), 0>> \in Keys
      BY <2>2 DEF Keys
    <3> QED BY <1>2, <2>1, <2>3, <2>4, <3>1 DEF TypeThere
  <2>5. CASE l.vendor # NoVendor /\ d.unresolved[<<ByteOf(l.code), l.vendor>>] # NoType
    <3> DEFINE u == <<ByteOf(l.code), l.vendor>>
    <3>1. u \in Unresolved(d)
      BY <2>2, <2>5 DEF Unresolved, UnresolvedKeys
    <3>2. CASE unresolved = d.unresolved
      BY <1>2, <2>5, <3>2 DEF TypeThere
    <3>3. CASE done = Unresolved(d)
      <4>1. VendorKnown(d, u) /\ types[KeyOf(d, u)] # NoType
        BY <1>1, <3>1, <3>3
      <4>2. d.vendorNames.reverse[l.vendor] # NoCode
        BY <4>1 DEF VendorKnown
      <4>3. types[<<ByteOf(l.code), d.vendorNames.reverse[l.vendor]>>] # NoType
        BY <4>1 DEF KeyOf
      <4> QED BY <1>2, <2>5, <4>2, <4>3 DEF TypeThere
    <3> QED BY <3>2, <3>3
  <2>6. CASE /\ l.vendor # NoVendor /\ d.vendorNames.reverse[l.vendor] # NoCode
             /\ d.types[<<ByteOf(l.code), d.vendorNames.reverse[l.vendor]>>] # NoType
    <3>1. l.vendor \in VendorNames
      BY <2>2, <2>6
    <3>2. <<ByteOf(l.code), d.vendorNames.reverse[l.vendor]>> \in Keys
      BY <2>2, <2>6, <3>1 DEF Keys, DictionarySet, TablesOf
    <3> QED BY <1>2, <2>3, <2>6, <3>2 DEF TypeThere
  <2> QED BY <2>1, <2>4, <2>5, <2>6 DEF TypeThere
<1> QED BY <1>2, <1>4, <1>5, <1>6, <1>7 DEF Represents, new

-----------------------------------------------------------------------------
(* A dictionary of consistent lines in which no type waits is their        *)
(* meaning.                                                                *)
LEMMA WholeMeaning ==
    ASSUME NEW d \in DictionarySet, NEW S \in SUBSET Menu, Represents(d, S), Consistent(S),
           d.unresolved = EmptyDictionaries.unresolved
    PROVE  d = Meaning(S)
<1>1. ASSUME NEW p \in Places
      PROVE  TableAt(d, p) = TableOf(LinesAt(S, p), CodesAt(p), NamesAt(p))
  <2>1. /\ TableAt(d, p) \in TablesOf(CodesAt(p), NamesAt(p))
        /\ Sourced(TableAt(d, p), LinesAt(S, p)) /\ Whole(TableAt(d, p), LinesAt(S, p))
    BY PlaceTable DEF Represents, TablesSourced, TablesWhole
  <2> QED BY <2>1, WholeTable
<1>2. d.attributes = TableOf(AttributesOf(S, NoVendor), AttrCodes, AttrNames)
  <2> DEFINE p == [of |-> "attributes", scope |-> 0]
  <2>1. /\ p \in Places /\ TableAt(d, p) = d.attributes
        /\ LinesAt(S, p) = AttributesOf(S, NoVendor)
        /\ CodesAt(p) = AttrCodes /\ NamesAt(p) = AttrNames
    BY DEF Places, TableAt, LinesAt, CodesAt, NamesAt
  <2> QED BY <1>1, <2>1
<1>3. d.vendorNames = TableOf(Of(S, "VENDOR"), VendorIds, VendorNames)
  <2> DEFINE p == [of |-> "vendorNames", scope |-> 0]
  <2>1. /\ p \in Places /\ TableAt(d, p) = d.vendorNames
        /\ LinesAt(S, p) = Of(S, "VENDOR")
        /\ CodesAt(p) = VendorIds /\ NamesAt(p) = VendorNames
    BY DEF Places, TableAt, LinesAt, CodesAt, NamesAt
  <2> QED BY <1>1, <2>1
<1>4. ASSUME NEW s \in VendorNames
      PROVE  At(d.vendorAttributes, s) = TableOf(AttributesOf(S, s), AttrCodes, AttrNames)
  <2> DEFINE p == [of |-> "vendorAttributes", scope |-> s]
  <2>1. /\ p \in Places /\ TableAt(d, p) = At(d.vendorAttributes, s)
        /\ LinesAt(S, p) = AttributesOf(S, s)
        /\ CodesAt(p) = AttrCodes /\ NamesAt(p) = AttrNames
    BY DEF Places, TableAt, LinesAt, CodesAt, NamesAt
  <2> QED BY <1>1, <2>1
<1>5. ASSUME NEW s \in AttrNames
      PROVE  At(d.attributeValues, s) = TableOf(ValuesOf(S, FALSE, s), ValueCodes, ValueNames)
  <2> DEFINE p == [of |-> "attributeValues", scope |-> s]
  <2>1. /\ p \in Places /\ TableAt(d, p) = At(d.attributeValues, s)
        /\ LinesAt(S, p) = ValuesOf(S, FALSE, s)
        /\ CodesAt(p) = ValueCodes /\ NamesAt(p) = ValueNames
    BY DEF Places, TableAt, LinesAt, CodesAt, NamesAt
  <2> QED BY <1>1, <2>1
<1>6. ASSUME NEW s \in AttrNames
      PROVE  At(d.vendorAttributeValues, s) =
                TableOf(ValuesOf(S, TRUE, s), ValueCodes, ValueNames)
  <2> DEFINE p == [of |-> "vendorAttributeValues", scope |-> s]
  <2>1. /\ p \in Places /\ TableAt(d, p) = At(d.vendorAttributeValues, s)
        /\ LinesAt(S, p) = ValuesOf(S, TRUE, s)
        /\ CodesAt(p) = ValueCodes /\ NamesAt(p) = ValueNames
    BY DEF Places, TableAt, LinesAt, CodesAt, NamesAt
  <2> QED BY <1>1, <2>1
<1>7. /\ d.vendorAttributes \in ScopedTablesOf(AttrCodes, AttrNames, VendorNames)
      /\ d.attributeValues \in ScopedTablesOf(ValueCodes, ValueNames, AttrNames)
      /\ d.vendorAttributeValues \in ScopedTablesOf(ValueCodes, ValueNames, AttrNames)
      /\ d.types \in [Keys -> Types \cup {NoType}]
      /\ d = [attributes |-> d.attributes, vendorNames |-> d.vendorNames,
              attributeValues |-> d.attributeValues,
              vendorAttributes |-> d.vendorAttributes,
              vendorAttributeValues |-> d.vendorAttributeValues,
              types |-> d.types, unresolved |-> d.unresolved]
  BY DEF DictionarySet
<1>8. d.vendorAttributes =
         [right |-> [v \in VendorNames |-> RightOf(AttributesOf(S, v), AttrCodes)],
          reverse |-> [v \in VendorNames |-> ReverseOf(AttributesOf(S, v), AttrNames)]]
  BY <1>4, <1>7 DEF At, TableOf, ScopedTablesOf
<1>9. /\ d.attributeValues = ValueTableOf(S, FALSE)
      /\ d.vendorAttributeValues = ValueTableOf(S, TRUE)
  BY <1>5, <1>6, <1>7 DEF At, TableOf, ScopedTablesOf, ValueTableOf
<1>10. ASSUME NEW k \in Keys
       PROVE  d.types[k] = IF TypesOf(S, k) = {} THEN NoType
                           ELSE CHOOSE t \in TypesOf(S, k) : TRUE
  <2>1. d.types[k] # NoType => d.types[k] \in TypesOf(S, k)
    BY DEF Represents, TypesSourced
  <2>2. \A t, u \in TypesOf(S, k) : t = u
    BY DEF Consistent
  <2>3. ASSUME NEW t \in TypesOf(S, k)
        PROVE  d.types[k] # NoType
    <3>1. PICK l \in Of(S, "ATTRIBUTE") :
             /\ ByteOf(l.code) = k[1]
             /\ \/ l.vendor = NoVendor /\ k[2] = 0
                \/ \E v \in Of(S, "VENDOR") : v.name = l.vendor /\ v.code = k[2]
      BY DEF TypesOf
    <3>2. k = <<k[1], k[2]>>
      BY DEF Keys
    <3>3. l.vendor \in VendorNames \cup {NoVendor} /\ l.code \in AttrCodes
      BY MenuLines DEF Of
    <3>4. TypeThere(d, l)
      BY DEF Represents, TypesWhole
    <3>5. CASE l.vendor = NoVendor
      <4>1. \A v \in Of(S, "VENDOR") : v.name # l.vendor
        BY <3>5, MenuLines, DictionariesAssumption DEF Of
      <4> QED BY <3>1, <3>2, <3>4, <3>5, <4>1 DEF TypeThere
    <3>6. CASE l.vendor # NoVendor
      <4>1. PICK v \in Of(S, "VENDOR") : v.name = l.vendor /\ v.code = k[2]
        BY <3>1, <3>6
      <4>2. d.vendorNames.reverse[l.vendor] = k[2]
        <5> DEFINE p == [of |-> "vendorNames", scope |-> 0]
        <5>1. p \in Places /\ TableAt(d, p) = d.vendorNames /\ LinesAt(S, p) = Of(S, "VENDOR")
          BY DEF Places, TableAt, LinesAt
        <5>2. Whole(d.vendorNames, Of(S, "VENDOR"))
          BY <5>1 DEF Represents, TablesWhole
        <5> QED BY <4>1, <5>2 DEF Whole
      <4>3. d.unresolved[<<ByteOf(l.code), l.vendor>>] = NoType
        <5>1. <<ByteOf(l.code), l.vendor>> \in UnresolvedKeys
          BY <3>3, <3>6 DEF UnresolvedKeys
        <5> QED BY <5>1 DEF EmptyDictionaries
      <4> QED BY <3>1, <3>2, <3>4, <3>6, <4>2, <4>3 DEF TypeThere
    <3> QED BY <3>5, <3>6
  <2>4. CASE TypesOf(S, k) = {}
    BY <2>1, <2>4
  <2>5. CASE TypesOf(S, k) # {}
    <3>1. (CHOOSE t \in TypesOf(S, k) : TRUE) \in TypesOf(S, k)
      BY <2>5
    <3>2. d.types[k] \in TypesOf(S, k)
      BY <2>1, <2>3, <2>5
    <3> QED BY <2>2, <2>5, <3>1, <3>2
  <2> QED BY <2>4, <2>5
<1>11. d.types = [k \in Keys |-> IF TypesOf(S, k) = {} THEN NoType
                                 ELSE CHOOSE t \in TypesOf(S, k) : TRUE]
  BY <1>7, <1>10
<1> QED BY <1>2, <1>3, <1>7, <1>8, <1>9, <1>11 DEF Meaning

-----------------------------------------------------------------------------
(* The invariant: every dictionary there is, the application's and those   *)
(* of the files that are being read, is made of the lines it was made from, *)
(* and once resolve() has succeeded no type of the application's waits.    *)
SoundObjects ==
    {o \in [dict : DictionarySet, lines : SUBSET Menu] : Represents(o.dict, o.lines)}
SoundConstructors == [object : SoundObjects, vendor : VendorNames \cup {NoVendor}]

LoaderInv ==
    /\ stack \in Seq(SoundConstructors)
    /\ app \in SoundObjects
    /\ resolved \in BOOLEAN
    /\ resolved => app.dict.unresolved = EmptyDictionaries.unresolved
    /\ refused # {} => ~Consistent(refused)
    /\ lines \in 0 .. MaxLines

LEMMA MadeSound == Made \in SoundObjects
<1> DEFINE d == EmptyDictionaries
<1>1. d \in DictionarySet
  BY DEF EmptyDictionaries, DictionarySet, TablesOf, ScopedTablesOf, Attr!EmptyTable,
         Vend!EmptyTable, Val!EmptyScopedTable, Attr!EmptyScopedTable, Attr!EmptyScopedRight,
         Attr!EmptyScopedReverse, Val!EmptyScopedRight, Val!EmptyScopedReverse,
         Attr!EmptyRight, Attr!EmptyReverse, Vend!EmptyRight, Vend!EmptyReverse,
         Val!EmptyRight, Val!EmptyReverse
<1>2. /\ d.attributes = [right |-> [c \in AttrCodes |-> NoName],
                         reverse |-> [n \in AttrNames |-> NoCode]]
      /\ d.vendorNames = [right |-> [c \in VendorIds |-> NoName],
                          reverse |-> [n \in VendorNames |-> NoCode]]
      /\ d.vendorAttributes =
            [right |-> [s \in VendorNames |-> [c \in AttrCodes |-> NoName]],
             reverse |-> [s \in VendorNames |-> [n \in AttrNames |-> NoCode]]]
      /\ d.attributeValues =
            [right |-> [s \in AttrNames |-> [c \in ValueCodes |-> NoName]],
             reverse |-> [s \in AttrNames |-> [n \in ValueNames |-> NoCode]]]
      /\ d.vendorAttributeValues =
            [right |-> [s \in AttrNames |-> [c \in ValueCodes |-> NoName]],
             reverse |-> [s \in AttrNames |-> [n \in ValueNames |-> NoCode]]]
  BY DEF EmptyDictionaries, Attr!EmptyTable, Vend!EmptyTable, Val!EmptyScopedTable,
         Attr!EmptyScopedTable, Attr!EmptyScopedRight, Attr!EmptyScopedReverse,
         Val!EmptyScopedRight, Val!EmptyScopedReverse, Attr!EmptyRight, Attr!EmptyReverse,
         Vend!EmptyRight, Vend!EmptyReverse, Val!EmptyRight, Val!EmptyReverse
<1>3. ASSUME NEW p \in Places
      PROVE  /\ TableAt(d, p).right = [c \in CodesAt(p) |-> NoName]
             /\ TableAt(d, p).reverse = [n \in NamesAt(p) |-> NoCode]
             /\ LinesAt({}, p) = {}
  <2>1. LinesAt({}, p) = {}
    BY PlaceKinds DEF LinesAt, AttributesOf, ValuesOf, Of
  <2> HIDE DEF d
  <2>2. CASE p.of = "attributes"
    BY <1>2, <2>1, <2>2 DEF TableAt, CodesAt, NamesAt
  <2>3. CASE p.of = "vendorNames"
    BY <1>2, <2>1, <2>3 DEF TableAt, CodesAt, NamesAt
  <2>4. CASE p.of = "vendorAttributes" /\ p.scope \in VendorNames
    BY <1>2, <2>1, <2>4 DEF TableAt, CodesAt, NamesAt, At
  <2>5. CASE p.of = "attributeValues" /\ p.scope \in AttrNames
    BY <1>2, <2>1, <2>5 DEF TableAt, CodesAt, NamesAt, At
  <2>6. CASE p.of = "vendorAttributeValues" /\ p.scope \in AttrNames
    BY <1>2, <2>1, <2>6 DEF TableAt, CodesAt, NamesAt, At
  <2> QED BY <2>2, <2>3, <2>4, <2>5, <2>6, PlaceKinds
<1>4. TablesSourced(d, {}) /\ TablesWhole(d, {})
  <2> HIDE DEF d
  <2>1. ASSUME NEW p \in Places PROVE Sourced(TableAt(d, p), LinesAt({}, p))
    BY <1>3 DEF Sourced
  <2>2. ASSUME NEW p \in Places PROVE Whole(TableAt(d, p), LinesAt({}, p))
    BY <1>3 DEF Whole
  <2> QED BY <2>1, <2>2 DEF TablesSourced, TablesWhole
<1>5. TypesSourced(d, {}) /\ WaitingSourced(d, {}) /\ TypesWhole(d, {})
  BY DEF TypesSourced, WaitingSourced, TypesWhole, EmptyDictionaries, Of
<1> QED BY <1>1, <1>4, <1>5 DEF Made, SoundObjects, Represents

LEMMA OpenedSound == Opened \in SoundConstructors
BY MadeSound DEF Opened, SoundConstructors

LEMMA InitLoader == Init => LoaderInv
<1>1. <<>> \in Seq(SoundConstructors) /\ 0 \in 0 .. MaxLines
  BY LoaderAssumption
<1> QED BY <1>1, MadeSound DEF Init, LoaderInv

(* The constructor that reads now, and those that wait for it. *)
LEMMA TopSound ==
    ASSUME LoaderInv, stack # <<>>
    PROVE  /\ Top \in SoundConstructors /\ Below \in Seq(SoundConstructors)
           /\ Len(Below) = Len(stack) - 1
           /\ Top.object.dict \in DictionarySet /\ Top.object.lines \in SUBSET Menu
           /\ Represents(Top.object.dict, Top.object.lines)
<1>1. Len(stack) \in Nat \ {0} /\ stack \in Seq(SoundConstructors)
  BY DEF LoaderInv
<1>2. Top \in SoundConstructors
  BY <1>1 DEF Top
<1>3. Below \in Seq(SoundConstructors) /\ Len(Below) = Len(stack) - 1
  <2> DEFINE n == Len(stack) - 1
  <2>1. /\ n \in Int /\ (1 <= n \/ n = 0)
        /\ \A i \in 1 .. n : stack[i] \in SoundConstructors
    <3> DEFINE m == Len(stack)
    <3>1. m \in Nat \ {0} /\ \A i \in 1 .. m : stack[i] \in SoundConstructors
      BY <1>1
    <3>2. n = m - 1
      OBVIOUS
    <3> HIDE DEF m, n
    <3> QED BY <3>1, <3>2
  <2> HIDE DEF n
  <2>2. /\ SubSeq(stack, 1, n) \in Seq(SoundConstructors)
        /\ Len(SubSeq(stack, 1, n)) = IF 1 <= n THEN n - 1 + 1 ELSE 0
    BY <2>1, SubSeqProperties
  <2>3. Len(SubSeq(stack, 1, n)) = n
    BY <2>1, <2>2
  <2> QED BY <2>2, <2>3 DEF Below, n
<1> QED BY <1>2, <1>3 DEF SoundConstructors, SoundObjects

LEMMA StepOpen == LoaderInv /\ Open => LoaderInv'
BY OpenedSound DEF LoaderInv, Open

LEMMA StepReadLine == LoaderInv /\ ReadLine => LoaderInv'
<1> SUFFICES ASSUME LoaderInv, ReadLine PROVE LoaderInv'
  OBVIOUS
<1> DEFINE object == Top.object
<1>1. stack # <<>> /\ lines' \in 0 .. MaxLines
  BY LoaderAssumption DEF ReadLine, NextLine, LoaderInv
<1>2. /\ Top \in SoundConstructors /\ Below \in Seq(SoundConstructors)
      /\ object.dict \in DictionarySet /\ object.lines \in SUBSET Menu
      /\ Represents(object.dict, object.lines)
  BY <1>1, TopSound
<1>3. PICK line \in Menu :
         \/ LineTaken(object.dict, line) /\ Abandon(object.lines \cup {line})
         \/ /\ stack' = Append(Below, [Top EXCEPT !.object =
                            [dict |-> WithLine(object.dict, line),
                             lines |-> object.lines \cup {line}]])
            /\ UNCHANGED <<app, resolved, refused>>
  BY DEF ReadLine
<1>4. CASE LineTaken(object.dict, line) /\ Abandon(object.lines \cup {line})
  <2>1. ~Consistent(object.lines \cup {line})
    BY <1>2, <1>4, LineConflict DEF Represents
  <2> QED BY <1>1, <1>4, <2>1 DEF Abandon, LoaderInv
<1>5. CASE /\ stack' = Append(Below, [Top EXCEPT !.object =
                            [dict |-> WithLine(object.dict, line),
                             lines |-> object.lines \cup {line}]])
           /\ UNCHANGED <<app, resolved, refused>>
  <2> DEFINE new == [dict |-> WithLine(object.dict, line), lines |-> object.lines \cup {line}]
  <2>1. new \in SoundObjects
    BY <1>2, LineTables, LineRepresents DEF SoundObjects
  <2> HIDE DEF new
  <2>2. [Top EXCEPT !.object = new] \in SoundConstructors
    BY <1>2, <2>1 DEF SoundConstructors
  <2>3. stack' = Append(Below, [Top EXCEPT !.object = new])
    BY <1>5 DEF new
  <2>4. stack' \in Seq(SoundConstructors)
    BY <1>2, <2>2, <2>3
  <2> QED BY <1>1, <1>5, <2>4 DEF LoaderInv
<1> QED BY <1>3, <1>4, <1>5

LEMMA StepReadOther ==
    LoaderInv /\ (ReadBeginVendor \/ ReadEndVendor \/ ReadInclude \/ ReadUnreadable) => LoaderInv'
<1> SUFFICES ASSUME LoaderInv,
                    ReadBeginVendor \/ ReadEndVendor \/ ReadInclude \/ ReadUnreadable
             PROVE  LoaderInv'
  OBVIOUS
<1>1. stack # <<>> /\ lines' \in 0 .. MaxLines
  BY LoaderAssumption
     DEF ReadBeginVendor, ReadEndVendor, ReadInclude, ReadUnreadable, NextLine, LoaderInv
<1>2. Top \in SoundConstructors /\ Below \in Seq(SoundConstructors)
  BY <1>1, TopSound
<1>3. \A v \in VendorNames \cup {NoVendor} : [Top EXCEPT !.vendor = v] \in SoundConstructors
  BY <1>2 DEF SoundConstructors
<1>4. CASE ReadBeginVendor \/ ReadEndVendor
  <2>1. PICK v \in VendorNames \cup {NoVendor} :
           /\ stack' = Append(Below, [Top EXCEPT !.vendor = v])
           /\ UNCHANGED <<app, resolved, refused>>
    BY <1>4 DEF ReadBeginVendor, ReadEndVendor
  <2>2. stack' \in Seq(SoundConstructors)
    BY <1>2, <1>3, <2>1
  <2> QED BY <1>1, <2>1, <2>2 DEF LoaderInv
<1>5. CASE ReadInclude
  BY <1>1, <1>5, OpenedSound DEF ReadInclude, LoaderInv
<1>6. CASE ReadUnreadable
  BY <1>1, <1>6 DEF ReadUnreadable, Abandon, LoaderInv
<1> QED BY <1>4, <1>5, <1>6

LEMMA StepEndOfIncluded == LoaderInv /\ EndOfIncluded => LoaderInv'
<1> SUFFICES ASSUME LoaderInv, EndOfIncluded PROVE LoaderInv'
  OBVIOUS
<1> DEFINE outer == Below[Len(Below)]
           all == outer.object.lines \cup Top.object.lines
           new == [dict |-> AppendedDictionaries(outer.object.dict, Top.object.dict),
                   lines |-> all]
<1>1. Len(stack) > 1 /\ stack \in Seq(SoundConstructors) /\ lines' = lines
  BY DEF EndOfIncluded, LoaderInv
<1>2. stack # <<>>
  BY <1>1
<1>3. /\ Top.object.dict \in DictionarySet /\ Top.object.lines \in SUBSET Menu
      /\ Represents(Top.object.dict, Top.object.lines)
      /\ Below \in Seq(SoundConstructors) /\ Len(Below) = Len(stack) - 1
  BY <1>2, TopSound
<1>4. Len(Below) \in 1 .. Len(Below) /\ outer \in SoundConstructors
  BY <1>1, <1>3
<1>5. /\ outer.object.dict \in DictionarySet /\ outer.object.lines \in SUBSET Menu
      /\ Represents(outer.object.dict, outer.object.lines)
  BY <1>4 DEF SoundConstructors, SoundObjects
<1>6. CASE AppendThrows(outer.object.dict, Top.object.dict) /\ Abandon(all)
  <2>1. ~Consistent(all)
    BY <1>3, <1>5, <1>6, AppendConflict DEF Represents
  <2> QED BY <1>1, <1>6, <2>1 DEF Abandon, LoaderInv
<1>7. CASE /\ stack' = [Below EXCEPT ![Len(Below)].object = new]
           /\ UNCHANGED <<app, resolved, refused>>
  <2>1. AppendedDictionaries(outer.object.dict, Top.object.dict) \in DictionarySet
    BY <1>3, <1>5, AppendTables
  <2>2. Represents(AppendedDictionaries(outer.object.dict, Top.object.dict), all)
    BY <1>3, <1>5, AppendRepresents
  <2>3. new \in SoundObjects
    BY <1>3, <1>5, <2>1, <2>2 DEF SoundObjects
  <2> HIDE DEF new
  <2>4. [outer EXCEPT !.object = new] \in SoundConstructors
    BY <1>4, <2>3 DEF SoundConstructors
  <2>5. stack' = [Below EXCEPT ![Len(Below)] = [outer EXCEPT !.object = new]]
    BY <1>7
  <2>6. stack' \in Seq(SoundConstructors)
    BY <1>3, <1>4, <2>4, <2>5
  <2> QED BY <1>1, <1>7, <2>6 DEF LoaderInv
<1>8. \/ AppendThrows(outer.object.dict, Top.object.dict) /\ Abandon(all)
      \/ /\ stack' = [Below EXCEPT ![Len(Below)].object = new]
         /\ UNCHANGED <<app, resolved, refused>>
  BY DEF EndOfIncluded
<1> QED BY <1>6, <1>7, <1>8

LEMMA StepConstruct == LoaderInv /\ Construct => LoaderInv'
<1> SUFFICES ASSUME LoaderInv, Construct PROVE LoaderInv'
  OBVIOUS
<1>1. stack # <<>> /\ <<>> \in Seq(SoundConstructors)
  BY DEF Construct
<1>2. Top.object \in SoundObjects
  BY <1>1, TopSound DEF SoundConstructors
<1> QED BY <1>1, <1>2 DEF Construct, LoaderInv

LEMMA StepAppendLoaded == LoaderInv /\ AppendLoaded => LoaderInv'
<1> SUFFICES ASSUME LoaderInv, AppendLoaded PROVE LoaderInv'
  OBVIOUS
<1> DEFINE new == [dict |-> AppendedDictionaries(app.dict, Top.object.dict),
                   lines |-> app.lines \cup Top.object.lines]
<1>1. stack # <<>> /\ <<>> \in Seq(SoundConstructors)
  BY DEF AppendLoaded
<1>2. /\ Top.object.dict \in DictionarySet /\ Top.object.lines \in SUBSET Menu
      /\ Represents(Top.object.dict, Top.object.lines)
  BY <1>1, TopSound
<1>3. app.dict \in DictionarySet /\ app.lines \in SUBSET Menu /\ Represents(app.dict, app.lines)
  BY DEF LoaderInv, SoundObjects
<1>4. AppendedDictionaries(app.dict, Top.object.dict) \in DictionarySet
  BY <1>2, <1>3, AppendTables
<1>5. Represents(AppendedDictionaries(app.dict, Top.object.dict),
                 app.lines \cup Top.object.lines)
  BY <1>2, <1>3, AppendRepresents
<1>6. new \in SoundObjects
  BY <1>2, <1>3, <1>4, <1>5 DEF SoundObjects
<1>7. AppendThrows(app.dict, Top.object.dict) =>
         ~Consistent(app.lines \cup Top.object.lines)
  BY <1>2, <1>3, AppendConflict DEF Represents
<1>8. /\ app' = new /\ resolved' = FALSE /\ stack' = <<>> /\ lines' = lines
      /\ refused' = IF AppendThrows(app.dict, Top.object.dict) THEN new.lines ELSE {}
  BY DEF AppendLoaded
<1> QED BY <1>1, <1>6, <1>7, <1>8 DEF LoaderInv

LEMMA StepResolve == LoaderInv /\ Resolve => LoaderInv'
<1> SUFFICES ASSUME LoaderInv, Resolve PROVE LoaderInv'
  OBVIOUS
<1> DEFINE dict == app.dict
           known == {u \in Unresolved(dict) : VendorKnown(dict, u)}
<1>1. /\ app \in SoundObjects /\ dict \in DictionarySet /\ app.lines \in SUBSET Menu
      /\ Represents(dict, app.lines)
      /\ dict.unresolved \in [UnresolvedKeys -> Types \cup {NoType}]
  BY DEF LoaderInv, SoundObjects, DictionarySet
<1>2. EmptyDictionaries.unresolved \in [UnresolvedKeys -> Types \cup {NoType}]
  BY DEF EmptyDictionaries
<1>3. UNCHANGED <<stack, refused, lines>>
  BY DEF Resolve
<1>4. ASSUME known = Unresolved(dict), NEW types \in TypesAfter(dict, known),
             app' = [app EXCEPT !.dict.types = types,
                                !.dict.unresolved = EmptyDictionaries.unresolved],
             resolved' = TRUE
      PROVE  LoaderInv'
  <2> DEFINE new == [dict EXCEPT !.types = types,
                                 !.unresolved = EmptyDictionaries.unresolved]
  <2>1. new \in DictionarySet /\ Represents(new, app.lines)
    BY <1>1, <1>2, <1>4, ResolveRepresents
  <2>2. new.unresolved = EmptyDictionaries.unresolved
    BY <1>1 DEF DictionarySet
  <2>3. app' = [app EXCEPT !.dict = new]
    BY <1>1, <1>4 DEF SoundObjects
  <2> HIDE DEF new
  <2>4. app' \in SoundObjects /\ app'.dict = new
    BY <1>1, <2>1, <2>3 DEF SoundObjects
  <2> QED BY <1>3, <1>4, <2>2, <2>4 DEF LoaderInv
<1>5. ASSUME known # Unresolved(dict), NEW done \in SUBSET known,
             NEW types \in TypesAfter(dict, done),
             app' = [app EXCEPT !.dict.types = types], resolved' = resolved
      PROVE  LoaderInv'
  <2> DEFINE new == [dict EXCEPT !.types = types, !.unresolved = dict.unresolved]
  <2>1. new \in DictionarySet /\ Represents(new, app.lines)
    BY <1>1, <1>5, ResolveRepresents
  <2>2. new = [dict EXCEPT !.types = types]
    BY <1>1 DEF DictionarySet
  <2>3. app' = [app EXCEPT !.dict = new]
    BY <1>1, <1>5, <2>2 DEF SoundObjects
  <2>4. ~resolved
    <3>1. Unresolved(dict) # {}
      BY <1>5
    <3> QED BY <3>1 DEF LoaderInv, Unresolved, EmptyDictionaries
  <2> HIDE DEF new
  <2>5. app' \in SoundObjects
    BY <1>1, <2>1, <2>3 DEF SoundObjects
  <2> QED BY <1>3, <1>5, <2>4, <2>5 DEF LoaderInv
<1> QED BY <1>4, <1>5 DEF Resolve

LEMMA StepLoader == LoaderInv /\ [Next]_vars => LoaderInv'
<1> SUFFICES ASSUME LoaderInv, [Next]_vars PROVE LoaderInv'
  OBVIOUS
<1>1. CASE UNCHANGED vars
  BY <1>1 DEF LoaderInv, vars
<1> QED BY <1>1, StepOpen, StepReadLine, StepReadOther, StepEndOfIncluded, StepConstruct,
           StepAppendLoaded, StepResolve DEF Next

LEMMA LoaderInvariant == Spec => []LoaderInv
BY InitLoader, StepLoader, PTL DEF Spec

-----------------------------------------------------------------------------
(* The dictionaries of the application and of every file have their types, *)
(* whatever the files hold.                                                *)
THEOREM LoaderTypes == Spec => []TypeOK
<1>1. ASSUME NEW d \in DictionarySet
      PROVE  IsDictionaries(d)
  BY DEF DictionarySet, IsDictionaries, TablesOf, ScopedTablesOf, Attr!Rights, Attr!Reverses,
         Vend!Rights, Vend!Reverses, Val!Rights, Val!Reverses
<1>2. LoaderInv => TypeOK
  <2> SUFFICES ASSUME LoaderInv PROVE TypeOK
    OBVIOUS
  <2>1. app.dict \in DictionarySet
    BY DEF LoaderInv, SoundObjects
  <2>2. ASSUME NEW i \in DOMAIN stack
        PROVE  stack[i].object.dict \in DictionarySet
    <3>1. stack[i] \in SoundConstructors
      BY DEF LoaderInv
    <3> QED BY <3>1 DEF SoundConstructors, SoundObjects
  <2> QED BY <1>1, <2>1, <2>2 DEF LoaderInv, TypeOK
<1> QED BY <1>2, LoaderInvariant, PTL

(* However many files with however many lines are read, included, appended *)
(* and resolved: if no two lines contradict each other, the dictionary says *)
(* what the lines say once resolve() has succeeded.                        *)
THEOREM LoaderLoadsAsWritten == Spec => []LoadedAsWritten
<1>1. LoaderInv => LoadedAsWritten
  <2> SUFFICES ASSUME LoaderInv, resolved, Consistent(app.lines)
               PROVE  app.dict = Meaning(app.lines)
    BY DEF LoadedAsWritten
  <2>1. app.dict \in DictionarySet /\ app.lines \in SUBSET Menu /\ Represents(app.dict, app.lines)
    BY DEF LoaderInv, SoundObjects
  <2>2. app.dict.unresolved = EmptyDictionaries.unresolved
    BY DEF LoaderInv
  <2> QED BY <2>1, <2>2, WholeMeaning
<1> QED BY <1>1, LoaderInvariant, PTL

(* add and append throw only over lines that contradict each other.        *)
THEOREM LoaderOnlyConflictsRefused == Spec => []OnlyConflictsRefused
<1>1. LoaderInv => OnlyConflictsRefused
  BY DEF LoaderInv, OnlyConflictsRefused
<1> QED BY <1>1, LoaderInvariant, PTL

(* A type that is stored comes from an ATTRIBUTE line of that code and     *)
(* vendor, also after an append or a resolve() that threw half way.        *)
THEOREM LoaderTypesHaveSource == Spec => []TypesHaveSource
<1>1. LoaderInv => TypesHaveSource
  BY DEF LoaderInv, TypesHaveSource, SoundObjects, Represents, TypesSourced
<1> QED BY <1>1, LoaderInvariant, PTL

=============================================================================
