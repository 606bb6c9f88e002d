---------------------------- MODULE ServerProofs ----------------------------
(***************************************************************************)
(* Theorems about RadiusServer.tla, for every dictionary file, every list  *)
(* of wanted attributes, every reply and whatever clients send.            *)
(*                                                                         *)
(* The argument goes through what the dictionary is made of: MadeOf(d, S)  *)
(* says that its tables and types are those of the lines S, which reading  *)
(* a line and resolving preserve; once nothing waits to be resolved, every *)
(* lookup means what the lines of the file say (LookupRight).              *)
(***************************************************************************)
EXTENDS RadiusServer, SequenceTheorems, WellFoundedInduction, TLAPS

-----------------------------------------------------------------------------
(* The tables with these codes and names. *)
TablesOf(codes, names) ==
    [right : [codes -> names \cup {NoName}], reverse : [names -> codes \cup {NoCode}]]
ScopedTablesOf(codes, names, scopes) ==
    [right : [scopes -> [codes -> names \cup {NoName}]],
     reverse : [scopes -> [names -> codes \cup {NoCode}]]]
At(t, s) == [right |-> t.right[s], reverse |-> t.reverse[s]]

(* Table t has an entry for each of these lines, and no entry that is not one *)
(* of theirs: lines that contradict each other replace each other's entries. *)
Lists(t, L) ==
    /\ \A c \in DOMAIN t.right :
          t.right[c] # NoName => \E l \in L : l.code = c /\ l.name = t.right[c]
    /\ \A n \in DOMAIN t.reverse :
          t.reverse[n] # NoCode => \E l \in L : l.name = n /\ l.code = t.reverse[n]
    /\ \A l \in L : t.right[l.code] # NoName /\ t.reverse[l.name] # NoCode

(* Table new is table t with an entry for this code and name. *)
Adds(new, t, codes, names, c, n) ==
    /\ new \in TablesOf(codes, names)
    /\ \A k \in codes : new.right[k] = IF k = c THEN n ELSE t.right[k]
    /\ \A m \in names : new.reverse[m] = IF t.reverse[m] # NoCode THEN t.reverse[m]
                                         ELSE IF m = n THEN c ELSE NoCode

(* The two maps of a table. *)
LEMMA TableParts ==
    ASSUME NEW codes, NEW names, NEW t \in TablesOf(codes, names)
    PROVE  /\ t.right \in [codes -> names \cup {NoName}]
           /\ t.reverse \in [names -> codes \cup {NoCode}]
BY DEF TablesOf

(* A table with an entry for one more line lists that line too. *)
LEMMA AddsLists ==
    ASSUME NEW codes, NEW names, NoName \notin names, NoCode \notin codes,
           NEW t \in TablesOf(codes, names), NEW new, NEW L, NEW l,
           l.code \in codes, l.name \in names,
           \A m \in L : m.code \in codes /\ m.name \in names,
           Adds(new, t, codes, names, l.code, l.name), Lists(t, L)
    PROVE  Lists(new, L \cup {l})
<1>1. /\ DOMAIN t.right = codes /\ DOMAIN t.reverse = names
      /\ DOMAIN new.right = codes /\ DOMAIN new.reverse = names
  BY DEF TablesOf, Adds
<1>2. ASSUME NEW c \in codes, new.right[c] # NoName
      PROVE  \E m \in L \cup {l} : m.code = c /\ m.name = new.right[c]
  BY <1>1, <1>2 DEF Adds, Lists
<1>3. ASSUME NEW n \in names, new.reverse[n] # NoCode
      PROVE  \E m \in L \cup {l} : m.name = n /\ m.code = new.reverse[n]
  BY <1>1, <1>3 DEF Adds, Lists
<1>4. ASSUME NEW m \in L \cup {l}
      PROVE  new.right[m.code] # NoName /\ new.reverse[m.name] # NoCode
  BY DEF Adds, Lists
<1> QED BY <1>1, <1>2, <1>3, <1>4 DEF Lists

(* add to the attributes, the vendors and the values of a dictionary. *)
LEMMA AttrAdds ==
    ASSUME NEW t \in TablesOf(AttrCodes, AttrNames), NEW c \in AttrCodes, NEW n \in AttrNames
    PROVE  Adds(Attr!AddedTable(t, c, n), t, AttrCodes, AttrNames, c, n)
BY DictionariesAssumption
   DEF Attr!AddedTable, Attr!Emplaced, Attr!Entry, Attr!EmptyReverse, TablesOf, Adds

LEMMA VendAdds ==
    ASSUME NEW t \in TablesOf(VendorIds, VendorNames), NEW c \in VendorIds, NEW n \in VendorNames
    PROVE  Adds(Vend!AddedTable(t, c, n), t, VendorIds, VendorNames, c, n)
BY DictionariesAssumption
   DEF Vend!AddedTable, Vend!Emplaced, Vend!Entry, Vend!EmptyReverse, TablesOf, Adds

LEMMA ValAdds ==
    ASSUME NEW t \in TablesOf(ValueCodes, ValueNames), NEW c \in ValueCodes, NEW n \in ValueNames
    PROVE  Adds(Val!AddedTable(t, c, n), t, ValueCodes, ValueNames, c, n)
BY DictionariesAssumption
   DEF Val!AddedTable, Val!Emplaced, Val!Entry, Val!EmptyReverse, TablesOf, Adds

(* add in one scope. *)
LEMMA AttrScopedAdds ==
    ASSUME NEW t \in ScopedTablesOf(AttrCodes, AttrNames, VendorNames), NEW s \in VendorNames,
           NEW c \in AttrCodes, NEW n \in AttrNames
    PROVE  /\ Attr!ScopedAddedTable(t, s, c, n)
                 \in ScopedTablesOf(AttrCodes, AttrNames, VendorNames)
           /\ Adds(At(Attr!ScopedAddedTable(t, s, c, n), s), At(t, s), AttrCodes, AttrNames, c, n)
           /\ \A r \in VendorNames \ {s} :
                 At(Attr!ScopedAddedTable(t, s, c, n), r) = At(t, r)
<1> DEFINE new == Attr!ScopedAddedTable(t, s, c, n)
           one == Attr!AddedTable(At(t, s), c, n)
<1>1. At(t, s) \in TablesOf(AttrCodes, AttrNames)
  BY DEF At, TablesOf, ScopedTablesOf
<1>2. one \in TablesOf(AttrCodes, AttrNames) /\ Adds(one, At(t, s), AttrCodes, AttrNames, c, n)
  BY <1>1, AttrAdds DEF Adds
<1>3. /\ one.right = [t.right[s] EXCEPT ![c] = n]
      /\ one.reverse = Attr!Emplaced(t.reverse[s], Attr!Entry(n, c))
      /\ one = [right |-> one.right, reverse |-> one.reverse]
  BY DEF Attr!AddedTable, At
<1>4. /\ new = [right |-> new.right, reverse |-> new.reverse]
      /\ new.right = [t.right EXCEPT ![s] = [t.right[s] EXCEPT ![c] = n]]
      /\ new.reverse = [t.reverse EXCEPT ![s] = Attr!Emplaced(t.reverse[s], Attr!Entry(n, c))]
  BY DEF Attr!ScopedAddedTable
<1> HIDE DEF new, one
<1>5. /\ new.right = [t.right EXCEPT ![s] = one.right]
      /\ new.reverse = [t.reverse EXCEPT ![s] = one.reverse]
  BY <1>3, <1>4
<1>6. new \in ScopedTablesOf(AttrCodes, AttrNames, VendorNames)
  <2>1. /\ t.right \in [VendorNames -> [AttrCodes -> AttrNames \cup {NoName}]]
        /\ one.right \in [AttrCodes -> AttrNames \cup {NoName}]
    BY <1>2 DEF TablesOf, ScopedTablesOf
  <2>2. /\ t.reverse \in [VendorNames -> [AttrNames -> AttrCodes \cup {NoCode}]]
        /\ one.reverse \in [AttrNames -> AttrCodes \cup {NoCode}]
    BY <1>2 DEF TablesOf, ScopedTablesOf
  <2>3. new.right \in [VendorNames -> [AttrCodes -> AttrNames \cup {NoName}]]
    BY <1>5, <2>1
  <2>4. new.reverse \in [VendorNames -> [AttrNames -> AttrCodes \cup {NoCode}]]
    BY <1>5, <2>2
  <2> QED BY <1>4, <2>3, <2>4, Zenon DEF ScopedTablesOf
<1>7. At(new, s) = one
  BY <1>3, <1>5 DEF At, ScopedTablesOf
<1>8. \A r \in VendorNames \ {s} : At(new, r) = At(t, r)
  BY <1>5 DEF At, ScopedTablesOf
<1> QED BY <1>2, <1>6, <1>7, <1>8 DEF new

(* The same for the values, whose scopes are attributes. *)
LEMMA ValScopedAdds ==
    ASSUME NEW t \in ScopedTablesOf(ValueCodes, ValueNames, AttrNames), NEW s \in AttrNames,
           NEW c \in ValueCodes, NEW n \in ValueNames
    PROVE  /\ Val!ScopedAddedTable(t, s, c, n)
                 \in ScopedTablesOf(ValueCodes, ValueNames, AttrNames)
           /\ Adds(At(Val!ScopedAddedTable(t, s, c, n), s), At(t, s), ValueCodes, ValueNames, c, n)
           /\ \A r \in AttrNames \ {s} :
                 At(Val!ScopedAddedTable(t, s, c, n), r) = At(t, r)
<1> DEFINE new == Val!ScopedAddedTable(t, s, c, n)
           one == Val!AddedTable(At(t, s), c, n)
<1>1. At(t, s) \in TablesOf(ValueCodes, ValueNames)
  BY DEF At, TablesOf, ScopedTablesOf
<1>2. one \in TablesOf(ValueCodes, ValueNames) /\ Adds(one, At(t, s), ValueCodes, ValueNames, c, n)
  BY <1>1, ValAdds DEF Adds
<1>3. /\ one.right = [t.right[s] EXCEPT ![c] = n]
      /\ one.reverse = Val!Emplaced(t.reverse[s], Val!Entry(n, c))
      /\ one = [right |-> one.right, reverse |-> one.reverse]
  BY DEF Val!AddedTable, At
<1>4. /\ new = [right |-> new.right, reverse |-> new.reverse]
      /\ new.right = [t.right EXCEPT ![s] = [t.right[s] EXCEPT ![c] = n]]
      /\ new.reverse = [t.reverse EXCEPT ![s] = Val!Emplaced(t.reverse[s], Val!Entry(n, c))]
  BY DEF Val!ScopedAddedTable
<1> HIDE DEF new, one
<1>5. /\ new.right = [t.right EXCEPT ![s] = one.right]
      /\ new.reverse = [t.reverse EXCEPT ![s] = one.reverse]
  BY <1>3, <1>4
<1>6. new \in ScopedTablesOf(ValueCodes, ValueNames, AttrNames)
  <2>1. /\ t.right \in [AttrNames -> [ValueCodes -> ValueNames \cup {NoName}]]
        /\ one.right \in [ValueCodes -> ValueNames \cup {NoName}]
    BY <1>2 DEF TablesOf, ScopedTablesOf
  <2>2. /\ t.reverse \in [AttrNames -> [ValueNames -> ValueCodes \cup {NoCode}]]
        /\ one.reverse \in [ValueNames -> ValueCodes \cup {NoCode}]
    BY <1>2 DEF TablesOf, ScopedTablesOf
  <2>3. new.right \in [AttrNames -> [ValueCodes -> ValueNames \cup {NoName}]]
    BY <1>5, <2>1
  <2>4. new.reverse \in [AttrNames -> [ValueNames -> ValueCodes \cup {NoCode}]]
    BY <1>5, <2>2
  <2> QED BY <1>4, <2>3, <2>4, Zenon DEF ScopedTablesOf
<1>7. At(new, s) = one
  BY <1>3, <1>5 DEF At, ScopedTablesOf
<1>8. \A r \in AttrNames \ {s} : At(new, r) = At(t, r)
  BY <1>5 DEF At, ScopedTablesOf
<1> QED BY <1>2, <1>6, <1>7, <1>8 DEF new

-----------------------------------------------------------------------------
(* The lines of a set that belong to one table, and the types they give a key. *)
KindIn(S, kind) == {l \in S : l.kind = kind}
AttributesIn(S, vendor) == {l \in S : l.kind = "ATTRIBUTE" /\ l.vendor = vendor}
ValuesIn(S, ofVendor, attribute) ==
    {l \in S : l.kind = "VALUE" /\ l.ofVendor = ofVendor /\ l.attribute = attribute}
GivesKey(S, l, k) ==
    /\ l \in S /\ l.kind = "ATTRIBUTE" /\ ByteOf(l.code) = k[1]
    /\ \/ l.vendor = NoVendor /\ k[2] = 0
       \/ \E v \in S : v.kind = "VENDOR" /\ v.name = l.vendor /\ v.code = k[2]

(* The dictionaries. *)
DictionarySet ==
    [attributes : TablesOf(AttrCodes, AttrNames),
     vendorNames : TablesOf(VendorIds, VendorNames),
     attributeValues : ScopedTablesOf(ValueCodes, ValueNames, AttrNames),
     vendorAttributes : ScopedTablesOf(AttrCodes, AttrNames, VendorNames),
     vendorAttributeValues : ScopedTablesOf(ValueCodes, ValueNames, AttrNames),
     types : [Keys -> Types \cup {NoType}],
     unresolved : [UnresolvedKeys -> Types \cup {NoType}]]

(* The type of a line is stored or waits for the number of its vendor. *)
TypeStored(d, l) ==
    \/ l.vendor = NoVendor /\ d.types[<<ByteOf(l.code), 0>>] # NoType
    \/ /\ l.vendor # NoVendor /\ d.vendorNames.reverse[l.vendor] # NoCode
       /\ d.types[<<ByteOf(l.code), d.vendorNames.reverse[l.vendor]>>] # NoType
TypeWaits(d, l) ==
    l.vendor # NoVendor /\ d.unresolved[<<ByteOf(l.code), l.vendor>>] # NoType

(* The five tables, and the types, are those of the lines of S. *)
TablesListed(d, S) ==
    /\ Lists(d.attributes, AttributesIn(S, NoVendor))
    /\ Lists(d.vendorNames, KindIn(S, "VENDOR"))
    /\ \A v \in VendorNames : Lists(At(d.vendorAttributes, v), AttributesIn(S, v))
    /\ \A a \in AttrNames : Lists(At(d.attributeValues, a), ValuesIn(S, FALSE, a))
    /\ \A a \in AttrNames : Lists(At(d.vendorAttributeValues, a), ValuesIn(S, TRUE, a))
TypesGiven(d, S) ==
    \A k \in Keys : d.types[k] # NoType => \E l \in S : GivesKey(S, l, k) /\ l.type = d.types[k]
WaitingGiven(d, S) ==
    \A u \in UnresolvedKeys : d.unresolved[u] # NoType =>
        \E l \in AttributesIn(S, u[2]) : ByteOf(l.code) = u[1] /\ l.type = d.unresolved[u]
TypesKept(d, S) ==
    \A l \in KindIn(S, "ATTRIBUTE") : TypeStored(d, l) \/ TypeWaits(d, l)
MadeOf(d, S) ==
    /\ d \in DictionarySet /\ S \subseteq Lines
    /\ TablesListed(d, S) /\ TypesGiven(d, S) /\ WaitingGiven(d, S) /\ TypesKept(d, S)

(* The fields of a line have the types of its kind. *)
LEMMA LineKinds ==
    ASSUME NEW l \in Lines
    PROVE  /\ l.kind \in {"VENDOR", "ATTRIBUTE", "VALUE"}
           /\ l.kind = "VENDOR" => l.name \in VendorNames /\ l.code \in VendorIds
           /\ l.kind = "ATTRIBUTE" =>
                 /\ l.vendor \in VendorNames \cup {NoVendor}
                 /\ l.name \in AttrNames /\ l.code \in AttrCodes /\ l.type \in Types
           /\ l.kind = "VALUE" =>
                 /\ l.ofVendor \in BOOLEAN /\ l.attribute \in AttrNames
                 /\ l.name \in ValueNames /\ l.code \in ValueCodes
<1>1. CASE l \in VendorLines
  BY <1>1 DEF VendorLines
<1>2. ASSUME NEW v \in VendorNames \cup {NoVendor}, l \in AttributeLines(v)
      PROVE  l.kind = "ATTRIBUTE" /\ l.vendor \in VendorNames \cup {NoVendor}
             /\ l.name \in AttrNames /\ l.code \in AttrCodes /\ l.type \in Types
  BY <1>2 DEF AttributeLines
<1>3. ASSUME NEW v \in VendorNames \cup {NoVendor}, l \in ValueLines(v)
      PROVE  l.kind = "VALUE" /\ l.ofVendor \in BOOLEAN /\ l.attribute \in AttrNames
             /\ l.name \in ValueNames /\ l.code \in ValueCodes
  BY <1>3 DEF ValueLines
<1>4. CASE \E v \in VendorNames \cup {NoVendor} : l \in AttributeLines(v)
  <2>1. l.kind = "ATTRIBUTE" /\ l.vendor \in VendorNames \cup {NoVendor}
        /\ l.name \in AttrNames /\ l.code \in AttrCodes /\ l.type \in Types
    BY <1>2, <1>4
  <2> QED BY <2>1
<1>5. CASE \E v \in VendorNames \cup {NoVendor} : l \in ValueLines(v)
  <2>1. l.kind = "VALUE" /\ l.ofVendor \in BOOLEAN /\ l.attribute \in AttrNames
        /\ l.name \in ValueNames /\ l.code \in ValueCodes
    BY <1>3, <1>5
  <2> QED BY <2>1
<1>6. \/ l \in VendorLines
      \/ \E v \in VendorNames \cup {NoVendor} : l \in AttributeLines(v) \cup ValueLines(v)
  BY DEF Lines
<1> QED BY <1>1, <1>4, <1>5, <1>6

(* The empty dictionaries are made of no lines. *)
LEMMA EmptyMade == MadeOf(EmptyDictionaries, {})
<1>1. /\ Attr!EmptyTable \in TablesOf(AttrCodes, AttrNames)
      /\ Vend!EmptyTable \in TablesOf(VendorIds, VendorNames)
      /\ Val!EmptyScopedTable \in ScopedTablesOf(ValueCodes, ValueNames, AttrNames)
      /\ Attr!EmptyScopedTable \in ScopedTablesOf(AttrCodes, AttrNames, VendorNames)
  BY DEF TablesOf, ScopedTablesOf, Attr!EmptyTable, Vend!EmptyTable, Val!EmptyScopedTable,
         Attr!EmptyScopedTable, Attr!EmptyRight, Attr!EmptyReverse, Vend!EmptyRight,
         Vend!EmptyReverse, Val!EmptyScopedRight, Val!EmptyScopedReverse, Val!EmptyRight,
         Val!EmptyReverse, Attr!EmptyScopedRight, Attr!EmptyScopedReverse
<1>2. EmptyDictionaries \in DictionarySet
  BY <1>1 DEF DictionarySet, EmptyDictionaries
<1>3. ASSUME NEW v \in VendorNames
      PROVE  Lists(At(Attr!EmptyScopedTable, v), {})
  BY <1>3 DEF Lists, At, Attr!EmptyScopedTable, Attr!EmptyScopedRight,
         Attr!EmptyScopedReverse, Attr!EmptyRight, Attr!EmptyReverse
<1>4. ASSUME NEW a \in AttrNames
      PROVE  Lists(At(Val!EmptyScopedTable, a), {})
  BY <1>4 DEF Lists, At, Val!EmptyScopedTable, Val!EmptyScopedRight,
         Val!EmptyScopedReverse, Val!EmptyRight, Val!EmptyReverse
<1>5. Lists(Attr!EmptyTable, {}) /\ Lists(Vend!EmptyTable, {})
  BY DEF Lists, Attr!EmptyTable, Vend!EmptyTable, Attr!EmptyRight, Attr!EmptyReverse,
         Vend!EmptyRight, Vend!EmptyReverse
<1>6. /\ KindIn({}, "VENDOR") = {} /\ KindIn({}, "ATTRIBUTE") = {}
      /\ \A v : AttributesIn({}, v) = {}
      /\ \A b, a : ValuesIn({}, b, a) = {}
  BY DEF KindIn, AttributesIn, ValuesIn
<1>7. TablesListed(EmptyDictionaries, {})
  BY <1>3, <1>4, <1>5, <1>6 DEF TablesListed, EmptyDictionaries
<1>8. /\ TypesGiven(EmptyDictionaries, {}) /\ WaitingGiven(EmptyDictionaries, {})
      /\ TypesKept(EmptyDictionaries, {})
  BY <1>6 DEF TypesGiven, WaitingGiven, TypesKept, EmptyDictionaries
<1> QED BY <1>2, <1>7, <1>8 DEF MadeOf

(* The type of an ATTRIBUTE line is stored or waits, and no other type is  *)
(* changed.                                                                *)
LEMMA LineTypes ==
    ASSUME NEW d \in DictionarySet, NEW l \in Lines, l.kind = "ATTRIBUTE"
    PROVE  /\ WithType(d, l) = [d EXCEPT !.types = WithType(d, l).types,
                                         !.unresolved = WithType(d, l).unresolved]
           /\ WithType(d, l).types \in [Keys -> Types \cup {NoType}]
           /\ WithType(d, l).unresolved \in [UnresolvedKeys -> Types \cup {NoType}]
           /\ WithType(d, l).vendorNames = d.vendorNames
           /\ \A k \in Keys :
                 \/ WithType(d, l).types[k] = d.types[k]
                 \/ /\ d.types[k] = NoType
                    /\ WithType(d, l).types[k] = l.type /\ k[1] = ByteOf(l.code)
                    /\ \/ l.vendor = NoVendor /\ k[2] = 0
                       \/ /\ l.vendor # NoVendor
                          /\ d.vendorNames.reverse[l.vendor] \in VendorIds
                          /\ k[2] = d.vendorNames.reverse[l.vendor]
           /\ \A u \in UnresolvedKeys :
                 \/ WithType(d, l).unresolved[u] = d.unresolved[u]
                 \/ /\ d.unresolved[u] = NoType
                    /\ WithType(d, l).unresolved[u] = l.type
                    /\ l.vendor # NoVendor /\ u = <<ByteOf(l.code), l.vendor>>
           /\ TypeStored(WithType(d, l), l) \/ TypeWaits(WithType(d, l), l)
<1> DEFINE id == IF l.vendor = NoVendor THEN 0 ELSE d.vendorNames.reverse[l.vendor]
           byte == ByteOf(l.code)
           new == WithType(d, l)
<1>1. /\ l.code \in AttrCodes /\ l.type \in Types /\ l.type # NoType
      /\ l.vendor = NoVendor \/ l.vendor \in VendorNames
  BY LineKinds, DictionariesAssumption
<1>2. /\ d.types \in [Keys -> Types \cup {NoType}]
      /\ d.unresolved \in [UnresolvedKeys -> Types \cup {NoType}]
      /\ l.vendor # NoVendor => d.vendorNames.reverse[l.vendor] \in VendorIds \cup {NoCode}
  <2>1. /\ d.types \in [Keys -> Types \cup {NoType}]
        /\ d.unresolved \in [UnresolvedKeys -> Types \cup {NoType}]
        /\ d.vendorNames \in TablesOf(VendorIds, VendorNames)
    BY DEF DictionarySet
  <2>2. d.vendorNames.reverse \in [VendorNames -> VendorIds \cup {NoCode}]
    BY <2>1, TableParts, Zenon
  <2> QED BY <1>1, <2>1, <2>2
<1>3. CASE id # NoCode
  <2>1. new = [d EXCEPT !.types = EmplaceType(d.types, <<byte, id>>, l.type)]
    BY <1>3 DEF WithType
  <2>2. <<byte, id>> \in Keys /\ (l.vendor = NoVendor \/ id \in VendorIds)
    BY <1>1, <1>2, <1>3 DEF Keys
  <2>3. /\ new.types = [d.types EXCEPT ![<<byte, id>>] =
                           IF d.types[<<byte, id>>] = NoType THEN l.type
                           ELSE d.types[<<byte, id>>]]
        /\ new.unresolved = d.unresolved /\ new.vendorNames = d.vendorNames
    BY <2>1 DEF EmplaceType, DictionarySet
  <2>4. new = [d EXCEPT !.types = new.types, !.unresolved = new.unresolved]
    BY <2>1, <2>3 DEF DictionarySet
  <2>5. new.types \in [Keys -> Types \cup {NoType}]
    BY <1>1, <1>2, <2>2, <2>3
  <2>6. ASSUME NEW k \in Keys
        PROVE  \/ new.types[k] = d.types[k]
               \/ d.types[k] = NoType /\ new.types[k] = l.type /\ k = <<byte, id>>
    BY <1>2, <2>2, <2>3
  <2>7. new.types[<<byte, id>>] # NoType
    BY <1>1, <1>2, <2>2, <2>3
  <2>8. TypeStored(new, l)
    BY <1>3, <2>3, <2>7 DEF TypeStored
  <2>9. ASSUME NEW k \in Keys, k = <<byte, id>>
        PROVE  /\ k[1] = ByteOf(l.code)
               /\ \/ l.vendor = NoVendor /\ k[2] = 0
                  \/ /\ l.vendor # NoVendor
                     /\ d.vendorNames.reverse[l.vendor] \in VendorIds
                     /\ k[2] = d.vendorNames.reverse[l.vendor]
    BY <2>2, <2>9
  <2> HIDE DEF new
  <2>10. new.unresolved \in [UnresolvedKeys -> Types \cup {NoType}]
    BY <1>2, <2>3
  <2> QED BY <2>3, <2>4, <2>5, <2>6, <2>8, <2>9, <2>10 DEF new
<1>4. CASE id = NoCode
  <2>1. l.vendor \in VendorNames /\ l.vendor # NoVendor
    BY <1>1, <1>4, DictionariesAssumption
  <2>2. <<byte, l.vendor>> \in UnresolvedKeys
    BY <1>1, <2>1 DEF UnresolvedKeys
  <2>3. new = [d EXCEPT !.unresolved = EmplaceType(d.unresolved, <<byte, l.vendor>>, l.type)]
    BY <1>4 DEF WithType
  <2>4. /\ new.unresolved = [d.unresolved EXCEPT ![<<byte, l.vendor>>] =
                                IF d.unresolved[<<byte, l.vendor>>] = NoType THEN l.type
                                ELSE d.unresolved[<<byte, l.vendor>>]]
        /\ new.types = d.types /\ new.vendorNames = d.vendorNames
    BY <2>3 DEF EmplaceType, DictionarySet
  <2>5. new = [d EXCEPT !.types = new.types, !.unresolved = new.unresolved]
    BY <2>3, <2>4 DEF DictionarySet
  <2>6. new.unresolved \in [UnresolvedKeys -> Types \cup {NoType}]
    BY <1>1, <1>2, <2>2, <2>4
  <2>7. ASSUME NEW u \in UnresolvedKeys
        PROVE  \/ new.unresolved[u] = d.unresolved[u]
               \/ /\ d.unresolved[u] = NoType /\ new.unresolved[u] = l.type
                  /\ u = <<byte, l.vendor>>
    BY <1>2, <2>2, <2>4
  <2>8. new.unresolved[<<byte, l.vendor>>] # NoType
    BY <1>1, <1>2, <2>2, <2>4
  <2>9. TypeWaits(new, l)
    BY <2>1, <2>8 DEF TypeWaits
  <2> HIDE DEF new
  <2>10. new.types \in [Keys -> Types \cup {NoType}]
    BY <1>2, <2>4
  <2> QED BY <2>1, <2>4, <2>5, <2>6, <2>7, <2>9, <2>10 DEF new
<1> QED BY <1>3, <1>4

-----------------------------------------------------------------------------
(* The lines of each table have the codes and names of that table. *)
LEMMA MadeOfLines ==
    ASSUME NEW d, NEW S, MadeOf(d, S)
    PROVE  /\ \A l \in KindIn(S, "VENDOR") : l.code \in VendorIds /\ l.name \in VendorNames
           /\ \A v : \A l \in AttributesIn(S, v) : l.code \in AttrCodes /\ l.name \in AttrNames
           /\ \A b, a : \A l \in ValuesIn(S, b, a) : l.code \in ValueCodes /\ l.name \in ValueNames
<1>1. \A l \in S : l \in Lines
  BY DEF MadeOf
<1> QED BY <1>1, LineKinds DEF KindIn, AttributesIn, ValuesIn

(* A line that is read: the tables are those of one line more. *)
LEMMA LineListed ==
    ASSUME NEW d, NEW S, NEW l \in Lines, MadeOf(d, S)
    PROVE  /\ WithLine(d, l) \in DictionarySet
           /\ TablesListed(WithLine(d, l), S \cup {l})
           /\ \A v \in VendorNames : d.vendorNames.reverse[v] # NoCode =>
                 WithLine(d, l).vendorNames.reverse[v] = d.vendorNames.reverse[v]
           /\ l.kind # "ATTRIBUTE" => /\ WithLine(d, l).types = d.types
                                      /\ WithLine(d, l).unresolved = d.unresolved
           /\ l.kind = "ATTRIBUTE" =>
                 \E t \in DictionarySet :
                    /\ t.vendorNames = d.vendorNames /\ t.types = d.types
                    /\ t.unresolved = d.unresolved /\ WithLine(d, l) = WithType(t, l)
<1> DEFINE new == WithLine(d, l)
<1>0. /\ d \in DictionarySet /\ TablesListed(d, S)
      /\ \A m \in KindIn(S, "VENDOR") : m.code \in VendorIds /\ m.name \in VendorNames
      /\ \A v : \A m \in AttributesIn(S, v) : m.code \in AttrCodes /\ m.name \in AttrNames
      /\ \A b, a : \A m \in ValuesIn(S, b, a) : m.code \in ValueCodes /\ m.name \in ValueNames
  BY MadeOfLines DEF MadeOf
<1>00. /\ NoName \notin AttrNames /\ NoCode \notin AttrCodes
       /\ NoName \notin VendorNames /\ NoCode \notin VendorIds
       /\ NoName \notin ValueNames /\ NoCode \notin ValueCodes
       /\ NoVendor \notin VendorNames
  BY DictionariesAssumption
<1>1. CASE l.kind = "VENDOR"
  <2> DEFINE table == Vend!AddedTable(d.vendorNames, l.code, l.name)
  <2>1. /\ l.name \in VendorNames /\ l.code \in VendorIds
        /\ d.vendorNames \in TablesOf(VendorIds, VendorNames)
    BY <1>0, <1>1, LineKinds DEF DictionarySet
  <2>2. Adds(table, d.vendorNames, VendorIds, VendorNames, l.code, l.name)
    BY <2>1, VendAdds
  <2> HIDE DEF table
  <2>3. table \in TablesOf(VendorIds, VendorNames)
        /\ \A v \in VendorNames : d.vendorNames.reverse[v] # NoCode =>
              table.reverse[v] = d.vendorNames.reverse[v]
    BY <2>2 DEF Adds
  <2>4. Lists(table, KindIn(S, "VENDOR") \cup {l})
    BY <1>0, <1>00, <2>1, <2>2, AddsLists DEF TablesListed
  <2>5. new = [d EXCEPT !.vendorNames = table]
    BY <1>1 DEF WithLine, table
  <2>6. /\ new \in DictionarySet /\ new.vendorNames = table
        /\ new.attributes = d.attributes /\ new.attributeValues = d.attributeValues
        /\ new.vendorAttributes = d.vendorAttributes
        /\ new.vendorAttributeValues = d.vendorAttributeValues
        /\ new.types = d.types /\ new.unresolved = d.unresolved
    BY <1>0, <2>3, <2>5 DEF DictionarySet
  <2> HIDE DEF new
  <2>7. /\ KindIn(S \cup {l}, "VENDOR") = KindIn(S, "VENDOR") \cup {l}
        /\ \A v : AttributesIn(S \cup {l}, v) = AttributesIn(S, v)
        /\ \A b, a : ValuesIn(S \cup {l}, b, a) = ValuesIn(S, b, a)
    BY <1>1 DEF KindIn, AttributesIn, ValuesIn
  <2>8. TablesListed(new, S \cup {l})
    BY <1>0, <2>4, <2>6, <2>7 DEF TablesListed
  <2> QED BY <1>1, <2>3, <2>6, <2>8 DEF new
<1>2. CASE l.kind = "ATTRIBUTE" /\ l.vendor = NoVendor
  <2> DEFINE table == Attr!AddedTable(d.attributes, l.code, l.name)
             t == [d EXCEPT !.attributes = table]
  <2>1. /\ l.name \in AttrNames /\ l.code \in AttrCodes
        /\ d.attributes \in TablesOf(AttrCodes, AttrNames)
    BY <1>0, <1>2, LineKinds DEF DictionarySet
  <2>2. Adds(table, d.attributes, AttrCodes, AttrNames, l.code, l.name)
    BY <2>1, AttrAdds
  <2> HIDE DEF table
  <2>3. table \in TablesOf(AttrCodes, AttrNames)
    BY <2>2 DEF Adds
  <2>4. Lists(table, AttributesIn(S, NoVendor) \cup {l})
    BY <1>0, <1>00, <2>1, <2>2, AddsLists DEF TablesListed
  <2>5. new = WithType(t, l)
    BY <1>2 DEF WithLine, table
  <2>6. /\ t \in DictionarySet /\ t.attributes = table
        /\ t.vendorNames = d.vendorNames /\ t.attributeValues = d.attributeValues
        /\ t.vendorAttributes = d.vendorAttributes
        /\ t.vendorAttributeValues = d.vendorAttributeValues
        /\ t.types = d.types /\ t.unresolved = d.unresolved
    BY <1>0, <2>3 DEF DictionarySet
  <2> HIDE DEF t, new
  <2>7. /\ new = [t EXCEPT !.types = new.types, !.unresolved = new.unresolved]
        /\ new.types \in [Keys -> Types \cup {NoType}]
        /\ new.unresolved \in [UnresolvedKeys -> Types \cup {NoType}]
    BY <1>2, <2>5, <2>6, LineTypes
  <2>8. /\ new \in DictionarySet /\ new.attributes = table
        /\ new.vendorNames = d.vendorNames /\ new.attributeValues = d.attributeValues
        /\ new.vendorAttributes = d.vendorAttributes
        /\ new.vendorAttributeValues = d.vendorAttributeValues
    BY <2>6, <2>7 DEF DictionarySet
  <2>9. /\ AttributesIn(S \cup {l}, NoVendor) = AttributesIn(S, NoVendor) \cup {l}
        /\ \A v \in VendorNames : AttributesIn(S \cup {l}, v) = AttributesIn(S, v)
        /\ KindIn(S \cup {l}, "VENDOR") = KindIn(S, "VENDOR")
        /\ \A b, a : ValuesIn(S \cup {l}, b, a) = ValuesIn(S, b, a)
    BY <1>00, <1>2 DEF KindIn, AttributesIn, ValuesIn
  <2>10. TablesListed(new, S \cup {l})
    BY <1>0, <2>4, <2>8, <2>9 DEF TablesListed
  <2>11. \E x \in DictionarySet :
            /\ x.vendorNames = d.vendorNames /\ x.types = d.types
            /\ x.unresolved = d.unresolved /\ new = WithType(x, l)
    BY <2>5, <2>6
  <2> QED BY <1>2, <2>8, <2>10, <2>11 DEF new
<1>3. CASE l.kind = "ATTRIBUTE" /\ l.vendor # NoVendor
  <2> DEFINE table == Attr!ScopedAddedTable(d.vendorAttributes, l.vendor, l.code, l.name)
             t == [d EXCEPT !.vendorAttributes = table]
  <2>1. /\ l.name \in AttrNames /\ l.code \in AttrCodes /\ l.vendor \in VendorNames
        /\ d.vendorAttributes \in ScopedTablesOf(AttrCodes, AttrNames, VendorNames)
    BY <1>0, <1>3, LineKinds DEF DictionarySet
  <2>2. /\ table \in ScopedTablesOf(AttrCodes, AttrNames, VendorNames)
        /\ Adds(At(table, l.vendor), At(d.vendorAttributes, l.vendor),
                AttrCodes, AttrNames, l.code, l.name)
        /\ \A s \in VendorNames \ {l.vendor} : At(table, s) = At(d.vendorAttributes, s)
    BY <2>1, AttrScopedAdds
  <2> HIDE DEF table
  <2>3. At(d.vendorAttributes, l.vendor) \in TablesOf(AttrCodes, AttrNames)
    BY <2>1 DEF At, TablesOf, ScopedTablesOf
  <2>4. Lists(At(table, l.vendor), AttributesIn(S, l.vendor) \cup {l})
    BY <1>0, <1>00, <2>1, <2>2, <2>3, AddsLists DEF TablesListed
  <2>5. new = WithType(t, l)
    BY <1>3 DEF WithLine, table
  <2>6. /\ t \in DictionarySet /\ t.vendorAttributes = table
        /\ t.vendorNames = d.vendorNames /\ t.attributeValues = d.attributeValues
        /\ t.attributes = d.attributes
        /\ t.vendorAttributeValues = d.vendorAttributeValues
        /\ t.types = d.types /\ t.unresolved = d.unresolved
    BY <1>0, <2>2 DEF DictionarySet
  <2> HIDE DEF t, new
  <2>7. /\ new = [t EXCEPT !.types = new.types, !.unresolved = new.unresolved]
        /\ new.types \in [Keys -> Types \cup {NoType}]
        /\ new.unresolved \in [UnresolvedKeys -> Types \cup {NoType}]
    BY <1>3, <2>5, <2>6, LineTypes
  <2>8. /\ new \in DictionarySet /\ new.vendorAttributes = table
        /\ new.vendorNames = d.vendorNames /\ new.attributeValues = d.attributeValues
        /\ new.attributes = d.attributes
        /\ new.vendorAttributeValues = d.vendorAttributeValues
    BY <2>6, <2>7 DEF DictionarySet
  <2>9. /\ AttributesIn(S \cup {l}, l.vendor) = AttributesIn(S, l.vendor) \cup {l}
        /\ \A v \in VendorNames \ {l.vendor} : AttributesIn(S \cup {l}, v) = AttributesIn(S, v)
        /\ AttributesIn(S \cup {l}, NoVendor) = AttributesIn(S, NoVendor)
        /\ KindIn(S \cup {l}, "VENDOR") = KindIn(S, "VENDOR")
        /\ \A b, a : ValuesIn(S \cup {l}, b, a) = ValuesIn(S, b, a)
    BY <1>00, <1>3 DEF KindIn, AttributesIn, ValuesIn
  <2>10. ASSUME NEW v \in VendorNames
        PROVE  Lists(At(table, v), AttributesIn(S \cup {l}, v))
    <3>1. CASE v = l.vendor
      BY <2>4, <2>9, <3>1
    <3>2. CASE v # l.vendor
      BY <1>0, <2>2, <2>9, <3>2 DEF TablesListed
    <3> QED BY <3>1, <3>2
  <2>11. TablesListed(new, S \cup {l})
    BY <1>0, <2>8, <2>9, <2>10 DEF TablesListed
  <2>12. \E x \in DictionarySet :
            /\ x.vendorNames = d.vendorNames /\ x.types = d.types
            /\ x.unresolved = d.unresolved /\ new = WithType(x, l)
    BY <2>5, <2>6
  <2> QED BY <1>3, <2>8, <2>11, <2>12 DEF new
<1>4. CASE l.kind = "VALUE" /\ ~l.ofVendor
  <2> DEFINE table == Val!ScopedAddedTable(d.attributeValues, l.attribute, l.code, l.name)
  <2>1. /\ l.name \in ValueNames /\ l.code \in ValueCodes /\ l.attribute \in AttrNames
        /\ d.attributeValues \in ScopedTablesOf(ValueCodes, ValueNames, AttrNames)
        /\ l.ofVendor = FALSE
    BY <1>0, <1>4, LineKinds DEF DictionarySet
  <2>2. /\ table \in ScopedTablesOf(ValueCodes, ValueNames, AttrNames)
        /\ Adds(At(table, l.attribute), At(d.attributeValues, l.attribute),
                ValueCodes, ValueNames, l.code, l.name)
        /\ \A s \in AttrNames \ {l.attribute} : At(table, s) = At(d.attributeValues, s)
    BY <2>1, ValScopedAdds
  <2> HIDE DEF table
  <2>3. At(d.attributeValues, l.attribute) \in TablesOf(ValueCodes, ValueNames)
    BY <2>1 DEF At, TablesOf, ScopedTablesOf
  <2>4. Lists(At(table, l.attribute), ValuesIn(S, FALSE, l.attribute) \cup {l})
    BY <1>0, <1>00, <2>1, <2>2, <2>3, AddsLists DEF TablesListed
  <2>5. new = [d EXCEPT !.attributeValues = table]
    BY <1>4 DEF WithLine, table
  <2>6. /\ new \in DictionarySet /\ new.attributeValues = table
        /\ new.attributes = d.attributes /\ new.vendorNames = d.vendorNames
        /\ new.vendorAttributes = d.vendorAttributes
        /\ new.vendorAttributeValues = d.vendorAttributeValues
        /\ new.types = d.types /\ new.unresolved = d.unresolved
    BY <1>0, <2>2, <2>5 DEF DictionarySet
  <2> HIDE DEF new
  <2>7. /\ ValuesIn(S \cup {l}, FALSE, l.attribute) = ValuesIn(S, FALSE, l.attribute) \cup {l}
        /\ \A a \in AttrNames \ {l.attribute} :
              ValuesIn(S \cup {l}, FALSE, a) = ValuesIn(S, FALSE, a)
        /\ \A a : ValuesIn(S \cup {l}, TRUE, a) = ValuesIn(S, TRUE, a)
        /\ KindIn(S \cup {l}, "VENDOR") = KindIn(S, "VENDOR")
        /\ \A v : AttributesIn(S \cup {l}, v) = AttributesIn(S, v)
    BY <1>4, <2>1 DEF KindIn, AttributesIn, ValuesIn
  <2>8. ASSUME NEW a \in AttrNames
        PROVE  Lists(At(table, a), ValuesIn(S \cup {l}, FALSE, a))
    <3>1. CASE a = l.attribute
      BY <2>4, <2>7, <3>1
    <3>2. CASE a # l.attribute
      BY <1>0, <2>2, <2>7, <3>2 DEF TablesListed
    <3> QED BY <3>1, <3>2
  <2>9. TablesListed(new, S \cup {l})
    BY <1>0, <2>6, <2>7, <2>8 DEF TablesListed
  <2> QED BY <1>4, <2>6, <2>9 DEF new
<1>5. CASE l.kind = "VALUE" /\ l.ofVendor
  <2> DEFINE table == Val!ScopedAddedTable(d.vendorAttributeValues, l.attribute, l.code, l.name)
  <2>1. /\ l.name \in ValueNames /\ l.code \in ValueCodes /\ l.attribute \in AttrNames
        /\ d.vendorAttributeValues \in ScopedTablesOf(ValueCodes, ValueNames, AttrNames)
        /\ l.ofVendor = TRUE
    BY <1>0, <1>5, LineKinds DEF DictionarySet
  <2>2. /\ table \in ScopedTablesOf(ValueCodes, ValueNames, AttrNames)
        /\ Adds(At(table, l.attribute), At(d.vendorAttributeValues, l.attribute),
                ValueCodes, ValueNames, l.code, l.name)
        /\ \A s \in AttrNames \ {l.attribute} : At(table, s) = At(d.vendorAttributeValues, s)
    BY <2>1, ValScopedAdds
  <2> HIDE DEF table
  <2>3. At(d.vendorAttributeValues, l.attribute) \in TablesOf(ValueCodes, ValueNames)
    BY <2>1 DEF At, TablesOf, ScopedTablesOf
  <2>4. Lists(At(table, l.attribute), ValuesIn(S, TRUE, l.attribute) \cup {l})
    BY <1>0, <1>00, <2>1, <2>2, <2>3, AddsLists DEF TablesListed
  <2>5. new = [d EXCEPT !.vendorAttributeValues = table]
    BY <1>5 DEF WithLine, table
  <2>6. /\ new \in DictionarySet /\ new.vendorAttributeValues = table
        /\ new.attributes = d.attributes /\ new.vendorNames = d.vendorNames
        /\ new.vendorAttributes = d.vendorAttributes
        /\ new.attributeValues = d.attributeValues
        /\ new.types = d.types /\ new.unresolved = d.unresolved
    BY <1>0, <2>2, <2>5 DEF DictionarySet
  <2> HIDE DEF new
  <2>7. /\ ValuesIn(S \cup {l}, TRUE, l.attribute) = ValuesIn(S, TRUE, l.attribute) \cup {l}
        /\ \A a \in AttrNames \ {l.attribute} :
              ValuesIn(S \cup {l}, TRUE, a) = ValuesIn(S, TRUE, a)
        /\ \A a : ValuesIn(S \cup {l}, FALSE, a) = ValuesIn(S, FALSE, a)
        /\ KindIn(S \cup {l}, "VENDOR") = KindIn(S, "VENDOR")
        /\ \A v : AttributesIn(S \cup {l}, v) = AttributesIn(S, v)
    BY <1>5, <2>1 DEF KindIn, AttributesIn, ValuesIn
  <2>8. ASSUME NEW a \in AttrNames
        PROVE  Lists(At(table, a), ValuesIn(S \cup {l}, TRUE, a))
    <3>1. CASE a = l.attribute
      BY <2>4, <2>7, <3>1
    <3>2. CASE a # l.attribute
      BY <1>0, <2>2, <2>7, <3>2 DEF TablesListed
    <3> QED BY <3>1, <3>2
  <2>9. TablesListed(new, S \cup {l})
    BY <1>0, <2>6, <2>7, <2>8 DEF TablesListed
  <2> QED BY <1>5, <2>6, <2>9 DEF new
<1> QED BY <1>1, <1>2, <1>3, <1>4, <1>5, LineKinds

(* A dictionary made of lines is, with a line that is read, made of those  *)
(* and this one.                                                           *)
LEMMA LineMade ==
    ASSUME NEW d, NEW S, NEW l \in Lines, MadeOf(d, S)
    PROVE  MadeOf(WithLine(d, l), S \cup {l})
<1> DEFINE new == WithLine(d, l)
           T == S \cup {l}
<1>1. /\ new \in DictionarySet /\ TablesListed(new, T)
      /\ \A v \in VendorNames : d.vendorNames.reverse[v] # NoCode =>
            new.vendorNames.reverse[v] = d.vendorNames.reverse[v]
  BY LineListed
<1>2. /\ d \in DictionarySet /\ S \subseteq Lines /\ TablesListed(d, S)
      /\ TypesGiven(d, S) /\ WaitingGiven(d, S) /\ TypesKept(d, S)
  BY DEF MadeOf
<1>3. T \subseteq Lines
  BY <1>2
<1>4. \A k, m : GivesKey(S, m, k) => GivesKey(T, m, k)
  BY DEF GivesKey
<1>5. CASE l.kind # "ATTRIBUTE"
  <2>1. new.types = d.types /\ new.unresolved = d.unresolved
    BY <1>5, LineListed
  <2> HIDE DEF new
  <2>2. TypesGiven(new, T)
    BY <1>2, <1>4, <2>1 DEF TypesGiven
  <2>3. WaitingGiven(new, T)
    BY <1>2, <2>1 DEF WaitingGiven, AttributesIn
  <2>4. ASSUME NEW m \in KindIn(T, "ATTRIBUTE")
        PROVE  TypeStored(new, m) \/ TypeWaits(new, m)
    <3>1. m \in KindIn(S, "ATTRIBUTE") /\ m \in Lines
      BY <1>2, <1>5, <2>4 DEF KindIn
    <3>2. m.vendor # NoVendor => m.vendor \in VendorNames
      BY <3>1, LineKinds DEF KindIn
    <3>3. TypeStored(d, m) \/ TypeWaits(d, m)
      BY <1>2, <3>1 DEF TypesKept
    <3> QED BY <1>1, <2>1, <3>2, <3>3 DEF TypeStored, TypeWaits
  <2> QED BY <1>1, <1>3, <2>2, <2>3, <2>4 DEF MadeOf, TypesKept, new
<1>6. CASE l.kind = "ATTRIBUTE"
  <2>1. PICK t \in DictionarySet :
           /\ t.vendorNames = d.vendorNames /\ t.types = d.types
           /\ t.unresolved = d.unresolved /\ new = WithType(t, l)
    BY <1>6, LineListed
  <2> HIDE DEF new
  <2>2. /\ new.vendorNames = d.vendorNames
        /\ \A k \in Keys :
              \/ new.types[k] = d.types[k]
              \/ /\ d.types[k] = NoType
                 /\ new.types[k] = l.type /\ k[1] = ByteOf(l.code)
                 /\ \/ l.vendor = NoVendor /\ k[2] = 0
                    \/ /\ l.vendor # NoVendor
                       /\ d.vendorNames.reverse[l.vendor] \in VendorIds
                       /\ k[2] = d.vendorNames.reverse[l.vendor]
        /\ \A u \in UnresolvedKeys :
              \/ new.unresolved[u] = d.unresolved[u]
              \/ /\ d.unresolved[u] = NoType
                 /\ new.unresolved[u] = l.type
                 /\ l.vendor # NoVendor /\ u = <<ByteOf(l.code), l.vendor>>
        /\ TypeStored(new, l) \/ TypeWaits(new, l)
    <3> DEFINE made == WithType(t, l)
    <3>1. /\ made.vendorNames = t.vendorNames
          /\ \A k \in Keys :
                \/ made.types[k] = t.types[k]
                \/ /\ t.types[k] = NoType
                   /\ made.types[k] = l.type /\ k[1] = ByteOf(l.code)
                   /\ \/ l.vendor = NoVendor /\ k[2] = 0
                      \/ /\ l.vendor # NoVendor
                         /\ t.vendorNames.reverse[l.vendor] \in VendorIds
                         /\ k[2] = t.vendorNames.reverse[l.vendor]
          /\ \A u \in UnresolvedKeys :
                \/ made.unresolved[u] = t.unresolved[u]
                \/ /\ t.unresolved[u] = NoType
                   /\ made.unresolved[u] = l.type
                   /\ l.vendor # NoVendor /\ u = <<ByteOf(l.code), l.vendor>>
          /\ TypeStored(made, l) \/ TypeWaits(made, l)
      BY <1>6, LineTypes
    <3>2. new = made
      BY <2>1
    <3> HIDE DEF made
    <3> QED BY <2>1, <3>1, <3>2
  <2>3. /\ l.vendor = NoVendor \/ l.vendor \in VendorNames
        /\ l.type \in Types /\ l.code \in AttrCodes
    BY <1>6, LineKinds
  <2>4. ASSUME l.vendor # NoVendor, d.vendorNames.reverse[l.vendor] \in VendorIds
        PROVE  \E v \in T : /\ v.kind = "VENDOR" /\ v.name = l.vendor
                            /\ v.code = d.vendorNames.reverse[l.vendor]
    <3>1. d.vendorNames.reverse[l.vendor] # NoCode
      BY <2>4, DictionariesAssumption
    <3>2. DOMAIN d.vendorNames.reverse = VendorNames
      BY <1>2 DEF DictionarySet, TablesOf
    <3>3. \E v \in KindIn(S, "VENDOR") : /\ v.name = l.vendor
                                        /\ v.code = d.vendorNames.reverse[l.vendor]
      BY <1>2, <2>3, <2>4, <3>1, <3>2 DEF TablesListed, Lists
    <3> QED BY <3>3 DEF KindIn
  <2>5. ASSUME NEW k \in Keys, new.types[k] # NoType
        PROVE  \E m \in T : GivesKey(T, m, k) /\ m.type = new.types[k]
    <3>1. CASE new.types[k] = d.types[k]
      BY <1>2, <1>4, <2>5, <3>1 DEF TypesGiven
    <3>2. CASE new.types[k] # d.types[k]
      <4>1. /\ new.types[k] = l.type /\ k[1] = ByteOf(l.code)
            /\ \/ l.vendor = NoVendor /\ k[2] = 0
               \/ /\ l.vendor # NoVendor
                  /\ d.vendorNames.reverse[l.vendor] \in VendorIds
                  /\ k[2] = d.vendorNames.reverse[l.vendor]
        BY <2>2, <3>2
      <4>2. GivesKey(T, l, k)
        BY <1>6, <2>4, <4>1 DEF GivesKey
      <4> QED BY <4>1, <4>2
    <3> QED BY <3>1, <3>2
  <2>6. ASSUME NEW u \in UnresolvedKeys, new.unresolved[u] # NoType
        PROVE  \E m \in AttributesIn(T, u[2]) :
                  ByteOf(m.code) = u[1] /\ m.type = new.unresolved[u]
    <3>1. CASE new.unresolved[u] = d.unresolved[u]
      BY <1>2, <2>6, <3>1 DEF WaitingGiven, AttributesIn
    <3>2. CASE new.unresolved[u] # d.unresolved[u]
      BY <1>6, <2>2, <3>2 DEF AttributesIn
    <3> QED BY <3>1, <3>2
  <2>7. ASSUME NEW m \in KindIn(T, "ATTRIBUTE")
        PROVE  TypeStored(new, m) \/ TypeWaits(new, m)
    <3>1. CASE m = l
      BY <2>2, <3>1
    <3>2. CASE m # l
      <4>1. m \in KindIn(S, "ATTRIBUTE") /\ m \in Lines
        BY <1>2, <2>7, <3>2 DEF KindIn
      <4>2. (m.vendor # NoVendor => m.vendor \in VendorNames) /\ m.code \in AttrCodes
        BY <4>1, LineKinds DEF KindIn
      <4>3. TypeStored(d, m) \/ TypeWaits(d, m)
        BY <1>2, <4>1 DEF TypesKept
      <4>4. CASE TypeWaits(d, m)
        <5>1. <<ByteOf(m.code), m.vendor>> \in UnresolvedKeys
          BY <4>2, <4>4 DEF TypeWaits, UnresolvedKeys
        <5> QED BY <2>2, <4>4, <5>1 DEF TypeWaits
      <4>5. CASE TypeStored(d, m) /\ m.vendor = NoVendor
        <5>1. <<ByteOf(m.code), 0>> \in Keys
          BY <4>2 DEF Keys
        <5> QED BY <2>2, <4>5, <5>1 DEF TypeStored
      <4>6. CASE TypeStored(d, m) /\ m.vendor # NoVendor
        <5>1. d.vendorNames.reverse[m.vendor] \in VendorIds
          BY <1>2, <4>2, <4>6 DEF TypeStored, DictionarySet, TablesOf
        <5>2. <<ByteOf(m.code), d.vendorNames.reverse[m.vendor]>> \in Keys
          BY <4>2, <5>1 DEF Keys
        <5> QED BY <2>2, <4>6, <5>2 DEF TypeStored
      <4> QED BY <4>3, <4>4, <4>5, <4>6
    <3> QED BY <3>1, <3>2
  <2> QED BY <1>1, <1>3, <2>5, <2>6, <2>7 DEF MadeOf, TypesGiven, WaitingGiven, TypesKept, new
<1> QED BY <1>5, <1>6

-----------------------------------------------------------------------------
NoneWaits(d) == d.unresolved = EmptyDictionaries.unresolved

(* The number a vendor has is that of a VENDOR line. *)
LEMMA VendorGiven ==
    ASSUME NEW d, NEW S, MadeOf(d, S), NEW n \in VendorNames, d.vendorNames.reverse[n] # NoCode
    PROVE  /\ d.vendorNames.reverse[n] \in VendorIds
           /\ \E v \in S : /\ v.kind = "VENDOR" /\ v.name = n
                           /\ v.code = d.vendorNames.reverse[n]
<1>1. d.vendorNames \in TablesOf(VendorIds, VendorNames)
  BY DEF MadeOf, DictionarySet
<1>2. Lists(d.vendorNames, KindIn(S, "VENDOR"))
  BY DEF MadeOf, TablesListed
<1>3. \E v \in KindIn(S, "VENDOR") : v.name = n /\ v.code = d.vendorNames.reverse[n]
  BY <1>1, <1>2 DEF Lists, TablesOf
<1> QED BY <1>1, <1>3 DEF TablesOf, KindIn

(* resolve(): the types that waited are there, and none waits any more.    *)
LEMMA ResolveMade ==
    ASSUME NEW d, NEW S, MadeOf(d, S), \A u \in Unresolved(d) : VendorKnown(d, u),
           NEW types \in TypesAfter(d, Unresolved(d))
    PROVE  LET new == [d EXCEPT !.types = types, !.unresolved = EmptyDictionaries.unresolved]
           IN  MadeOf(new, S) /\ NoneWaits(new)
<1> DEFINE done == Unresolved(d)
           keys == {KeyOf(d, u) : u \in done}
           new == [d EXCEPT !.types = types, !.unresolved = EmptyDictionaries.unresolved]
<1>0. /\ d \in DictionarySet /\ S \subseteq Lines /\ TablesListed(d, S)
      /\ TypesGiven(d, S) /\ WaitingGiven(d, S) /\ TypesKept(d, S)
  BY DEF MadeOf
<1>1. /\ d.types \in [Keys -> Types \cup {NoType}]
      /\ d.unresolved \in [UnresolvedKeys -> Types \cup {NoType}]
      /\ d.vendorNames.reverse \in [VendorNames -> VendorIds \cup {NoCode}]
  BY <1>0 DEF DictionarySet, TablesOf
<1>2. \A u \in done : u \in UnresolvedKeys /\ d.unresolved[u] # NoType
  BY DEF Unresolved
<1>3. ASSUME NEW u \in done
      PROVE  KeyOf(d, u) \in Keys
  <2>1. /\ u[1] \in {ByteOf(c) : c \in AttrCodes} /\ u[2] \in VendorNames
        /\ d.vendorNames.reverse[u[2]] # NoCode
    BY <1>2 DEF UnresolvedKeys, VendorKnown
  <2> QED BY <1>1, <2>1 DEF KeyOf, Keys
<1>4. PICK f \in [keys -> done] :
         /\ \A k \in keys : KeyOf(d, f[k]) = k
         /\ types = InsertTypes(d.types,
                      [k \in Keys |-> IF k \in keys THEN d.unresolved[f[k]] ELSE NoType])
  BY DEF TypesAfter
<1>5. \A k \in keys : f[k] \in done /\ KeyOf(d, f[k]) = k
  BY <1>4
<1>6. types = [k \in Keys |-> IF d.types[k] = NoType
                              THEN IF k \in keys THEN d.unresolved[f[k]] ELSE NoType
                              ELSE d.types[k]]
  BY <1>1, <1>4 DEF InsertTypes
<1>7. \A u \in done : KeyOf(d, u) \in keys
  OBVIOUS
<1> HIDE DEF keys
<1>8. types \in [Keys -> Types \cup {NoType}]
  BY <1>1, <1>2, <1>5, <1>6
<1>9. ASSUME NEW k \in Keys
      PROVE  \/ types[k] = d.types[k]
             \/ /\ d.types[k] = NoType
                /\ \E u \in done : KeyOf(d, u) = k /\ types[k] = d.unresolved[u]
  BY <1>5, <1>6
<1>10. \A u \in done : types[KeyOf(d, u)] # NoType
  BY <1>2, <1>3, <1>5, <1>6, <1>7
<1>11. EmptyDictionaries.unresolved \in [UnresolvedKeys -> Types \cup {NoType}]
       /\ \A u \in UnresolvedKeys : EmptyDictionaries.unresolved[u] = NoType
  BY DEF EmptyDictionaries
<1>12. /\ new \in DictionarySet /\ new.types = types
       /\ new.unresolved = EmptyDictionaries.unresolved
       /\ new.attributes = d.attributes /\ new.vendorNames = d.vendorNames
       /\ new.attributeValues = d.attributeValues
       /\ new.vendorAttributes = d.vendorAttributes
       /\ new.vendorAttributeValues = d.vendorAttributeValues
  <2> HIDE DEF done
  <2> QED BY <1>0, <1>8, <1>11 DEF DictionarySet
<1> HIDE DEF new
<1>13. TablesListed(new, S)
  BY <1>0, <1>12 DEF TablesListed
<1>14. ASSUME NEW k \in Keys, types[k] # NoType
       PROVE  \E l \in S : GivesKey(S, l, k) /\ l.type = types[k]
  <2>1. CASE types[k] = d.types[k]
    BY <1>0, <1>14, <2>1 DEF TypesGiven
  <2>2. CASE types[k] # d.types[k]
    <3>1. PICK u \in done : KeyOf(d, u) = k /\ types[k] = d.unresolved[u]
      BY <1>9, <2>2
    <3>2. /\ u \in UnresolvedKeys /\ d.unresolved[u] # NoType
          /\ u[2] \in VendorNames /\ d.vendorNames.reverse[u[2]] # NoCode
          /\ k[1] = u[1] /\ k[2] = d.vendorNames.reverse[u[2]]
      BY <1>2, <3>1 DEF UnresolvedKeys, VendorKnown, KeyOf
    <3>3. PICK l \in AttributesIn(S, u[2]) : ByteOf(l.code) = u[1] /\ l.type = d.unresolved[u]
      BY <1>0, <3>2 DEF WaitingGiven
    <3>4. PICK v \in S : /\ v.kind = "VENDOR" /\ v.name = u[2]
                         /\ v.code = d.vendorNames.reverse[u[2]]
      BY <3>2, VendorGiven
    <3>5. GivesKey(S, l, k)
      BY <3>2, <3>3, <3>4 DEF GivesKey, AttributesIn
    <3> QED BY <3>1, <3>3, <3>5 DEF AttributesIn
  <2> QED BY <2>1, <2>2
<1>15. ASSUME NEW l \in KindIn(S, "ATTRIBUTE")
       PROVE  TypeStored(new, l)
  <2>1. l \in Lines /\ l.vendor \in VendorNames \cup {NoVendor} /\ l.code \in AttrCodes
    BY <1>0, LineKinds DEF KindIn
  <2>2. \A k \in Keys : d.types[k] # NoType => types[k] # NoType
    BY <1>9
  <2>3. CASE TypeStored(d, l) /\ l.vendor = NoVendor
    <3>1. <<ByteOf(l.code), 0>> \in Keys
      BY <2>1 DEF Keys
    <3> QED BY <1>12, <2>2, <2>3, <3>1 DEF TypeStored
  <2>4. CASE TypeStored(d, l) /\ l.vendor # NoVendor
    <3>1. d.vendorNames.reverse[l.vendor] \in VendorIds
      BY <1>1, <2>1, <2>4 DEF TypeStored
    <3>2. <<ByteOf(l.code), d.vendorNames.reverse[l.vendor]>> \in Keys
      BY <2>1, <3>1 DEF Keys
    <3> QED BY <1>12, <2>2, <2>4, <3>2 DEF TypeStored
  <2>5. CASE TypeWaits(d, l)
    <3> DEFINE u == <<ByteOf(l.code), l.vendor>>
    <3>1. u \in done
      BY <2>1, <2>5 DEF TypeWaits, Unresolved, UnresolvedKeys
    <3>2. VendorKnown(d, u) /\ types[KeyOf(d, u)] # NoType
      BY <1>10, <3>1
    <3>3. d.vendorNames.reverse[l.vendor] # NoCode
      BY <3>2 DEF VendorKnown
    <3>4. types[<<ByteOf(l.code), d.vendorNames.reverse[l.vendor]>>] # NoType
      BY <3>2 DEF KeyOf
    <3> QED BY <1>12, <2>5, <3>3, <3>4 DEF TypeStored, TypeWaits
  <2> QED BY <1>0, <2>3, <2>4, <2>5 DEF TypesKept
<1>16. TypesGiven(new, S) /\ WaitingGiven(new, S) /\ TypesKept(new, S)
  BY <1>11, <1>12, <1>14, <1>15 DEF TypesGiven, WaitingGiven, TypesKept
<1> QED BY <1>0, <1>12, <1>13, <1>16 DEF MadeOf, NoneWaits, new

(* Once none waits, the type of every ATTRIBUTE line is stored. *)
LEMMA AllStored ==
    ASSUME NEW d, NEW S, MadeOf(d, S), NoneWaits(d), NEW l \in KindIn(S, "ATTRIBUTE")
    PROVE  TypeStored(d, l)
<1>1. l \in Lines /\ l.vendor \in VendorNames \cup {NoVendor} /\ l.code \in AttrCodes
  BY LineKinds DEF KindIn, MadeOf
<1>2. ASSUME TypeWaits(d, l) PROVE FALSE
  <2>1. <<ByteOf(l.code), l.vendor>> \in UnresolvedKeys
    BY <1>1, <1>2 DEF TypeWaits, UnresolvedKeys
  <2> QED BY <1>2, <2>1 DEF TypeWaits, NoneWaits, EmptyDictionaries
<1> QED BY <1>2 DEF MadeOf, TypesKept

(* Why the dictionary refuses a line: another line of its kind and scope   *)
(* has its name.                                                           *)
LEMMA TakenConflicts ==
    ASSUME NEW d, NEW S, MadeOf(d, S), NEW l \in Lines, LineTaken(d, l)
    PROVE  \E m \in S :
              /\ l # m /\ l.kind = m.kind /\ l.name = m.name
              /\ \/ l.kind = "VENDOR"
                 \/ l.kind = "ATTRIBUTE" /\ l.vendor = m.vendor
                 \/ l.kind = "VALUE" /\ l.ofVendor = m.ofVendor /\ l.attribute = m.attribute
<1>0. d \in DictionarySet /\ TablesListed(d, S)
  BY DEF MadeOf
<1>a. NoName \notin AttrNames /\ NoName \notin VendorNames /\ NoName \notin ValueNames
  BY DictionariesAssumption
<1>1. CASE l.kind = "VENDOR"
  <2>1. PICK k \in VendorIds \ {l.code} : d.vendorNames.right[k] = l.name
    BY <1>1 DEF LineTaken, Vend!NameTaken
  <2>2. l.name # NoName /\ DOMAIN d.vendorNames.right = VendorIds
    BY <1>0, <1>1, <1>a, LineKinds DEF DictionarySet, TablesOf
  <2>3. PICK m \in KindIn(S, "VENDOR") : m.code = k /\ m.name = l.name
    BY <1>0, <2>1, <2>2 DEF TablesListed, Lists
  <2> QED BY <1>1, <2>1, <2>3 DEF KindIn
<1>2. CASE l.kind = "ATTRIBUTE" /\ l.vendor = NoVendor
  <2>1. PICK k \in AttrCodes \ {l.code} : d.attributes.right[k] = l.name
    BY <1>2 DEF LineTaken, Attr!NameTaken
  <2>2. l.name # NoName /\ DOMAIN d.attributes.right = AttrCodes
    BY <1>0, <1>2, <1>a, LineKinds DEF DictionarySet, TablesOf
  <2>3. PICK m \in AttributesIn(S, NoVendor) : m.code = k /\ m.name = l.name
    BY <1>0, <2>1, <2>2 DEF TablesListed, Lists
  <2> QED BY <1>2, <2>1, <2>3 DEF AttributesIn
<1>3. CASE l.kind = "ATTRIBUTE" /\ l.vendor # NoVendor
  <2> DEFINE t == At(d.vendorAttributes, l.vendor)
  <2>1. PICK k \in AttrCodes \ {l.code} : t.right[k] = l.name
    BY <1>3 DEF LineTaken, Attr!NameTakenInScope, Attr!NameTaken, At
  <2>2. l.vendor \in VendorNames /\ l.name # NoName /\ DOMAIN t.right = AttrCodes
    BY <1>0, <1>3, <1>a, LineKinds DEF DictionarySet, ScopedTablesOf, At
  <2>3. Lists(t, AttributesIn(S, l.vendor))
    BY <1>0, <2>2 DEF TablesListed
  <2> HIDE DEF t
  <2>4. PICK m \in AttributesIn(S, l.vendor) : m.code = k /\ m.name = l.name
    BY <2>1, <2>2, <2>3 DEF Lists
  <2> QED BY <1>3, <2>1, <2>4 DEF AttributesIn
<1>4. CASE l.kind = "VALUE" /\ ~l.ofVendor
  <2> DEFINE t == At(d.attributeValues, l.attribute)
             L == ValuesIn(S, FALSE, l.attribute)
  <2>1. PICK k \in ValueCodes \ {l.code} : t.right[k] = l.name
    BY <1>4 DEF LineTaken, Val!NameTakenInScope, Val!NameTaken, At
  <2>2. /\ l.attribute \in AttrNames /\ l.name # NoName /\ l.ofVendor = FALSE
        /\ DOMAIN t.right = ValueCodes
    BY <1>0, <1>4, <1>a, LineKinds DEF DictionarySet, ScopedTablesOf, At
  <2>3. Lists(t, L)
    BY <1>0, <2>2 DEF TablesListed
  <2> HIDE DEF t, L
  <2>4. k \in DOMAIN t.right /\ t.right[k] # NoName
    BY <2>1, <2>2
  <2>5. PICK m \in L : m.code = k /\ m.name = l.name
    BY <2>1, <2>3, <2>4 DEF Lists
  <2> QED BY <1>4, <2>1, <2>2, <2>5 DEF ValuesIn, L
<1>5. CASE l.kind = "VALUE" /\ l.ofVendor
  <2> DEFINE t == At(d.vendorAttributeValues, l.attribute)
             L == ValuesIn(S, TRUE, l.attribute)
  <2>1. PICK k \in ValueCodes \ {l.code} : t.right[k] = l.name
    BY <1>5 DEF LineTaken, Val!NameTakenInScope, Val!NameTaken, At
  <2>2. /\ l.attribute \in AttrNames /\ l.name # NoName /\ l.ofVendor = TRUE
        /\ DOMAIN t.right = ValueCodes
    BY <1>0, <1>5, <1>a, LineKinds DEF DictionarySet, ScopedTablesOf, At
  <2>3. Lists(t, L)
    BY <1>0, <2>2 DEF TablesListed
  <2> HIDE DEF t, L
  <2>4. k \in DOMAIN t.right /\ t.right[k] # NoName
    BY <2>1, <2>2
  <2>5. PICK m \in L : m.code = k /\ m.name = l.name
    BY <2>1, <2>3, <2>4 DEF Lists
  <2> QED BY <1>5, <2>1, <2>2, <2>5 DEF ValuesIn, L
<1> QED BY <1>1, <1>2, <1>3, <1>4, <1>5, LineKinds

-----------------------------------------------------------------------------
(* A set of numbers that is not empty has a least one. *)
LEMMA LeastNumber ==
    ASSUME NEW I \in SUBSET Nat, I # {}
    PROVE  Min(I) \in I /\ \A j \in I : Min(I) <= j
<1>1. PICK x \in I : \A y \in I : ~ (<<y, x>> \in OpToRel(<, Nat))
  BY NatLessThanWellFounded, WFMin, Zenon
<1>2. x \in Nat /\ \A y \in I : y \in Nat /\ ~(y < x)
  BY <1>1 DEF OpToRel
<1>3. \E z \in I : \A y \in I : z <= y
  BY <1>2
<1>4. Min(I) \in I /\ \A y \in I : Min(I) =< y
  BY <1>3 DEF Min
<1> QED BY <1>4

(* What SelectInSeq returns for the indexes that pass its test. *)
FirstOf(I) == IF I # {} THEN Min(I) ELSE 0

(* FirstOf is zero for no indexes and the least of them otherwise. *)
LEMMA FirstOne ==
    ASSUME NEW n \in Nat, NEW I \in SUBSET (1 .. n)
    PROVE  /\ FirstOf(I) \in 0 .. n
           /\ FirstOf(I) = 0 <=> I = {}
           /\ FirstOf(I) # 0 => FirstOf(I) \in I /\ \A j \in I : FirstOf(I) <= j
<1>1. CASE I = {}
  BY <1>1 DEF FirstOf
<1>2. CASE I # {}
  <2>1. I \in SUBSET Nat
    OBVIOUS
  <2>2. Min(I) \in I /\ \A j \in I : Min(I) <= j
    BY <1>2, <2>1, LeastNumber
  <2>3. FirstOf(I) = Min(I)
    BY <1>2 DEF FirstOf
  <2> HIDE DEF FirstOf
  <2>4. FirstOf(I) \in I /\ \A j \in I : FirstOf(I) <= j
    BY <2>2, <2>3
  <2>5. FirstOf(I) \in 1 .. n
    BY <2>4
  <2>6. \A m \in 1 .. n : m \in 0 .. n /\ m # 0
    OBVIOUS
  <2> QED BY <1>2, <2>4, <2>5, <2>6
<1> QED BY <1>1, <1>2

(* Where get_attribute_by_name stops: at a code that is not listed, or at  *)
(* the name with a type; and which vendor attributes it finds.             *)
PlainStops(d, p, name) ==
    {i \in 1 .. Len(p.attributes) :
        \/ ~(AttributeName(d, p.attributes[i].type) # NoName)
        \/ /\ AttributeName(d, p.attributes[i].type) = name
           /\ GetAttributeType(d, p.attributes[i].type, 0) # NoType}
VendorStops(p, id, code) ==
    {i \in 1 .. Len(p.vendors) : p.vendors[i].id = id /\ p.vendors[i].type = code}
CodeStops(p, code) == {i \in 1 .. Len(p.attributes) : p.attributes[i].type = code}

(* The lookups with the test of SelectInSeq as a set of indexes. *)
LEMMA GetByNameOf ==
    ASSUME NEW d, NEW p, NEW name
    PROVE  GetByName(d, p, name) =
              LET at == FirstOf(PlainStops(d, p, name))
                  a == p.attributes[at]
              IN  IF at = 0 THEN Absent
                  ELSE IF AttributeName(d, a.type) # NoName
                       THEN Decode(GetAttributeType(d, a.type, 0), Data(a, p.auth))
                       ELSE OutOfRange
BY DEF GetByName, SelectInSeq, FirstOf, PlainStops

LEMMA GetVendorOf ==
    ASSUME NEW d, NEW p, NEW id, NEW code
    PROVE  GetVendorAttribute(d, p, id, code) =
              LET at == FirstOf(VendorStops(p, id, code))
                  type == GetAttributeType(d, code, id)
              IN  IF at = 0 \/ type = NoType THEN Absent ELSE Decode(type, p.vendors[at].value)
BY DEF GetVendorAttribute, SelectInSeq, FirstOf, VendorStops, SameVendorAttribute

LEMMA GetAttributeOf ==
    ASSUME NEW d, NEW p, NEW code, NEW id
    PROVE  GetAttribute(d, p, <<code, id>>) =
              LET at == IF id = 0 THEN FirstOf(CodeStops(p, code))
                        ELSE FirstOf(VendorStops(p, id, code))
                  type == GetAttributeType(d, code, id)
              IN  IF at = 0 \/ type = NoType THEN Absent
                  ELSE Decode(type, IF id = 0 THEN Data(p.attributes[at], p.auth)
                                    ELSE p.vendors[at].value)
<1> DEFINE type == GetAttributeType(d, code, id)
           ofVendor == FirstOf(VendorStops(p, id, code))
           plain == FirstOf(CodeStops(p, code))
<1>1. /\ SelectInSeq(p.vendors, LAMBDA v : v.id = id /\ v.type = code) = ofVendor
      /\ SelectInSeq(p.attributes, LAMBDA a : a.type = code) = plain
  BY DEF SelectInSeq, FirstOf, VendorStops, CodeStops
<1> HIDE DEF type, ofVendor, plain
<1>2. GetAttribute(d, p, <<code, id>>) =
         CASE id # 0 /\ ofVendor # 0 /\ type # NoType -> Decode(type, p.vendors[ofVendor].value)
           [] id = 0 /\ plain # 0 /\ type # NoType ->
                 Decode(type, Data(p.attributes[plain], p.auth))
           [] OTHER -> Absent
  BY <1>1 DEF GetAttribute, type
<1> QED BY <1>2 DEF type, ofVendor, plain

(* The sizes of data an Integer can be made of, and those that fit its type. *)
LEMMA IntegerSizes ==
    ASSUME NEW n \in Nat
    PROVE  IntegerFault(n) = "none" <=> n \in {1, 2, 4, 8}
BY DEF IntegerFault

LEMMA IntTypeSizes ==
    ASSUME NEW type \in IntTypes
    PROVE  /\ type # "ipaddr" /\ type # "string"
           /\ Width(type) \in {1, 2, 4, 8}
           /\ Sizes(type) = {n \in {1, 2, 4, 8} : n <= Width(type)}
<1>1. CASE type = "byte"
  <2>1. Width(type) = 1 /\ Sizes(type) = {1}
    BY <1>1 DEF Width, Sizes
  <2> QED BY <1>1, <2>1
<1>2. CASE type = "uint16"
  <2>1. Width(type) = 2 /\ Sizes(type) = {1, 2}
    BY <1>2 DEF Width, Sizes
  <2> QED BY <1>2, <2>1
<1>3. CASE type \in {"integer", "uint32"}
  <2>1. Width(type) = 4 /\ Sizes(type) = {1, 2, 4}
    BY <1>3 DEF Width, Sizes
  <2> QED BY <1>3, <2>1
<1>4. CASE type = "uint64"
  <2>1. Width(type) = 8 /\ Sizes(type) = {1, 2, 4, 8}
    BY <1>4 DEF Width, Sizes
  <2> QED BY <1>4, <2>1
<1> QED BY <1>1, <1>2, <1>3, <1>4 DEF IntTypes

(* Decode, type by type. *)
LEMMA DecodeOf ==
    ASSUME NEW type, NEW octets, Len(octets) \in Nat
    PROVE  /\ type \in IntTypes =>
                 Decode(type, octets) =
                    IF Len(octets) \in Sizes(type)
                    THEN Decoded("Integer", Zeros(Width(type) - Len(octets)) \o octets,
                                 type = "integer")
                    ELSE Refused
           /\ type = "ipaddr" =>
                 Decode(type, octets) =
                    IF Len(octets) = 4 THEN Decoded("IpAddress", octets, FALSE) ELSE Refused
           /\ type = "string" => Decode(type, octets) = Decoded("String", octets, FALSE)
           /\ type \notin IntTypes /\ type # "ipaddr" /\ type # "string" =>
                 Decode(type, octets) = Decoded("Bytes", octets, FALSE)
<1>1. ASSUME type \in IntTypes
      PROVE  Len(octets) \in Sizes(type) <=>
                ~(Len(octets) > Width(type) \/ IntegerFault(Len(octets)) # "none")
  <2> DEFINE n == Len(octets)
             W == Width(type)
             fault == IntegerFault(n) # "none"
  <2>1. /\ W \in {1, 2, 4, 8} /\ Sizes(type) = {m \in {1, 2, 4, 8} : m <= W}
        /\ fault <=> n \notin {1, 2, 4, 8}
    BY <1>1, IntTypeSizes, IntegerSizes
  <2>2. n \in Nat
    OBVIOUS
  <2> HIDE DEF n, W, fault
  <2>3. n \in Sizes(type) <=> ~(n > W \/ fault)
    BY <2>1, <2>2
  <2> QED BY <2>3 DEF n, W, fault
<1>2. ASSUME type \in IntTypes
      PROVE  Decode(type, octets) =
                IF Len(octets) > Width(type) \/ IntegerFault(Len(octets)) # "none" THEN Refused
                ELSE Decoded("Integer", Zeros(Width(type) - Len(octets)) \o octets,
                             type = "integer")
  <2>1. type # "ipaddr" /\ type # "string"
    BY <1>2, IntTypeSizes
  <2> QED BY <1>2, <2>1, Zenon DEF Decode
<1>3. "ipaddr" \notin IntTypes /\ "string" \notin IntTypes
  BY DEF IntTypes
<1>4. type = "ipaddr" =>
         Decode(type, octets) =
            IF AddressFault(Len(octets)) # "none" THEN Refused
            ELSE Decoded("IpAddress", octets, FALSE)
  BY <1>3 DEF Decode
<1>5. AddressFault(Len(octets)) # "none" <=> Len(octets) # 4
  BY DEF AddressFault
<1>6. type = "string" => Decode(type, octets) = Decoded("String", octets, FALSE)
  BY <1>3 DEF Decode
<1>7. type \notin IntTypes /\ type # "ipaddr" /\ type # "string" =>
         Decode(type, octets) = Decoded("Bytes", octets, FALSE)
  BY DEF Decode
<1> QED BY <1>1, <1>2, <1>4, <1>5, <1>6, <1>7

(* Decode refuses only data whose size does not fit the type. *)
LEMMA DecodeResult ==
    ASSUME NEW type, NEW octets, Len(octets) \in Nat
    PROVE  /\ Decode(type, octets).result \in {"found", "Exception"}
           /\ Decode(type, octets).result = "Exception" => Unfit(type, octets)
<1> DEFINE x == Decode(type, octets)
           integer == Decoded("Integer", Zeros(Width(type) - Len(octets)) \o octets,
                              type = "integer")
           address == Decoded("IpAddress", octets, FALSE)
           string == Decoded("String", octets, FALSE)
           bytes == Decoded("Bytes", octets, FALSE)
<1>1. /\ integer.result = "found" /\ address.result = "found" /\ string.result = "found"
      /\ bytes.result = "found" /\ Refused.result = "Exception"
  BY DEF Decoded, Found, Refused
<1>2. /\ type \in IntTypes => x = IF Len(octets) \in Sizes(type) THEN integer ELSE Refused
      /\ type = "ipaddr" => x = IF Len(octets) = 4 THEN address ELSE Refused
      /\ type = "string" => x = string
      /\ type \notin IntTypes /\ type # "ipaddr" /\ type # "string" => x = bytes
  BY DecodeOf, Zenon
<1>3. type = "ipaddr" => Sizes(type) = {4}
  BY DEF Sizes
<1> HIDE DEF x, integer, address, string, bytes
<1>4. /\ x.result \in {"found", "Exception"}
      /\ x.result = "Exception" => Unfit(type, octets)
  BY <1>1, <1>2, <1>3 DEF Unfit
<1> QED BY <1>4 DEF x

-----------------------------------------------------------------------------
(* What the lookup x of a wanted attribute says of a packet. *)
LookupRight(f, w, p, x) ==
    /\ x.result \in {"found", "absent", "Exception", "out_of_range"}
    /\ x.result \in {"found", "Exception"} =>
          \E k \in Places(f, w, p) : \E type \in TypesOf(f, w) :
              /\ x = Decode(type, Held(w, p)[k].value)
              /\ BadFile(f) \/ \A j \in Places(f, w, p) : k <= j
    /\ x.result = "absent" => BadFile(f) \/ Places(f, w, p) = {}
    /\ x.result = "out_of_range" =>
          \/ w.vendor # NoVendor /\ AttributeLine(f, w.name, w.vendor) = {}
          \/ w.vendor = NoVendor /\ \E k \in DOMAIN p.attributes : Unlisted(f, w, p, k)

(* The dictionary of the file, resolved. *)
Ready(f, d) == f \in Files /\ MadeOf(d, Range(f.lines)) /\ NoneWaits(d)

(* The lines of a file under one name, as lines of one table. *)
LEMMA SameLines ==
    ASSUME NEW f
    PROVE  /\ \A kind : LinesOf(f, kind) = KindIn(Range(f.lines), kind)
           /\ \A n, v :
                 AttributeLine(f, n, v) = {l \in AttributesIn(Range(f.lines), v) : l.name = n}
BY DEF LinesOf, KindIn, AttributeLine, AttributesIn

(* In a file that is not bad two lines of one scope share nothing. *)
LEMMA GoodLines ==
    ASSUME NEW f, ~BadFile(f), NEW l \in Range(f.lines), NEW m \in Range(f.lines),
           l.kind = m.kind, l.name = m.name \/ l.code = m.code,
           \/ l.kind = "VENDOR"
           \/ l.kind = "ATTRIBUTE" /\ l.vendor = m.vendor
    PROVE  l = m
BY DEF BadFile

(* The fields of a wanted attribute have their types. *)
LEMMA WantedTypes ==
    ASSUME NEW i \in DOMAIN Wanted
    PROVE  /\ Wanted[i].name \in AttrNames
           /\ Wanted[i].vendor \in VendorNames \cup {NoVendor}
           /\ Wanted[i].as \in {"octets", "string", "uint", "ipv4"}
<1>1. Wanted \in Seq([name : AttrNames, vendor : VendorNames \cup {NoVendor},
                      as : {"octets", "string", "uint", "ipv4"}])
  BY RadiusServerAssumption
<1> DEFINE W == [name : AttrNames, vendor : VendorNames \cup {NoVendor},
                 as : {"octets", "string", "uint", "ipv4"}]
<1>2. \A w \in W : /\ w.name \in AttrNames /\ w.vendor \in VendorNames \cup {NoVendor}
                   /\ w.as \in {"octets", "string", "uint", "ipv4"}
  OBVIOUS
<1>3. Wanted \in Seq(W)
  BY <1>1
<1> HIDE DEF W
<1>4. Wanted[i] \in W
  BY <1>3, ElementOfSeq, LenProperties
<1> QED BY <1>2, <1>4

(* The parts of a packet that a client sends have their types. *)
LEMMA PacketTypes ==
    ASSUME NEW g \in Datagrams
    PROVE  /\ g.packet.attributes \in Seq(Attribute)
           /\ g.packet.vendors \in Seq(Vendor)
           /\ Len(g.packet.attributes) \in Nat /\ Len(g.packet.vendors) \in Nat
           /\ \A k \in 1 .. Len(g.packet.attributes) :
                 /\ g.packet.attributes[k].type \in Byte
                 /\ g.packet.attributes[k].value \in Seq(Byte)
                 /\ Len(g.packet.attributes[k].value) \in Nat
                 /\ g.packet.attributes[k].class = ClassOf(g.packet.attributes[k].type)
           /\ \A k \in 1 .. Len(g.packet.vendors) :
                 /\ g.packet.vendors[k].value \in Seq(Byte)
                 /\ Len(g.packet.vendors[k].value) \in Nat
<1>1. /\ g.packet \in Packet
      /\ \A i \in DOMAIN g.packet.attributes :
            g.packet.attributes[i].class = ClassOf(g.packet.attributes[i].type)
  BY RadiusServerAssumption
<1>2. g.packet.attributes \in Seq(Attribute) /\ g.packet.vendors \in Seq(Vendor)
  BY <1>1 DEF Packet
<1>3. /\ \A k \in 1 .. Len(g.packet.attributes) : g.packet.attributes[k] \in Attribute
      /\ \A k \in 1 .. Len(g.packet.vendors) : g.packet.vendors[k] \in Vendor
      /\ DOMAIN g.packet.attributes = 1 .. Len(g.packet.attributes)
      /\ Len(g.packet.attributes) \in Nat /\ Len(g.packet.vendors) \in Nat
  BY <1>2, ElementOfSeq, LenProperties
<1>4. \A a \in Attribute : a.type \in Byte /\ a.value \in Seq(Byte) /\ Len(a.value) \in Nat
  BY LenProperties DEF Attribute
<1>5. \A v \in Vendor : v.value \in Seq(Byte) /\ Len(v.value) \in Nat
  BY LenProperties DEF Vendor
<1> QED BY <1>1, <1>2, <1>3, <1>4, <1>5

(* A line that gives a key its type shares the number in that key.         *)
LEMMA KeyGiven ==
    ASSUME NEW f, Range(f.lines) \subseteq Lines, NEW m, NEW k,
           GivesKey(Range(f.lines), m, k)
    PROVE  k[2] \in KeyIds(f, m.vendor)
<1>1. CASE m.vendor = NoVendor /\ k[2] = 0
  BY <1>1 DEF KeyIds
<1>2. CASE \E v \in Range(f.lines) : v.kind = "VENDOR" /\ v.name = m.vendor /\ v.code = k[2]
  <2>1. PICK v \in Range(f.lines) : v.kind = "VENDOR" /\ v.name = m.vendor /\ v.code = k[2]
    BY <1>2
  <2>2. m.vendor # NoVendor
    BY <2>1, LineKinds, DictionariesAssumption
  <2> QED BY <2>1, <2>2 DEF KeyIds, IdOf, LinesOf
<1> QED BY <1>1, <1>2 DEF GivesKey

(* The types stored for a plain attribute are those the lines give it. *)
LEMMA PlainTypes ==
    ASSUME NEW f, NEW d, Ready(f, d), NEW w, w.vendor = NoVendor,
           NEW l \in AttributeLine(f, w.name, w.vendor)
    PROVE  /\ GetAttributeType(d, l.code, 0) # NoType
           /\ GetAttributeType(d, l.code, 0) \in TypesOf(f, w)
<1> DEFINE S == Range(f.lines)
           k == <<ByteOf(l.code), 0>>
<1>1. /\ MadeOf(d, S) /\ NoneWaits(d) /\ S \subseteq Lines
      /\ l \in S /\ l.kind = "ATTRIBUTE" /\ l.vendor = NoVendor
  BY SameLines DEF Ready, MadeOf, AttributesIn
<1> HIDE DEF S
<1>2. l.code \in AttrCodes
  BY <1>1, LineKinds
<1>3. k \in Keys
  BY <1>2 DEF Keys
<1>4. TypeStored(d, l)
  BY <1>1, AllStored DEF KindIn
<1>5. d.types[k] # NoType
  BY <1>1, <1>4 DEF TypeStored
<1>6. PICK m \in S : GivesKey(S, m, k) /\ m.type = d.types[k]
  BY <1>1, <1>3, <1>5 DEF MadeOf, TypesGiven
<1>7. m.kind = "ATTRIBUTE" /\ ByteOf(m.code) = ByteOf(l.code) /\ 0 \in KeyIds(f, m.vendor)
  BY <1>1, <1>6, KeyGiven DEF GivesKey, S
<1>8. ShareKey(f, l, m)
  BY <1>1, <1>7 DEF ShareKey, KeyIds
<1>9. m.type \in TypesOf(f, w)
  BY <1>7, <1>8 DEF TypesOf, LinesOf, S
<1> QED BY <1>3, <1>5, <1>6, <1>9 DEF GetAttributeType

(* A wanted attribute without a vendor is looked up as the lines say. *)
LEMMA PlainLookup ==
    ASSUME NEW f, UsualFile(f), NEW d, Ready(f, d), NEW i \in DOMAIN Wanted,
           Wanted[i].vendor = NoVendor, NEW g \in Datagrams
    PROVE  LookupRight(f, Wanted[i], g.packet, GetByName(d, g.packet, Wanted[i].name))
<1> DEFINE S == Range(f.lines)
           w == Wanted[i]
           p == g.packet
           n == Len(p.attributes)
           stops == PlainStops(d, p, w.name)
           at == FirstOf(stops)
           a == p.attributes[at]
           x == GetByName(d, p, w.name)
<1>1. /\ MadeOf(d, S) /\ NoneWaits(d) /\ S \subseteq Lines /\ d \in DictionarySet
      /\ Lists(d.attributes, AttributesIn(S, NoVendor))
  BY DEF Ready, MadeOf, TablesListed
<1>2. w.name \in AttrNames /\ w.vendor = NoVendor /\ w.name # NoName
  BY WantedTypes, DictionariesAssumption
<1>3. Held(w, p) = p.attributes /\ n \in Nat /\ DOMAIN p.attributes = 1 .. n
  BY <1>2, PacketTypes, LenProperties DEF Held
<1>4. DOMAIN d.attributes.right = AttrCodes
  BY <1>1 DEF DictionarySet, TablesOf
<1>5. stops \in SUBSET (1 .. n)
  BY DEF PlainStops
<1>6. x = IF at = 0 THEN Absent
          ELSE IF AttributeName(d, a.type) # NoName
               THEN Decode(GetAttributeType(d, a.type, 0), Data(a, p.auth))
               ELSE OutOfRange
  BY GetByNameOf
<1>7. /\ at \in 0 .. n
      /\ at = 0 <=> stops = {}
      /\ at # 0 => at \in stops /\ \A j \in stops : at <= j
  BY <1>3, <1>5, FirstOne
<1>8. Places(f, w, p) = {k \in 1 .. n : \E l \in AttributeLine(f, w.name, w.vendor) :
                                            p.attributes[k].type = l.code}
  BY <1>2, <1>3 DEF Places
<1> HIDE DEF S, x, at, n
<1>9. \A k \in stops : \/ AttributeName(d, p.attributes[k].type) = NoName
                       \/ /\ AttributeName(d, p.attributes[k].type) = w.name
                          /\ GetAttributeType(d, p.attributes[k].type, 0) # NoType
  BY DEF PlainStops
<1>10. ASSUME ~BadFile(f)
       PROVE  Places(f, w, p) \subseteq stops
  <2> SUFFICES ASSUME NEW k \in Places(f, w, p)
               PROVE  k \in stops
    OBVIOUS
  <2>1. PICK l \in AttributeLine(f, w.name, w.vendor) : p.attributes[k].type = l.code
    BY <1>8
  <2>2. l \in AttributesIn(S, NoVendor) /\ l.name = w.name
    BY <1>2, SameLines DEF S
  <2>3. l \in S /\ l.kind = "ATTRIBUTE" /\ l.vendor = NoVendor /\ l.code \in AttrCodes
    BY <1>1, <2>2, LineKinds DEF AttributesIn
  <2>4. d.attributes.right[l.code] # NoName
    BY <1>1, <2>2 DEF Lists
  <2>5. PICK m \in AttributesIn(S, NoVendor) :
           m.code = l.code /\ m.name = d.attributes.right[l.code]
    BY <1>1, <1>4, <2>3, <2>4 DEF Lists
  <2>6. m \in S /\ m.kind = "ATTRIBUTE" /\ m.vendor = NoVendor
    BY <2>5 DEF AttributesIn
  <2>7. m = l
    BY <1>10, <2>3, <2>5, <2>6, GoodLines DEF S
  <2>8. AttributeName(d, p.attributes[k].type) = w.name
    BY <2>1, <2>2, <2>3, <2>5, <2>7 DEF AttributeName
  <2>9. GetAttributeType(d, p.attributes[k].type, 0) # NoType
    BY <1>2, <2>1, PlainTypes
  <2>10. k \in 1 .. Len(p.attributes)
    BY <1>8 DEF n
  <2> QED BY <2>8, <2>9, <2>10 DEF PlainStops
<1>11. CASE at = 0
  <2>1. x = Absent /\ stops = {}
    BY <1>6, <1>7, <1>11
  <2>2. x.result = "absent"
    BY <2>1 DEF Absent
  <2>3. BadFile(f) \/ Places(f, w, p) = {}
    BY <1>10, <2>1
  <2> QED BY <2>2, <2>3 DEF LookupRight, x
<1>12. CASE at # 0 /\ AttributeName(d, a.type) = NoName
  <2>1. x.result = "out_of_range"
    BY <1>6, <1>12 DEF OutOfRange
  <2>2. at \in DOMAIN p.attributes
    BY <1>3, <1>5, <1>7, <1>12
  <2>3. ASSUME NEW l \in LinesOf(f, "ATTRIBUTE"), l.vendor = NoVendor, l.code = a.type
        PROVE  FALSE
    <3>1. l \in AttributesIn(S, NoVendor) /\ l \in S /\ l.kind = "ATTRIBUTE"
      BY <2>3, SameLines DEF S, KindIn, AttributesIn
    <3>2. l.code \in AttrCodes
      BY <1>1, <3>1, LineKinds
    <3>3. d.attributes.right[l.code] # NoName
      BY <1>1, <3>1 DEF Lists
    <3> QED BY <1>12, <2>3, <3>2, <3>3 DEF AttributeName
  <2>4. ASSUME NEW j \in Places(f, w, p), ~BadFile(f)
        PROVE  at < j
    <3>1. at <= j /\ j \in 1 .. n /\ at \in 0 .. n
      BY <1>7, <1>8, <1>10, <1>12, <2>4
    <3>2. PICK l \in AttributeLine(f, w.name, w.vendor) : p.attributes[j].type = l.code
      BY <1>8
    <3>3. l \in LinesOf(f, "ATTRIBUTE") /\ l.vendor = NoVendor
      BY <1>2 DEF AttributeLine
    <3>4. at # j
      BY <2>3, <3>2, <3>3
    <3> QED BY <1>3, <3>1, <3>4
  <2>5. Unlisted(f, w, p, at)
    BY <2>3, <2>4 DEF Unlisted
  <2> QED BY <1>2, <2>1, <2>2, <2>5 DEF LookupRight, x
<1>13. CASE at # 0 /\ AttributeName(d, a.type) # NoName
  <2>1. /\ at \in stops /\ AttributeName(d, a.type) = w.name
        /\ GetAttributeType(d, a.type, 0) # NoType
    BY <1>7, <1>9, <1>13
  <2>2. at \in 1 .. n
    BY <1>5, <2>1
  <2>3. a.type \in AttrCodes /\ d.attributes.right[a.type] = w.name
    BY <1>2, <2>1 DEF AttributeName
  <2>4. PICK l \in AttributesIn(S, NoVendor) : l.code = a.type /\ l.name = w.name
    BY <1>1, <1>2, <1>4, <2>3 DEF Lists
  <2>5. l \in AttributeLine(f, w.name, w.vendor)
    BY <1>2, <2>4, SameLines DEF S
  <2>6. at \in Places(f, w, p)
    BY <1>8, <2>2, <2>4, <2>5
  <2> DEFINE type == GetAttributeType(d, a.type, 0)
  <2>7. type \in TypesOf(f, w)
    BY <1>2, <2>4, <2>5, PlainTypes
  <2>8. /\ a.class = ClassOf(a.type) /\ Len(a.value) \in Nat
    BY <2>2, PacketTypes DEF n
  <2>9. ClassOf(l.code) \notin {"Integer", "Encrypted"}
    BY <1>2, <2>5 DEF UsualFile
  <2>10. Data(a, p.auth) = a.value
    BY <2>4, <2>8, <2>9 DEF Data
  <2> HIDE DEF type
  <2>11. x = Decode(type, a.value)
    BY <1>6, <1>13, <2>10 DEF type
  <2>12. x.result \in {"found", "Exception"}
    BY <2>8, <2>11, DecodeResult
  <2>13. BadFile(f) \/ \A j \in Places(f, w, p) : at <= j
    BY <1>7, <1>10, <1>13
  <2>14. x = Decode(type, Held(w, p)[at].value)
    BY <1>3, <2>11
  <2>15. \E k \in Places(f, w, p) : \E t \in TypesOf(f, w) :
            /\ x = Decode(t, Held(w, p)[k].value)
            /\ BadFile(f) \/ \A j \in Places(f, w, p) : k <= j
    BY <2>6, <2>7, <2>13, <2>14
  <2>16. x.result # "absent" /\ x.result # "out_of_range"
    BY <2>12
  <2> QED BY <2>12, <2>15, <2>16 DEF LookupRight, x
<1> QED BY <1>11, <1>12, <1>13

-----------------------------------------------------------------------------
(* The number and the code of a vendor attribute, and the type stored.     *)
LEMMA VendorKey ==
    ASSUME NEW f, NEW d, Ready(f, d), NEW n \in AttrNames, NEW v \in VendorNames
    PROVE  /\ VendorCode(d, v) # NoCode => VendorCode(d, v) \in IdOf(f, v)
           /\ VendorAttributeCode(d, v, n) # NoCode =>
                 \E l \in AttributeLine(f, n, v) : l.code = VendorAttributeCode(d, v, n)
           /\ ~BadFile(f) => \A id \in IdOf(f, v) : id = VendorCode(d, v)
           /\ ~BadFile(f) => \A l \in AttributeLine(f, n, v) : l.code = VendorAttributeCode(d, v, n)
           /\ AttributeLine(f, n, v) # {} =>
                 VendorCode(d, v) # NoCode /\ VendorAttributeCode(d, v, n) # NoCode
<1> DEFINE S == Range(f.lines)
           t == At(d.vendorAttributes, v)
<1>1. /\ MadeOf(d, S) /\ NoneWaits(d) /\ S \subseteq Lines /\ d \in DictionarySet
      /\ Lists(d.vendorNames, KindIn(S, "VENDOR")) /\ Lists(t, AttributesIn(S, v))
  BY DEF Ready, MadeOf, TablesListed
<1>2. /\ DOMAIN d.vendorNames.reverse = VendorNames /\ DOMAIN t.reverse = AttrNames
      /\ t.reverse[n] = VendorAttributeCode(d, v, n)
      /\ d.vendorNames.reverse[v] = VendorCode(d, v)
  BY <1>1 DEF DictionarySet, TablesOf, ScopedTablesOf, At, VendorAttributeCode, VendorCode
<1>3. /\ AttributeLine(f, n, v) = {l \in AttributesIn(S, v) : l.name = n}
      /\ IdOf(f, v) = {l.code : l \in {m \in KindIn(S, "VENDOR") : m.name = v}}
  BY SameLines DEF IdOf
<1> HIDE DEF S, t
<1>4. ASSUME VendorCode(d, v) # NoCode
      PROVE  VendorCode(d, v) \in IdOf(f, v)
  <2>1. \E m \in KindIn(S, "VENDOR") : m.name = v /\ m.code = VendorCode(d, v)
    BY <1>1, <1>2, <1>4 DEF Lists
  <2> QED BY <1>3, <2>1
<1>5. ASSUME VendorAttributeCode(d, v, n) # NoCode
      PROVE  \E l \in AttributeLine(f, n, v) : l.code = VendorAttributeCode(d, v, n)
  <2>1. \E m \in AttributesIn(S, v) : m.name = n /\ m.code = VendorAttributeCode(d, v, n)
    BY <1>1, <1>2, <1>5 DEF Lists
  <2> QED BY <1>3, <2>1
<1>6. ASSUME ~BadFile(f), NEW id \in IdOf(f, v)
      PROVE  id = VendorCode(d, v)
  <2>1. PICK l \in KindIn(S, "VENDOR") : l.name = v /\ l.code = id
    BY <1>3
  <2>2. d.vendorNames.reverse[l.name] # NoCode
    BY <1>1, <2>1 DEF Lists
  <2>3. PICK m \in KindIn(S, "VENDOR") : m.name = v /\ m.code = VendorCode(d, v)
    BY <1>1, <1>2, <2>1, <2>2 DEF Lists
  <2>4. m = l
    BY <1>6, <2>1, <2>3, GoodLines DEF S, KindIn
  <2> QED BY <2>1, <2>3, <2>4
<1>7. ASSUME ~BadFile(f), NEW l \in AttributeLine(f, n, v)
      PROVE  l.code = VendorAttributeCode(d, v, n)
  <2>1. l \in AttributesIn(S, v) /\ l.name = n
    BY <1>3
  <2>2. t.reverse[l.name] # NoCode
    BY <1>1, <2>1 DEF Lists
  <2>3. PICK m \in AttributesIn(S, v) : m.name = n /\ m.code = VendorAttributeCode(d, v, n)
    BY <1>1, <1>2, <2>1, <2>2 DEF Lists
  <2>4. m = l
    BY <1>7, <2>1, <2>3, GoodLines DEF S, AttributesIn
  <2> QED BY <2>3, <2>4
<1>8. ASSUME AttributeLine(f, n, v) # {}
      PROVE  VendorCode(d, v) # NoCode /\ VendorAttributeCode(d, v, n) # NoCode
  <2>1. PICK l \in AttributesIn(S, v) : l.name = n
    BY <1>3, <1>8
  <2>2. t.reverse[l.name] # NoCode
    BY <1>1, <2>1 DEF Lists
  <2>3. l \in KindIn(S, "ATTRIBUTE") /\ l.vendor = v
    BY <2>1 DEF KindIn, AttributesIn
  <2>4. TypeStored(d, l)
    BY <1>1, <2>3, AllStored
  <2>5. v # NoVendor
    BY DictionariesAssumption
  <2>6. d.vendorNames.reverse[v] # NoCode
    BY <2>3, <2>4, <2>5 DEF TypeStored
  <2> QED BY <1>2, <2>1, <2>2, <2>6
<1> QED BY <1>4, <1>5, <1>6, <1>7, <1>8

(* The type a vendor attribute gets is that of a line that shares its key. *)
LEMMA VendorTypes ==
    ASSUME NEW f, NEW d, Ready(f, d), NEW w, w.vendor \in VendorNames, w.name \in AttrNames,
           VendorCode(d, w.vendor) # NoCode, VendorAttributeCode(d, w.vendor, w.name) # NoCode
    PROVE  LET type == GetAttributeType(d, VendorAttributeCode(d, w.vendor, w.name),
                                        VendorCode(d, w.vendor))
           IN  type # NoType => type \in TypesOf(f, w)
<1> DEFINE S == Range(f.lines)
           id == VendorCode(d, w.vendor)
           code == VendorAttributeCode(d, w.vendor, w.name)
           k == <<ByteOf(code), id>>
           type == GetAttributeType(d, code, id)
<1>1. MadeOf(d, S) /\ S \subseteq Lines
  BY DEF Ready, MadeOf
<1>2. id \in IdOf(f, w.vendor)
  BY VendorKey
<1>3. PICK l \in AttributeLine(f, w.name, w.vendor) : l.code = code
  BY VendorKey
<1>4. l.vendor = w.vendor
  BY DEF AttributeLine
<1>5. id \in KeyIds(f, l.vendor)
  BY <1>2, <1>4, DictionariesAssumption DEF KeyIds
<1> HIDE DEF S, id, code
<1>6. ASSUME type # NoType
      PROVE  type \in TypesOf(f, w)
  <2>1. k \in Keys /\ type = d.types[k]
    BY <1>6 DEF GetAttributeType
  <2>2. PICK m \in S : GivesKey(S, m, k) /\ m.type = d.types[k]
    BY <1>1, <1>6, <2>1 DEF MadeOf, TypesGiven
  <2>3. m.kind = "ATTRIBUTE" /\ ByteOf(m.code) = ByteOf(code)
    BY <2>2 DEF GivesKey
  <2>6. id \in KeyIds(f, m.vendor)
    BY <1>1, <2>2, KeyGiven DEF S
  <2>7. ShareKey(f, l, m)
    BY <1>3, <1>5, <2>3, <2>6 DEF ShareKey
  <2>8. m.type \in TypesOf(f, w)
    BY <2>3, <2>7 DEF TypesOf, LinesOf, S
  <2> QED BY <2>1, <2>2, <2>8
<1> QED BY <1>6 DEF id, code

(* The type of an attribute of a vendor with a number is stored.           *)
LEMMA VendorTyped ==
    ASSUME NEW f, NEW d, Ready(f, d), NEW n \in AttrNames, NEW v \in VendorNames,
           VendorCode(d, v) # NoCode, NEW l \in AttributeLine(f, n, v)
    PROVE  GetAttributeType(d, l.code, VendorCode(d, v)) # NoType
<1> DEFINE id == VendorCode(d, v)
<1>1. l \in KindIn(Range(f.lines), "ATTRIBUTE") /\ l.vendor = v /\ v # NoVendor
  BY SameLines, DictionariesAssumption DEF AttributesIn, KindIn
<1>2. TypeStored(d, l)
  BY <1>1, AllStored DEF Ready
<1>3. d.types[<<ByteOf(l.code), id>>] # NoType
  BY <1>1, <1>2 DEF TypeStored, VendorCode
<1>4. l.code \in AttrCodes
  BY <1>1, LineKinds DEF Ready, MadeOf, KindIn
<1>5. id \in VendorIds
  BY VendorGiven DEF Ready, VendorCode
<1>6. <<ByteOf(l.code), id>> \in Keys
  BY <1>4, <1>5 DEF Keys
<1> QED BY <1>3, <1>6 DEF GetAttributeType

(* A wanted attribute of a vendor is looked up as the lines say. *)
LEMMA VendorLookup ==
    ASSUME NEW f, NEW d, Ready(f, d), NEW i \in DOMAIN Wanted,
           Wanted[i].vendor \in VendorNames, NEW g \in Datagrams
    PROVE  LookupRight(f, Wanted[i], g.packet,
                       GetAttributeByName(d, g.packet, Wanted[i].name, Wanted[i].vendor))
<1> DEFINE w == Wanted[i]
           p == g.packet
           n == Len(p.vendors)
           id == VendorCode(d, w.vendor)
           code == VendorAttributeCode(d, w.vendor, w.name)
           type == GetAttributeType(d, code, id)
           stops == VendorStops(p, id, code)
           at == FirstOf(stops)
           x == GetAttributeByName(d, p, w.name, w.vendor)
<1>1. w.vendor # NoVendor /\ w.name \in AttrNames /\ w.vendor \in VendorNames
  BY WantedTypes, DictionariesAssumption
<1>2. x = IF NoCode \in {id, code} THEN OutOfRange ELSE GetVendorAttribute(d, p, id, code)
  BY <1>1 DEF GetAttributeByName
<1>3. Held(w, p) = p.vendors /\ n \in Nat /\ DOMAIN p.vendors = 1 .. n
  BY <1>1, PacketTypes, LenProperties DEF Held
<1>4. stops \in SUBSET (1 .. n)
  BY DEF VendorStops
<1>5. GetVendorAttribute(d, p, id, code) =
         IF at = 0 \/ type = NoType THEN Absent ELSE Decode(type, p.vendors[at].value)
  BY GetVendorOf
<1>6. /\ at \in 0 .. n
      /\ at = 0 <=> stops = {}
      /\ at # 0 => at \in stops /\ \A j \in stops : at <= j
  BY <1>3, <1>4, FirstOne
<1>7. Places(f, w, p) = {k \in 1 .. n :
                          /\ \E l \in AttributeLine(f, w.name, w.vendor) :
                                p.vendors[k].type = l.code
                          /\ p.vendors[k].id \in IdOf(f, w.vendor)}
  BY <1>1, <1>3 DEF Places
<1>8. stops = {k \in 1 .. n : p.vendors[k].id = id /\ p.vendors[k].type = code}
  BY DEF VendorStops
<1>9. /\ id # NoCode => id \in IdOf(f, w.vendor)
      /\ code # NoCode => \E l \in AttributeLine(f, w.name, w.vendor) : l.code = code
      /\ ~BadFile(f) => \A j \in IdOf(f, w.vendor) : j = id
      /\ ~BadFile(f) => \A l \in AttributeLine(f, w.name, w.vendor) : l.code = code
      /\ AttributeLine(f, w.name, w.vendor) # {} => id # NoCode /\ code # NoCode
  BY <1>1, VendorKey
<1>10. id # NoCode /\ code # NoCode /\ type # NoType => type \in TypesOf(f, w)
  BY <1>1, VendorTypes
<1>11. ~BadFile(f) => Places(f, w, p) \subseteq stops
  BY <1>7, <1>8, <1>9
<1>12. ASSUME id # NoCode, code # NoCode, ~BadFile(f)
       PROVE  type # NoType
  <2>1. PICK l \in AttributeLine(f, w.name, w.vendor) : l.code = code
    BY <1>9, <1>12
  <2> QED BY <1>1, <1>12, <2>1, VendorTyped
<1> HIDE DEF x, id, code, type, stops, at, n
<1>13. CASE NoCode \in {id, code}
  <2>1. x.result = "out_of_range"
    BY <1>2, <1>13 DEF OutOfRange
  <2>2. w.vendor # NoVendor /\ AttributeLine(f, w.name, w.vendor) = {}
    BY <1>1, <1>9, <1>13
  <2> QED BY <2>1, <2>2 DEF LookupRight, x
<1>14. CASE NoCode \notin {id, code} /\ (at = 0 \/ type = NoType)
  <2>1. x.result = "absent"
    BY <1>2, <1>5, <1>14 DEF Absent
  <2>2. BadFile(f) \/ Places(f, w, p) = {}
    BY <1>6, <1>11, <1>12, <1>14
  <2> QED BY <2>1, <2>2 DEF LookupRight, x
<1>15. CASE NoCode \notin {id, code} /\ at # 0 /\ type # NoType
  <2>1. at \in stops /\ at \in 1 .. n
    BY <1>4, <1>6, <1>15
  <2>2. x = Decode(type, p.vendors[at].value)
    BY <1>2, <1>5, <1>15
  <2>3. at \in Places(f, w, p)
    BY <1>7, <1>8, <1>9, <1>15, <2>1
  <2>4. type \in TypesOf(f, w)
    BY <1>10, <1>15
  <2>5. Len(p.vendors[at].value) \in Nat
    BY <2>1, PacketTypes DEF n
  <2>6. x.result \in {"found", "Exception"}
    BY <2>2, <2>5, DecodeResult
  <2>7. BadFile(f) \/ \A j \in Places(f, w, p) : at <= j
    BY <1>6, <1>11, <1>15
  <2>8. x = Decode(type, Held(w, p)[at].value)
    BY <1>3, <2>2
  <2>9. \E k \in Places(f, w, p) : \E t \in TypesOf(f, w) :
            /\ x = Decode(t, Held(w, p)[k].value)
            /\ BadFile(f) \/ \A j \in Places(f, w, p) : k <= j
    BY <2>3, <2>4, <2>7, <2>8
  <2>10. x.result # "absent" /\ x.result # "out_of_range"
    BY <2>6
  <2> QED BY <2>6, <2>9, <2>10 DEF LookupRight, x
<1> QED BY <1>13, <1>14, <1>15

(* Both together: every lookup means what the lines of the file say. *)
LEMMA LookupIsRight ==
    ASSUME NEW f, UsualFile(f), NEW d, Ready(f, d), NEW i \in DOMAIN Wanted, NEW g \in Datagrams
    PROVE  LookupRight(f, Wanted[i], g.packet,
                       GetAttributeByName(d, g.packet, Wanted[i].name, Wanted[i].vendor))
<1>1. CASE Wanted[i].vendor = NoVendor
  <2>1. GetAttributeByName(d, g.packet, Wanted[i].name, Wanted[i].vendor)
           = GetByName(d, g.packet, Wanted[i].name)
    BY <1>1 DEF GetAttributeByName
  <2> QED BY <1>1, <2>1, PlainLookup
<1>2. CASE Wanted[i].vendor # NoVendor
  <2>1. Wanted[i].vendor \in VendorNames
    BY <1>2, WantedTypes
  <2> QED BY <2>1, VendorLookup
<1> QED BY <1>1, <1>2

-----------------------------------------------------------------------------
(* Zeros and bytes joined: their types, lengths and elements. *)
LEMMA ZerosType ==
    ASSUME NEW n \in Nat
    PROVE  Zeros(n) \in Seq(Byte) /\ Len(Zeros(n)) = n /\ \A i \in 1 .. n : Zeros(n)[i] = 0
<1>1. DOMAIN Zeros(n) = 1 .. n /\ \A i \in 1 .. n : Zeros(n)[i] = 0
  BY DEF Zeros
<1>2. \A i \in 1 .. n : 0 \in Byte
  BY DEF Byte
<1>3. Zeros(n) \in Seq(Byte)
  BY <1>2 DEF Zeros
<1> QED BY <1>1, <1>3, LenProperties

LEMMA JoinedBytes ==
    ASSUME NEW s \in Seq(Byte), NEW t \in Seq(Byte)
    PROVE  /\ s \o t \in Seq(Byte) /\ Len(s \o t) = Len(s) + Len(t)
           /\ \A i \in 1 .. Len(s) + Len(t) :
                 (s \o t)[i] = IF i <= Len(s) THEN s[i] ELSE t[i - Len(s)]
           /\ Len(s) \in Nat /\ Len(t) \in Nat
BY ConcatProperties, LenProperties

(* Zeros before zeros are zeros. *)
LEMMA ZerosJoined ==
    ASSUME NEW m \in Nat, NEW n \in Nat, NEW s \in Seq(Byte), NEW z \in Seq(Byte), Len(z) = m,
           \A i \in 1 .. m : z[i] = 0
    PROVE  z \o (Zeros(n) \o s) = Zeros(m + n) \o s
<1> DEFINE a == Zeros(n)
           b == Zeros(m + n)
           c == z \o a
<1>1. m + n \in Nat
  OBVIOUS
<1>2. /\ a \in Seq(Byte) /\ Len(a) = n /\ \A i \in 1 .. n : a[i] = 0
      /\ b \in Seq(Byte) /\ Len(b) = m + n /\ \A i \in 1 .. m + n : b[i] = 0
  BY <1>1, ZerosType
<1> HIDE DEF a, b
<1>3. /\ c \in Seq(Byte) /\ Len(c) = Len(z) + Len(a)
      /\ \A i \in 1 .. Len(z) + Len(a) : c[i] = IF i <= Len(z) THEN z[i] ELSE a[i - Len(z)]
  BY <1>2, JoinedBytes
<1> HIDE DEF c
<1>4. Len(c) = m + n /\ \A i \in 1 .. m + n : c[i] = IF i <= m THEN z[i] ELSE a[i - m]
  BY <1>2, <1>3
<1>5. ASSUME NEW i \in 1 .. m + n
      PROVE  c[i] = 0
  <2>1. i <= m \/ i - m \in 1 .. n
    OBVIOUS
  <2>2. i <= m => i \in 1 .. m
    OBVIOUS
  <2> QED BY <1>2, <1>4, <2>1, <2>2
<1>6. \A i \in 1 .. Len(c) : c[i] = b[i]
  BY <1>2, <1>4, <1>5
<1>7. Len(c) = Len(b)
  BY <1>2, <1>4
<1>8. c = b
  BY <1>2, <1>3, <1>6, <1>7, SeqEqual
<1>9. z \o (a \o s) = c \o s
  <2>1. z \in Seq(Byte) /\ a \in Seq(Byte) /\ s \in Seq(Byte)
    BY <1>2
  <2>2. (z \o a) \o s = z \o (a \o s)
    BY <2>1, ConcatAssociative
  <2> QED BY <2>2 DEF c
<1> QED BY <1>8, <1>9 DEF a, b

-----------------------------------------------------------------------------
(* The texts that are written of a decoded value. *)
LEMMA UintText ==
    ASSUME NEW type \in IntTypes, NEW octets \in Seq(Byte), Len(octets) \in Sizes(type),
           NEW a, a.class = "Integer", a.value = Zeros(Width(type) - Len(octets)) \o octets,
           a.signed = (type = "integer")
    PROVE  \/ AsUint(a) = Zeros(8 - Len(octets)) \o octets
           \/ type = "integer" /\ Len(octets) = 4 /\ octets[1] >= 128
<1> DEFINE W == Width(type)
           n == Len(octets)
           negative == a.signed /\ a.value[1] >= 128
           fill == [i \in 1 .. 8 - Len(a.value) |-> IF negative THEN 255 ELSE 0]
<1>1. /\ W \in {1, 2, 4, 8} /\ n \in {1, 2, 4, 8} /\ n <= W
      /\ W - n \in Nat /\ 8 - W \in Nat
  <2>1. W \in {1, 2, 4, 8} /\ n \in {1, 2, 4, 8} /\ n <= W
    BY IntTypeSizes
  <2> HIDE DEF W, n
  <2> QED BY <2>1
<1>2. AsUint(a) = fill \o a.value
  BY DEF AsUint
<1>3. Zeros(W - n) \in Seq(Byte) /\ Len(Zeros(W - n)) = W - n
      /\ \A i \in 1 .. W - n : Zeros(W - n)[i] = 0
  BY <1>1, ZerosType
<1>4. /\ a.value \in Seq(Byte) /\ Len(a.value) = (W - n) + n
      /\ \A i \in 1 .. (W - n) + n :
            a.value[i] = IF i <= W - n THEN Zeros(W - n)[i] ELSE octets[i - (W - n)]
  <2> DEFINE z == Zeros(W - n)
  <2>1. z \in Seq(Byte) /\ Len(z) = W - n
    BY <1>3
  <2> HIDE DEF z
  <2>2. /\ z \o octets \in Seq(Byte) /\ Len(z \o octets) = Len(z) + Len(octets)
        /\ \A i \in 1 .. Len(z) + Len(octets) :
              (z \o octets)[i] = IF i <= Len(z) THEN z[i] ELSE octets[i - Len(z)]
    BY <2>1, JoinedBytes
  <2>3. a.value = z \o octets
    BY DEF z
  <2> HIDE DEF W, n
  <2>4. n = Len(octets)
    BY DEF n
  <2>5. /\ a.value \in Seq(Byte) /\ Len(a.value) = (W - n) + n
        /\ \A i \in 1 .. (W - n) + n :
              a.value[i] = IF i <= W - n THEN z[i] ELSE octets[i - (W - n)]
    BY <2>1, <2>2, <2>3, <2>4
  <2> QED BY <2>5 DEF z
<1> HIDE DEF W, n, fill, negative
<1>5. Len(a.value) = W
  BY <1>1, <1>4
<1>6. CASE ~negative
  <2>1. fill = [i \in 1 .. 8 - W |-> 0]
    BY <1>5, <1>6 DEF fill
  <2>2. fill = Zeros(8 - W)
    BY <2>1 DEF Zeros
  <2>3. fill \in Seq(Byte) /\ Len(fill) = 8 - W /\ \A i \in 1 .. 8 - W : fill[i] = 0
    BY <1>1, <2>2, ZerosType
  <2>4. fill \o (Zeros(W - n) \o octets) = Zeros((8 - W) + (W - n)) \o octets
    BY <1>1, <2>3, ZerosJoined
  <2>5. (8 - W) + (W - n) = 8 - n
    BY <1>1
  <2> QED BY <1>2, <2>4, <2>5 DEF W, n
<1>7. CASE negative
  <2>1. type = "integer" /\ a.value[1] >= 128
    BY <1>7 DEF negative
  <2>2. W = 4
    BY <2>1 DEF Width, W
  <2>3. CASE n = 4
    <3>1. 4 - 4 = 0 /\ 1 \in 1 .. (4 - 4) + 4 /\ ~(1 <= 4 - 4) /\ 1 - (4 - 4) = 1
      OBVIOUS
    <3>2. a.value[1] = octets[1]
      BY <1>4, <2>2, <2>3, <3>1
    <3> QED BY <2>1, <2>3, <3>2 DEF n
  <2>4. CASE n # 4
    <3>1. 1 \in 1 .. 4 - n /\ 1 \in 1 .. (4 - n) + n /\ 1 <= 4 - n
      BY <1>1, <2>2, <2>4
    <3>2. a.value[1] = 0
      BY <1>3, <1>4, <2>2, <3>1
    <3>3. ~(0 >= 128)
      OBVIOUS
    <3>4. FALSE
      BY <2>1, <3>2, <3>3, Zenon
    <3> QED BY <3>4
  <2> QED BY <2>3, <2>4
<1> QED BY <1>6, <1>7

(* An address is shown with its bytes in order. *)
LEMMA AddressText ==
    ASSUME NEW octets \in Seq(Byte), Len(octets) = 4, NEW a, a.class = "IpAddress",
           a.value = octets
    PROVE  Reverse(SubSeq(AsUint(a), 5, 8)) = octets
<1> DEFINE z == Zeros(4)
           r == Reverse(octets)
           u == z \o r
           part == SubSeq(u, 5, 8)
<1>1. AsUint(a) = u
  BY DEF AsUint
<1>2. /\ z \in Seq(Byte) /\ Len(z) = 4
  BY ZerosType
<1>3. r = [i \in 1 .. 4 |-> octets[(4 - i) + 1]]
  BY DEF Reverse
<1>4. \A i \in 1 .. 4 : octets[i] \in Byte
  BY ElementOfSeq
<1>5. \A i \in 1 .. 4 : (4 - i) + 1 \in 1 .. 4
  OBVIOUS
<1>6. \A i \in 1 .. 4 : octets[(4 - i) + 1] \in Byte
  BY <1>4, <1>5
<1> HIDE DEF r
<1>7. r \in Seq(Byte)
  BY <1>3, <1>6
<1>8. Len(r) = 4 /\ \A i \in 1 .. 4 : r[i] = octets[(4 - i) + 1]
  BY <1>3, <1>7, LenProperties
<1> HIDE DEF z
<1>9. /\ u \in Seq(Byte) /\ Len(u) = 8
      /\ \A i \in 1 .. 8 : u[i] = IF i <= 4 THEN z[i] ELSE r[i - 4]
  <2>1. /\ u \in Seq(Byte) /\ Len(u) = Len(z) + Len(r)
        /\ \A i \in 1 .. Len(z) + Len(r) : u[i] = IF i <= Len(z) THEN z[i] ELSE r[i - Len(z)]
    BY <1>2, <1>7, JoinedBytes
  <2>2. Len(z) = 4 /\ Len(r) = 4 /\ 4 + 4 = 8
    BY <1>2, <1>8
  <2> HIDE DEF u
  <2> QED BY <2>1, <2>2, Zenon
<1> HIDE DEF u
<1>10. part = [i \in 1 .. 4 |-> u[5 + i - 1]]
  BY <1>9, LenProperties DEF SubSeq
<1>11. \A i \in 1 .. 4 : part[i] = r[i]
  BY <1>9, <1>10
<1>12. part = r
  BY <1>3, <1>10, <1>11
<1>13. Reverse(part) = [i \in 1 .. 4 |-> r[(4 - i) + 1]]
  BY <1>8, <1>12 DEF Reverse
<1>14. \A i \in 1 .. 4 : (4 - ((4 - i) + 1)) + 1 = i
  OBVIOUS
<1>15. \A i \in 1 .. 4 : r[(4 - i) + 1] = octets[i]
  BY <1>5, <1>8, <1>14
<1>16. octets = [i \in 1 .. 4 |-> octets[i]]
  BY LenProperties
<1> QED BY <1>1, <1>13, <1>15, <1>16

(* The text of a value that is decoded as a type that suits is right. *)
LEMMA FoundText ==
    ASSUME NEW as \in {"octets", "string", "uint", "ipv4"}, NEW type, NEW octets \in Seq(Byte),
           Suits(as, type), Decode(type, octets).result = "found"
    PROVE  \/ Text(as, Decode(type, octets).attribute) = RightText(as, type, octets)
           \/ as = "uint" /\ type = "integer" /\ Len(octets) = 4 /\ octets[1] >= 128
<1> DEFINE x == Decode(type, octets)
           a == x.attribute
<1>0. Len(octets) \in Nat /\ Refused.result # "found"
  BY LenProperties DEF Refused
<1>a. "ipaddr" \notin IntTypes /\ "string" \notin IntTypes
  BY DEF IntTypes
<1>1. CASE type \in IntTypes
  <2> DEFINE value == Zeros(Width(type) - Len(octets)) \o octets
             integer == Decoded("Integer", value, type = "integer")
  <2>1. x = IF Len(octets) \in Sizes(type) THEN integer ELSE Refused
    BY <1>0, <1>1, DecodeOf, Zenon
  <2>2. /\ integer.attribute.class = "Integer" /\ integer.attribute.value = value
        /\ integer.attribute.signed = (type = "integer")
    BY DEF Decoded, Found
  <2> HIDE DEF integer, value
  <2>3. /\ Len(octets) \in Sizes(type) /\ a.class = "Integer" /\ a.value = value
        /\ a.signed = (type = "integer")
    BY <1>0, <2>1, <2>2
  <2> HIDE DEF x
  <2>4. type # "string" /\ type # "ipaddr"
    BY <1>1, <1>a
  <2>5. CASE as = "octets"
    BY <1>1, <2>3, <2>5 DEF Text, RightText, AsOctets, value, x
  <2>6. CASE as = "uint"
    <3>1. \/ AsUint(a) = Zeros(8 - Len(octets)) \o octets
          \/ type = "integer" /\ Len(octets) = 4 /\ octets[1] >= 128
      BY <1>1, <2>3, UintText DEF value
    <3>2. Text(as, a) = AsUint(a) /\ RightText(as, type, octets) = Zeros(8 - Len(octets)) \o octets
      BY <2>6 DEF Text, RightText
    <3> QED BY <2>6, <3>1, <3>2 DEF x
  <2> QED BY <2>4, <2>5, <2>6 DEF Suits
<1>2. CASE type = "ipaddr"
  <2> DEFINE address == Decoded("IpAddress", octets, FALSE)
  <2>1. x = IF Len(octets) = 4 THEN address ELSE Refused
    BY <1>0, <1>2, DecodeOf, Zenon
  <2>2. address.attribute.class = "IpAddress" /\ address.attribute.value = octets
    BY DEF Decoded, Found
  <2> HIDE DEF address
  <2>3. Len(octets) = 4 /\ a.class = "IpAddress" /\ a.value = octets
    BY <1>0, <2>1, <2>2
  <2> HIDE DEF x
  <2>4. CASE as = "octets"
    BY <1>2, <1>a, <2>3, <2>4 DEF Text, RightText, AsOctets, x
  <2>5. CASE as = "ipv4"
    <3>1. Text(as, a) = Reverse(SubSeq(AsUint(a), 5, 8)) /\ RightText(as, type, octets) = octets
      BY <2>5 DEF Text, RightText
    <3> QED BY <2>3, <3>1, AddressText DEF x
  <2> QED BY <1>2, <1>a, <2>4, <2>5 DEF Suits
<1>3. CASE type = "string"
  <2> DEFINE string == Decoded("String", octets, FALSE)
  <2>1. x = string
    BY <1>0, <1>3, DecodeOf, Zenon
  <2>2. string.attribute.class = "String" /\ string.attribute.value = octets
    BY DEF Decoded, Found
  <2> HIDE DEF string
  <2>3. a.class = "String" /\ a.value = octets
    BY <2>1, <2>2
  <2> HIDE DEF x
  <2>4. CASE as = "octets"
    BY <1>3, <1>a, <2>3, <2>4 DEF Text, RightText, AsOctets, x
  <2>5. CASE as = "string"
    <3>1. Text(as, a) = AsString(a) /\ RightText(as, type, octets) = <<"characters", octets>>
      BY <2>5 DEF Text, RightText
    <3>2. AsString(a) = <<"characters", octets>>
      BY <2>3 DEF AsString
    <3> QED BY <3>1, <3>2 DEF x
  <2> QED BY <1>3, <1>a, <2>4, <2>5 DEF Suits
<1>4. CASE type \notin IntTypes /\ type # "ipaddr" /\ type # "string"
  <2> DEFINE bytes == Decoded("Bytes", octets, FALSE)
  <2>1. x = bytes
    BY <1>0, <1>4, DecodeOf, Zenon
  <2>2. bytes.attribute.value = octets
    BY DEF Decoded, Found
  <2> HIDE DEF bytes
  <2>3. a.value = octets
    BY <2>1, <2>2
  <2> HIDE DEF x
  <2>4. as = "octets"
    BY <1>4 DEF Suits
  <2> QED BY <1>4, <2>3, <2>4 DEF Text, RightText, AsOctets, x
<1> QED BY <1>1, <1>2, <1>3, <1>4

-----------------------------------------------------------------------------
(* Which lookup of a request throws first. *)
Looked(p, i) == GetAttributeByName(dict, p, Wanted[i].name, Wanted[i].vendor)
Failed(p) == FirstOf({i \in 1 .. Len(Wanted) : Throws(Looked(p, i))})

(* Wanted is a sequence. *)
LEMMA WantedLength ==
    Len(Wanted) \in Nat /\ DOMAIN Wanted = 1 .. Len(Wanted)
<1> DEFINE W == [name : AttrNames, vendor : VendorNames \cup {NoVendor},
                 as : {"octets", "string", "uint", "ipv4"}]
<1>1. Wanted \in Seq(W)
  BY RadiusServerAssumption
<1> HIDE DEF W
<1> QED BY <1>1, LenProperties

(* The lookups of a request, and where SelectInSeq finds the first that throws. *)
LEMMA LookupsOf ==
    ASSUME NEW p
    PROVE  /\ Len(Lookups(p)) = Len(Wanted)
           /\ \A i \in 1 .. Len(Wanted) : Lookups(p)[i] = Looked(p, i)
           /\ SelectInSeq(Lookups(p), Throws) = Failed(p)
<1>1. /\ DOMAIN Lookups(p) = 1 .. Len(Wanted)
      /\ \A i \in 1 .. Len(Wanted) : Lookups(p)[i] = Looked(p, i)
      /\ Lookups(p) = [i \in 1 .. Len(Wanted) |-> Looked(p, i)]
  BY WantedLength DEF Lookups, Looked
<1>2. Len(Lookups(p)) = Len(Wanted)
  <2>1. [i \in 1 .. Len(Wanted) |-> Looked(p, i)] \in Seq({Looked(p, i) : i \in 1 .. Len(Wanted)})
    BY WantedLength
  <2>2. \A n \in Nat : \A s \in Seq({Looked(p, i) : i \in 1 .. Len(Wanted)}) :
           DOMAIN s = 1 .. n => Len(s) = n
    BY LenProperties
  <2> QED BY <1>1, <2>1, <2>2, WantedLength, Zenon
<1>3. {i \in 1 .. Len(Lookups(p)) : Throws(Lookups(p)[i])}
         = {i \in 1 .. Len(Wanted) : Throws(Looked(p, i))}
  BY <1>1, <1>2
<1>4. SelectInSeq(Lookups(p), Throws)
         = FirstOf({i \in 1 .. Len(Lookups(p)) : Throws(Lookups(p)[i])})
  BY DEF SelectInSeq, FirstOf
<1> QED BY <1>1, <1>2, <1>3, <1>4 DEF Failed

(* No lookup before the one that fails throws. *)
LEMMA FailedFirst ==
    ASSUME NEW p
    PROVE  /\ Failed(p) \in 0 .. Len(Wanted)
           /\ Failed(p) # 0 => Failed(p) \in DOMAIN Wanted /\ Throws(Looked(p, Failed(p)))
           /\ \A i \in 1 .. Len(Wanted) :
                 Failed(p) = 0 \/ i < Failed(p) => ~Throws(Looked(p, i))
<1> DEFINE n == Len(Wanted)
           I == {i \in 1 .. n : Throws(Looked(p, i))}
<1>1. n \in Nat /\ DOMAIN Wanted = 1 .. n
  BY WantedLength
<1>2. I \in SUBSET (1 .. n) /\ (\A i \in I : Throws(Looked(p, i)))
      /\ \A i \in 1 .. n : Throws(Looked(p, i)) => i \in I
  OBVIOUS
<1>3. Failed(p) = FirstOf(I)
  BY DEF Failed
<1> HIDE DEF n, I
<1>4. /\ FirstOf(I) \in 0 .. n
      /\ FirstOf(I) = 0 <=> I = {}
      /\ FirstOf(I) # 0 => FirstOf(I) \in I /\ \A j \in I : FirstOf(I) <= j
  BY <1>1, <1>2, FirstOne
<1>5. \A i \in 1 .. n : \A k \in 0 .. n : i < k => ~(k <= i)
  BY <1>1
<1>6. ASSUME NEW i \in 1 .. n, FirstOf(I) = 0 \/ i < FirstOf(I), Throws(Looked(p, i))
      PROVE  FALSE
  <2>1. i \in I
    BY <1>2, <1>6
  <2>2. FirstOf(I) # 0
    BY <1>4, <2>1
  <2>3. FirstOf(I) <= i
    BY <1>4, <2>1, <2>2
  <2> QED BY <1>4, <1>5, <1>6, <2>2, <2>3
<1>7. FirstOf(I) # 0 => FirstOf(I) \in 1 .. n /\ Throws(Looked(p, FirstOf(I)))
  BY <1>2, <1>4
<1> QED BY <1>1, <1>3, <1>4, <1>6, <1>7 DEF n

(* What is shown of a request. *)
LEMMA ShownOf ==
    ASSUME NEW p
    PROVE  /\ Shown(p) \in Seq({Shown(p)[i] : i \in 1 .. Len(Wanted)})
           /\ Len(Shown(p)) <= Len(Wanted)
           /\ \A i \in DOMAIN Shown(p) :
                 /\ i \in DOMAIN Wanted /\ ~Throws(Looked(p, i))
                 /\ Shown(p)[i].result =
                       (IF Looked(p, i).result = "found" THEN "found" ELSE "absent")
                 /\ Looked(p, i).result = "found" =>
                       Shown(p)[i].text = Text(Wanted[i].as, Looked(p, i).attribute)
<1> DEFINE n == Len(Wanted)
           m == IF Failed(p) = 0 THEN n ELSE Failed(p) - 1
           entry(x, i) == IF x.result = "found"
                          THEN [result |-> "found", text |-> Text(Wanted[i].as, x.attribute)]
                          ELSE [result |-> "absent", text |-> <<>>]
<1>1. n \in Nat /\ DOMAIN Wanted = 1 .. n /\ Failed(p) \in 0 .. n
  BY WantedLength, FailedFirst
<1>2. m \in 0 .. n /\ \A i \in 1 .. m : i \in 1 .. n /\ (Failed(p) = 0 \/ i < Failed(p))
  BY <1>1
<1>3. Shown(p) = [i \in 1 .. m |-> entry(Lookups(p)[i], i)]
  BY LookupsOf DEF Shown
<1>4. \A i \in 1 .. m : Lookups(p)[i] = Looked(p, i)
  BY <1>2, LookupsOf
<1>5. DOMAIN Shown(p) = 1 .. m /\ \A i \in 1 .. m : Shown(p)[i] = entry(Looked(p, i), i)
  BY <1>3, <1>4
<1>6. Shown(p) = [i \in 1 .. m |-> Shown(p)[i]]
  BY <1>3
<1> HIDE DEF m
<1>7. Shown(p) \in Seq({Shown(p)[i] : i \in 1 .. Len(Wanted)})
  <2>1. \A i \in 1 .. m : Shown(p)[i] \in {Shown(p)[j] : j \in 1 .. Len(Wanted)}
    BY <1>2
  <2>2. m \in Nat
    BY <1>1, <1>2
  <2>3. [i \in 1 .. m |-> Shown(p)[i]] \in Seq({Shown(p)[j] : j \in 1 .. Len(Wanted)})
    BY <2>1, <2>2, IsASeq
  <2> QED BY <1>6, <2>3, Zenon
<1>8. Len(Shown(p)) = m
  <2>1. m \in Nat
    BY <1>1, <1>2
  <2> QED BY <1>5, <1>7, <2>1, LenProperties
<1>9. m <= n
  BY <1>1, <1>2
<1>10. ASSUME NEW i \in 1 .. m
       PROVE  /\ i \in DOMAIN Wanted /\ ~Throws(Looked(p, i))
              /\ Shown(p)[i].result = (IF Looked(p, i).result = "found" THEN "found" ELSE "absent")
              /\ Looked(p, i).result = "found" =>
                    Shown(p)[i].text = Text(Wanted[i].as, Looked(p, i).attribute)
  <2>1. i \in DOMAIN Wanted /\ ~Throws(Looked(p, i))
    BY <1>1, <1>2, FailedFirst
  <2>2. Shown(p)[i] = entry(Looked(p, i), i)
    BY <1>5
  <2> QED BY <2>1, <2>2
<1> QED BY <1>5, <1>7, <1>8, <1>9, <1>10

(* What is shown of a request is true. *)
Truthful(i, packet, entry) ==
    LET w == Wanted[i]
        places == Places(file, w, packet)
    IN  /\ entry.result = "found" <=> places # {}
        /\ \A k \in places :
             (\A j \in places : k <= j) /\ (\A type \in TypesOf(file, w) : Suits(w.as, type))
             => LET octets == Held(w, packet)[k].value
                IN  \E type \in TypesOf(file, w) :
                       \/ entry.text = RightText(w.as, type, octets)
                       \/ w.as = "uint" /\ type = "integer"
                          /\ Len(octets) = 4 /\ octets[1] >= 128

LEMMA ShownRight ==
    ASSUME Ready(file, dict), UsualFile(file), ~BadFile(file), NEW g \in Datagrams,
           NEW i \in DOMAIN Shown(g.packet)
    PROVE  Truthful(i, g.packet, Shown(g.packet)[i])
<1> DEFINE w == Wanted[i]
           p == g.packet
           s == Shown(p)[i]
           places == Places(file, w, p)
           x == Looked(p, i)
<1>1. /\ i \in DOMAIN Wanted /\ ~Throws(x)
      /\ s.result = (IF x.result = "found" THEN "found" ELSE "absent")
      /\ x.result = "found" => s.text = Text(w.as, x.attribute)
  BY ShownOf
<1>2. LookupRight(file, w, p, x)
  BY <1>1, LookupIsRight DEF Looked
<1>3. w.as \in {"octets", "string", "uint", "ipv4"} /\ w.vendor \in VendorNames \cup {NoVendor}
  BY <1>1, WantedTypes
<1>4. \A k \in places : k \in Nat /\ Held(w, p)[k].value \in Seq(Byte)
  <2>1. places \subseteq DOMAIN Held(w, p)
    BY DEF Places
  <2>2. /\ DOMAIN p.attributes = 1 .. Len(p.attributes) /\ DOMAIN p.vendors = 1 .. Len(p.vendors)
    BY PacketTypes, LenProperties
  <2>5. \A k \in 1 .. Len(p.attributes) : p.attributes[k].value \in Seq(Byte)
    BY PacketTypes, Zenon
  <2>3. \A k \in 1 .. Len(p.attributes) : k \in Nat /\ p.attributes[k].value \in Seq(Byte)
    BY <2>5
  <2>4. \A k \in 1 .. Len(p.vendors) : k \in Nat /\ p.vendors[k].value \in Seq(Byte)
    BY PacketTypes
  <2> QED BY <2>1, <2>2, <2>3, <2>4 DEF Held
<1> HIDE DEF x, s, places
<1>5. CASE x.result = "absent"
  <2>1. places = {} /\ s.result = "absent"
    BY <1>1, <1>2, <1>5 DEF LookupRight, places
  <2> QED BY <2>1 DEF places, s, Truthful
<1>6. CASE x.result = "found"
  <2>1. PICK k \in places : \E type \in TypesOf(file, w) :
           /\ x = Decode(type, Held(w, p)[k].value)
           /\ \A j \in places : k <= j
    BY <1>2, <1>6 DEF LookupRight, places
  <2>2. PICK type \in TypesOf(file, w) :
           x = Decode(type, Held(w, p)[k].value) /\ \A j \in places : k <= j
    BY <2>1
  <2> DEFINE octets == Held(w, p)[k].value
  <2>3. ASSUME NEW l \in places, \A j \in places : l <= j
        PROVE  l = k
    <3>1. k <= l /\ l <= k /\ k \in Nat /\ l \in Nat
      BY <1>4, <2>2, <2>3
    <3> QED BY <3>1
  <2>4. octets \in Seq(Byte)
    BY <1>4
  <2>5. x = Decode(type, octets)
    BY <2>2
  <2> HIDE DEF octets
  <2>6. ASSUME Suits(w.as, type)
        PROVE  \/ s.text = RightText(w.as, type, octets)
               \/ w.as = "uint" /\ type = "integer" /\ Len(octets) = 4 /\ octets[1] >= 128
    <3>1. \/ Text(w.as, Decode(type, octets).attribute) = RightText(w.as, type, octets)
          \/ w.as = "uint" /\ type = "integer" /\ Len(octets) = 4 /\ octets[1] >= 128
      BY <1>3, <1>6, <2>4, <2>5, <2>6, FoundText
    <3> QED BY <1>1, <1>6, <2>5, <3>1
  <2>7. s.result = "found" /\ places # {}
    BY <1>1, <1>6, <2>1
  <2>8. ASSUME NEW l \in places, \A j \in places : l <= j,
               \A t \in TypesOf(file, w) : Suits(w.as, t)
        PROVE  \E t \in TypesOf(file, w) :
                  \/ s.text = RightText(w.as, t, Held(w, p)[l].value)
                  \/ w.as = "uint" /\ t = "integer"
                     /\ Len(Held(w, p)[l].value) = 4 /\ Held(w, p)[l].value[1] >= 128
    <3>1. Held(w, p)[l].value = octets
      BY <2>3, <2>8 DEF octets
    <3>2. Suits(w.as, type)
      BY <2>8
    <3> QED BY <2>6, <3>1, <3>2
  <2> QED BY <2>7, <2>8 DEF places, s, Truthful
<1>7. x.result \in {"found", "absent"}
  BY <1>1, <1>2 DEF LookupRight, Throws
<1> QED BY <1>5, <1>6, <1>7

-----------------------------------------------------------------------------
(* The inductive invariant. *)
LinesRead == {file.lines[i] : i \in 1 .. read}
Replies == {[to |-> g.from, packet |-> q] : g \in Datagrams, q \in Packet}

FileInv ==
    /\ file \in Files /\ read \in 0 .. Len(file.lines)
    /\ phase \in {"starting", "running", "ended"}
DictInv == MadeOf(dict, LinesRead)
ReadyInv == phase = "running" \/ served # <<>> => Ready(file, dict)
StartInv == phase = "starting" => served = <<>> /\ taken = <<>> /\ posted = <<>> /\ sent = <<>>
QueueInv ==
    /\ waiting \in Seq(Datagrams) /\ Len(waiting) <= Room
    /\ taken \in Seq(Datagrams) /\ Len(taken) <= 1
    /\ served \in Seq({Receiver!Served(g) : g \in Datagrams})
ReplyInv == posted \in Seq(Replies) /\ sent \in Seq(Replies)
ShownInv ==
    shown = IF served # <<>> /\ served[Len(served)].datagram.form = "packet"
            THEN Shown(served[Len(served)].datagram.packet) ELSE <<>>

IInv == FileInv /\ DictInv /\ ReadyInv /\ StartInv /\ QueueInv /\ ReplyInv /\ ShownInv

-----------------------------------------------------------------------------
(* A dictionary file is a sequence of lines. *)
LEMMA FileTypes ==
    ASSUME NEW f \in Files
    PROVE  /\ f.opens \in BOOLEAN /\ f.lines \in Seq(Lines) /\ Len(f.lines) \in Nat
           /\ \A i \in 1 .. Len(f.lines) : f.lines[i] \in Lines
           /\ Range(f.lines) = {f.lines[i] : i \in 1 .. Len(f.lines)}
<1>1. f.opens \in BOOLEAN /\ f.lines \in Seq(Lines)
  BY RadiusServerAssumption
<1>2. Len(f.lines) \in Nat /\ DOMAIN f.lines = 1 .. Len(f.lines)
  BY <1>1, LenProperties
<1>3. \A i \in 1 .. Len(f.lines) : f.lines[i] \in Lines
  BY <1>1, <1>2, ElementOfSeq
<1> QED BY <1>1, <1>2, <1>3 DEF Range

(* The last datagram that was served is one of those clients send. *)
LEMMA ServedLast ==
    ASSUME QueueInv, served # <<>>
    PROVE  /\ Len(served) \in 1 .. Len(served) /\ Len(served) \in DOMAIN served
           /\ served[Len(served)].datagram \in Datagrams
<1> DEFINE T == {Receiver!Served(g) : g \in Datagrams}
<1>1. served \in Seq(T)
  BY DEF QueueInv
<1>2. \A s \in T : s.datagram \in Datagrams
  BY DEF Receiver!Served
<1> HIDE DEF T
<1>3. /\ Len(served) \in 1 .. Len(served) /\ Len(served) \in DOMAIN served
      /\ served[Len(served)] \in T
  BY <1>1, EmptySeq, LenProperties, ElementOfSeq
<1> QED BY <1>2, <1>3

(* The invariant holds at first. *)
LEMMA InitInv == Init => IInv
<1> SUFFICES ASSUME Init PROVE IInv
  OBVIOUS
<1> USE DEF Init
<1>1. FileInv
  <2>1. Len(file.lines) \in Nat
    BY FileTypes
  <2> QED BY <2>1 DEF FileInv
<1>2. LinesRead = {}
  BY DEF LinesRead
<1>3. DictInv
  BY <1>2, EmptyMade DEF DictInv
<1>4. ReadyInv /\ StartInv /\ ShownInv
  BY DEF ReadyInv, StartInv, ShownInv
<1>5. QueueInv
  <2>1. Len(<<>>) = 0 /\ Room \in Nat
    BY EmptySeq, RadiusServerAssumption
  <2>2. <<>> \in Seq(Datagrams) /\ <<>> \in Seq({Receiver!Served(g) : g \in Datagrams})
    BY EmptySeq
  <2> QED BY <2>1, <2>2 DEF QueueInv
<1>6. ReplyInv
  BY EmptySeq DEF ReplyInv
<1> QED BY <1>1, <1>3, <1>4, <1>5, <1>6 DEF IInv

-----------------------------------------------------------------------------
(* Reading a line: the dictionary is made of one more line. *)
LEMMA ReadLineInv ==
    ASSUME IInv, ReadLine
    PROVE  IInv'
<1> DEFINE l == file.lines[read + 1]
<1>1. /\ file' = file /\ phase' = phase /\ phase = "starting" /\ read' = read + 1
      /\ waiting' = waiting /\ taken' = taken /\ served' = served /\ posted' = posted
      /\ sent' = sent /\ shown' = shown
      /\ dict' = WithLine(dict, l) /\ read < Len(file.lines)
  BY DEF ReadLine, receiveVars
<1>2. /\ file \in Files /\ read \in 0 .. Len(file.lines) /\ Len(file.lines) \in Nat
  BY FileTypes DEF IInv, FileInv
<1>3. read + 1 \in 1 .. Len(file.lines) /\ read + 1 \in 0 .. Len(file.lines)
  BY <1>1, <1>2
<1>4. l \in Lines
  BY <1>2, <1>3, FileTypes
<1>5. FileInv'
  BY <1>1, <1>2, <1>3 DEF IInv, FileInv
<1>6. DictInv'
  <2>1. LinesRead' = LinesRead \cup {l}
    <3>1. 1 .. read + 1 = (1 .. read) \cup {read + 1}
      BY <1>2
    <3> QED BY <1>1, <3>1 DEF LinesRead
  <2>2. MadeOf(dict, LinesRead)
    BY DEF IInv, DictInv
  <2>3. MadeOf(WithLine(dict, l), LinesRead \cup {l})
    BY <1>4, <2>2, LineMade
  <2> QED BY <1>1, <2>1, <2>3 DEF DictInv
<1>7. served = <<>>
  BY <1>1 DEF IInv, StartInv
<1>8. ReadyInv' /\ StartInv' /\ ShownInv'
  BY <1>1, <1>7 DEF IInv, ReadyInv, StartInv, ShownInv
<1>9. QueueInv' /\ ReplyInv'
  BY <1>1 DEF IInv, QueueInv, ReplyInv
<1> QED BY <1>5, <1>6, <1>8, <1>9 DEF IInv

(* Resolving: every type is stored now, and the dictionary is used. *)
LEMMA ResolveInv ==
    ASSUME IInv, Resolve
    PROVE  IInv'
<1>1. /\ file' = file /\ phase' = "running" /\ phase = "starting" /\ read' = read
      /\ waiting' = waiting /\ taken' = taken /\ served' = served /\ posted' = posted
      /\ sent' = sent /\ shown' = shown /\ read = Len(file.lines)
      /\ \A u \in Unresolved(dict) : VendorKnown(dict, u)
  BY DEF Resolve, receiveVars
<1>2. PICK types \in TypesAfter(dict, Unresolved(dict)) :
         dict' = [dict EXCEPT !.types = types, !.unresolved = EmptyDictionaries.unresolved]
  BY DEF Resolve
<1>3. MadeOf(dict, LinesRead) /\ file \in Files
  BY DEF IInv, DictInv, FileInv
<1>4. MadeOf(dict', LinesRead) /\ NoneWaits(dict')
  BY <1>1, <1>2, <1>3, ResolveMade
<1>5. LinesRead' = LinesRead /\ LinesRead = Range(file.lines)
  BY <1>1, <1>3, FileTypes DEF LinesRead
<1>6. DictInv' /\ ReadyInv'
  BY <1>1, <1>3, <1>4, <1>5 DEF DictInv, ReadyInv, Ready
<1>7. served = <<>>
  BY <1>1 DEF IInv, StartInv
<1>8. FileInv' /\ StartInv' /\ ShownInv'
  BY <1>1, <1>7 DEF IInv, FileInv, StartInv, ShownInv
<1>9. QueueInv' /\ ReplyInv'
  BY <1>1 DEF IInv, QueueInv, ReplyInv
<1> QED BY <1>6, <1>8, <1>9 DEF IInv

(* What leaves the dictionary and the history alone. *)
LEMMA DictionaryKept ==
    ASSUME IInv, UNCHANGED <<file, dict, read, served, shown>>
    PROVE  DictInv' /\ ShownInv' /\ ((phase' = "running" => phase = "running") => ReadyInv')
<1>1. LinesRead' = LinesRead
  BY DEF LinesRead
<1>2. DictInv'
  BY <1>1 DEF IInv, DictInv
<1>3. \A p : Shown(p)' = Shown(p)
  BY DEF Shown, Lookups
<1>4. ShownInv'
  BY <1>3 DEF IInv, ShownInv
<1>5. (phase' = "running" => phase = "running") => ReadyInv'
  BY DEF IInv, ReadyInv
<1> QED BY <1>2, <1>4, <1>5

-----------------------------------------------------------------------------
(* The steps that leave the dictionary and what was served alone. *)
LEMMA FailToStartInv ==
    ASSUME IInv, FailToStart
    PROVE  IInv'
<1>1. /\ file' = file /\ dict' = dict /\ read' = read /\ phase' = "ended" /\ phase = "starting"
      /\ waiting' = waiting /\ taken' = taken /\ served' = served /\ posted' = posted
      /\ sent' = sent /\ shown' = shown
  BY DEF FailToStart, receiveVars
<1>2. DictInv' /\ ShownInv' /\ ReadyInv'
  BY <1>1, DictionaryKept
<1>3. FileInv' /\ StartInv'
  BY <1>1 DEF IInv, FileInv, StartInv
<1>4. QueueInv' /\ ReplyInv'
  BY <1>1 DEF IInv, QueueInv, ReplyInv
<1> QED BY <1>2, <1>3, <1>4 DEF IInv

LEMMA ArriveInv ==
    ASSUME IInv, Arrive
    PROVE  IInv'
<1>1. /\ file' = file /\ dict' = dict /\ read' = read /\ phase' = phase
      /\ taken' = taken /\ served' = served /\ posted' = posted
      /\ sent' = sent /\ shown' = shown /\ Len(waiting) < Room
  BY DEF Arrive, Receiver!Offer
<1>2. PICK d \in Datagrams : waiting' = Append(waiting, d)
  BY DEF Arrive, Receiver!Offer
<1>3. DictInv' /\ ShownInv' /\ ReadyInv'
  BY <1>1, DictionaryKept
<1>4. FileInv' /\ StartInv' /\ ReplyInv'
  BY <1>1 DEF IInv, FileInv, StartInv, ReplyInv
<1>5. waiting \in Seq(Datagrams) /\ Room \in Nat /\ Len(waiting) \in Nat
  BY RadiusServerAssumption, LenProperties DEF IInv, QueueInv
<1>6. waiting' \in Seq(Datagrams) /\ Len(waiting') = Len(waiting) + 1
  BY <1>2, <1>5, AppendProperties
<1>7. QueueInv'
  BY <1>1, <1>5, <1>6 DEF IInv, QueueInv
<1> QED BY <1>3, <1>4, <1>7 DEF IInv

(* What the queue is after the oldest datagram has been taken. *)
LEMMA TakenOne ==
    ASSUME QueueInv, waiting # <<>>
    PROVE  /\ Head(waiting) \in Datagrams /\ Tail(waiting) \in Seq(Datagrams)
           /\ Len(Tail(waiting)) <= Room
           /\ <<Head(waiting)>> \in Seq(Datagrams) /\ Len(<<Head(waiting)>>) = 1
<1>1. waiting \in Seq(Datagrams) /\ Room \in Nat /\ Len(waiting) \in Nat /\ Len(waiting) <= Room
  BY RadiusServerAssumption, LenProperties DEF QueueInv
<1>2. /\ Head(waiting) \in Datagrams /\ Tail(waiting) \in Seq(Datagrams)
      /\ Len(Tail(waiting)) = Len(waiting) - 1
  BY <1>1, HeadTailProperties
<1>3. Len(Tail(waiting)) <= Room
  BY <1>1, <1>2
<1>4. \A g \in Datagrams : <<g>> \in Seq(Datagrams) /\ Len(<<g>>) = 1
  OBVIOUS
<1> QED BY <1>2, <1>3, <1>4

LEMMA TakeInv ==
    ASSUME IInv, Take
    PROVE  IInv'
<1>1. /\ file' = file /\ dict' = dict /\ read' = read /\ phase' = phase /\ phase = "running"
      /\ served' = served /\ posted' = posted /\ sent' = sent /\ shown' = shown
      /\ taken' = <<Head(waiting)>> /\ waiting' = Tail(waiting) /\ waiting # <<>>
  BY DEF Take, Receiver!Take
<1>2. DictInv' /\ ShownInv' /\ ReadyInv'
  BY <1>1, DictionaryKept
<1>3. FileInv' /\ StartInv' /\ ReplyInv'
  BY <1>1 DEF IInv, FileInv, StartInv, ReplyInv
<1>4. /\ taken' \in Seq(Datagrams) /\ Len(taken') <= 1
      /\ waiting' \in Seq(Datagrams) /\ Len(waiting') <= Room
  BY <1>1, TakenOne DEF IInv
<1>5. QueueInv'
  BY <1>1, <1>4 DEF IInv, QueueInv
<1> QED BY <1>2, <1>3, <1>5 DEF IInv

LEMMA SendReplyInv ==
    ASSUME IInv, SendReply
    PROVE  IInv'
<1>1. /\ file' = file /\ dict' = dict /\ read' = read /\ phase' = phase /\ phase = "running"
      /\ served' = served /\ waiting' = waiting /\ taken' = taken /\ shown' = shown
      /\ posted # <<>> /\ posted' = <<>> /\ (sent' = sent \/ sent' = Append(sent, Head(posted)))
  BY DEF SendReply, receiveVars
<1>2. DictInv' /\ ShownInv' /\ ReadyInv'
  BY <1>1, DictionaryKept
<1>3. FileInv' /\ StartInv' /\ QueueInv'
  BY <1>1 DEF IInv, FileInv, StartInv, QueueInv
<1>4. posted \in Seq(Replies) /\ sent \in Seq(Replies)
  BY DEF IInv, ReplyInv
<1>5. Head(posted) \in Replies
  BY <1>1, <1>4, HeadTailProperties
<1>6. Append(sent, Head(posted)) \in Seq(Replies)
  BY <1>4, <1>5, AppendProperties
<1>7. ReplyInv'
  BY <1>1, <1>4, <1>6, EmptySeq DEF ReplyInv
<1> QED BY <1>2, <1>3, <1>7 DEF IInv

-----------------------------------------------------------------------------
(* The reply the handler makes, when the dictionary has the names it needs. *)
LEMMA ReplyContentTypes ==
    /\ Len(ReplyContent) \in Nat /\ DOMAIN ReplyContent = 1 .. Len(ReplyContent)
    /\ \A i \in DOMAIN ReplyContent :
          /\ ReplyContent[i].class \in {"String", "Integer", "IpAddress", "Bytes", "ChapPassword"}
          /\ ReplyContent[i].name \in AttrNames /\ ReplyContent[i].value \in Seq(Byte)
<1> DEFINE R == [class : {"String", "Integer", "IpAddress", "Bytes", "ChapPassword"},
                 name : AttrNames, value : Seq(Byte)]
<1>1. ReplyContent \in Seq(R)
  BY RadiusServerAssumption
<1>2. \A r \in R : /\ r.class \in {"String", "Integer", "IpAddress", "Bytes", "ChapPassword"}
                   /\ r.name \in AttrNames /\ r.value \in Seq(Byte)
  OBVIOUS
<1> HIDE DEF R
<1>3. /\ Len(ReplyContent) \in Nat /\ DOMAIN ReplyContent = 1 .. Len(ReplyContent)
      /\ \A i \in 1 .. Len(ReplyContent) : ReplyContent[i] \in R
  BY <1>1, LenProperties, ElementOfSeq
<1> QED BY <1>2, <1>3

(* A code the dictionary gives is that of a line of the file. *)
LEMMA CodeGiven ==
    ASSUME NEW f, NEW d, Ready(f, d), NEW n \in AttrNames, AttributeCode(d, n) # NoCode
    PROVE  /\ AttributeCode(d, n) \in AttrCodes
           /\ \E l \in AttributeLine(f, n, NoVendor) : l.code = AttributeCode(d, n)
<1>1. /\ d \in DictionarySet /\ Range(f.lines) \subseteq Lines
      /\ Lists(d.attributes, AttributesIn(Range(f.lines), NoVendor))
  BY DEF Ready, MadeOf, TablesListed
<1>2. DOMAIN d.attributes.reverse = AttrNames
  BY <1>1 DEF DictionarySet, TablesOf
<1>3. PICK l \in AttributesIn(Range(f.lines), NoVendor) :
         l.name = n /\ l.code = d.attributes.reverse[n]
  BY <1>1, <1>2 DEF Lists, AttributeCode
<1>4. l \in AttributeLine(f, n, NoVendor) /\ l.code = AttributeCode(d, n)
  BY <1>3, SameLines DEF AttributeCode
<1>5. l \in Lines /\ l.kind = "ATTRIBUTE"
  BY <1>1, <1>3 DEF AttributesIn
<1>6. l.code \in AttrCodes
  BY <1>5, LineKinds
<1> QED BY <1>4, <1>6

(* A name without a code is one the file does not define. *)
LEMMA CodeMissing ==
    ASSUME NEW f, NEW d, Ready(f, d), NEW n, AttributeCode(d, n) = NoCode
    PROVE  AttributeLine(f, n, NoVendor) = {}
<1>1. Lists(d.attributes, AttributesIn(Range(f.lines), NoVendor))
  BY DEF Ready, MadeOf, TablesListed
<1>2. ASSUME NEW l \in AttributeLine(f, n, NoVendor) PROVE FALSE
  <2>1. l \in AttributesIn(Range(f.lines), NoVendor) /\ l.name = n
    BY SameLines
  <2>2. d.attributes.reverse[l.name] # NoCode
    BY <1>1, <2>1 DEF Lists
  <2> QED BY <2>1, <2>2 DEF AttributeCode
<1> QED BY <1>2

(* The low byte of a code is a byte, and the code if that is one. *)
LEMMA ByteOfByte ==
    ASSUME NEW c \in Nat
    PROVE  ByteOf(c) \in Byte /\ (c \in Byte => ByteOf(c) = c)
BY DEF ByteOf, Byte

(* The reply is a packet. *)
LEMMA ReplyTyped ==
    ASSUME Ready(file, dict), NEW p \in Packet,
           \A i \in DOMAIN ReplyContent : AttributeCode(dict, ReplyContent[i].name) # NoCode
    PROVE  Reply(p) \in Packet
<1> DEFINE n == Len(ReplyContent)
           coded(i) == ByteOf(AttributeCode(dict, ReplyContent[i].name))
           recalc == ReplyType(p.type) = 2 \/ FALSE
<1>1. n \in Nat /\ DOMAIN ReplyContent = 1 .. n
  BY ReplyContentTypes
<1>2. ASSUME NEW i \in 1 .. n PROVE ReplyAttributes[i] \in Attribute
  <2>1. AttributeCode(dict, ReplyContent[i].name) \in AttrCodes
    BY <1>1, ReplyContentTypes, CodeGiven
  <2>2. AttributeCode(dict, ReplyContent[i].name) \in Nat
    BY <2>1, DictionariesAssumption
  <2>3. coded(i) \in Byte
    BY <2>2, ByteOfByte
  <2>4. ReplyAttributes[i] = [class |-> ReplyContent[i].class, value |-> ReplyContent[i].value,
                              type |-> coded(i)]
    BY <1>1 DEF ReplyAttributes
  <2>5. /\ ReplyContent[i].class \in {"String", "Integer", "IpAddress", "Bytes", "ChapPassword"}
        /\ ReplyContent[i].value \in Seq(Byte)
    BY <1>1, ReplyContentTypes
  <2> HIDE DEF coded
  <2> QED BY <2>3, <2>4, <2>5 DEF Attribute
<1>3. ReplyAttributes \in Seq(Attribute)
  <2>1. DOMAIN ReplyAttributes = 1 .. n
    BY <1>1 DEF ReplyAttributes
  <2>2. ReplyAttributes = [i \in 1 .. n |-> ReplyAttributes[i]]
    BY <1>1 DEF ReplyAttributes
  <2> QED BY <1>1, <1>2, <2>1, <2>2, IsASeq
<1>4. ReplyType(p.type) \in Byte
  BY DEF ReplyType, ACCESS_ACCEPT, ACCESS_REJECT, Byte
<1>5. p.id \in Byte /\ p.auth \in [1 .. 16 -> Byte]
  BY DEF Packet
<1>6. recalc \in BOOLEAN
  OBVIOUS
<1>7. <<>> \in Seq(Vendor)
  BY EmptySeq
<1>8. Reply(p) = [type |-> ReplyType(p.type), id |-> p.id, recalc |-> recalc, auth |-> p.auth,
                  attributes |-> ReplyAttributes, vendors |-> <<>>]
  BY Zenon DEF Reply, ResponsePacket
<1> HIDE DEF recalc
<1> QED BY <1>3, <1>4, <1>5, <1>6, <1>7, <1>8 DEF Packet

-----------------------------------------------------------------------------
(* The names of the reply have codes. *)
Answerable == \A i \in DOMAIN ReplyContent : AttributeCode(dict, ReplyContent[i].name) # NoCode

(* Ending in terms of the first lookup that fails. *)
LEMMA EndingOf ==
    ASSUME NEW g \in Datagrams
    PROVE  /\ g.form \in {"packet", "malformed", "unparsable"}
           /\ g.form = "malformed" => Ending(g) = "caught"
           /\ g.form = "unparsable" => Ending(g) = "escapes"
           /\ g.form = "packet" /\ Failed(g.packet) # 0 =>
                 /\ Looked(g.packet, Failed(g.packet)).result = "Exception" => Ending(g) = "caught"
                 /\ Looked(g.packet, Failed(g.packet)).result # "Exception" => Ending(g) = "escapes"
           /\ g.form = "packet" /\ Failed(g.packet) = 0 =>
                 /\ Answerable => Ending(g) = "reply"
                 /\ ~Answerable => Ending(g) = "escapes"
<1> DEFINE p == g.packet
           failed == SelectInSeq(Lookups(p), Throws)
<1>1. g.form \in {"packet", "malformed", "unparsable"}
  BY RadiusServerAssumption
<1>2. failed = Failed(p)
  BY LookupsOf
<1>3. Failed(p) # 0 => Lookups(p)[failed] = Looked(p, Failed(p))
  BY <1>2, FailedFirst, WantedLength, LookupsOf
<1>4. Ending(g) =
        CASE g.form = "malformed" -> "caught"
          [] g.form = "unparsable" -> "escapes"
          [] g.form = "packet" /\ failed # 0 ->
                IF Lookups(p)[failed].result = "Exception" THEN "caught" ELSE "escapes"
          [] g.form = "packet" /\ failed = 0 -> IF ~Answerable THEN "escapes" ELSE "reply"
  BY DEF Ending, Answerable
<1> HIDE DEF failed
<1> QED BY <1>1, <1>2, <1>3, <1>4

(* What handling a datagram does. *)
LEMMA Handled ==
    ASSUME IInv, HandleReceive
    PROVE  LET g == Head(taken)
           IN  /\ g \in Datagrams /\ Ready(file, dict) /\ phase = "running" /\ posted = <<>>
               /\ file' = file /\ dict' = dict /\ read' = read /\ sent' = sent
               /\ served' = Append(served, Receiver!Served(g))
               /\ phase' = (IF Ending(g) = "escapes" THEN "ended" ELSE phase)
               /\ posted' = (IF Ending(g) = "reply"
                             THEN <<[to |-> g.from, packet |-> Reply(g.packet)]>> ELSE <<>>)
               /\ shown' = (IF g.form = "packet" THEN Shown(g.packet) ELSE <<>>)
               /\ taken # <<>>
               /\ \/ waiting # <<>> /\ taken' = <<Head(waiting)>> /\ waiting' = Tail(waiting)
                  \/ taken' = <<>> /\ waiting' = waiting
<1> DEFINE g == Head(taken)
<1>1. /\ phase = "running" /\ posted = <<>> /\ taken # <<>>
      /\ file' = file /\ dict' = dict /\ read' = read /\ sent' = sent
      /\ served' = Append(served, Receiver!Served(g))
  BY DEF HandleReceive, HandOver
<1>2. /\ phase' = (IF Ending(g) = "escapes" THEN "ended" ELSE phase)
      /\ posted' = (IF Ending(g) = "reply"
                    THEN <<[to |-> g.from, packet |-> Reply(g.packet)]>> ELSE <<>>)
      /\ shown' = (IF g.form = "packet" THEN Shown(g.packet) ELSE <<>>)
  BY DEF HandleReceive
<1>3. \/ waiting # <<>> /\ taken' = <<Head(waiting)>> /\ waiting' = Tail(waiting)
      \/ taken' = <<>> /\ waiting' = waiting
  BY DEF HandleReceive, Receiver!Serve
<1>4. g \in Datagrams
  <2>1. taken \in Seq(Datagrams)
    BY DEF IInv, QueueInv
  <2> QED BY <1>1, <2>1, HeadTailProperties
<1>5. Ready(file, dict)
  BY <1>1 DEF IInv, ReadyInv
<1> QED BY <1>1, <1>2, <1>3, <1>4, <1>5

(* Handling a datagram: the reply is a packet, shown is about this request. *)
LEMMA HandleReceiveInv ==
    ASSUME IInv, HandleReceive
    PROVE  IInv'
<1> DEFINE g == Head(taken)
           T == {Receiver!Served(h) : h \in Datagrams}
<1>0. QueueInv /\ FileInv /\ ReplyInv
  BY DEF IInv
<1>1. /\ g \in Datagrams /\ Ready(file, dict) /\ phase = "running" /\ posted = <<>>
      /\ file' = file /\ dict' = dict /\ read' = read /\ sent' = sent
      /\ served' = Append(served, Receiver!Served(g))
      /\ phase' = (IF Ending(g) = "escapes" THEN "ended" ELSE phase)
      /\ shown' = (IF g.form = "packet" THEN Shown(g.packet) ELSE <<>>)
      /\ \/ waiting # <<>> /\ taken' = <<Head(waiting)>> /\ waiting' = Tail(waiting)
         \/ taken' = <<>> /\ waiting' = waiting
  BY Handled
<1>2. posted' = (IF Ending(g) = "reply"
                 THEN <<[to |-> g.from, packet |-> Reply(g.packet)]>> ELSE <<>>)
  BY Handled
<1> HIDE DEF g
<1>3. FileInv' /\ DictInv' /\ ReadyInv' /\ StartInv'
  <2>1. phase' \in {"running", "ended"}
    BY <1>1
  <2>2. FileInv'
    BY <1>0, <1>1, <2>1 DEF FileInv
  <2>3. LinesRead' = LinesRead
    BY <1>1 DEF LinesRead
  <2>4. DictInv'
    BY <1>1, <2>3 DEF IInv, DictInv
  <2> QED BY <1>1, <2>1, <2>2, <2>4 DEF ReadyInv, StartInv
<1>4. /\ served' \in Seq(T) /\ served' # <<>> /\ served'[Len(served')] = Receiver!Served(g)
  <2>1. served \in Seq(T) /\ Receiver!Served(g) \in T
    BY <1>0, <1>1 DEF QueueInv
  <2> HIDE DEF T
  <2>2. /\ served' \in Seq(T) /\ served' # <<>> /\ Len(served') = Len(served) + 1
        /\ served'[Len(served) + 1] = Receiver!Served(g)
    BY <1>1, <2>1, AppendProperties
  <2> QED BY <2>2
<1>5. QueueInv'
  <2>1. CASE waiting # <<>> /\ taken' = <<Head(waiting)>> /\ waiting' = Tail(waiting)
    <3>1. /\ taken' \in Seq(Datagrams) /\ Len(taken') <= 1
          /\ waiting' \in Seq(Datagrams) /\ Len(waiting') <= Room
      BY <1>0, <2>1, TakenOne
    <3> QED BY <1>4, <3>1 DEF QueueInv
  <2>2. CASE taken' = <<>> /\ waiting' = waiting
    <3>1. taken' \in Seq(Datagrams) /\ Len(taken') <= 1
      BY <2>2, EmptySeq
    <3> QED BY <1>0, <1>4, <2>2, <3>1 DEF QueueInv
  <2> QED BY <1>1, <2>1, <2>2
<1>6. ReplyInv'
  <2>1. CASE Ending(g) = "reply"
    <3>1. g.form = "packet" /\ Failed(g.packet) = 0 /\ Answerable
      BY <1>1, <2>1, EndingOf
    <3>2. g.packet \in Packet
      BY <1>1, RadiusServerAssumption
    <3>3. Reply(g.packet) \in Packet
      BY <1>1, <3>1, <3>2, ReplyTyped DEF Answerable
    <3>4. [to |-> g.from, packet |-> Reply(g.packet)] \in Replies
      BY <1>1, <3>3 DEF Replies
    <3>5. posted' \in Seq(Replies)
      BY <1>2, <2>1, <3>4
    <3> QED BY <1>0, <1>1, <3>5 DEF ReplyInv
  <2>2. CASE Ending(g) # "reply"
    BY <1>0, <1>1, <1>2, <2>2, EmptySeq DEF ReplyInv
  <2> QED BY <2>1, <2>2
<1>7. ShownInv'
  <2>1. \A p : Shown(p)' = Shown(p)
    BY <1>1 DEF Shown, Lookups
  <2>2. served'[Len(served')].datagram = g
    BY <1>4 DEF Receiver!Served
  <2> QED BY <1>1, <1>4, <2>1, <2>2 DEF ShownInv
<1> QED BY <1>3, <1>5, <1>6, <1>7 DEF IInv

(* A step that changes nothing. *)
LEMMA StutterInv ==
    ASSUME IInv, UNCHANGED vars
    PROVE  IInv'
<1>1. /\ file' = file /\ dict' = dict /\ read' = read /\ phase' = phase
      /\ waiting' = waiting /\ taken' = taken /\ served' = served
      /\ posted' = posted /\ sent' = sent /\ shown' = shown
  BY DEF vars, receiveVars
<1>2. DictInv' /\ ShownInv' /\ ReadyInv'
  BY <1>1, DictionaryKept
<1>3. FileInv' /\ StartInv'
  BY <1>1 DEF IInv, FileInv, StartInv
<1>4. QueueInv' /\ ReplyInv'
  BY <1>1 DEF IInv, QueueInv, ReplyInv
<1> QED BY <1>2, <1>3, <1>4 DEF IInv

(* The dictionary is at every moment made of the lines read so far and,    *)
(* once it is used, of all lines of the file with every type resolved.     *)
THEOREM ServerInvariant == Spec => []IInv
<1>1. IInv /\ [Next]_vars => IInv'
  <2> SUFFICES ASSUME IInv, [Next]_vars PROVE IInv'
    OBVIOUS
  <2>1. CASE ReadLine
    BY <2>1, ReadLineInv
  <2>2. CASE Resolve
    BY <2>2, ResolveInv
  <2>3. CASE FailToStart
    BY <2>3, FailToStartInv
  <2>4. CASE Arrive
    BY <2>4, ArriveInv
  <2>5. CASE Take
    BY <2>5, TakeInv
  <2>6. CASE HandleReceive
    BY <2>6, HandleReceiveInv
  <2>7. CASE SendReply
    BY <2>7, SendReplyInv
  <2>8. CASE UNCHANGED vars
    BY <2>8, StutterInv
  <2> QED BY <2>1, <2>2, <2>3, <2>4, <2>5, <2>6, <2>7, <2>8 DEF Next
<1> QED BY InitInv, <1>1, PTL DEF Spec

-----------------------------------------------------------------------------
(* Every variable keeps its type, whatever the dictionary file holds and   *)
(* whatever the clients send.                                              *)
THEOREM ServerTypes == Spec => []TypeOK
<1>1. IInv => TypeOK
  <2> SUFFICES ASSUME IInv PROVE TypeOK
    OBVIOUS
  <2>0. FileInv /\ DictInv /\ QueueInv /\ ReplyInv /\ ShownInv
    BY DEF IInv
  <2>1. IsDictionaries(dict)
    <3>1. dict \in DictionarySet
      BY <2>0 DEF DictInv, MadeOf
    <3>2. /\ Attr!Rights = [AttrCodes -> AttrNames \cup {NoName}]
          /\ Attr!Reverses = [AttrNames -> AttrCodes \cup {NoCode}]
          /\ Vend!Rights = [VendorIds -> VendorNames \cup {NoName}]
          /\ Vend!Reverses = [VendorNames -> VendorIds \cup {NoCode}]
          /\ Val!Rights = [ValueCodes -> ValueNames \cup {NoName}]
          /\ Val!Reverses = [ValueNames -> ValueCodes \cup {NoCode}]
      BY DEF Attr!Rights, Attr!Reverses, Vend!Rights, Vend!Reverses, Val!Rights, Val!Reverses
    <3> QED BY <3>1, <3>2 DEF DictionarySet, TablesOf, ScopedTablesOf, IsDictionaries
  <2>2. \A i \in DOMAIN served : served[i].datagram \in Datagrams
    <3> DEFINE T == {Receiver!Served(g) : g \in Datagrams}
    <3>1. served \in Seq(T)
      BY <2>0 DEF QueueInv
    <3>2. \A s \in T : s.datagram \in Datagrams
      BY DEF Receiver!Served
    <3> HIDE DEF T
    <3>3. \A i \in DOMAIN served : served[i] \in T
      BY <3>1, LenProperties, ElementOfSeq
    <3> QED BY <3>2, <3>3
  <2>3. \A r \in Range(posted) \cup Range(sent) : r.packet \in Packet
    <3>1. \A r \in Replies : r.packet \in Packet
      BY DEF Replies
    <3>2. posted \in Seq(Replies) /\ sent \in Seq(Replies)
      BY <2>0 DEF ReplyInv
    <3>3. /\ \A i \in DOMAIN posted : posted[i] \in Replies
          /\ \A i \in DOMAIN sent : sent[i] \in Replies
      BY <3>2, LenProperties, ElementOfSeq
    <3> QED BY <3>1, <3>3 DEF Range
  <2>4. Len(shown) <= Len(Wanted)
    <3>1. Len(Wanted) \in Nat /\ Len(<<>>) = 0
      BY WantedLength, EmptySeq
    <3>2. \A p : Len(Shown(p)) <= Len(Wanted)
      BY ShownOf
    <3>3. shown = <<>> \/ \E p : shown = Shown(p)
      BY <2>0 DEF ShownInv
    <3> QED BY <3>1, <3>2, <3>3
  <2> QED BY <2>0, <2>1, <2>2, <2>3, <2>4 DEF TypeOK, FileInv, QueueInv
<1> QED BY <1>1, ServerInvariant, PTL

(* What a lookup should find in a packet, and one by the key of a line.    *)
FindsFirst(f, w, p, x) ==
    /\ Places(f, w, p) = {} => x = Absent
    /\ \A k \in Places(f, w, p) : (\A j \in Places(f, w, p) : k <= j) =>
          \E type \in TypesOf(f, w) : x = Decode(type, Held(w, p)[k].value)
KeyedRight(l, p) ==
    FindsFirst(file, [name |-> l.name, vendor |-> l.vendor], p,
               GetAttribute(dict, p, KeyFor(l.name, l.vendor)))

(* The code a good file gives a plain attribute is the one its name has.   *)
LEMMA PlainCode ==
    ASSUME NEW f, NEW d, Ready(f, d), ~BadFile(f), NEW n \in AttrNames,
           NEW l \in AttributeLine(f, n, NoVendor)
    PROVE  AttributeCode(d, n) = l.code
<1>1. AttributeCode(d, n) # NoCode
  BY CodeMissing
<1>2. PICK m \in AttributeLine(f, n, NoVendor) : m.code = AttributeCode(d, n)
  BY <1>1, CodeGiven
<1>3. /\ l \in Range(f.lines) /\ l.kind = "ATTRIBUTE" /\ l.name = n /\ l.vendor = NoVendor
      /\ m \in Range(f.lines) /\ m.kind = "ATTRIBUTE" /\ m.name = n /\ m.vendor = NoVendor
  BY DEF AttributeLine, LinesOf
<1>4. m = l
  BY <1>3, GoodLines
<1> QED BY <1>2, <1>4

(* The places of a line's attribute are the indexes its key stops at, and  *)
(* the first of them holds what is found.                                  *)
LEMMA FirstFound ==
    ASSUME NEW f, NEW w, NEW p, NEW x, NEW n \in Nat, NEW stops \in SUBSET (1 .. n),
           Places(f, w, p) = stops, NEW type \in TypesOf(f, w),
           x = IF FirstOf(stops) = 0 THEN Absent
               ELSE Decode(type, Held(w, p)[FirstOf(stops)].value)
    PROVE  FindsFirst(f, w, p, x)
<1> DEFINE at == FirstOf(stops)
<1>1. /\ at = 0 <=> stops = {}
      /\ at # 0 => at \in stops /\ \A j \in stops : at <= j
  BY FirstOne
<1> HIDE DEF at
<1>2. ASSUME NEW k \in stops, \A j \in stops : k <= j
      PROVE  x = Decode(type, Held(w, p)[k].value)
  <2>1. at \in stops /\ at <= k /\ k <= at
    BY <1>1, <1>2
  <2>2. at = k /\ at # 0
    BY <1>1, <2>1
  <2> QED BY <2>2 DEF at
<1> QED BY <1>1, <1>2 DEF at, FindsFirst

(* A plain attribute is found by its code and 0 as the lines say. *)
LEMMA KeyedPlain ==
    ASSUME Ready(file, dict), ~BadFile(file), NEW l \in LinesOf(file, "ATTRIBUTE"),
           l.vendor = NoVendor, l.code \in Byte, ClassOf(l.code) \notin {"Integer", "Encrypted"},
           NEW g \in Datagrams
    PROVE  KeyedRight(l, g.packet)
<1> DEFINE p == g.packet
           w == [name |-> l.name, vendor |-> l.vendor]
           n == Len(p.attributes)
           stops == CodeStops(p, l.code)
           at == FirstOf(stops)
           type == GetAttributeType(dict, l.code, 0)
           x == GetAttribute(dict, p, KeyFor(l.name, l.vendor))
<1>1. /\ l \in Range(file.lines) /\ l.kind = "ATTRIBUTE" /\ l \in Lines
      /\ l.name \in AttrNames /\ l.code \in Nat
  BY LineKinds, DictionariesAssumption DEF LinesOf, Ready, MadeOf
<1>2. l \in AttributeLine(file, l.name, NoVendor)
  BY DEF AttributeLine
<1>3. KeyFor(l.name, l.vendor) = <<l.code, 0>>
  BY <1>1, <1>2, PlainCode, ByteOfByte DEF KeyFor
<1>4. x = IF at = 0 \/ type = NoType THEN Absent ELSE Decode(type, Data(p.attributes[at], p.auth))
  BY <1>3, GetAttributeOf
<1>5. type # NoType /\ type \in TypesOf(file, w)
  BY <1>2, PlainTypes
<1>6. Held(w, p) = p.attributes /\ n \in Nat /\ DOMAIN p.attributes = 1 .. n
  BY PacketTypes, LenProperties DEF Held
<1>7. stops \in SUBSET (1 .. n)
  BY DEF CodeStops
<1>8. Places(file, w, p) = stops
  <2>1. \A m \in AttributeLine(file, l.name, NoVendor) : m.code = l.code
    BY <1>1, <1>2, PlainCode
  <2>2. Places(file, w, p) = {k \in 1 .. n : \E m \in AttributeLine(file, l.name, NoVendor) :
                                                p.attributes[k].type = m.code}
    BY <1>6 DEF Places
  <2> QED BY <1>2, <2>1, <2>2 DEF CodeStops
<1>9. ASSUME at # 0
      PROVE  Data(p.attributes[at], p.auth) = p.attributes[at].value
  <2>1. at \in stops
    BY <1>6, <1>7, <1>9, FirstOne
  <2>2. at \in 1 .. n /\ p.attributes[at].type = l.code
    BY <2>1 DEF CodeStops
  <2>3. p.attributes[at].class = ClassOf(l.code)
    BY <2>2, PacketTypes
  <2> QED BY <2>3 DEF Data
<1>10. x = IF at = 0 THEN Absent ELSE Decode(type, Held(w, p)[at].value)
  BY <1>4, <1>5, <1>6, <1>9
<1>11. FindsFirst(file, w, p, x)
  <2> HIDE DEF w, p, x, type, n, stops
  <2> QED BY <1>5, <1>6, <1>7, <1>8, <1>10, FirstFound
<1> QED BY <1>11 DEF KeyedRight

(* A vendor attribute is found by its key as the lines say. *)
LEMMA KeyedVendor ==
    ASSUME Ready(file, dict), ~BadFile(file), NEW l \in LinesOf(file, "ATTRIBUTE"),
           l.vendor # NoVendor, l.code \in Byte, 0 \notin IdOf(file, l.vendor),
           NEW g \in Datagrams
    PROVE  KeyedRight(l, g.packet)
<1> DEFINE p == g.packet
           w == [name |-> l.name, vendor |-> l.vendor]
           n == Len(p.vendors)
           id == VendorCode(dict, l.vendor)
           stops == VendorStops(p, id, l.code)
           at == FirstOf(stops)
           type == GetAttributeType(dict, l.code, id)
           x == GetAttribute(dict, p, KeyFor(l.name, l.vendor))
<1>1. /\ l \in Range(file.lines) /\ l.kind = "ATTRIBUTE" /\ l \in Lines
      /\ l.name \in AttrNames /\ l.code \in Nat /\ l.vendor \in VendorNames
  BY LineKinds, DictionariesAssumption DEF LinesOf, Ready, MadeOf
<1>2. l \in AttributeLine(file, l.name, l.vendor)
  BY DEF AttributeLine
<1>3. /\ id # NoCode /\ id \in IdOf(file, l.vendor)
      /\ VendorAttributeCode(dict, l.vendor, l.name) = l.code /\ l.code # NoCode
      /\ \A j \in IdOf(file, l.vendor) : j = id
      /\ \A m \in AttributeLine(file, l.name, l.vendor) : m.code = l.code
  BY <1>1, <1>2, VendorKey
<1>4. id # 0
  BY <1>3
<1>5. KeyFor(l.name, l.vendor) = <<l.code, id>>
  BY <1>1, <1>3, ByteOfByte DEF KeyFor, GetAttributeKey
<1>6. x = IF at = 0 \/ type = NoType THEN Absent ELSE Decode(type, p.vendors[at].value)
  BY <1>4, <1>5, GetAttributeOf
<1>7. type # NoType /\ type \in TypesOf(file, w)
  <2>1. type # NoType
    BY <1>1, <1>2, <1>3, VendorTyped
  <2>2. w.vendor = l.vendor /\ w.name = l.name
    OBVIOUS
  <2> HIDE DEF w
  <2>3. GetAttributeType(dict, VendorAttributeCode(dict, w.vendor, w.name),
                         VendorCode(dict, w.vendor)) # NoType
           => GetAttributeType(dict, VendorAttributeCode(dict, w.vendor, w.name),
                               VendorCode(dict, w.vendor)) \in TypesOf(file, w)
    BY <1>1, <1>3, <2>2, VendorTypes
  <2> QED BY <1>3, <2>1, <2>2, <2>3
<1>8. Held(w, p) = p.vendors /\ n \in Nat /\ DOMAIN p.vendors = 1 .. n
  BY PacketTypes, LenProperties DEF Held
<1>9. stops \in SUBSET (1 .. n)
  BY DEF VendorStops
<1>10. Places(file, w, p) = stops
  <2>1. Places(file, w, p) =
           {k \in 1 .. n : /\ \E m \in AttributeLine(file, l.name, l.vendor) :
                                 p.vendors[k].type = m.code
                           /\ p.vendors[k].id \in IdOf(file, l.vendor)}
    BY <1>8 DEF Places
  <2> HIDE DEF id
  <2> QED BY <1>2, <1>3, <2>1 DEF VendorStops
<1>11. x = IF at = 0 THEN Absent ELSE Decode(type, Held(w, p)[at].value)
  BY <1>6, <1>7, <1>8
<1>12. FindsFirst(file, w, p, x)
  <2> HIDE DEF w, p, x, type, n, stops
  <2> QED BY <1>7, <1>8, <1>9, <1>10, <1>11, FirstFound
<1> QED BY <1>12 DEF KeyedRight

(* Every datagram that was served is one of those clients send. *)
LEMMA ServedGiven ==
    ASSUME QueueInv, NEW s \in Range(served)
    PROVE  s.datagram \in Datagrams
<1> DEFINE T == {Receiver!Served(g) : g \in Datagrams}
<1>1. served \in Seq(T)
  BY DEF QueueInv
<1>2. \A t \in T : t.datagram \in Datagrams
  BY DEF Receiver!Served
<1> HIDE DEF T
<1>3. s \in T
  BY <1>1, LenProperties, ElementOfSeq DEF Range
<1> QED BY <1>2, <1>3

(* A lookup by key finds what the dictionary file says, for every file that *)
(* is not bad, every line of it with a code of one byte whose vendor, if it *)
(* has one, is not number 0, and every request.                            *)
THEOREM ServerKeyedTruthful == Spec => []KeyedTruthful
<1>1. IInv => KeyedTruthful
  <2> SUFFICES ASSUME IInv, served # <<>>, ~BadFile(file),
                      NEW l \in LinesOf(file, "ATTRIBUTE"), NEW s \in Range(served),
                      l.code \in Byte, 0 \notin IdOf(file, l.vendor),
                      l.vendor = NoVendor => ClassOf(l.code) \notin {"Integer", "Encrypted"}
               PROVE  KeyedRight(l, s.datagram.packet)
    BY DEF KeyedTruthful, KeyedRight, FindsFirst
  <2>1. Ready(file, dict) /\ QueueInv
    BY DEF IInv, ReadyInv
  <2>2. s.datagram \in Datagrams
    BY <2>1, ServedGiven
  <2>3. CASE l.vendor = NoVendor
    BY <2>1, <2>2, <2>3, KeyedPlain
  <2>4. CASE l.vendor # NoVendor
    BY <2>1, <2>2, <2>4, KeyedVendor
  <2> QED BY <2>3, <2>4
<1> QED BY <1>1, ServerInvariant, PTL

(* What the server shows of the last request is what the request holds,    *)
(* for every dictionary file that is usual and lacks nothing, every list   *)
(* of wanted attributes and every request.                                 *)
THEOREM ServerShowsTruth ==
    ASSUME \A f \in Files : UsualFile(f)
    PROVE  Spec => []ShownTruthful
<1>1. IInv => ShownTruthful
  <2> SUFFICES ASSUME IInv, served # <<>>, ~BadFile(file), NEW i \in DOMAIN shown
               PROVE  Truthful(i, served[Len(served)].datagram.packet, shown[i])
    BY DEF ShownTruthful, Truthful
  <2> DEFINE g == served[Len(served)].datagram
  <2>1. g \in Datagrams
    BY ServedLast DEF IInv
  <2>2. Ready(file, dict) /\ UsualFile(file)
    BY DEF IInv, ReadyInv, FileInv
  <2>3. shown = Shown(g.packet)
    <3>1. CASE g.form = "packet"
      BY <3>1 DEF IInv, ShownInv
    <3>2. CASE g.form # "packet"
      <4>1. shown = <<>>
        BY <3>2 DEF IInv, ShownInv
      <4> QED BY <4>1, EmptySeq
    <3> QED BY <3>1, <3>2
  <2> HIDE DEF g
  <2>4. i \in DOMAIN Shown(g.packet)
    BY <2>3
  <2> QED BY <2>1, <2>2, <2>3, <2>4, ShownRight DEF g
<1> QED BY <1>1, ServerInvariant, PTL

-----------------------------------------------------------------------------
(* What ends the constructor is wrong with the file. *)
LEMMA NotStartedRight ==
    ASSUME IInv, FailToStart
    PROVE  BadFile(file)
<1> DEFINE l == file.lines[read + 1]
<1>1. file \in Files /\ read \in 0 .. Len(file.lines) /\ MadeOf(dict, LinesRead)
  BY DEF IInv, FileInv, DictInv
<1>2. /\ Len(file.lines) \in Nat /\ \A i \in 1 .. Len(file.lines) : file.lines[i] \in Lines
      /\ Range(file.lines) = {file.lines[i] : i \in 1 .. Len(file.lines)}
  BY <1>1, FileTypes
<1>3. LinesRead \subseteq Range(file.lines)
  BY <1>1, <1>2 DEF LinesRead
<1>4. CASE ~file.opens
  BY <1>4 DEF BadFile
<1>5. CASE read < Len(file.lines) /\ LineTaken(dict, l)
  <2>1. read + 1 \in 1 .. Len(file.lines)
    BY <1>1, <1>2, <1>5
  <2>2. l \in Lines /\ l \in Range(file.lines)
    BY <1>2, <2>1
  <2> HIDE DEF l
  <2>3. PICK m \in LinesRead :
           /\ l # m /\ l.kind = m.kind /\ l.name = m.name
           /\ \/ l.kind = "VENDOR"
              \/ l.kind = "ATTRIBUTE" /\ l.vendor = m.vendor
              \/ l.kind = "VALUE" /\ l.ofVendor = m.ofVendor /\ l.attribute = m.attribute
    BY <1>1, <1>5, <2>2, TakenConflicts
  <2>4. m \in Range(file.lines)
    BY <1>3
  <2> QED BY <2>2, <2>3, <2>4 DEF BadFile
<1>6. CASE read = Len(file.lines) /\ \E u \in Unresolved(dict) : ~VendorKnown(dict, u)
  <2>1. PICK u \in Unresolved(dict) : ~VendorKnown(dict, u)
    BY <1>6
  <2>2. u \in UnresolvedKeys /\ dict.unresolved[u] # NoType
    BY DEF Unresolved
  <2>3. u[2] \in VendorNames
    BY <2>2 DEF UnresolvedKeys
  <2>4. PICK m \in AttributesIn(LinesRead, u[2]) : TRUE
    BY <1>1, <2>2 DEF MadeOf, WaitingGiven
  <2>5. m \in LinesOf(file, "ATTRIBUTE") /\ m.vendor = u[2] /\ m.vendor # NoVendor
    BY <1>3, <2>3, <2>4, DictionariesAssumption DEF AttributesIn, LinesOf
  <2>6. LinesRead = Range(file.lines)
    BY <1>2, <1>6 DEF LinesRead
  <2>7. ASSUME NEW v \in LinesOf(file, "VENDOR"), v.name = m.vendor PROVE FALSE
    <3>1. v \in KindIn(LinesRead, "VENDOR")
      BY <2>6, SameLines
    <3>2. Lists(dict.vendorNames, KindIn(LinesRead, "VENDOR"))
      BY <1>1 DEF MadeOf, TablesListed
    <3>3. dict.vendorNames.reverse[v.name] # NoCode
      BY <3>1, <3>2 DEF Lists
    <3> QED BY <2>1, <2>5, <2>7, <3>3 DEF VendorKnown
  <2>8. IdOf(file, m.vendor) = {}
    BY <2>7 DEF IdOf
  <2> QED BY <2>5, <2>8 DEF BadFile
<1> QED BY <1>4, <1>5, <1>6 DEF FailToStart

(* What is caught is a request that need not be answered. *)
LEMMA PassedOverRight ==
    ASSUME Ready(file, dict), UsualFile(file), NEW g \in Datagrams, Ending(g) = "caught"
    PROVE  IgnoredFor(file, g)
<1> DEFINE p == g.packet
           i == Failed(p)
<1>1. CASE g.form = "malformed"
  BY <1>1 DEF IgnoredFor
<1>2. CASE g.form # "malformed"
  <2>1. i # 0 /\ Looked(p, i).result = "Exception"
    BY <1>2, EndingOf
  <2>2. i \in DOMAIN Wanted
    BY <2>1, FailedFirst
  <2> HIDE DEF i
  <2>3. LookupRight(file, Wanted[i], p, Looked(p, i))
    BY <2>2, LookupIsRight DEF Looked
  <2>4. PICK k \in Places(file, Wanted[i], p), type \in TypesOf(file, Wanted[i]) :
           Looked(p, i) = Decode(type, Held(Wanted[i], p)[k].value)
    BY <2>1, <2>3 DEF LookupRight
  <2>5. Len(Held(Wanted[i], p)[k].value) \in Nat
    <3>1. k \in DOMAIN Held(Wanted[i], p)
      BY DEF Places
    <3>2. /\ DOMAIN p.attributes = 1 .. Len(p.attributes)
          /\ DOMAIN p.vendors = 1 .. Len(p.vendors)
      <4>1. p.attributes \in Seq(Attribute) /\ p.vendors \in Seq(Vendor)
        BY PacketTypes
      <4> QED BY <4>1, LenProperties
    <3> QED BY <3>1, <3>2, PacketTypes DEF Held
  <2>6. Unfit(type, Held(Wanted[i], p)[k].value)
    BY <2>1, <2>4, <2>5, DecodeResult
  <2> QED BY <2>2, <2>4, <2>6 DEF IgnoredFor
<1> QED BY <1>1, <1>2

(* What ends the server is a request that may. *)
LEMMA GivenUpRight ==
    ASSUME Ready(file, dict), UsualFile(file), NEW g \in Datagrams, Ending(g) = "escapes"
    PROVE  FatalFor(file, g)
<1> DEFINE p == g.packet
           i == Failed(p)
<1>1. CASE g.form = "unparsable"
  BY <1>1 DEF FatalFor
<1>2. CASE g.form = "packet" /\ i # 0
  <2>1. i \in DOMAIN Wanted /\ Throws(Looked(p, i)) /\ Looked(p, i).result # "Exception"
    BY <1>2, FailedFirst, EndingOf
  <2> HIDE DEF i
  <2>2. Looked(p, i).result = "out_of_range"
    BY <2>1 DEF Throws
  <2>3. LookupRight(file, Wanted[i], p, Looked(p, i))
    BY <2>1, LookupIsRight DEF Looked
  <2>4. \/ Wanted[i].vendor # NoVendor
           /\ AttributeLine(file, Wanted[i].name, Wanted[i].vendor) = {}
        \/ Wanted[i].vendor = NoVendor
           /\ \E k \in DOMAIN p.attributes : Unlisted(file, Wanted[i], p, k)
    BY <2>2, <2>3 DEF LookupRight
  <2> QED BY <2>1, <2>4 DEF FatalFor, Unlisted
<1>3. CASE g.form = "packet" /\ i = 0
  <2>1. ~Answerable
    BY <1>3, EndingOf
  <2>2. PICK j \in DOMAIN ReplyContent : AttributeCode(dict, ReplyContent[j].name) = NoCode
    BY <2>1 DEF Answerable
  <2>3. AttributeLine(file, ReplyContent[j].name, NoVendor) = {}
    BY <2>2, CodeMissing
  <2> QED BY <2>3 DEF FatalFor
<1>4. g.form = "packet" \/ g.form = "unparsable"
  BY EndingOf
<1> QED BY <1>1, <1>2, <1>3, <1>4

(* What is answered is one of the right answers. *)
RightCodes(f, i) == {l.code : l \in AttributeLine(f, ReplyContent[i].name, NoVendor)}
RightCodings(f) ==
    {c \in [DOMAIN ReplyContent -> UNION {RightCodes(f, i) : i \in DOMAIN ReplyContent}] :
        \A i \in DOMAIN ReplyContent : c[i] \in RightCodes(f, i)}
IsRequest(p) == p.type = 1
RightPacket(p, c) ==
    [type |-> IF p.type = 1 THEN 2 ELSE 3, id |-> p.id, recalc |-> IsRequest(p), auth |-> p.auth,
     vendors |-> <<>>,
     attributes |-> [i \in DOMAIN ReplyContent |->
        [class |-> ReplyContent[i].class, value |-> ReplyContent[i].value, type |-> c[i]]]]

(* The reply that is posted is one of the right answers. *)
LEMMA AnsweredRight ==
    ASSUME Ready(file, dict), UsualFile(file), NEW g \in Datagrams, Ending(g) = "reply"
    PROVE  [to |-> g.from, packet |-> Reply(g.packet)] \in RightAnswers(file, g)
<1> DEFINE p == g.packet
           c == [i \in DOMAIN ReplyContent |-> AttributeCode(dict, ReplyContent[i].name)]
<1>1. RightAnswers(file, g) =
        {[to |-> g.from, packet |-> RightPacket(p, b)] : b \in RightCodings(file)}
  BY Zenon DEF RightAnswers, RightPacket, RightCodings, RightCodes, IsRequest
<1>2. Answerable
  BY EndingOf
<1>3. ASSUME NEW i \in DOMAIN ReplyContent
      PROVE  /\ AttributeCode(dict, ReplyContent[i].name) \in RightCodes(file, i)
             /\ ByteOf(AttributeCode(dict, ReplyContent[i].name))
                  = AttributeCode(dict, ReplyContent[i].name)
  <2> DEFINE n == ReplyContent[i].name
             code == AttributeCode(dict, n)
  <2>1. n \in AttrNames /\ code # NoCode
    BY <1>2, ReplyContentTypes DEF Answerable
  <2>2. PICK l \in AttributeLine(file, n, NoVendor) : l.code = code
    BY <2>1, CodeGiven
  <2>3. code \in Byte
    BY <2>2 DEF UsualFile
  <2>4. code \in Nat
    BY <2>3 DEF Byte
  <2>5. ByteOf(code) = code
    BY <2>3, <2>4, ByteOfByte
  <2> QED BY <2>2, <2>5 DEF RightCodes
<1>4. c \in RightCodings(file)
  <2>1. \A i \in DOMAIN ReplyContent : c[i] \in RightCodes(file, i)
    BY <1>3
  <2>2. c \in [DOMAIN ReplyContent -> UNION {RightCodes(file, i) : i \in DOMAIN ReplyContent}]
    BY <1>3
  <2> HIDE DEF c
  <2> QED BY <2>1, <2>2 DEF RightCodings
<1>5. Reply(p) = RightPacket(p, c)
  <2>1. ReplyAttributes =
          [i \in DOMAIN ReplyContent |->
            [class |-> ReplyContent[i].class, value |-> ReplyContent[i].value, type |-> c[i]]]
    BY <1>3 DEF ReplyAttributes
  <2>2. ReplyType(p.type) = IF p.type = 1 THEN 2 ELSE 3
    BY DEF ReplyType, ACCESS_REQUEST, ACCESS_ACCEPT, ACCESS_REJECT
  <2> DEFINE recalc == ReplyType(p.type) = 2 \/ FALSE
  <2>3. Reply(p) = [type |-> ReplyType(p.type), id |-> p.id, recalc |-> recalc, auth |-> p.auth,
                    attributes |-> ReplyAttributes, vendors |-> <<>>]
    BY Zenon DEF Reply, ResponsePacket
  <2>4. recalc <=> IsRequest(p)
    BY <2>2 DEF IsRequest
  <2>5. recalc \in BOOLEAN /\ IsRequest(p) \in BOOLEAN
    BY DEF IsRequest
  <2>6. recalc = IsRequest(p)
    BY <2>4, <2>5, Zenon
  <2> HIDE DEF recalc, c
  <2> QED BY <2>1, <2>2, <2>3, <2>6 DEF RightPacket
<1> HIDE DEF c
<1> QED BY <1>1, <1>4, <1>5

-----------------------------------------------------------------------------
(* The queue of the service is what was taken and what waits. *)
Kept == taken \o waiting

(* Taking sequences apart, and putting them together again. *)
LEMMA JoinOne ==
    ASSUME NEW S, NEW one \in Seq(S), Len(one) = 1, NEW w \in Seq(S)
    PROVE  /\ one \o w \in Seq(S)
           /\ Len(one \o w) = 1 + Len(w)
           /\ (one \o w)[1] = one[1]
           /\ \A i \in 1 .. Len(w) : (one \o w)[i + 1] = w[i]
<1>1. one \o w \in Seq(S)
  BY ConcatProperties
<1>2. Len(one \o w) = Len(one) + Len(w)
  BY ConcatProperties
<1>3. \A i \in 1 .. Len(one) + Len(w) :
         (one \o w)[i] = IF i <= Len(one) THEN one[i] ELSE w[i - Len(one)]
  BY ConcatProperties
<1>4. Len(w) \in Nat
  BY LenProperties
<1>5. (one \o w)[1] = one[1]
  BY <1>3, <1>4
<1>6. ASSUME NEW i \in 1 .. Len(w) PROVE (one \o w)[i + 1] = w[i]
  <2>1. i + 1 \in 1 .. 1 + Len(w) /\ ~(i + 1 <= 1) /\ (i + 1) - 1 = i
    BY <1>4
  <2> QED BY <1>3, <2>1
<1> QED BY <1>1, <1>2, <1>5, <1>6

(* A sequence is its head followed by its tail. *)
LEMMA HeadTailJoined ==
    ASSUME NEW S, NEW w \in Seq(S), w # <<>>
    PROVE  <<Head(w)>> \o Tail(w) = w
<1> DEFINE h == <<Head(w)>>
           t == Tail(w)
<1>1. Head(w) \in S /\ t \in Seq(S) /\ Len(t) = Len(w) - 1 /\ Head(w) = w[1]
  BY HeadTailProperties
<1>2. \A i \in 1 .. Len(t) : t[i] = w[i + 1]
  BY HeadTailProperties
<1>3. h \in Seq(S) /\ Len(h) = 1 /\ h[1] = w[1]
  BY <1>1
<1>4. Len(w) \in Nat /\ Len(t) \in Nat
  BY <1>1, LenProperties
<1> HIDE DEF h, t
<1>5. h \o t \in Seq(S) /\ Len(h \o t) = 1 + Len(t) /\ (h \o t)[1] = h[1]
  BY <1>1, <1>3, JoinOne
<1>6. \A i \in 1 .. Len(t) : (h \o t)[i + 1] = t[i]
  BY <1>1, <1>3, JoinOne
<1>7. Len(h \o t) = Len(w)
  BY <1>1, <1>4, <1>5
<1>8. ASSUME NEW i \in 1 .. Len(w) PROVE (h \o t)[i] = w[i]
  <2>1. CASE i = 1
    BY <1>3, <1>5, <2>1
  <2>2. CASE i # 1
    <3>1. i - 1 \in 1 .. Len(t) /\ (i - 1) + 1 = i
      BY <1>1, <1>4, <2>2
    <3>2. (h \o t)[(i - 1) + 1] = t[i - 1] /\ t[i - 1] = w[(i - 1) + 1]
      BY <1>2, <1>6, <3>1
    <3> QED BY <3>1, <3>2
  <2> QED BY <2>1, <2>2
<1>9. h \o t = w
  BY <1>5, <1>7, <1>8, SeqEqual
<1> QED BY <1>9 DEF h, t

(* The head and the tail of one element followed by a sequence. *)
LEMMA JoinedTaken ==
    ASSUME NEW S, NEW one \in Seq(S), Len(one) = 1, NEW w \in Seq(S)
    PROVE  one \o w # <<>> /\ Head(one \o w) = Head(one) /\ Tail(one \o w) = w
<1> DEFINE s == one \o w
<1>1. s \in Seq(S) /\ Len(s) = 1 + Len(w) /\ s[1] = one[1]
  BY JoinOne
<1>2. \A i \in 1 .. Len(w) : s[i + 1] = w[i]
  BY JoinOne
<1> HIDE DEF s
<1>3. Len(w) \in Nat
  BY LenProperties
<1>4. s # <<>> /\ one # <<>>
  <2>1. \A n \in Nat : 1 + n # 0
    OBVIOUS
  <2>2. Len(s) # 0 /\ Len(one) # 0
    BY <1>1, <1>3, <2>1
  <2> QED BY <2>2, EmptySeq
<1>5. Head(s) = Head(one)
  BY <1>1, <1>4
<1>6. Tail(s) \in Seq(S) /\ Len(Tail(s)) = Len(s) - 1
  BY <1>1, <1>4, HeadTailProperties
<1>7. \A i \in 1 .. Len(Tail(s)) : Tail(s)[i] = s[i + 1]
  BY <1>1, <1>4, HeadTailProperties
<1>8. Len(Tail(s)) = Len(w)
  BY <1>1, <1>3, <1>6
<1>9. \A i \in 1 .. Len(Tail(s)) : Tail(s)[i] = w[i]
  BY <1>2, <1>7, <1>8
<1>10. Tail(s) = w
  BY <1>6, <1>8, <1>9, SeqEqual
<1> QED BY <1>4, <1>5, <1>10 DEF s
LEMMA KeptTaken ==
    ASSUME QueueInv
    PROVE  /\ taken = <<>> => Kept = waiting
           /\ waiting # <<>> => <<Head(waiting)>> \o Tail(waiting) = waiting
           /\ taken # <<>> => Kept # <<>> /\ Head(Kept) = Head(taken) /\ Tail(Kept) = waiting
           /\ \A d \in Datagrams : taken \o Append(waiting, d) = Append(Kept, d)
<1>1. /\ taken \in Seq(Datagrams) /\ waiting \in Seq(Datagrams) /\ Len(taken) <= 1
  BY DEF QueueInv
<1>2. taken = <<>> => Kept = waiting
  BY <1>1, ConcatEmptySeq DEF Kept
<1>3. waiting # <<>> => <<Head(waiting)>> \o Tail(waiting) = waiting
  BY <1>1, HeadTailJoined
<1>4. taken # <<>> => Len(taken) = 1
  <2>1. taken # <<>> => Len(taken) \in Nat \ {0}
    BY <1>1, EmptySeq
  <2>2. \A n \in Nat \ {0} : n <= 1 => n = 1
    OBVIOUS
  <2> QED BY <1>1, <2>1, <2>2, Zenon
<1>5. taken # <<>> => Kept # <<>> /\ Head(Kept) = Head(taken) /\ Tail(Kept) = waiting
  BY <1>1, <1>4, JoinedTaken DEF Kept
<1>6. ASSUME NEW d \in Datagrams PROVE taken \o Append(waiting, d) = Append(Kept, d)
  <2>1. Append(waiting, d) = waiting \o <<d>> /\ <<d>> \in Seq(Datagrams)
    BY <1>1, AppendIsConcat
  <2>2. taken \o (waiting \o <<d>>) = (taken \o waiting) \o <<d>>
    BY <1>1, <2>1, ConcatAssociative
  <2>3. Kept \in Seq(Datagrams)
    BY <1>1, ConcatProperties DEF Kept
  <2>4. Append(Kept, d) = Kept \o <<d>>
    BY <2>3, AppendIsConcat
  <2> QED BY <2>1, <2>2, <2>4 DEF Kept
<1> QED BY <1>2, <1>3, <1>5, <1>6

-----------------------------------------------------------------------------
(* The server's view of its steps. *)
LEMMA StartStutters ==
    ASSUME ReadLine \/ Resolve
    PROVE  UNCHANGED Service!vars
<1>1. /\ file' = file /\ taken' = taken /\ waiting' = waiting /\ posted' = posted
      /\ sent' = sent /\ phase # "ended" /\ phase' # "ended"
  BY DEF ReadLine, Resolve, receiveVars
<1>2. (phase' = "ended") = (phase = "ended")
  BY <1>1
<1> QED BY <1>1, <1>2 DEF Service!vars

(* A constructor that throws is a service that does not start. *)
LEMMA FailIsNotStart ==
    ASSUME IInv, FailToStart
    PROVE  Service!NotStart
<1>1. /\ file' = file /\ taken' = taken /\ waiting' = waiting /\ posted' = posted
      /\ sent' = sent /\ phase = "starting" /\ phase' = "ended"
  BY DEF FailToStart, receiveVars
<1>2. posted = <<>> /\ sent = <<>>
  BY <1>1 DEF IInv, StartInv
<1>3. BadFile(file)
  BY NotStartedRight
<1>4. (phase' = "ended") = TRUE /\ ~(phase = "ended")
  BY <1>1
<1>5. (taken \o waiting)' = taken \o waiting
  BY <1>1
<1> QED BY <1>1, <1>2, <1>3, <1>4, <1>5 DEF Service!NotStart

(* A datagram the kernel keeps is a request that is kept. *)
LEMMA ArriveIsKeep ==
    ASSUME IInv, Arrive
    PROVE  Service!Keep
<1>1. /\ file' = file /\ taken' = taken /\ posted' = posted /\ sent' = sent /\ phase' = phase
      /\ phase # "ended"
  BY DEF Arrive, Receiver!Offer
<1>2. PICK d \in Datagrams : waiting' = Append(waiting, d)
  BY DEF Arrive, Receiver!Offer
<1>3. (taken \o waiting)' = Append(taken \o waiting, d)
  BY <1>1, <1>2, KeptTaken DEF IInv, Kept
<1>4. (phase' = "ended") = (phase = "ended")
  BY <1>1
<1> QED BY <1>1, <1>3, <1>4 DEF Service!Keep

(* Moving a datagram into the buffer is not seen. *)
LEMMA TakeStutters ==
    ASSUME IInv, Take
    PROVE  UNCHANGED Service!vars
<1>1. /\ file' = file /\ posted' = posted /\ sent' = sent /\ phase' = phase
      /\ taken = <<>> /\ waiting # <<>> /\ taken' = <<Head(waiting)>> /\ waiting' = Tail(waiting)
  BY DEF Take, Receiver!Take
<1>2. (taken \o waiting)' = taken \o waiting
  BY <1>1, KeptTaken DEF IInv, Kept
<1>3. (phase' = "ended") = (phase = "ended")
  BY <1>1
<1> QED BY <1>1, <1>2, <1>3 DEF Service!vars

(* A reply that the kernel takes or refuses is an answer that is sent. *)
LEMMA SendReplyIsSend ==
    ASSUME SendReply
    PROVE  Service!Send
<1>1. /\ file' = file /\ taken' = taken /\ waiting' = waiting /\ phase' = phase
      /\ phase = "running" /\ posted # <<>> /\ posted' = <<>>
      /\ sent' \in {sent, Append(sent, Head(posted))}
  BY DEF SendReply, receiveVars
<1>2. (phase' = "ended") = (phase = "ended") /\ ~(phase = "ended")
  BY <1>1
<1>3. (taken \o waiting)' = taken \o waiting
  BY <1>1
<1> QED BY <1>1, <1>2, <1>3 DEF Service!Send

(* Handling a datagram settles the request it holds. *)
LEMMA HandleSettles ==
    ASSUME IInv, UsualFile(file), HandleReceive
    PROVE  Service!Answer \/ Service!PassOver \/ Service!GiveUp
<1> DEFINE g == Head(taken)
           q == [to |-> g.from, packet |-> Reply(g.packet)]
<1>1. /\ g \in Datagrams /\ Ready(file, dict) /\ phase = "running" /\ posted = <<>>
      /\ file' = file /\ sent' = sent /\ taken # <<>>
      /\ phase' = (IF Ending(g) = "escapes" THEN "ended" ELSE phase)
      /\ posted' = (IF Ending(g) = "reply" THEN <<q>> ELSE <<>>)
      /\ \/ waiting # <<>> /\ taken' = <<Head(waiting)>> /\ waiting' = Tail(waiting)
         \/ taken' = <<>> /\ waiting' = waiting
  BY Handled
<1> DEFINE over == phase = "ended"
           kept == taken \o waiting
<1>2. kept # <<>> /\ Head(kept) = g /\ Tail(kept) = waiting
  BY <1>1, KeptTaken DEF IInv, Kept
<1>3. kept' = waiting
  <2>1. QueueInv /\ QueueInv'
    BY HandleReceiveInv DEF IInv
  <2>2. CASE waiting # <<>> /\ taken' = <<Head(waiting)>> /\ waiting' = Tail(waiting)
    BY <2>1, <2>2, KeptTaken
  <2>3. CASE taken' = <<>> /\ waiting' = waiting
    <3>1. waiting \in Seq(Datagrams)
      BY <2>1 DEF QueueInv
    <3>2. <<>> \o waiting = waiting
      BY <3>1, ConcatEmptySeq
    <3> QED BY <2>3, <3>2
  <2> QED BY <1>1, <2>2, <2>3
<1>4. ~over
  BY <1>1
<1>5. Service!Settle
  BY <1>1, <1>2, <1>3, <1>4 DEF Service!Settle
<1>6. CASE Ending(g) = "reply"
  <2>1. q \in RightAnswers(file, g)
    BY <1>1, <1>6, AnsweredRight
  <2>2. posted' = <<q>> /\ phase' = phase
    BY <1>1, <1>6
  <2> HIDE DEF g, q
  <2>3. over' = over
    BY <2>2
  <2> QED BY <1>1, <1>2, <1>5, <2>1, <2>2, <2>3 DEF Service!Answer
<1>7. CASE Ending(g) = "caught"
  <2>1. IgnoredFor(file, g)
    BY <1>1, <1>7, PassedOverRight
  <2>2. posted' = posted /\ phase' = phase
    BY <1>1, <1>7
  <2> HIDE DEF g
  <2>3. over' = over
    BY <2>2
  <2> QED BY <1>1, <1>2, <1>5, <2>1, <2>2, <2>3 DEF Service!PassOver
<1>8. CASE Ending(g) = "escapes"
  <2>1. FatalFor(file, g)
    BY <1>1, <1>8, GivenUpRight
  <2>2. posted' = posted /\ phase' = "ended"
    BY <1>1, <1>8
  <2> HIDE DEF g
  <2>3. over' = TRUE
    BY <2>2
  <2> QED BY <1>1, <1>2, <1>5, <2>1, <2>2, <2>3 DEF Service!GiveUp
<1>9. Ending(g) \in {"reply", "caught", "escapes"}
  BY <1>1, EndingOf
<1> QED BY <1>6, <1>7, <1>8, <1>9

(* The server is a request-reply service: whatever clients send and        *)
(* whatever usual dictionary file it is started with, each step of it      *)
(* keeps, answers, passes over or gives up a request, or refuses to start, *)
(* for the reasons RequestReply allows, or changes nothing of that.        *)
THEOREM ServerImplements ==
    ASSUME \A f \in Files : UsualFile(f)
    PROVE  Spec => Service!Spec
<1>1. Init => Service!Init
  <2> SUFFICES ASSUME Init PROVE Service!Init
    OBVIOUS
  <2>1. taken = <<>> /\ waiting = <<>> /\ posted = <<>> /\ sent = <<>> /\ phase = "starting"
    BY DEF Init
  <2>2. taken \o waiting = <<>>
    BY <2>1, InitInv, KeptTaken DEF IInv, Kept
  <2>3. (phase = "ended") = FALSE
    BY <2>1
  <2> QED BY <2>1, <2>2, <2>3 DEF Service!Init
<1>2. IInv /\ [Next]_vars => [Service!Next]_Service!vars
  <2> SUFFICES ASSUME IInv, [Next]_vars PROVE [Service!Next]_Service!vars
    OBVIOUS
  <2>0. UsualFile(file)
    BY DEF IInv, FileInv
  <2>1. CASE ReadLine \/ Resolve
    BY <2>1, StartStutters
  <2>2. CASE FailToStart
    BY <2>2, FailIsNotStart DEF Service!Next
  <2>3. CASE Arrive
    BY <2>3, ArriveIsKeep DEF Service!Next
  <2>4. CASE Take
    BY <2>4, TakeStutters
  <2>5. CASE HandleReceive
    BY <2>0, <2>5, HandleSettles DEF Service!Next
  <2>6. CASE SendReply
    BY <2>6, SendReplyIsSend DEF Service!Next
  <2>7. CASE UNCHANGED vars
    BY <2>7 DEF vars, receiveVars, Service!vars
  <2> QED BY <2>1, <2>2, <2>3, <2>4, <2>5, <2>6, <2>7 DEF Next
<1> QED BY <1>1, <1>2, ServerInvariant, PTL DEF Spec, Service!Spec

=============================================================================
