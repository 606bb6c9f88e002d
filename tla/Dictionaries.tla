---------------------------- MODULE Dictionaries ----------------------------
(***************************************************************************)
(* radius_lite::Dictionaries (src/src/dictionaries.cpp) as constant        *)
(* operators: the five dictionaries of one object, the types of its        *)
(* attributes, and what a line of a dictionary file, append and resolve do *)
(* to them.  DictionaryLoader is the constructor that reads the files;     *)
(* PacketReader looks attributes up.                                       *)
(*                                                                         *)
(* A line that defines something is a record with a field kind: ATTRIBUTE, *)
(* VALUE or VENDOR.  Names are numbers because std::map orders them.       *)
(***************************************************************************)
EXTENDS Naturals

CONSTANTS
    AttrCodes, AttrNames,       \* attributes: codes of 32 bits
    VendorIds, VendorNames,
    ValueCodes, ValueNames,     \* enumerated values of attributes
    Types,                      \* type names
    NoName, NoCode, NoType,     \* not in the table
    NoVendor                    \* the empty vendor name

ASSUME DictionariesAssumption ==
    /\ AttrCodes \cup VendorIds \cup ValueCodes \subseteq Nat
    /\ AttrNames \cup VendorNames \cup ValueNames \subseteq Nat
    /\ NoVendor \notin VendorNames /\ NoType \notin Types
    /\ NoName \notin AttrNames \cup VendorNames \cup ValueNames
    /\ NoCode \notin AttrCodes \cup VendorIds \cup ValueCodes \cup {0}

(* The tables of attributes (scopes: vendors), vendors, and values (scopes: *)
(* the names of their attributes).                                         *)
Attr == INSTANCE ScopedTable WITH
            Codes <- AttrCodes, Names <- AttrNames, Scopes <- VendorNames
Vend == INSTANCE NameTable WITH Codes <- VendorIds, Names <- VendorNames
Val == INSTANCE ScopedTable WITH
            Codes <- ValueCodes, Names <- ValueNames, Scopes <- AttrNames

(* AttributeKey and UnresolvedAttributeKey keep the low byte of a code.  A  *)
(* vendor of number 0 shares its keys with the attributes of no vendor.    *)
ByteOf(code) == code % 256
Keys == {ByteOf(c) : c \in AttrCodes} \X (VendorIds \cup {0})
UnresolvedKeys == {ByteOf(c) : c \in AttrCodes} \X VendorNames

EmptyDictionaries ==
    [attributes |-> Attr!EmptyTable,
     vendorNames |-> Vend!EmptyTable,
     attributeValues |-> Val!EmptyScopedTable,
     vendorAttributes |-> Attr!EmptyScopedTable,
     vendorAttributeValues |-> Val!EmptyScopedTable,
     types |-> [k \in Keys |-> NoType],
     unresolved |-> [k \in UnresolvedKeys |-> NoType]]

(* The types of the members. *)
IsDictionaries(dict) ==
    /\ dict.attributes.right \in Attr!Rights
    /\ dict.attributes.reverse \in Attr!Reverses
    /\ dict.vendorNames.right \in Vend!Rights
    /\ dict.vendorNames.reverse \in Vend!Reverses
    /\ dict.attributeValues.right \in [AttrNames -> Val!Rights]
    /\ dict.attributeValues.reverse \in [AttrNames -> Val!Reverses]
    /\ dict.vendorAttributes.right \in [VendorNames -> Attr!Rights]
    /\ dict.vendorAttributes.reverse \in [VendorNames -> Attr!Reverses]
    /\ dict.vendorAttributeValues.right \in [AttrNames -> Val!Rights]
    /\ dict.vendorAttributeValues.reverse \in [AttrNames -> Val!Reverses]
    /\ dict.types \in [Keys -> Types \cup {NoType}]
    /\ dict.unresolved \in [UnresolvedKeys -> Types \cup {NoType}]

-----------------------------------------------------------------------------
(* One line of a file, read where BEGIN-VENDOR has set vendor.             *)
AttributeLines(vendor) ==
    [kind : {"ATTRIBUTE"}, vendor : {vendor}, name : AttrNames,
     code : AttrCodes, type : Types]
ValueLines(vendor) ==
    [kind : {"VALUE"}, ofVendor : {vendor # NoVendor}, attribute : AttrNames,
     name : ValueNames, code : ValueCodes]
VendorLines == [kind : {"VENDOR"}, name : VendorNames, code : VendorIds]

(* add throws for this line. *)
LineTaken(dict, line) ==
    CASE line.kind = "VENDOR" ->
            Vend!NameTaken(dict.vendorNames.right, line.code, line.name)
      [] line.kind = "ATTRIBUTE" /\ line.vendor = NoVendor ->
            Attr!NameTaken(dict.attributes.right, line.code, line.name)
      [] line.kind = "ATTRIBUTE" /\ line.vendor # NoVendor ->
            Attr!NameTakenInScope(dict.vendorAttributes.right, line.vendor,
                                  line.code, line.name)
      [] line.kind = "VALUE" /\ ~line.ofVendor ->
            Val!NameTakenInScope(dict.attributeValues.right, line.attribute,
                                 line.code, line.name)
      [] line.kind = "VALUE" /\ line.ofVendor ->
            Val!NameTakenInScope(dict.vendorAttributeValues.right, line.attribute,
                                 line.code, line.name)

(* unordered_map::emplace: the type that is there stays. *)
EmplaceType(types, key, type) ==
    [types EXCEPT ![key] = IF @ = NoType THEN type ELSE @]

(* Fault: an attribute of a vendor that is not known yet counts as one of  *)
(* no vendor.                                                              *)
WithType_ZeroVendor(dict, line) ==
    LET id == IF line.vendor = NoVendor THEN 0
              ELSE dict.vendorNames.reverse[line.vendor]
    IN  [dict EXCEPT !.types =
            EmplaceType(@, <<ByteOf(line.code), IF id = NoCode THEN 0 ELSE id>>,
                        line.type)]

(* The type of an ATTRIBUTE line waits for resolve() while the vendor's     *)
(* number is not known.                                                    *)
WithType(dict, line) ==
    LET id == IF line.vendor = NoVendor THEN 0
              ELSE dict.vendorNames.reverse[line.vendor]
    IN  IF id # NoCode
        THEN [dict EXCEPT !.types =
                EmplaceType(@, <<ByteOf(line.code), id>>, line.type)]
        ELSE [dict EXCEPT !.unresolved =
                EmplaceType(@, <<ByteOf(line.code), line.vendor>>, line.type)]

(* What a line that does not throw does. *)
WithLine(dict, line) ==
    CASE line.kind = "VENDOR" ->
            [dict EXCEPT !.vendorNames = Vend!AddedTable(@, line.code, line.name)]
      [] line.kind = "ATTRIBUTE" /\ line.vendor = NoVendor ->
            WithType([dict EXCEPT !.attributes =
                        Attr!AddedTable(@, line.code, line.name)], line)
      [] line.kind = "ATTRIBUTE" /\ line.vendor # NoVendor ->
            WithType([dict EXCEPT !.vendorAttributes =
                        Attr!ScopedAddedTable(@, line.vendor, line.code, line.name)],
                     line)
      [] line.kind = "VALUE" /\ ~line.ofVendor ->
            [dict EXCEPT !.attributeValues =
                Val!ScopedAddedTable(@, line.attribute, line.code, line.name)]
      [] line.kind = "VALUE" /\ line.ofVendor ->
            [dict EXCEPT !.vendorAttributeValues =
                Val!ScopedAddedTable(@, line.attribute, line.code, line.name)]

-----------------------------------------------------------------------------
(* append, which goes through the seven members in their order.            *)
Clashing(dict, added) ==
    [attributes |->
        Attr!Clashes(dict.attributes.right, added.attributes.right) # {},
     vendorNames |->
        Vend!Clashes(dict.vendorNames.right, added.vendorNames.right) # {},
     attributeValues |->
        Val!ScopedClash(dict.attributeValues.right, added.attributeValues.right),
     vendorAttributes |->
        Attr!ScopedClash(dict.vendorAttributes.right, added.vendorAttributes.right),
     vendorAttributeValues |->
        Val!ScopedClash(dict.vendorAttributeValues.right,
                        added.vendorAttributeValues.right)]

(* append throws. *)
AppendThrows(dict, added) ==
    \E member \in DOMAIN Clashing(dict, added) : Clashing(dict, added)[member]

(* unordered_map::insert of every entry. *)
InsertTypes(types, added) ==
    [k \in DOMAIN types |-> IF types[k] = NoType THEN added[k] ELSE types[k]]

(* Fault: the types that wait for a vendor are not appended.               *)
MergedUnresolved_None(unresolved, added) == unresolved

MergedUnresolved(unresolved, added) == InsertTypes(unresolved, added)

(* What append leaves behind: the members behind one that clashed are not  *)
(* touched, that one holds a part of added.                                *)
AppendedDictionaries(dict, added) ==
    LET clash == Clashing(dict, added)
        toVendors == ~clash.attributes
        toValues == toVendors /\ ~clash.vendorNames
        toVendorAttributes == toValues /\ ~clash.attributeValues
        toVendorValues == toVendorAttributes /\ ~clash.vendorAttributes
        toTypes == toVendorValues /\ ~clash.vendorAttributeValues
    IN  [attributes |-> Attr!AppendedTable(dict.attributes, added.attributes),
         vendorNames |->
            IF toVendors THEN Vend!AppendedTable(dict.vendorNames, added.vendorNames)
            ELSE dict.vendorNames,
         attributeValues |->
            IF toValues THEN Val!ScopedAppendedTable(dict.attributeValues,
                                                     added.attributeValues)
            ELSE dict.attributeValues,
         vendorAttributes |->
            IF toVendorAttributes
            THEN Attr!ScopedAppendedTable(dict.vendorAttributes, added.vendorAttributes)
            ELSE dict.vendorAttributes,
         vendorAttributeValues |->
            IF toVendorValues
            THEN Val!ScopedAppendedTable(dict.vendorAttributeValues,
                                         added.vendorAttributeValues)
            ELSE dict.vendorAttributeValues,
         types |->
            IF toTypes THEN InsertTypes(dict.types, added.types) ELSE dict.types,
         unresolved |->
            IF toTypes THEN MergedUnresolved(dict.unresolved, added.unresolved)
            ELSE dict.unresolved]

-----------------------------------------------------------------------------
(* resolve                                                                 *)
Unresolved(dict) == {u \in UnresolvedKeys : dict.unresolved[u] # NoType}
VendorKnown(dict, u) == dict.vendorNames.reverse[u[2]] # NoCode
KeyOf(dict, u) == <<u[1], dict.vendorNames.reverse[u[2]]>>

(* The types once the entries done have been emplaced, in any order since  *)
(* the map is unordered: of entries with one key the first one counts.     *)
TypesAfter(dict, done) ==
    LET keys == {KeyOf(dict, u) : u \in done}
        firsts == {f \in [keys -> done] : \A k \in keys : KeyOf(dict, f[k]) = k}
    IN  {InsertTypes(dict.types,
                     [k \in Keys |-> IF k \in keys THEN dict.unresolved[f[k]] ELSE NoType]) :
            f \in firsts}

(* The lookups: NoCode and NoName stand for std::out_of_range, NoType for  *)
(* an empty optional.                                                      *)
AttributeName(dict, code) ==
    IF code \in AttrCodes THEN dict.attributes.right[code] ELSE NoName
AttributeCode(dict, name) == dict.attributes.reverse[name]
VendorCode(dict, vendor) == dict.vendorNames.reverse[vendor]
VendorAttributeCode(dict, vendor, name) == dict.vendorAttributes.reverse[vendor][name]
GetAttributeType(dict, code, vendorId) ==
    IF <<ByteOf(code), vendorId>> \in Keys THEN dict.types[<<ByteOf(code), vendorId>>]
    ELSE NoType

=============================================================================
