---------------------------- MODULE PacketReader ----------------------------
(***************************************************************************)
(* PacketReader and TypeDecoder (src/src/packet_reader.cpp,                *)
(* type_decoder.cpp) as constant operators: the attributes of a packet,    *)
(* looked up through a dictionary and decoded as the type it gives.        *)
(*                                                                         *)
(* A decoded attribute is [class, value, signed]: an object of String,     *)
(* IpAddress, Bytes or Integer, whose value has as many bytes as the       *)
(* IntType.  Numbers are their big-endian bytes.                           *)
(***************************************************************************)
EXTENDS Dictionaries, PacketFormat

(* What a lookup ends with: an attribute, a null pointer, or an exception. *)
Found(a) == [result |-> "found", attribute |-> a]
Absent == [result |-> "absent"]
Refused == [result |-> "Exception"]             \* radius_lite::Exception
OutOfRange == [result |-> "out_of_range"]       \* std::out_of_range

Throws(lookup) == lookup.result \in {"Exception", "out_of_range"}

----------------------------------------------------------------------------
(* TypeDecoder                                                             *)
IntTypes == {"byte", "uint16", "integer", "uint32", "uint64"}
Width(type) == CASE type = "byte" -> 1 [] type = "uint16" -> 2
                 [] type = "uint64" -> 8 [] OTHER -> 4

Decoded(class, value, signed) ==
    Found([class |-> class, value |-> value, signed |-> signed])

(* A type without a decoder of its own is read as octets. *)
Decode(type, data) ==
    CASE type \in IntTypes ->
            IF Len(data) > Width(type) \/ IntegerFault(Len(data)) # "none" THEN Refused
            ELSE Decoded("Integer", Zeros(Width(type) - Len(data)) \o data, type = "integer")
      [] type = "ipaddr" ->
            IF AddressFault(Len(data)) # "none" THEN Refused
            ELSE Decoded("IpAddress", data, FALSE)
      [] type = "string" -> Decoded("String", data, FALSE)
      [] OTHER -> Decoded("Bytes", data, FALSE)

(* The conversions of attribute.h; <<>> is an empty optional.  "integer" is *)
(* an int32_t, whose sign fills the upper half of the uint64_t; an address *)
(* is read with its first byte as the lowest.                              *)
AsOctets(a) == a.value

AsUint(a) ==
    CASE a.class = "Integer" ->
            [i \in 1 .. 8 - Len(a.value) |-> IF a.signed /\ a.value[1] >= 128 THEN 255 ELSE 0]
                \o a.value
      [] a.class = "IpAddress" -> Zeros(4) \o Reverse(a.value)
      [] OTHER -> <<>>

AsString(a) ==
    CASE a.class = "String" -> <<"characters", a.value>>
      [] a.class \in {"Integer", "IpAddress"} -> <<"decimal", a.value>>
      [] OTHER -> <<>>

----------------------------------------------------------------------------
(* get_attribute_by_name without a vendor.  The name of every attribute up *)
(* to the one that is found is asked for, and asking for the name of a     *)
(* code the dictionary does not list throws.  Attributes without a type    *)
(* are passed over.                                                        *)
GetByName(dict, packet, name) ==
    LET typed(a) == GetAttributeType(dict, a.type, 0)
        listed(a) == AttributeName(dict, a.type) # NoName
        hit(a) == AttributeName(dict, a.type) = name /\ typed(a) # NoType
        at == SelectInSeq(packet.attributes, LAMBDA a : ~listed(a) \/ hit(a))
    IN  IF at = 0 THEN Absent
        ELSE LET a == packet.attributes[at]
             IN  IF listed(a) THEN Decode(typed(a), Data(a, packet.auth)) ELSE OutOfRange

(* Fault: the type of the attribute is compared, the vendor is not. *)
SameVendorAttribute_AnyVendor(v, id, code) == v.type = code

SameVendorAttribute(v, id, code) == v.id = id /\ v.type = code

(* The loop of get_attribute_by_name over the vendor attributes: the first  *)
(* of a number and a code, if the dictionary knows their type.             *)
GetVendorAttribute(dict, packet, id, code) ==
    LET type == GetAttributeType(dict, code, id)
        at == SelectInSeq(packet.vendors, LAMBDA v : SameVendorAttribute(v, id, code))
    IN  IF at = 0 \/ type = NoType THEN Absent
        ELSE Decode(type, packet.vendors[at].value)

(* get_attribute_by_name: vendor and name are looked up first, and throw.  *)
GetAttributeByName(dict, packet, name, vendor) ==
    CASE vendor = NoVendor -> GetByName(dict, packet, name)
      [] vendor # NoVendor /\ NoCode \in {VendorCode(dict, vendor),
                                          VendorAttributeCode(dict, vendor, name)} -> OutOfRange
      [] OTHER -> GetVendorAttribute(dict, packet, VendorCode(dict, vendor),
                                     VendorAttributeCode(dict, vendor, name))

(* Fault: get_attribute_type is called without the vendor. *)
GetAttribute_PlainType(dict, packet, key) ==
    LET type == GetAttributeType(dict, key[1], 0)
        ofVendor == SelectInSeq(packet.vendors, LAMBDA v : v.id = key[2] /\ v.type = key[1])
        plain == SelectInSeq(packet.attributes, LAMBDA a : a.type = key[1])
    IN  CASE key[2] # 0 /\ ofVendor # 0 /\ type # NoType ->
                Decode(type, packet.vendors[ofVendor].value)
          [] key[2] = 0 /\ plain # 0 /\ type # NoType ->
                Decode(type, Data(packet.attributes[plain], packet.auth))
          [] OTHER -> Absent

(* get_attribute, by a key <<byte, vendor id>>, in loops of its own over the *)
(* vendor attributes and, for the vendor id 0, over the plain ones.        *)
GetAttribute(dict, packet, key) ==
    LET type == GetAttributeType(dict, key[1], key[2])
        ofVendor == SelectInSeq(packet.vendors, LAMBDA v : v.id = key[2] /\ v.type = key[1])
        plain == SelectInSeq(packet.attributes, LAMBDA a : a.type = key[1])
    IN  CASE key[2] # 0 /\ ofVendor # 0 /\ type # NoType ->
                Decode(type, packet.vendors[ofVendor].value)
          [] key[2] = 0 /\ plain # 0 /\ type # NoType ->
                Decode(type, Data(packet.attributes[plain], packet.auth))
          [] OTHER -> Absent

(* Dictionaries::get_attribute_key, NoCode if there is none. *)
GetAttributeKey(dict, name, vendor) ==
    IF vendor = NoVendor \/ NoCode \in {VendorCode(dict, vendor),
                                        VendorAttributeCode(dict, vendor, name)}
    THEN NoCode
    ELSE <<ByteOf(VendorAttributeCode(dict, vendor, name)), VendorCode(dict, vendor)>>

=============================================================================
