----------------------------- MODULE Attributes -----------------------------
(***************************************************************************)
(* The attribute classes of src/include/radius_lite/attribute.h and        *)
(* vendor_attribute.h as constant operators: what each object writes into  *)
(* a datagram and what it is built from when a datagram is parsed.         *)
(*                                                                         *)
(* An attribute is a record [class, type, value] whose value is the bytes  *)
(* of the object's m_value: the characters of a String or a password, the  *)
(* big-endian bytes of an Integer (as many as its IntType has), the chap   *)
(* id followed by the chap value.  MD5 and the exclusive or of two bytes   *)
(* come from outside the library, as the constants Digest and BitXor.         *)
(***************************************************************************)
EXTENDS Naturals, Sequences, SequencesExt

CONSTANTS
    Secret,         \* the shared secret, a sequence of bytes
    Digest(_),      \* MD5: the 16 bytes for a sequence of bytes
    BitXor(_, _)       \* ^ on two bytes

Byte == 0 .. 255

ASSUME AttributesAssumption ==
    /\ Secret \in Seq(Byte)
    /\ \A a, b \in Byte : BitXor(a, b) \in Byte /\ BitXor(BitXor(a, b), b) = a

Zeros(n) == [i \in 1 .. n |-> 0]

----------------------------------------------------------------------------
(* Which class makeAttribute instantiates for a type. *)
StringTypes == {1, 11, 18, 22, 34, 35, 60, 63}
AddressTypes == {4, 8, 9, 14}
IntegerTypes == {5, 6, 7, 10, 12, 13, 15, 16, 27, 28, 29, 37, 38, 61, 62}

ClassOf(type) ==
    CASE type \in StringTypes -> "String"
      [] type = 2 -> "Encrypted"
      [] type = 3 -> "ChapPassword"
      [] type \in AddressTypes -> "IpAddress"
      [] type \in IntegerTypes -> "Integer"
      [] OTHER -> "Bytes"

Attribute == [class : {"String", "Encrypted", "ChapPassword", "IpAddress", "Integer", "Bytes"},
              type : Byte, value : Seq(Byte)]

(* What the sizes of an object's members allow. *)
WellSized(a) ==
    CASE a.class = "IpAddress" -> Len(a.value) = 4
      [] a.class = "Integer" -> Len(a.value) \in {4, 8}
      [] a.class = "ChapPassword" -> Len(a.value) > 0
      [] OTHER -> TRUE

----------------------------------------------------------------------------
(* User passwords.  The stream is cut into blocks of 16 bytes, each combined
   with the digest of the secret and the block before it. *)
Block(bytes, i) == SubSeq(bytes, 16 * (i - 1) + 1, 16 * i)

(* Fault: every block is keyed with the authenticator. *)
KeyBlock_NoChain(cipher, auth, i) == auth

(* What follows the secret in mdBuffer when block i is reached. *)
KeyBlock(cipher, auth, i) == IF i = 1 THEN auth ELSE Block(cipher, i - 1)

Mask(cipher, auth, i) == Digest(Secret \o KeyBlock(cipher, auth, i))

(* Encrypted::data: the output iterator starts one past the first byte, so
   that all of the cipher text is shifted by one, the chain included, and its
   last byte falls behind the vector. *)
Encryption(password, auth) ==
    LET text == password \o Zeros((16 - (Len(password) % 16)) % 16)
        blocks == Len(text) \div 16
        written[i \in 0 .. blocks] ==
            IF i = 0 THEN <<0>>
            ELSE LET before == written[i - 1]
                     mask == Mask(before, auth, i)
                 IN  before \o [j \in 1 .. 16 |-> BitXor(Block(text, i)[j], mask[j])]
    IN  SubSeq(written[blocks], 1, Len(text))

(* Encrypted's parsing constructor: bytes behind the last whole block stay
   zero, and the password ends before the first zero. *)
Decryption(data, auth) ==
    LET blocks == Len(data) \div 16
        mask == [i \in 1 .. blocks |-> Mask(data, auth, i)]
        text == [k \in 1 .. Len(data) |->
                    IF k > 16 * blocks THEN 0
                    ELSE BitXor(data[k], mask[((k - 1) \div 16) + 1][((k - 1) % 16) + 1])]
        nul == SelectInSeq(text, LAMBDA b : b = 0)
    IN  IF nul = 0 THEN text ELSE SubSeq(text, 1, nul - 1)

----------------------------------------------------------------------------
(* Why the constructor of a class refuses data of this size, or "none".  The
   ChapPassword allocates size - 1 bytes before it looks at the size. *)
AddressFault(size) == IF size = 4 THEN "none" ELSE "invalidAttributeSize"

PasswordFault(size) == IF size <= 128 THEN "none" ELSE "invalidAttributeSize"

ChapFault(size) ==
    CASE size = 0 -> "length_error" [] size = 17 -> "none" [] OTHER -> "invalidAttributeSize"

IntegerFault(size) == IF size \in {1, 2, 4, 8} THEN "none" ELSE "invalidAttributeSize"

(* Fault: the size of the data is not looked at. *)
SizeFault_None(class, size) == "none"

SizeFault(class, size) ==
    CASE class = "IpAddress" -> AddressFault(size)
      [] class = "Encrypted" -> PasswordFault(size)
      [] class = "ChapPassword" -> ChapFault(size)
      [] class = "Integer" -> IntegerFault(size)
      [] OTHER -> "none"

(* The object makeAttribute returns for data that its class accepts. *)
MakeAttribute(type, data, auth) ==
    [class |-> ClassOf(type), type |-> type,
     value |-> CASE ClassOf(type) = "Encrypted" -> Decryption(data, auth)
                 [] ClassOf(type) = "Integer" -> Zeros(8 - Len(data)) \o data
                 [] OTHER -> data]

(* data() of an Integer already has the header that toVector adds. *)
IntegerData(a) == <<a.type, 2 + Len(a.value)>> \o a.value

(* data() of a String, IpAddress, Bytes or ChapPassword is the value, the
   identifier of a ChapPassword being its first byte (attribute.cpp:26, 74,
   205 and 253); that of the two other classes is their own. *)
Data(a, auth) ==
    CASE a.class = "Encrypted" -> Encryption(a.value, auth)
      [] a.class = "Integer" -> IntegerData(a)
      [] OTHER -> a.value

ToVector(a, auth) ==
    LET data == Data(a, auth) IN <<a.type, (2 + Len(data)) % 256>> \o data

----------------------------------------------------------------------------
(* VendorSpecific, a record [id, type, value]. *)
VENDOR_SPECIFIC == 26

Vendor == [id : Nat, type : Byte, value : Seq(Byte)]

BigEndian(n) == <<(n \div 2^24) % 256, (n \div 2^16) % 256, (n \div 2^8) % 256, n % 256>>

(* Fault: the outer header is counted one byte too long. *)
VendorToVector_LongHeader(v) ==
    <<VENDOR_SPECIFIC, (Len(v.value) + 9) % 256>> \o BigEndian(v.id)
        \o <<v.type, (Len(v.value) + 2) % 256>> \o v.value

(* Fault: the inner length is that of the value. *)
VendorToVector_ValueLength(v) ==
    <<VENDOR_SPECIFIC, (Len(v.value) + 8) % 256>> \o BigEndian(v.id)
        \o <<v.type, Len(v.value) % 256>> \o v.value

VendorToVector(v) ==
    <<VENDOR_SPECIFIC, (Len(v.value) + 8) % 256>> \o BigEndian(v.id)
        \o <<v.type, (Len(v.value) + 2) % 256>> \o v.value

(* The constructor gets no length: the value is as long as the inner length
   byte says.  It refuses vendors whose first byte is not zero. *)
VendorFault(data) == IF data[1] # 0 THEN "invalidVendorSpecificAttributeId" ELSE "none"

VendorLength(data) == data[6] - 2

MakeVendor(data) ==
    [id |-> data[2] * 2^16 + data[3] * 2^8 + data[4],
     type |-> data[5],
     value |-> SubSeq(data, 7, 6 + VendorLength(data))]

=============================================================================
