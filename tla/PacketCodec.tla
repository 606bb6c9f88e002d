----------------------------- MODULE PacketCodec -----------------------------
(***************************************************************************)
(* Packet (src/src/packet.cpp): makeSendBuffer turns a packet into a       *)
(* datagram, the parsing constructor turns a datagram into a packet, one   *)
(* iteration of its loop being one step.  A requester sends one of its     *)
(* packets to a responder, which answers with a response built from the    *)
(* request it parsed; or the datagram comes from another implementation of *)
(* the protocol.                                                           *)
(***************************************************************************)
EXTENDS PacketFormat

CONSTANTS
    Requests,       \* packets that a requester builds
    Answers,        \* [type, attributes, vendors, recalc]: what responders answer
    Datagrams       \* datagrams of other implementations, and what they mean: see below

----------------------------------------------------------------------------
(* What users build.  Nothing in the library refuses attributes whose size
   does not fit the length bytes, or a user's own Vendor-Specific attribute. *)
WrittenSize(a) ==
    CASE a.class = "Encrypted" -> 16 * ((Len(a.value) + 15) \div 16)
      [] a.class = "Integer" -> 2 + Len(a.value)
      [] OTHER -> Len(a.value)

Fits(attributes, vendors) ==
    /\ attributes \in Seq(Attribute) /\ vendors \in Seq(Vendor)
    /\ \A i \in DOMAIN attributes :
          attributes[i].type # VENDOR_SPECIFIC /\ WrittenSize(attributes[i]) <= 253
    /\ \A i \in DOMAIN vendors : Len(vendors[i].value) <= 247
    /\ Len(Body([NoPacket EXCEPT !.attributes = attributes, !.vendors = vendors])) + 20 < 65536

(* A datagram of another implementation is [type, id, auth, items, padding,
   missing]: attributes, bytes behind them, and how many bytes of all of it
   were cut off.  An item [type, data, attributes, vendors] is an attribute
   and what its sender meant by it: one attribute or one vendor attribute, or
   nothing if its data has a size or a vendor that there is not. *)
Item == [type : Byte, data : Seq(Byte), attributes : Seq(Attribute), vendors : Seq(Vendor)]

ItemBytes(item) == <<item.type, 2 + Len(item.data)>> \o item.data
ItemPieces(d) == [i \in 1 .. Len(d.items) |-> ItemBytes(d.items[i])]
WholeBytes(d) == <<d.type, d.id>> \o LengthBytes(20 + Len(FlattenSeq(ItemPieces(d)))) \o d.auth
                    \o FlattenSeq(ItemPieces(d)) \o d.padding
ReceivedBytes(d) == SubSeq(WholeBytes(d), 1, Len(WholeBytes(d)) - d.missing)

(* A password hidden as RFC 2865 says: padded with zeros to whole blocks,
   each combined with the digest of the secret and the block before it. *)
Hides(data, password, auth) ==
    LET padded == password \o Zeros(Len(data) - Len(password))
        before(i) == IF i = 0 THEN auth ELSE SubSeq(data, 16 * i - 15, 16 * i)
    IN  /\ Len(data) % 16 = 0 /\ Len(data) <= 128 /\ Len(password) <= Len(data)
        /\ \A k \in DOMAIN password : password[k] # 0
        /\ \A k \in DOMAIN data :
              data[k] = BitXor(padded[k],
                               Digest(Secret \o before((k - 1) \div 16))[((k - 1) % 16) + 1])

(* The sizes of RFC 2865; numbers may be shorter or longer than four bytes. *)
RightSize(class, size) ==
    CASE class = "IpAddress" -> size = 4 [] class = "ChapPassword" -> size = 17
      [] class = "Integer" -> size \in {1, 2, 4, 8} [] class = "Encrypted" -> size <= 128
      [] OTHER -> TRUE

IsAttribute(item, auth) ==
    /\ item.type # VENDOR_SPECIFIC /\ item.vendors = <<>> /\ Len(item.attributes) = 1
    /\ LET a == item.attributes[1]
       IN  /\ a.type = item.type /\ a.class = ClassOf(item.type)
           /\ RightSize(a.class, Len(item.data))
           /\ IF a.class = "Encrypted" THEN Hides(item.data, a.value, auth)
              ELSE item.data = a.value

IsVendor(item) ==
    /\ item.type = VENDOR_SPECIFIC /\ item.attributes = <<>> /\ Len(item.vendors) = 1
    /\ LET v == item.vendors[1]
       IN  /\ v.id < 2^24
           /\ item.data = <<0, v.id \div 2^16, (v.id \div 2^8) % 256, v.id % 256,
                            v.type, 2 + Len(v.value)>> \o v.value

IsNothing(item) ==
    /\ item.attributes = <<>> /\ item.vendors = <<>>
    /\ \/ item.type # VENDOR_SPECIFIC /\ ~RightSize(ClassOf(item.type), Len(item.data))
       \/ item.type = VENDOR_SPECIFIC /\ item.data[1] # 0

(* Left out are datagrams the loop cannot walk through attribute by attribute:
   a length byte below 2 or beyond the length in the header, or a header that
   announces fewer than 20 bytes, for which the loop is not entered at all. *)
IsDatagram(d) ==
    /\ d.type \in Byte /\ d.id \in Byte /\ d.auth \in [1 .. 16 -> Byte]
    /\ d.items \in Seq(Item) /\ d.padding \in Seq(Byte) /\ d.missing \in Nat
    /\ \A i \in DOMAIN d.items :
          LET item == d.items[i]
          IN  /\ Len(item.data) <= 253
              /\ item.type = VENDOR_SPECIFIC =>
                    Len(item.data) >= 6 /\ item.data[6] \in 2 .. Len(item.data) - 4
              /\ IsAttribute(item, d.auth) \/ IsVendor(item) \/ IsNothing(item)
    /\ Len(FlattenSeq(ItemPieces(d))) + 20 < 65536

ASSUME PacketCodecAssumption ==
    /\ \A p \in Requests : p \in Packet /\ Fits(p.attributes, p.vendors)
    /\ \A a \in Answers :
          a.type \in Byte /\ a.recalc \in BOOLEAN /\ Fits(a.attributes, a.vendors)
    /\ \A d \in Datagrams : IsDatagram(d)

----------------------------------------------------------------------------

VARIABLES
    phase,          \* idle, or what the parsing constructor is doing or did
    origin,         \* who made the datagram: requester, responder or foreign
    sent,           \* the packet or the foreign datagram it was made from
    buffer,         \* the datagram
    requestAuth,    \* the authenticator in the last request's datagram
    index,          \* attributeIndex
    parsed,         \* the packet under construction
    fault           \* the exception the constructor threw, or none

vars == <<phase, origin, sent, buffer, requestAuth, index, parsed, fault>>

Length == buffer[3] * 256 + buffer[4]

----------------------------------------------------------------------------
Init ==
    /\ phase = "idle" /\ origin = "none" /\ sent = NoPacket /\ buffer = <<>>
    /\ requestAuth = Zeros(16) /\ index = 0 /\ parsed = NoPacket /\ fault = "none"

(* bytes reach a parsing constructor. *)
Deliver(from, what, bytes) ==
    /\ phase' = "header" /\ origin' = from /\ sent' = what /\ buffer' = bytes
    /\ index' = 0 /\ parsed' = NoPacket /\ fault' = "none"

(* A requester sends a packet. *)
Request ==
    /\ phase = "idle"
    /\ \E p \in Requests : Deliver("requester", p, MakeSendBuffer(p))
    /\ requestAuth' = Authenticator(buffer')

(* The responder answers the request it parsed. *)
Respond ==
    /\ phase = "accepted" /\ origin = "requester"
    /\ \E a \in Answers :
          LET p == ResponsePacket(a.type, parsed.id, parsed.auth,
                                  a.attributes, a.vendors, a.recalc)
          IN  Deliver("responder", p, MakeSendBuffer(p))
    /\ UNCHANGED requestAuth

(* A datagram of another implementation comes in. *)
ReceiveForeign ==
    /\ phase = "idle"
    /\ \E d \in Datagrams : Deliver("foreign", d, ReceivedBytes(d))
    /\ UNCHANGED requestAuth

(* The packet is destroyed, nobody answers any more. *)
Discard ==
    /\ phase \in {"accepted", "rejected"}
    /\ phase' = "idle" /\ origin' = "none" /\ sent' = NoPacket /\ buffer' = <<>>
    /\ requestAuth' = Zeros(16) /\ index' = 0 /\ parsed' = NoPacket /\ fault' = "none"

----------------------------------------------------------------------------
(* The parsing constructor leaves by an exception: there is no packet. *)
Throw(why) ==
    /\ phase' = "rejected" /\ fault' = why /\ parsed' = NoPacket /\ index' = 0
    /\ UNCHANGED <<origin, sent, buffer, requestAuth>>

Continue(at) ==
    /\ phase' = "attributes" /\ index' = at
    /\ UNCHANGED <<origin, sent, buffer, requestAuth, fault>>

ParseHeader ==
    /\ phase = "header"
    /\ \/ Len(buffer) < 20 /\ Throw("numberOfBytesIsLessThan20")
       \/ Len(buffer) >= 20 /\ Len(buffer) < Length /\ Throw("requestLengthIsShort")
       \/ /\ Len(buffer) >= 20 /\ Len(buffer) >= Length
          /\ parsed' = [NoPacket EXCEPT !.type = buffer[1], !.id = buffer[2],
                                       !.auth = Authenticator(buffer)]
          /\ Continue(20)

(* The attribute the loop is at. *)
MoreAttributes == phase = "attributes" /\ index < Length
Type == buffer[index + 1]
AttributeLength == buffer[index + 2]

ParseVendor ==
    /\ MoreAttributes /\ Type = VENDOR_SPECIFIC
    /\ LET data == SubSeq(buffer, index + 3, Len(buffer))
       IN  \/ VendorFault(data) # "none" /\ Throw(VendorFault(data))
           \/ /\ VendorFault(data) = "none"
              /\ parsed' = [parsed EXCEPT !.vendors = Append(@, MakeVendor(data))]
              /\ Continue(index + AttributeLength)

ParseAttribute ==
    /\ MoreAttributes /\ Type # VENDOR_SPECIFIC
    /\ LET data == SubSeq(buffer, index + 3, index + AttributeLength)
           refusal == SizeFault(ClassOf(Type), Len(data))
       IN  \/ refusal # "none" /\ Throw(refusal)
           \/ /\ refusal = "none"
              /\ parsed' = [parsed EXCEPT !.attributes =
                              Append(@, MakeAttribute(Type, data, parsed.auth))]
              /\ Continue(index + AttributeLength)

FinishParsing ==
    /\ phase = "attributes" /\ index >= Length
    /\ \/ EapUnauthenticated(parsed.attributes) /\ Throw("eapMessageAttributeError")
       \/ /\ ~EapUnauthenticated(parsed.attributes)
          /\ phase' = "accepted"
          /\ UNCHANGED <<origin, sent, buffer, requestAuth, index, parsed, fault>>

Next ==
    \/ Request \/ Respond \/ ReceiveForeign \/ Discard
    \/ ParseHeader \/ ParseVendor \/ ParseAttribute \/ FinishParsing

Spec == Init /\ [][Next]_vars

----------------------------------------------------------------------------
(* Properties *)

(* Types: a packet holds objects that its classes can hold, which is what the
   size checks of the parsing constructors are for. *)
TypeOK ==
    /\ phase \in {"idle", "header", "attributes", "accepted", "rejected"}
    /\ origin \in {"none", "requester", "responder", "foreign"}
    /\ buffer \in Seq(Byte)
    /\ requestAuth \in [1 .. 16 -> Byte]
    /\ index \in Nat
    /\ parsed \in Packet
    /\ \A i \in DOMAIN parsed.attributes : WellSized(parsed.attributes[i])
    /\ (fault = "none") = (phase # "rejected")

Finished == phase \in {"accepted", "rejected"}
Own == origin \in {"requester", "responder"}

(* The value of an attribute whatever the width of its IntType. *)
Number(value) ==
    LET digit == SelectInSeq(value, LAMBDA b : b # 0)
    IN  IF digit = 0 THEN <<>> ELSE SubSeq(value, digit, Len(value))

Meaning(a) == IF a.class = "Integer" THEN [a EXCEPT !.value = Number(@)] ELSE a

SameContent(p, q) ==
    /\ [i \in DOMAIN p.attributes |-> Meaning(p.attributes[i])]
         = [i \in DOMAIN q.attributes |-> Meaning(q.attributes[i])]
    /\ p.vendors = q.vendors

(* What the sender of a datagram meant, and whether it is a valid one. *)
Meant(d) ==
    [attributes |-> FlattenSeq([i \in 1 .. Len(d.items) |-> d.items[i].attributes]),
     vendors |-> FlattenSeq([i \in 1 .. Len(d.items) |-> d.items[i].vendors])]

Valid(d) ==
    LET types == {Meant(d).attributes[i].type : i \in DOMAIN Meant(d).attributes}
    IN  /\ d.missing <= Len(d.padding)
        /\ \A i \in DOMAIN d.items : d.items[i].attributes \o d.items[i].vendors # <<>>
        /\ 79 \in types => 80 \in types

(* The parser never steps over the end of the datagram it was given: the
   length bytes of attributes and vendor attributes add up to the length in
   the header (packet.cpp:79-100 against attribute.h:171 and makeSendBuffer). *)
ParserInside == phase \in {"attributes", "accepted"} => 20 <= index /\ index <= Length

(* What the library reads as it writes it: not Integer and Encrypted, whose
   data is written in the wrong place, as the runs integer_roundtrip and
   password_roundtrip show. *)
Readable(attributes, vendors) ==
    /\ \A i \in DOMAIN attributes :
          LET a == attributes[i]
          IN  /\ a.class = ClassOf(a.type) /\ a.class \notin {"Integer", "Encrypted"}
              /\ RightSize(a.class, Len(a.value))
    /\ \A i \in DOMAIN vendors : vendors[i].id < 2^24
    /\ ~EapUnauthenticated(attributes)

(* What a user of the library sends, another one receives: the same type, id,
   attributes and vendor attributes in the same order, whatever their number
   and sizes (makeSendBuffer against the parsing constructors). *)
RoundTrip ==
    Finished /\ Own =>
        /\ phase = "accepted"
        /\ parsed.type = sent.type /\ parsed.id = sent.id
        /\ SameContent(parsed, sent)

(* The attributes of a foreign datagram that are vendor attributes, or those
   that are not, as they stand on the wire. *)
OnWire(d, vendor) ==
    FlattenSeq([i \in 1 .. Len(d.items) |->
                   IF (d.items[i].type = VENDOR_SPECIFIC) = vendor
                   THEN ItemBytes(d.items[i]) ELSE <<>>])

(* The same datagram with its vendor attributes behind the others, where a
   packet keeps them, and without padding. *)
Regrouped(d) ==
    LET body == OnWire(d, FALSE) \o OnWire(d, TRUE)
    IN  <<d.type, d.id>> \o LengthBytes(20 + Len(body)) \o d.auth \o body

(* Attributes whose data is their value. *)
Verbatim(attributes) ==
    \A i \in DOMAIN attributes : attributes[i].class \notin {"Integer", "Encrypted"}

(* A packet that was received, whoever made it, and is sent on carries what it
   came with: each attribute byte by byte, in the order of its kind, and the
   authenticator, which is copied and not computed again (makeSendBuffer
   against the parsing constructor).  A datagram of the library, which has its
   vendor attributes last, is reproduced as a whole.  This is what
   tests/packet_tests.cpp:107-113 and 189-195 expect of all packets.  It is
   false of packets that hold an Integer or an Encrypted: those write other
   bytes than they read, as the runs integer_roundtrip and password_roundtrip
   show, and the packets of those two tests hold an Integer. *)
Reencodes ==
    phase = "accepted" /\ Verbatim(parsed.attributes)
        => MakeSendBuffer(parsed) = IF Own THEN buffer ELSE Regrouped(sent)

(* The authenticator of an Access-Accept proves to the requester that the
   responder has seen the request: it is the digest of the response as it is
   on the wire, with the authenticator of the request's datagram in its place
   (packet.cpp:139, 190-207).  So is that of other answers built with recalc;
   requests with recalc carry the digest over what their constructor put
   there, zeros or the user's authenticator. *)
Signed ==
    LET proof(auth) == Digest(SubSeq(buffer, 1, 4) \o auth
                              \o SubSeq(buffer, 21, Length) \o Secret)
    IN  phase = "accepted" =>
          /\ origin = "responder" /\ (parsed.type = 2 \/ sent.recalc)
                => parsed.auth = proof(requestAuth)
          /\ origin = "requester" /\ sent.recalc => parsed.auth = proof(sent.auth)

(* Valid datagrams of other implementations are accepted and understood:
   numbers of four bytes, an EAP-Message before or after its
   Message-Authenticator, padding behind the length; every attribute and
   vendor attribute has the value its sender meant, passwords of several
   blocks included. *)
Understood ==
    Finished /\ origin = "foreign" /\ Valid(sent)
        => phase = "accepted" /\ SameContent(parsed, Meant(sent))

(* Datagrams that are cut off, hold values of the wrong size or an
   EAP-Message without Message-Authenticator are refused. *)
InvalidRefused == phase = "accepted" /\ origin = "foreign" => Valid(sent)

=============================================================================
