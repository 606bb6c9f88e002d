---------------------------- MODULE PacketFormat ----------------------------
(***************************************************************************)
(* The Packet class (src/src/packet.cpp) as constant operators: what the   *)
(* building constructors make, the datagram makeSendBuffer makes of a      *)
(* packet, and the last check of the parsing constructor.                  *)
(***************************************************************************)
EXTENDS Attributes

Packet == [type : Byte, id : Byte, recalc : BOOLEAN, auth : [1 .. 16 -> Byte],
           attributes : Seq(Attribute), vendors : Seq(Vendor)]

EAP_MESSAGE == 79
MESSAGE_AUTHENTICATOR == 80

(* Fault: a parsed packet gets a new authenticator when it is sent on. *)
NoPacket_Recalc == [type |-> 0, id |-> 0, recalc |-> TRUE, auth |-> Zeros(16),
                    attributes |-> <<>>, vendors |-> <<>>]

(* What the parsing constructor starts from. *)
NoPacket == [type |-> 0, id |-> 0, recalc |-> FALSE, auth |-> Zeros(16),
             attributes |-> <<>>, vendors |-> <<>>]

----------------------------------------------------------------------------
(* The constructor for requests and the one for responses. *)
RequestPacket(type, id, attributes, vendors) ==
    [type |-> type, id |-> id, recalc |-> TRUE, auth |-> Zeros(16),
     attributes |-> attributes, vendors |-> vendors]

ResponsePacket(type, id, auth, attributes, vendors, recalc) ==
    [type |-> type, id |-> id, recalc |-> type = 2 \/ recalc, auth |-> auth,
     attributes |-> attributes, vendors |-> vendors]

----------------------------------------------------------------------------
(* makeSendBuffer *)
Pieces(p) == [i \in 1 .. Len(p.attributes) |-> ToVector(p.attributes[i], p.auth)]
                \o [i \in 1 .. Len(p.vendors) |-> VendorToVector(p.vendors[i])]
Body(p) == FlattenSeq(Pieces(p))

LengthBytes(n) == <<(n \div 256) % 256, n % 256>>

Framed(p, length) == <<p.type, p.id>> \o LengthBytes(length) \o p.auth \o Body(p)

(* Fault: the digest is taken before the length is filled in. *)
MakeSendBuffer_EarlyDigest(p) ==
    LET plain == Framed(p, 20 + Len(Body(p)))
    IN  IF p.recalc
        THEN SubSeq(plain, 1, 4) \o Digest(Framed(p, 0) \o Secret)
                \o SubSeq(plain, 21, Len(plain))
        ELSE plain

(* The datagram: with recalc, the digest of the finished datagram and the
   secret takes the place of the authenticator. *)
MakeSendBuffer(p) ==
    LET plain == Framed(p, 20 + Len(Body(p)))
    IN  IF p.recalc
        THEN SubSeq(plain, 1, 4) \o Digest(plain \o Secret) \o SubSeq(plain, 21, Len(plain))
        ELSE plain

Authenticator(bytes) == SubSeq(bytes, 5, 20)

----------------------------------------------------------------------------
(* Fault: nothing is asked of an EAP-Message. *)
EapUnauthenticated_Never(attributes) == FALSE

EapUnauthenticated(attributes) ==
    LET types == {attributes[i].type : i \in DOMAIN attributes}
    IN  EAP_MESSAGE \in types /\ MESSAGE_AUTHENTICATOR \notin types

=============================================================================
