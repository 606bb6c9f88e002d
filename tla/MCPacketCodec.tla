---------------------------- MODULE MCPacketCodec ----------------------------
(* Menus of packets and datagrams, and stand-ins for MD5 and ^.            *)
EXTENDS PacketCodec, Bitwise

MCSecret == <<115, 101, 99>>
MCBitXor(a, b) == a ^^ b

(* Not MD5, but 16 bytes that depend on the place and value of each byte.
   Two levels keep the recursion shallow for datagrams of 500 bytes. *)
Mix(n, b) == (n * 31 + b + 1) % 65521
MCDigest(bytes) ==
    LET part(i) == LET sum[j \in 0 .. 16] ==
                           IF j = 0 THEN 7
                           ELSE LET k == 16 * (i - 1) + j
                                IN  IF k > Len(bytes) THEN sum[j - 1] ELSE Mix(sum[j - 1], bytes[k])
                   IN  sum[16]
        total[i \in 0 .. (Len(bytes) \div 16) + 1] ==
            IF i = 0 THEN 7 ELSE Mix(total[i - 1], part(i))
        hash == total[(Len(bytes) \div 16) + 1]
    IN  [k \in 1 .. 16 |-> ((hash * (2 * k + 1)) \div (k + 3) + k) % 256]

Auth == [i \in 1 .. 16 |-> (37 * i) % 256]
Text(n) == [i \in 1 .. n |-> 48 + (i % 10)]
Upto(S, n) == UNION {[1 .. k -> S] : k \in 0 .. n}
Attr(class, type, value) == [class |-> class, type |-> type, value |-> value]

----------------------------------------------------------------------------
(* What users of the library build.  Sizes reach the largest value that an
   attribute (253) and a vendor attribute (247) can carry, and two such
   attributes need the high byte of the length. *)
PlainAttributes ==
    {Attr("String", 1, Text(4)), Attr("String", 18, <<>>), Attr("String", 11, Text(253)),
     Attr("IpAddress", 4, <<127, 0, 0, 1>>), Attr("Bytes", 25, <<0, 255>>),
     Attr("Bytes", 79, <<2>>), Attr("Bytes", 80, Auth),
     Attr("ChapPassword", 3, <<1>> \o Text(16))}

(* Users put a Message-Authenticator next to an EAP-Message. *)
PlainSequences == {s \in Upto(PlainAttributes, 2) : ~EapUnauthenticated(s)}

VendorSequences ==
    LET dlink == [id |-> 171, type |-> 1, value |-> <<0, 0, 0, 3>>]
        gpp == [id |-> 10415, type |-> 255, value |-> Text(247)]
        none == [id |-> 2^24 - 1, type |-> 0, value |-> <<>>]
    IN  {<<>>, <<dlink>>, <<none, dlink>>, <<gpp>>}

MCRequests ==
    {RequestPacket(4, 7, a, v) : a \in PlainSequences, v \in VendorSequences}
      \cup {ResponsePacket(1, 208, Auth, a, v, FALSE) : a \in PlainSequences, v \in {<<>>}}
      \cup {ResponsePacket(40, 5, Auth, <<>>, <<>>, TRUE)}

Answer(type, attributes, vendors, recalc) ==
    [type |-> type, attributes |-> attributes, vendors |-> vendors, recalc |-> recalc]

MCAnswers ==
    {Answer(2, <<Attr("String", 18, Text(5))>>, <<>>, FALSE),
     Answer(2, <<Attr("ChapPassword", 3, <<1>> \o Text(16)), Attr("IpAddress", 8, <<10, 0, 0, 1>>)>>,
            <<[id |-> 171, type |-> 1, value |-> <<0, 0, 0, 3>>]>>, TRUE),
     Answer(3, <<>>, <<>>, FALSE),
     Answer(5, <<>>, <<>>, TRUE)}

(* The menus of the passing run hold what the library can send to itself. *)
ASSUME MenuAssumption ==
    /\ \A p \in MCRequests : Readable(p.attributes, p.vendors)
    /\ \A a \in MCAnswers : Readable(a.attributes, a.vendors)

IntegerRequests ==
    {RequestPacket(4, 7, <<Attr("Integer", 5, v)>>, <<>>) :
        v \in {<<0, 0, 0, 20>>, <<0, 0, 0, 0, 0, 0, 0, 20>>}}

PasswordRequests ==
    {ResponsePacket(1, 208, Auth, <<Attr("Encrypted", 2, Text(n))>>, <<>>, FALSE) : n \in {6, 16}}

Nothing == {}

----------------------------------------------------------------------------
(* Datagrams of other implementations: the encoding of RFC 2865.  A password
   is hidden block by block, each with the digest of the secret and the
   cipher text of the block before it. *)
HiddenPassword(password) ==
    LET text == password \o Zeros((16 - (Len(password) % 16)) % 16)
        hidden[i \in 0 .. Len(text) \div 16] ==
            IF i = 0 THEN <<>>
            ELSE LET before == hidden[i - 1]
                     last == IF i = 1 THEN Auth ELSE Block(before, i - 1)
                     mask == MCDigest(MCSecret \o last)
                 IN  before \o [j \in 1 .. 16 |-> Block(text, i)[j] ^^ mask[j]]
    IN  hidden[Len(text) \div 16]

Octets(a) == IF a.class = "Encrypted" THEN HiddenPassword(a.value) ELSE a.value

AttributeItem(a) == [type |-> a.type, data |-> Octets(a), attributes |-> <<a>>, vendors |-> <<>>]
VendorItem(v) ==
    [type |-> 26, attributes |-> <<>>, vendors |-> <<v>>,
     data |-> <<0, 0, v.id \div 256, v.id % 256, v.type, 2 + Len(v.value)>> \o v.value]
InvalidItem(type, data) ==
    [type |-> type, data |-> data, attributes |-> <<>>, vendors |-> <<>>]

ValidItems ==
    {AttributeItem(a) : a \in
        {Attr("String", 1, Text(4)), Attr("IpAddress", 4, <<127, 0, 0, 1>>),
         Attr("Integer", 5, <<0, 0, 1, 20>>), Attr("Bytes", 80, Auth), Attr("Bytes", 79, <<2>>),
         Attr("Encrypted", 2, Text(6)), Attr("Encrypted", 2, Text(16)),
         Attr("Encrypted", 2, Text(40))}}
      \cup {VendorItem([id |-> 10415, type |-> 1, value |-> Text(15)])}

InvalidItems ==
    {InvalidItem(4, Text(3)), InvalidItem(8, Text(5)), InvalidItem(5, Text(3)),
     InvalidItem(6, Text(10)), InvalidItem(3, Text(16)), InvalidItem(3, <<>>),
     InvalidItem(2, Text(144)), InvalidItem(26, <<1, 0, 0, 171, 1, 2>>)}

Datagram(items, padding, missing) ==
    [type |-> 1, id |-> 9, auth |-> Auth, items |-> items, padding |-> padding,
     missing |-> missing]

MCDatagrams ==
    {Datagram(items, padding, 0) : items \in Upto(ValidItems, 2), padding \in {<<>>, Text(3)}}
      \cup {Datagram(items, <<>>, 1) : items \in Upto(ValidItems, 1)}
      \cup {Datagram(items, Text(3), missing) :
                items \in Upto(ValidItems, 1), missing \in {2, 4, 40}}
      \cup {Datagram(<<i, j>>, <<>>, 0) : i \in InvalidItems, j \in ValidItems}
      \cup {Datagram(<<j, i>>, <<>>, 0) : i \in InvalidItems, j \in ValidItems}

=============================================================================
