---------------------------- MODULE MCRadiusServer ----------------------------
(* The sample server with some of its lookups, dictionary files of which    *)
(* all but one lack something, and requests that do and do not fit them.    *)
EXTENDS RadiusServer, Bitwise

MCSecret == <<115>>
MCDigest(bytes) == Zeros(16)
MCBitXor(a, b) == a ^^ b

(* Names of attributes, and vendors. *)
UserName == 1
NasIpAddress == 4
CallingStation == 31
AcctStatus == 40
Imsi == 101
ChargingId == 102
Extended == 103
MCAttrNames == {UserName, NasIpAddress, CallingStation, AcctStatus, Imsi, ChargingId, Extended}
Vendor3GPP == 1

Line(v, name, code, type) ==
    [kind |-> "ATTRIBUTE", vendor |-> v, name |-> name, code |-> code, type |-> type]
VendorLine(id) == [kind |-> "VENDOR", name |-> Vendor3GPP, code |-> id]

(* The vendor's attributes come before its number, as after an $INCLUDE. *)
Complete ==
    <<Line(NoVendor, UserName, 1, "string"), Line(NoVendor, NasIpAddress, 4, "ipaddr"),
      Line(NoVendor, CallingStation, 31, "string"), Line(NoVendor, AcctStatus, 40, "integer"),
      Line(Vendor3GPP, Imsi, 1, "string"), Line(Vendor3GPP, ChargingId, 2, "integer"),
      Line(Vendor3GPP, Extended, 258, "integer"), VendorLine(10415)>>

Without(lines, name) == SelectSeq(lines, LAMBDA l : l.name # name \/ l.kind = "VENDOR")

MCFiles ==
    {[opens |-> TRUE, lines |-> lines] : lines \in
        {Complete, Without(Complete, UserName), Without(Complete, CallingStation),
         Without(Complete, Imsi), SubSeq(Complete, 1, 7), SubSeq(Complete, 1, 4),
         Append(SubSeq(Complete, 1, 7), VendorLine(0)),
         Append(Complete, Line(Vendor3GPP, Imsi, 2, "string"))}}
    \cup {[opens |-> FALSE, lines |-> Complete]}

Want(name, vendor, as) == [name |-> name, vendor |-> vendor, as |-> as]
MCWanted ==
    <<Want(CallingStation, NoVendor, "string"), Want(NasIpAddress, NoVendor, "ipv4"),
      Want(AcctStatus, NoVendor, "uint"), Want(Imsi, Vendor3GPP, "string"),
      Want(ChargingId, Vendor3GPP, "octets")>>

MCReplyContent ==
    <<[class |-> "String", name |-> UserName, value |-> <<116>>],
      [class |-> "IpAddress", name |-> NasIpAddress, value |-> <<127, 104, 22, 17>>]>>

(* Attributes as the parsing constructor makes them. *)
Parsed(type, data) == MakeAttribute(type, data, Zeros(16))
Calling(n) == Parsed(31, <<48, n>>)
Address == Parsed(4, <<10, 0, 0, 1>>)
Status(data) == Parsed(40, data)
NotListed == Parsed(99, <<1>>)
ImsiValue == [id |-> 10415, type |-> 1, value |-> <<50, 53>>]
ChargingValue(data) == [id |-> 10415, type |-> 2, value |-> data]
Dlink == [id |-> 171, type |-> 1, value |-> <<0, 0, 0, 3>>]

Request(type, id, attributes, vendors) ==
    [NoPacket EXCEPT !.type = type, !.id = id, !.auth = [i \in 1 .. 16 |-> i],
                     !.attributes = attributes, !.vendors = vendors]

MCPackets ==
    {Request(1, 1, <<Parsed(1, <<117>>), Calling(1), Address, Status(<<0, 0, 0, 1>>)>>,
             <<Dlink, ImsiValue, ChargingValue(<<0, 0, 1, 2>>)>>),
     Request(4, 2, <<Calling(2), Calling(1), Status(<<1>>)>>, <<ChargingValue(<<9>>), ImsiValue>>),
     Request(4, 3, <<Address, NotListed>>, <<>>),
     Request(1, 4, <<Calling(1), Address, Status(<<255, 0, 0, 1>>), NotListed>>, <<Dlink>>),
     Request(4, 5, <<Status(<<1, 2, 3>>)>>, <<ImsiValue>>),
     Request(1, 6, <<>>, <<ImsiValue, ChargingValue(<<1, 2, 3, 4, 5>>)>>),
     Request(12, 7, <<>>, <<>>)}

MCDatagrams ==
    [from : {"c1", "c2"}, form : {"packet"}, packet : MCPackets]
    \cup [from : {"c1"}, form : {"malformed", "unparsable"}, packet : {NoPacket}]

(* The wanted attributes are read as they are written, and those of the     *)
(* reply have a type of one byte.                                          *)
ASSUME FilesAssumption == \A f \in Files : UsualFile(f)

=============================================================================
