---------------------------- MODULE RadiusServer ----------------------------
(***************************************************************************)
(* The sample server (src/sample/server.cpp, main.cpp): a Socket, which is *)
(* here the datagram service that Socket.tla implements, a dictionary that *)
(* is loaded once the socket is bound, and a handler that looks some       *)
(* attributes of a request up, shows them and posts a reply.  Only one     *)
(* reply is ever posted: its handler is in the queue of the io_service     *)
(* before the completion of the next receive.                              *)
(***************************************************************************)
EXTENDS PacketReader

CONSTANTS
    Files,          \* dictionary files: [opens, lines], includes in their places
    Wanted,         \* what make_response looks up: a sequence of [name, vendor, as]
    ReplyContent,   \* what it answers with: a sequence of [class, name, value]
    Datagrams,      \* what clients send: [from, form, packet]
    Room,           \* datagrams the kernel keeps
    MaxArrivals     \* bound: datagrams that are kept

Lines ==
    VendorLines \cup
        UNION {AttributeLines(v) \cup ValueLines(v) : v \in VendorNames \cup {NoVendor}}

(* A parsed packet has the objects that makeAttribute makes for its types. *)
ASSUME RadiusServerAssumption ==
    /\ \A f \in Files : f.opens \in BOOLEAN /\ f.lines \in Seq(Lines)
    /\ Wanted \in Seq([name : AttrNames, vendor : VendorNames \cup {NoVendor},
                       as : {"octets", "string", "uint", "ipv4"}])
    /\ ReplyContent \in Seq([class : {"String", "Integer", "IpAddress", "Bytes", "ChapPassword"},
                             name : AttrNames, value : Seq(Byte)])
    /\ \A d \in Datagrams :
          /\ d.form \in {"packet", "malformed", "unparsable"} /\ d.packet \in Packet
          /\ \A i \in DOMAIN d.packet.attributes :
                d.packet.attributes[i].class = ClassOf(d.packet.attributes[i].type)
    /\ Room \in Nat /\ MaxArrivals \in Nat

ACCESS_REQUEST == 1
ACCESS_ACCEPT == 2
ACCESS_REJECT == 3

VARIABLES
    file,       \* the dictionary file the command line names
    dict,       \* Server::m_dictionaries
    read,       \* how many lines of the file it has read
    phase,      \* "starting", "running" or "ended", as the process
    waiting, taken, served,     \* as in DatagramService
    arrivals,
    posted,     \* <<>>, or <<the reply whose handler is posted>>
    sent,       \* history: the replies the kernel took
    shown       \* what the handler wrote about the last request

receiveVars == <<waiting, taken, served, arrivals>>
vars == <<file, dict, read, phase, receiveVars, posted, sent, shown>>

Receiver == INSTANCE DatagramService WITH
                status <- IF phase = "ended" THEN "ended" ELSE "open"

Init ==
    /\ file \in Files /\ dict = EmptyDictionaries /\ read = 0 /\ phase = "starting"
    /\ waiting = <<>> /\ taken = <<>> /\ served = <<>> /\ arrivals = 0
    /\ posted = <<>> /\ sent = <<>> /\ shown = <<>>

(* The constructor of Server: the next line of the dictionary file.        *)
ReadLine ==
    /\ phase = "starting" /\ file.opens /\ read < Len(file.lines)
    /\ ~LineTaken(dict, file.lines[read + 1])
    /\ dict' = WithLine(dict, file.lines[read + 1])
    /\ read' = read + 1
    /\ UNCHANGED <<file, phase, receiveVars, posted, sent, shown>>

(* m_dictionaries.resolve(), after which main calls run().                 *)
Resolve ==
    /\ phase = "starting" /\ file.opens /\ read = Len(file.lines)
    /\ \A u \in Unresolved(dict) : VendorKnown(dict, u)
    /\ \E types \in TypesAfter(dict, Unresolved(dict)) :
          dict' = [dict EXCEPT !.types = types, !.unresolved = EmptyDictionaries.unresolved]
    /\ phase' = "running"
    /\ UNCHANGED <<file, read, receiveVars, posted, sent, shown>>

(* What throws in the constructor ends the process: the file cannot be     *)
(* opened, a line is refused, an attribute's vendor has no number.         *)
FailToStart ==
    /\ phase = "starting"
    /\ \/ ~file.opens
       \/ read < Len(file.lines) /\ LineTaken(dict, file.lines[read + 1])
       \/ /\ read = Len(file.lines)
          /\ \E u \in Unresolved(dict) : ~VendorKnown(dict, u)
    /\ phase' = "ended"
    /\ UNCHANGED <<file, dict, read, receiveVars, posted, sent, shown>>

Start == ReadLine \/ Resolve \/ FailToStart

(* The kernel keeps a datagram, as soon as the socket is bound.            *)
Arrive ==
    /\ arrivals < MaxArrivals /\ arrivals' = arrivals + 1
    /\ UNCHANGED <<file, dict, read, phase, posted, sent, shown>>
    /\ Receiver!Offer

Take ==
    /\ phase = "running"
    /\ UNCHANGED <<file, dict, read, phase, arrivals, posted, sent, shown>>
    /\ Receiver!Take

-----------------------------------------------------------------------------
(* make_response                                                           *)

(* The text print_*_attr writes; ipv4_address_to_string writes the low     *)
(* byte first.                                                             *)
Text(as, a) ==
    CASE as = "octets" -> AsOctets(a)
      [] as = "string" -> AsString(a)
      [] as = "uint" -> AsUint(a)
      [] as = "ipv4" -> Reverse(SubSeq(AsUint(a), 5, 8))

Lookups(packet) ==
    [i \in DOMAIN Wanted |->
        GetAttributeByName(dict, packet, Wanted[i].name, Wanted[i].vendor)]

(* What is written before a lookup throws. *)
Shown(packet) ==
    LET lookups == Lookups(packet)
        failed == SelectInSeq(lookups, Throws)
    IN  [i \in 1 .. (IF failed = 0 THEN Len(lookups) ELSE failed - 1) |->
            IF lookups[i].result = "found"
            THEN [result |-> "found", text |-> Text(Wanted[i].as, lookups[i].attribute)]
            ELSE [result |-> "absent", text |-> <<>>]]

ReplyAttributes ==
    [i \in DOMAIN ReplyContent |->
        [class |-> ReplyContent[i].class, value |-> ReplyContent[i].value,
         type |-> ByteOf(AttributeCode(dict, ReplyContent[i].name))]]

(* Fault: whatever is not a request for access is accepted.                *)
ReplyType_Accept(type) == ACCESS_ACCEPT

ReplyType(type) == IF type = ACCESS_REQUEST THEN ACCESS_ACCEPT ELSE ACCESS_REJECT

Reply(packet) ==
    ResponsePacket(ReplyType(packet.type), packet.id, packet.auth, ReplyAttributes, <<>>, FALSE)

(* How the handling of a datagram ends: with a reply, with a               *)
(* radius_lite::Exception, which handle_receive_ catches and reports to    *)
(* the server's handler, or with another exception, which leaves run().    *)
Ending(d) ==
    LET lookups == Lookups(d.packet)
        failed == SelectInSeq(lookups, Throws)
    IN  CASE d.form = "malformed" -> "caught"
          [] d.form = "unparsable" -> "escapes"
          [] d.form = "packet" /\ failed # 0 ->
                IF lookups[failed].result = "Exception" THEN "caught" ELSE "escapes"
          [] d.form = "packet" /\ failed = 0 ->
                IF \E i \in DOMAIN ReplyContent :
                        AttributeCode(dict, ReplyContent[i].name) = NoCode
                THEN "escapes" ELSE "reply"

(* The completion of a receive is run, and what it does.                   *)
HandOver ==
    /\ phase = "running" /\ taken # <<>> /\ posted = <<>>
    /\ served' = Append(served, Receiver!Served(Head(taken)))

HandleReceive ==
    /\ HandOver
    /\ LET d == Head(taken)
       IN  /\ phase' = IF Ending(d) = "escapes" THEN "ended" ELSE phase
           /\ posted' = IF Ending(d) = "reply" THEN <<[to |-> d.from, packet |-> Reply(d.packet)]>>
                        ELSE <<>>
           /\ shown' = IF d.form = "packet" THEN Shown(d.packet) ELSE <<>>
    /\ Receiver!Serve
    /\ UNCHANGED <<file, dict, read, arrivals, sent>>

(* The posted handler of asyncSend: the kernel takes the datagram or       *)
(* refuses it; handle_send only writes the error.                          *)
SendReply ==
    /\ phase = "running" /\ posted # <<>>
    /\ posted' = <<>>
    /\ sent' \in {sent, Append(sent, Head(posted))}
    /\ UNCHANGED <<file, dict, read, phase, receiveVars, shown>>

Next == ReadLine \/ Resolve \/ FailToStart \/ Arrive \/ Take \/ HandleReceive \/ SendReply

Spec == Init /\ [][Next]_vars

(* The process runs: its constructor ends, and run() takes what is ready.  *)
Fairness == WF_vars(Start) /\ WF_vars(Take) /\ WF_served(HandOver) /\ WF_vars(SendReply)

FairSpec == Spec /\ Fairness

-----------------------------------------------------------------------------
(* What the files and the requests mean, without tables and loops.         *)
LinesOf(f, kind) == {l \in Range(f.lines) : l.kind = kind}
AttributeLine(f, name, vendor) ==
    {l \in LinesOf(f, "ATTRIBUTE") : l.name = name /\ l.vendor = vendor}
IdOf(f, vendor) == {l.code : l \in {m \in LinesOf(f, "VENDOR") : m.name = vendor}}

(* The attributes or vendor attributes of a packet a wanted name stands for. *)
Held(w, packet) == IF w.vendor = NoVendor THEN packet.attributes ELSE packet.vendors

Places(f, w, packet) ==
    {k \in DOMAIN Held(w, packet) :
        /\ \E l \in AttributeLine(f, w.name, w.vendor) : Held(w, packet)[k].type = l.code
        /\ w.vendor # NoVendor => Held(w, packet)[k].id \in IdOf(f, w.vendor)}

(* Lines whose types are kept under one key, by the low byte of the code and *)
(* the vendor's number, 0 for none, and the types a wanted attribute may    *)
(* get from them.                                                          *)
KeyIds(f, vendor) == IF vendor = NoVendor THEN {0} ELSE IdOf(f, vendor)

ShareKey(f, l, m) ==
    /\ ByteOf(l.code) = ByteOf(m.code)
    /\ KeyIds(f, l.vendor) \cap KeyIds(f, m.vendor) # {}

TypesOf(f, w) ==
    {m.type : m \in {m \in LinesOf(f, "ATTRIBUTE") :
                        \E l \in AttributeLine(f, w.name, w.vendor) : ShareKey(f, l, m)}}

Sizes(type) ==
    CASE type = "ipaddr" -> {4} [] type = "byte" -> {1} [] type = "uint16" -> {1, 2}
      [] type \in {"integer", "uint32"} -> {1, 2, 4} [] type = "uint64" -> {1, 2, 4, 8}

Unfit(type, octets) ==
    type \in IntTypes \cup {"ipaddr"} /\ Len(octets) \notin Sizes(type)

(* A file by which nothing wanted is of a class whose data is written in    *)
(* another place than it is read from (Integer and Encrypted), and the      *)
(* types of the reply's attributes fit a byte, as in the RFCs' dictionaries. *)
UsualFile(f) ==
    /\ \A i \in DOMAIN Wanted : \A l \in AttributeLine(f, Wanted[i].name, NoVendor) :
          Wanted[i].vendor = NoVendor => ClassOf(l.code) \notin {"Integer", "Encrypted"}
    /\ \A i \in DOMAIN ReplyContent : \A l \in AttributeLine(f, ReplyContent[i].name, NoVendor) :
          l.code \in Byte

(* A dictionary that need not work: it cannot be opened, its lines         *)
(* contradict each other, or an attribute's vendor is not defined.         *)
BadFile(f) ==
    \/ ~f.opens
    \/ \E l, m \in Range(f.lines) :
          /\ l # m /\ l.kind = m.kind
          /\ \/ l.kind = "VENDOR"
             \/ l.kind = "ATTRIBUTE" /\ l.vendor = m.vendor
             \/ l.kind = "VALUE" /\ l.ofVendor = m.ofVendor /\ l.attribute = m.attribute
          /\ l.name = m.name \/ l.code = m.code
    \/ \E l \in LinesOf(f, "ATTRIBUTE") : l.vendor # NoVendor /\ IdOf(f, l.vendor) = {}

(* An attribute the file does not list, before every place of a wanted one. *)
Unlisted(f, w, packet, k) ==
    /\ \A l \in LinesOf(f, "ATTRIBUTE") :
          ~(l.vendor = NoVendor /\ l.code = packet.attributes[k].type)
    /\ BadFile(f) \/ \A j \in Places(f, w, packet) : k < j

(* A request may end the server over an empty CHAP-Password, if the        *)
(* dictionary lacks a name the server uses, or if a lookup without a vendor *)
(* meets an attribute the dictionary does not list before the one it wants. *)
FatalFor(f, d) ==
    \/ d.form = "unparsable"
    \/ \E i \in DOMAIN Wanted :
          Wanted[i].vendor # NoVendor /\ AttributeLine(f, Wanted[i].name, Wanted[i].vendor) = {}
    \/ \E i \in DOMAIN ReplyContent : AttributeLine(f, ReplyContent[i].name, NoVendor) = {}
    \/ \E i \in DOMAIN Wanted :
          Wanted[i].vendor = NoVendor
          /\ \E k \in DOMAIN d.packet.attributes : Unlisted(f, Wanted[i], d.packet, k)

(* A request needs no answer if it is malformed or holds a value that does *)
(* not fit the type the dictionary gives it.                               *)
IgnoredFor(f, d) ==
    \/ d.form = "malformed"
    \/ \E i \in DOMAIN Wanted : \E type \in TypesOf(f, Wanted[i]) :
          \E k \in Places(f, Wanted[i], d.packet) :
              Unfit(type, Held(Wanted[i], d.packet)[k].value)

(* The answer, if the dictionary has the names it needs.                   *)
RightAnswers(f, d) ==
    LET codesOf(i) == {l.code : l \in AttributeLine(f, ReplyContent[i].name, NoVendor)}
        codings == {c \in [DOMAIN ReplyContent -> UNION {codesOf(i) : i \in DOMAIN ReplyContent}] :
                        \A i \in DOMAIN ReplyContent : c[i] \in codesOf(i)}
    IN  {[to |-> d.from,
          packet |->
            [type |-> IF d.packet.type = 1 THEN 2 ELSE 3, id |-> d.packet.id,
             recalc |-> d.packet.type = 1, auth |-> d.packet.auth, vendors |-> <<>>,
             attributes |-> [i \in DOMAIN ReplyContent |->
                [class |-> ReplyContent[i].class, value |-> ReplyContent[i].value,
                 type |-> c[i]]]]] : c \in codings}

-----------------------------------------------------------------------------
(* Properties.                                                             *)

(* Every variable has its type; shown is about the last request served.    *)
TypeOK ==
    /\ file \in Files /\ IsDictionaries(dict)
    /\ phase \in {"starting", "running", "ended"}
    /\ waiting \in Seq(Datagrams) /\ Len(waiting) <= Room
    /\ taken \in Seq(Datagrams) /\ Len(taken) <= 1
    /\ \A i \in DOMAIN served : served[i].datagram \in Datagrams
    /\ \A r \in Range(posted) \cup Range(sent) : r.packet \in Packet
    /\ Len(shown) <= Len(Wanted)

(* What the text of a value should say, under a type that suits. *)
Suits(as, type) ==
    CASE as = "string" -> type = "string"
      [] as = "uint" -> type \in IntTypes
      [] as = "ipv4" -> type = "ipaddr"
      [] OTHER -> TRUE

RightText(as, type, octets) ==
    CASE as = "string" -> <<"characters", octets>>
      [] as = "uint" -> Zeros(8 - Len(octets)) \o octets
      [] as = "octets" /\ type \in IntTypes -> Zeros(Width(type) - Len(octets)) \o octets
      [] OTHER -> octets

(* What the server shows of a request is what the request holds, under the *)
(* names of the dictionary file: the first value of each wanted attribute, *)
(* addresses with their bytes in order; and what it calls absent is not    *)
(* there.  Numbers of type "integer" are meant below 2^31.                 *)
ShownTruthful ==
    phase # "starting" /\ served # <<>> /\ ~BadFile(file) =>
        \A i \in DOMAIN shown :
            LET w == Wanted[i]
                packet == served[Len(served)].datagram.packet
                places == Places(file, w, packet)
            IN  /\ shown[i].result = "found" <=> places # {}
                /\ \A k \in places :
                     (\A j \in places : k <= j) /\ (\A type \in TypesOf(file, w) : Suits(w.as, type))
                     => LET octets == Held(w, packet)[k].value
                        IN  \E type \in TypesOf(file, w) :
                               \/ shown[i].text = RightText(w.as, type, octets)
                               \/ w.as = "uint" /\ type = "integer"
                                  /\ Len(octets) = 4 /\ octets[1] >= 128

(* What a lookup by key finds is what the dictionary file says: the key of *)
(* get_attribute_key for an attribute of a vendor, or the code and 0 for a *)
(* plain one, leads get_attribute to the first value the packet holds under *)
(* the file's line, read as a type the file gives it, and to nothing if the *)
(* packet holds none, whatever else the packet has that the file does not  *)
(* list.  It stands for every line with a code of one byte, which is all   *)
(* that a key holds, for every vendor but one of number 0, which a key     *)
(* takes for none, and without plain Integers and Encrypted, as above.     *)
KeyFor(name, vendor) ==
    IF vendor = NoVendor THEN <<ByteOf(AttributeCode(dict, name)), 0>>
    ELSE GetAttributeKey(dict, name, vendor)

KeyedTruthful ==
    phase # "starting" /\ served # <<>> /\ ~BadFile(file) =>
        \A l \in LinesOf(file, "ATTRIBUTE") : \A s \in Range(served) :
            LET w == [name |-> l.name, vendor |-> l.vendor]
                packet == s.datagram.packet
                places == Places(file, w, packet)
                found == GetAttribute(dict, packet, KeyFor(l.name, l.vendor))
            IN  /\ l.code \in Byte /\ 0 \notin IdOf(file, l.vendor)
                /\ l.vendor = NoVendor => ClassOf(l.code) \notin {"Integer", "Encrypted"}
                => /\ places = {} => found = Absent
                   /\ \A k \in places : (\A j \in places : k <= j) =>
                        \E type \in TypesOf(file, w) :
                            found = Decode(type, Held(w, packet)[k].value)

(* The server is a request-reply service: every request is answered once,  *)
(* in order, to its sender, with its id and authenticator and the right    *)
(* attributes, unless it is malformed or does not fit the dictionary; it   *)
(* ends only over a dictionary that lacks something, and no reply that was *)
(* owed is lost by that.                                                   *)
Service == INSTANCE RequestReply WITH
    Requests <- Datagrams,
    AnswersTo <- RightAnswers,
    MayNotStart <- BadFile,
    MayPassOver <- IgnoredFor,
    MayGiveUp <- FatalFor,
    config <- file,
    kept <- taken \o waiting,
    owed <- posted,
    answers <- sent,
    over <- phase = "ended"

AnswersRequests == Service!FairSpec

=============================================================================
