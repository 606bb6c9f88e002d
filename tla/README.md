# async-radius: TLA+ models and proofs

This directory holds TLA+ models of the library in `src/` (namespace
`radius_lite`, a RADIUS protocol library on Boost.Asio) and of its sample
server, the TLC runs that check them and TLAPS proofs of what matters most.
`PROJECT.json` lists the runs, the source lines behind every definition, the
faults each property was tried against, the hazards of the code, the findings
and the theorems.

## The system

    application (sample server)
        |  callback(error, packet, source)        asyncSend(packet, destination)
    Socket  <---- io_service / reactor / kernel ---->  peers
        |  Packet(buffer, size, secret)           makeSendBuffer(secret)
    Packet -- Attribute classes, VendorSpecific
        ^
    PacketReader -- TypeDecoder -- Dictionaries -- BasicDictionary, DependentDictionary

| Component | State | Operations | What makes it correct |
|---|---|---|---|
| `Socket` (`src/src/socket.cpp`) | one receive buffer, one endpoint, the handlers and operations it has given to asio | constructor, receive loop, `handle_receive_`, `asyncSend`, `handle_send_`, `close` | the buffer belongs to one receive at a time; the loop does not die; every send leaves once, in order, intact, to the right peer, and is reported; nothing happens after `close` |
| `BasicDictionary` (`src/src/dictionaries.cpp`) | `right_dict_` (code to name), `reverse_dict_` (name to code) | `add`, `append`, `name`, `code` | no name for two codes; both directions defined; also after an `append` that threw |
| `DependentDictionary` (same file) | the same per scope (vendor, or attribute) | the same | the same within each scope |
| `Dictionaries` (same file) | five dictionaries, attribute types, unresolved types | loading a file with `$INCLUDE`, `append`, `resolve`, lookups | what is loaded is what the lines say, whatever their order and their files; no attribute has the type of another vendor's |
| `Packet` (`src/src/packet.cpp`) | type, id, authenticator, attributes, vendor attributes | three building constructors, parsing constructor, `makeSendBuffer`, copy, assignment, destruction | what is sent is what is received; the parser stays inside the datagram; the authenticator proves what it should; every attribute is deleted once |
| attribute classes (`attribute.h`, `attribute.cpp`, `vendor_attribute.cpp`) | one value each | parse, `data`, `toVector`, conversions | each class reads what it writes and what other implementations write |
| `PacketReader`, `TypeDecoder` | none (references) | look up an attribute by name or key, decode by type name | finds the attribute that is there and no other |
| sample server (`src/sample`) | a `Socket` and a `Dictionaries` | load, answer a request | each request gets one reply, to its sender, or there is a reason why not |

Hard behaviours: the interleaving of handlers, operations and callbacks around
the shared receive buffer; lifetimes of what asynchronous operations refer to;
closing in the middle of everything; exceptions of callbacks and constructors on
the way through an event loop; operations on tables that fail half way; names
that outlive their codes; types that wait for a vendor defined later; byte
arithmetic of two serialisers and one parser that have to agree; the order of
writes around a digest; owners of raw pointers.  `PROJECT.json` has the full
list under `hazards`.

## Modules

| Module | What it is |
|---|---|
| `DatagramService` | abstract: a serial server of datagrams |
| `Socket` | `socket.cpp`, with the reactor, the kernel and the application around it; implements `DatagramService` |
| `SocketProofs` | theorems about the receive loop, about sends, and about what becomes of datagrams |
| `NameTable`, `ScopedTable` | constant operators: the two maps of a dictionary, plain and per scope, and what `add` and `append` do to them |
| `BasicDictionary`, `DependentDictionary` | several dictionaries, filled and merged in any order |
| `NameTableProofs`, `DictionaryProofs`, `DependentProofs` | lemmas about the tables, theorems about the two classes |
| `Dictionaries` | constant operators: what a line, `append` and `resolve` do to the seven members of the class, and its lookups |
| `DictionaryLoader`, `LoaderProofs` | the constructor that reads files, and the application that appends and resolves; theorems about them |
| `Attributes`, `PacketFormat` | constant operators: what the attribute classes and `Packet` write and read |
| `PacketCodec` | `packet.cpp`: requester, responder and foreign senders, `makeSendBuffer`, the parsing loop |
| `PacketProofs` | lemmas about what the operators of these three write and read; the theorems about `PacketCodec` |
| `PacketOwnership`, `OwnershipProofs` | the attribute objects of packets that are built, parsed, copied, assigned and destroyed, and theorems about them |
| `PacketReader` | constant operators: lookups and decoding, on `Dictionaries` and `PacketFormat` |
| `RequestReply` | abstract: a service that answers requests |
| `RadiusServer` | the sample server: `DatagramService`, `Dictionaries` and `PacketReader` composed; implements `RequestReply` |
| `ServerProofs` | lemmas about what a dictionary file makes lookups find; theorems about `RadiusServer` |
| `MC...` | symmetry for TLC; menus of lines, packets, datagrams; stand-ins for MD5 and `^` |

Operators whose name has a suffix after an underscore, such as `Post_Twice`, are
faults: the runs use them to see that a property notices when the code is wrong.
The specifications do not use them.

### Socket

A step is one whole handler on the thread in `io_service::run()`: handlers do
not interleave with each other, since the library starts no threads, but
the kernel and the reactor act between them.  `ready` is the queue of asio's
handlers, `recvOps` and `sendOps` are operations that wait in the reactor,
`inbox` and `outbox` are the kernel's queues.  `recvBuffer` and `remoteEndpoint`
are the members that every receive shares.

| Code | Definition |
|---|---|
| constructor, `start_receive_loop_` | `Init`, `InitialHandlers`, `RunOrderReceive` |
| `order_receive_` | `StartReceive`: fails at once on a closed socket, reads at once when a datagram waits or `recvfrom` reports an error, else waits in the reactor |
| `handle_receive_` | `ErrorCalls`, `TryBlock`, `Executions`: every sequence of callback calls, the callback throwing or not at each, replying or not |
| completion of a receive | `RunReceived`: `handle_receive_`, then `order_receive_` unless an exception got out |
| `asyncSend` | `Post` from a callback, `AsyncSend` from elsewhere; `RunSend` is the posted handler |
| `handle_send_` | `RunSent`, `ReportedCode` |
| `close` | `Close`, `Aborted`, `KeptSends` |
| asio and the kernel | `Arrive`, `ReactorReceive`, `ReactorReceiveError`, `Transmit`, `ReactorSend`, `Drain` |

A datagram is abstracted to its number, its sender and its form: what the
`Packet` constructor does with it (a packet, a `radius_lite::Exception`, the same
with fewer than 20 bytes, another exception).  A waiting send is performed from
a vector whose handler is gone, so its bytes are a choice between `"intact"` and
`"garbage"` (`BytesAfterHandler`).  Once an exception leaves `run()`, `loop` is
`"escaped"` and the model stops; the sample's `main` ends there too.  `beat` only
tells apart the steps of the spinning loop on a closed socket, so that a
behaviour that spins is not taken for one that stutters.

`DatagramService` says what users rely on without handlers or operations:
datagrams wait, one is taken, it is handed over with its own source, then the
next; closing drops those that wait.  `Service` in `Socket` maps the state to
it: the datagram that is taken is the one in the buffer while its completion is
in `ready`.

### BasicDictionary and DependentDictionary

`right[d]` and `reverse[d]` are the maps of dictionary `d`, total functions with
`NoName` and `NoCode` for absent keys.  `Append` goes through the codes in order
(`CopiedBelow`, `Clashes`, `Appended`), since `right_dict_` is a `std::map`, and
stops at the first clash like the exception does; `torn[d]` remembers that it
happened.  An `add` that throws changes nothing and is no step.  `name()` and
`code()` are reads of the maps.  `DependentDictionary` has a pair of tables per
scope, goes through the scopes in order (`Reached`), and its `append` overwrites
in `reverse_dict_` where that of `BasicDictionary` keeps.

### Dictionaries and the loader

A `Dictionaries` object is a record of its seven members: five tables, `types`
(`attribute_types_`, by the low byte of the code and the vendor's number) and
`unresolved` (the types that wait for a vendor's number, by the vendor's name).
`WithLine` is what one line does, `LineTaken` says that it throws;
`AppendedDictionaries` is what `append` leaves behind, members behind one that
clashed untouched; `TypesAfter` is what `resolve` can make of the types, in any
order of the hash map.

In `DictionaryLoader` each constructor that runs is an element of `stack`: an
`$INCLUDE` (`ReadInclude`) pushes the included file's own object, its end
(`EndOfIncluded`) appends it to the including file's; `BEGIN-VENDOR` in one file
does not reach into another.  An exception abandons all of them, while an
`append` to the application's dictionary (`AppendLoaded`) leaves it half done
and in use, and a `resolve` that throws (second part of `Resolve`) has resolved
any part of what it could.  What the files contain is chosen line by line as
they are read, so that a behaviour stands for a set of files.  `Made` carries the
lines an object was made from; `Meaning` says, without tables and order, what a
set of lines means.

### Packets

`Attributes` has each class's constructor checks (`AddressFault`, `PasswordFault`,
`ChapFault`, `IntegerFault`), its reading (`MakeAttribute`, `Decryption`,
`MakeVendor`) and its writing (`Data`, `Encryption`, `ToVector`,
`VendorToVector`), byte by byte, because the hazards are in lengths and offsets.
`Encryption` writes where the code writes: one byte late, the last byte
lost.  That byte falls behind the vector, which is undefined behaviour;
the block that holds a multiple of 16 bytes has room behind it in the allocators
the library is built for, so the outcome modelled is that the byte is lost.
`Digest` and `BitXor` are constants; `AttributesAssumption` states what is needed
of the exclusive or.  `PacketFormat` has the building constructors,
`makeSendBuffer` and the checks of the parser.

`PacketCodec` sends a packet through `MakeSendBuffer` into a parsing constructor,
whose header, loop iterations and final check are steps (`ParseHeader`,
`ParseVendor`, `ParseAttribute`, `FinishParsing`, each of which may `Throw`).  An
accepted request may be answered (`Respond`) with its own id and authenticator,
as `packet.h` asks; then the packet is destroyed (`Discard`).  Datagrams come from
three senders: `requester` and `responder` use the library; a `foreign` one is
a record of items, each an attribute as its sender wrote it and what the sender
meant by it, of bytes behind them and of how many bytes were cut off.
`IsDatagram` says which records those are (`IsAttribute`, `IsVendor`, `Hides`
describe the encodings of RFC 2865; `IsNothing` an attribute of the wrong size),
`WholeBytes` and `ReceivedBytes` what arrives, `Meant` and `Valid` what should
become of it.  All are well framed: every attribute has a length of at least
two and lies within the datagram, whose header announces at least 20 bytes.  `PacketCodecAssumption` states this of the
constants, and that what users build `Fits` the length bytes; TLC evaluates it on the
menus of `MCPacketCodec`.

`PacketOwnership` is about the objects behind the pointers in `m_attributes`:
`Make` is `new` (numbers are never used again, so a pointer to freed memory stays
one), `Copied` is the loop of clones in the copy constructor, `Assign` the
assignment the class does not declare, `Deleted` the destructor.  `ParseThrows`
leaves what was made so far, `ApplicationThrows` what the application had made
for a packet that it then does not build.  Using a deleted attribute is
`Misuse`, after which nothing is said any more.

### PacketReader and the sample server

`GetAttributeByName` (with and without a vendor) and `GetAttribute`, each with loops
of its own as in the code, end with an attribute, a null pointer or one of two exceptions; `Decode` is the table of
`TypeDecoder` with the constructors it calls.  The conversions (`AsUint`,
`AsOctets`, `AsString`) keep what can go wrong with them: the sign of an
`int32_t`, the byte order of an address.

`RadiusServer` reads a dictionary file in its constructor (`ReadLine`, `Resolve`,
`FailToStart`) while the bound socket already keeps datagrams (`Arrive`), then
serves: `HandleReceive` is the completion of a receive with `make_response` in
it, `SendReply` the posted handler of `asyncSend`.  The socket is used by its
specification, `DatagramService`, as instance `Receiver`: `Socket` implements
it, which is proved below, so the handlers and operations need not be modelled
twice.  Only one reply is posted at a time because its handler is in the
queue before the completion of the next receive; that a datagram may be taken
meanwhile is kept.  `Wanted` and `ReplyContent` are what `make_response` looks up
and answers, in order; the run uses five of its lookups, one of each way to
look up and to show, and two of the reply's attributes.

`ShownTruthful` compares what is shown with the file and the request, without
tables and loops: `AttributeLine` gives the lines that describe a wanted attribute, `Places`
the attributes of the request that it stands for (of `Held`, the plain ones or
those of vendors), and `TypesOf` the types it may get, which include those of
other lines that `ShareKey` with it, since types are kept by the low byte of the code
and by the vendor's number, where 0 stands for none: a vendor of number 0 shares the
keys of the plain attributes.  `KeyedTruthful` says the same of `GetAttribute`, which
`make_response` does not use: for every line of the file it takes the key of
`get_attribute_key`, or the code and 0 for a plain attribute, and compares what the
lookup finds in a request with the `Places` of that line.  Two kinds of lines are
outside of it: those with a code of more than a byte, which no key holds, and those of a
vendor of number 0, which `get_attribute` looks for among the plain attributes.

`RequestReply` knows no tables, buffers or handlers: requests wait and are
answered in order, once, with the answer that belongs to them, or passed over,
or end the service; the two latter need a reason, which `IgnoredFor` and
`FatalFor` give in terms of the file's lines and the request's attributes.  An attribute
the file does not list is such a reason only if it stands before every one that a
wanted plain attribute stands for (`Unlisted`): the server has to survive one behind.

## Runs

| Run | Instance | Distinct states | Result |
|---|---|---|---|
| `socket_safety` | 2 peers, 2 datagrams, 2 sends, 1 receive error, capacities 1 | 464,409 | holds |
| `socket_liveness` | 1 peer, the rest the same, `FairSpec` | 103,362 | holds |
| `send_blocked` | room for one send | | violates `SentIntact` |
| `run_returns` | no datagrams, 1 send, `FairSpec` | | violates `RunReturns` |
| `basic_dictionary` | 2 dictionaries, 3 codes, 3 names | 53,713 | holds |
| `dependent_dictionary` | 2 dictionaries, 2 scopes, 2 codes, 2 names | 61,445 | holds |
| `dictionaries` | 13 lines to choose from, up to 6 lines read, 2 files open at a time | 722,901 | holds |
| `packet_codec` | menus of requests, answers and foreign datagrams | 6,953 | holds |
| `integer_roundtrip`, `password_roundtrip` | one or two packets | | violate `RoundTrip` |
| `packet_ownership` | 3 packets, 4 attributes, 2 contents | 357,052 | holds |
| `radius_server` | 9 dictionary files, 16 datagrams of which 3 arrive, room for 2, `FairSpec` | 195,602 | holds |

Why the bounds suffice.

- *Socket*: a second datagram is enough to overwrite the buffer of the first and
  a second peer to misdirect its reply; two sends are enough to swap, and with
  capacity 1 the second one blocks; one receive error reaches every error path,
  and a third datagram, error or send only repeats these.
- *BasicDictionary, DependentDictionary*: a clash needs two codes, its position
  before or after another entry a third; merging needs two dictionaries.  Two
  scopes show what an append leaves behind in the scope before the clash.
- *Loader*: `MCMenu` has attributes that are renamed, that share a name, that
  share the low byte of their codes, two values of one name, two vendors of one
  number, one that is renumbered and one of number 0, which shares its keys with the
  plain attributes.  Six lines are `$INCLUDE`, `BEGIN-VENDOR`, an
  attribute, `END-VENDOR`, a vendor and one that contradicts; since the
  application appends several loaded dictionaries, more than two files are read.
- *Codec*: an attribute depends on its predecessors only through the position and
  the chain of `EAP-Message`, so two attributes and two vendor attributes show
  every dependency; sizes include 0 and the largest ones (253 and 247 bytes), two
  of which need the high byte of the length; passwords have one and three
  blocks, full and padded.
- *Ownership*: an assignment and a copy of its result need three packets; four
  attributes allow a packet of two and its copy.
- *Server*: the files are a complete one and files that lack each kind of thing
  (an attribute the reply needs, one that is looked up, a vendor attribute, the
  vendor's number, the vendor), one whose vendor has number 0, one that contradicts
  itself, one that is not there.  The datagrams have a listed and an unlisted attribute before and behind
  what is looked up, values that do not fit their types, several values, other
  vendors.  Three datagrams with room for two fill the kernel's queue while one
  is served.

`CHECK_DEADLOCK FALSE` is given for the socket runs, since a socket whose `run()`
was left by an exception does stop, for `radius_server`, where the process ends
or nothing arrives any more, and for `packet_ownership`, where all attributes may
be used up.

What the violated properties show is listed in `PROJECT.json` under `findings`,
each with the line of the repository that expects otherwise:

1. `send_blocked`: a send that must wait is performed from freed memory.
2. `run_returns`: `run()` never returns; after `close` it spins.
3. `integer_roundtrip`: `Integer` attributes are sent with two headers, whether a user
   built them or they were received, as in `src/tests/packet_tests.cpp:107-113` and
   `189-195`.
4. `password_roundtrip`: hidden passwords are shifted by one byte.

Two more observations need no run.  A code that is renamed leaves its old name in
`reverse_dict_` (`src/src/dictionaries.cpp:55`), so that the name can go to another
code and still resolve to the first: `AliasesKept` states what does hold.
And `src/tests/packet_tests.cpp:219-229` expects a datagram with the unknown
attribute type 0x17 to be refused, while `makeAttribute` (`src/src/packet.cpp:31`)
reads every unknown type as `Bytes`, as the model does.

## Fairness

`Fairness` of `Socket` is weak fairness of running a ready handler, of the
reactor performing a waiting receive or send that is possible, and of the
network draining the kernel's queue.  `io_service::run()` takes handlers in FIFO
order and polls the reactor for as long as it has work, which is weak fairness
of each; UDP does not hold back a queue for ever.  Nothing makes a peer
send, `recvfrom` fail, or the application send or close.  The liveness
properties end in "or an exception left `run()`", because then the code gives up.

`Fairness` of `RadiusServer` is that of a process that runs: its constructor ends
(`Start`), `run()` takes a datagram that waits, runs the completion (`HandOver`;
stated of `served`, the variable that every completion changes) and the posted
send.  `AnswersRequests` is checked with the fairness of `RequestReply`, so that
every request that is kept is settled and every answer that is owed is sent.

## Proofs

**`SocketProofs`**, for any number of peers, datagrams, sends and errors and any
capacities, from `SocketAssumption`:

- `TypeCorrect`: `Spec => []TypeOK`.  `TypeOK` is not inductive: the type of
  `handled` needs a datagram in the buffer when a successful completion is
  handled.  `TypeInv` adds `BufferFilled`: if such a completion is in `ready`, the
  buffer and the endpoint are filled.
- `ReceiveLoop`: `Spec => []OneReceiver`, and `ReceiveLoopLives`:
  `Spec => []ReceiverAlive`.  The inductive form `ReceiverInv` of both says where
  the one receive is: exactly one handler and no operation, or one operation
  and no handler, or neither once an exception has left `run()`.  The lemmas
  about queues (`ReceiveAppended`, `ReceiveRemoved`, `ReceiveConcatenated`) say
  how the number of receive handlers changes when a handler is posted, run, or
  many are made ready by `close`.
- `BufferIsStable`: `Spec => BufferStable`, from both: while a completion
  waits, there is no other receive that could fill the buffer.

For sends, `SocketProofs` first shows that each step does one of six things to sends
(`StepIsMove`): a receive comes or goes, a call is posted, a send ends, waits, is
reported, or all that wait are aborted.  Then one invariant per property, each
with one lemma per move:

- `SendsConserved`: `Spec => []SendConservation`.  `OnceInv` replaces the sum of
  three cardinalities by "exactly one element of exactly one of three sequences",
  which appending, taking the head and concatenating preserve (`CountAppended`,
  `CountRemoved`, `CountConcatenated`).
- `SendsInOrder`: `Spec => []SendsKeepOrder`.  `OrderInv`: posted handlers,
  waiting sends and the wire are each in ascending order, and all numbers on the wire are
  below all that wait, which are below all that are posted.
- `ReportsTruthful`: `Spec => []SendReportsTruthful`.  `TruthInv`: a completion
  tells the truth while it waits in the queue, too; by `OrderInv` what is posted
  or waits is not on the wire yet.

And for datagrams:

- `RepliesReachSender`: `Spec => []RepliesGoToSender`.  `ReplyInv`: every posted,
  waiting and transmitted reply was justified by a datagram handed over, and the
  endpoint is that of the datagram in the buffer whenever there is one
  (`EndpointMatches`).
- `ClosedStaysSilent`: `Spec => ClosedIsSilent`.  `ClosedInv`: a closed socket has no
  operation and no datagram left; what is ordered then fails at once.
- `ImplementsService`: `Spec => Service!Spec`, the safety part of the
  refinement that the run `socket_liveness` checks with fairness as
  `ServesDatagrams`.  A receive that completes at once is a `Take` within a
  `Serve`; a completion with an error, a send or a dropped datagram is a
  stuttering step; an exception in a send's callback is an `End`.

**`NameTableProofs`, `DictionaryProofs`, `DependentProofs`**, for any codes, names,
scopes and dictionaries, from `NameTableAssumption` and `ScopesAssumption`:

- `BasicNamesUnique`, `BasicCodesKnown`, `BasicNamesKnown`: with `TypeOK` the three
  properties are inductive together (`BasicInv`).  The heart is
  `AppendedInjective`: what an append leaves behind has no name twice, whether
  it threw or not.  It rests on the least code at which the append would throw
  (`LeastCode`, by well-founded induction on the naturals) and on `AppendedForm`,
  which says of every code whether its entry was copied.
- `DependentNamesUnique`, `DependentCodesKnown`, `DependentNamesKnown`: the same per
  scope (`DependentInv`), for scopes before, at and behind the clash.
- `BasicAliasesKept`, `DependentAliasesReplaced`: who may change the code a name
  resolves to.  `BasicDictionaryTypes`, `DependentDictionaryTypes`: types.

**`OwnershipProofs`**, for any number of packets, attributes and contents:

- `PacketsOwnAttributes`: `Spec => []SoleOwner`, `NoAttributeLost`:
  `Spec => []NothingLost`.  `SoleOwner` is not inductive, since it says nothing of
  what becomes a packet's: `OwnersInv` adds that the attributes the application
  holds are alive, distinct and no packet's (`LooseOwned`), and that packets
  that are assigned, too, hold pointers to what they are meant to hold
  (`ContentsMeant`).
- `OwnershipTypes`: types.

**`LoaderProofs`**, for any codes, names and types, any menu of lines and any bounds,
from `DictionariesAssumption` and `LoaderAssumption`:

- `LoaderTypesHaveSource`: `Spec => []TypesHaveSource`, what a dictionary says of an
  attribute's type is what one of its lines says.
- `LoaderLoadsAsWritten`: `Spec => []LoadedAsWritten`, lines that do not contradict each
  other are loaded as they are written, whatever the order, the files and the
  moment of `resolve`.
- `LoaderOnlyConflictsRefused`: `Spec => []OnlyConflictsRefused`, a file is refused or
  an append throws only if two lines contradict each other.
- `LoaderTypes`: types.

None of them is inductive: `LoadedAsWritten` speaks of a resolved dictionary, and says
nothing of the dictionaries that constructors further down the stack are still
making.  The invariant `LoaderInv` says of every one of these that it `Represents` the
lines read for it: each entry, each type and each type that waits comes from a line
(`TablesSourced`, `TypesSourced`, `WaitingSourced`), and, if the lines do not contradict
each other, each line has its entries and its type, which may still wait for the
vendor (`TablesWhole`, `TypesWhole`).  The five kinds of tables are spoken of
alike, by their `Places`: `JoinSourced` and `JoinWhole` say what joining two tables
keeps, and `SharedName` that an append of tables that clash has contradicting
lines.  On these rest one pair of lemmas per operation, that it keeps `Represents`
and that what it refuses is a conflict: `LineRepresents` and `LineConflict` for a line,
`AppendRepresents` and `AppendConflict` for an append, `ResolveRepresents` for
`resolve`; `WholeMeaning` draws the property from the invariant.

**`PacketProofs`**, for any secret, any exclusive or that satisfies
`AttributesAssumption`, any packets that requesters and responders build and any
foreign datagrams, of any number and size of attributes that
`PacketCodecAssumption` allows:

- `TypesHold`: `Spec => []TypeOK`, `StaysInside`: `Spec => []ParserInside`, and
  `AnswersSigned`: `Spec => []Signed`.
- `ForeignUnderstood`: `Spec => []Understood`, `ForeignRefused`:
  `Spec => []InvalidRefused`: datagrams of other implementations, with passwords of up
  to eight blocks and vendor attributes, are accepted exactly when they are valid, and
  then read as they were meant.
- `ArrivesAsSent`: `Spec => []RoundTrip`.
- `SentOnUnchanged`: `Spec => []Reencodes`: a packet that was received, from the library
  or from another implementation, is written as it came.  For the library's own the
  whole datagram is the same.  Of a foreign one each attribute is the same byte by byte,
  padding is dropped, and vendor attributes, which a packet keeps apart, come behind the
  others (`Regrouped`).  Packets that hold an `Integer` or an `Encrypted` are excluded,
  since the code writes other bytes for them than it read; the packets of the two tests
  that send on what was received are such packets.

All of them have the hypothesis `DigestTyped`: `Digest` returns 16 bytes.  It would be
an assumption on a constant if TLC could evaluate it for all sequences of bytes.
Nothing else is asked of `Digest`.  `ArrivesAsSent` has the hypothesis `ReadableMenus`
as well: users build neither `Integer` nor `Encrypted` attributes.  Without it it
is false, which is what the runs `integer_roundtrip` and `password_roundtrip` show;
`MenuAssumption` of `MCPacketCodec` evaluates it on the menus of the passing run.

None of the seven is inductive.  They speak of a parsed packet, while the loop is
between two attributes and the datagram is a sequence of bytes in which nothing
marks where an attribute begins.  The invariant `IInv` has two parts.  `Provenance`:
the buffer is `MakeSendBuffer` of what a requester or responder built, or
`ReceivedBytes` of a foreign datagram.  `Progress`: with `SentPieces`, the attributes
on the wire as a sequence of pieces, there is a `k` such that the loop stands
behind `k` pieces, none of which it had to refuse, and `parsed` is
`Read(buffer, SentPieces, k)`, which says without a loop what these pieces are read as
(theorem `Invariant`).  `LoopAt` and `LoopEnd` find the next piece at the loop's
position, `ReadStep` says what one more piece adds.

The rest is about operators.  `FlattenSeq`, `Encryption` and `Decryption` are
recursive functions, which TLA+ defines as `CHOOSE` of a function that fits its own
equation.  That one fits, and only one, needs induction over the length of the data;
the library's induction theorems are of no use here, since they take a
predicate as a parameter, but `SetInduction` derives induction for a set from the
well-foundedness of the naturals (`WFMin`), and `FlattenExists`,
`FlattenUnique`, `WritesExists` and `EncryptionOf` put the predicate into the set.
From them follow where a piece lies among the bytes (`FlatPiece`), how long
everything is (`BodyLength`, `SendBuffer`) and what reading undoes: `DecryptionOfHides`
(a hidden password of several blocks is uncovered up to its padding), `VendorRead`,
`AttributeReadBack`, `VendorReadBack`, `NumberPadded`.  `ItemRead` and `ForeignRead`
put this together for foreign datagrams, `SentRead` for the library's own.

`SentOnUnchanged` reads and writes in the other direction: `AttributeRewritten` and
`VendorRewritten` say that one piece is written as it was read, `FlattenMapped` that it
is then true of a sequence of them, and `OwnParts` and `ForeignParts` relate the pieces
of each kind to the datagram.

**`ServerProofs`**, for any dictionary files, any list of wanted attributes, any reply,
any datagrams and any room in the kernel's queue, from `RadiusServerAssumption`:

- `ServerTypes`: `Spec => []TypeOK`.
- `ServerKeyedTruthful`: `Spec => []KeyedTruthful`, a lookup by key finds what the lines of
  the file say, for every file that is not a `BadFile`.
- `ServerShowsTruth`: `Spec => []ShownTruthful`, and `ServerImplements`:
  `Spec => Service!Spec`, the safety part of the refinement that the run
  checks with fairness as `AnswersRequests`.

The two last have the hypothesis that every file is a `UsualFile`: it gives no wanted
attribute a code of class `Integer` or `Encrypted`, whose data are written in another
place than they are read from, and it gives the reply's attributes codes that
fit a byte.  Standard dictionaries do, for what `make_response` looks up (`Calling-` and
`Called-Station-Id`, `Framed-IP-Address`, `NAS-IP-Address`,
`Acct-Status-Type`, the attributes of vendors) and what it answers; `FilesAssumption` of `MCRadiusServer`
evaluates it on the run's files.

None of them is inductive, since they say nothing of the constructor, and the tables
and loops that the lookups go through say nothing of lines.  The invariant
(`ServerInvariant`) has one part per concern: what waits, what was taken, served and
posted (`QueueInv`, `ReplyInv`), what was shown last (`ShownInv`), and, for the
dictionary, `DictInv`, that it is `MadeOf` the lines read so far, and `ReadyInv`, that
before anything is served all lines of the file are read and no type waits for its
vendor.  `MadeOf` says of each table that it has an entry for each line and none that
is not a line's, and of the types that they are those of attributes under one key,
whichever was read last.  `LineMade` and `ResolveMade` say that a line and `resolve`
keep it, `TakenConflicts` that a line which is refused contradicts another.

From there on no property speaks of steps.  `FirstOne` says what a loop that
stops at the first match finds, `DecodeResult` what decoding ends with,
and `PlainLookup` and `VendorLookup` put them together with `MadeOf` (`KeyedPlain` and
`KeyedVendor` for the lookup by key, whose loops are others): a lookup finds the
first of the wanted attribute's `Places` exactly when there is one, fails exactly when
the file or the value `Unfit` for its type is to blame (`LookupIsRight`).
`FoundText` says that a found value is shown as it should be, through the sign
of an `int32_t` and the byte order of an address.  The reasons of the abstract
service follow one by one: `NotStartedRight` (the constructor throws), `PassedOverRight`
(an exception is caught), `GivenUpRight` (one leaves `run()`), `AnsweredRight` (the reply
is the one that belongs to the request).  In the refinement `ReadLine`, `Resolve` and `Take` are
stuttering steps, `Arrive` is a `Keep`, `FailToStart` a `NotStart`, `SendReply` a `Send`,
and a completion is an `Answer`, a `PassOver` or a `GiveUp` (`HandleSettles`).

Model-checked only: liveness (`EveryDatagramServed`, `EverySendReported`, the
fairness parts of `ServesDatagrams` and `AnswersRequests`), which needs `ENABLED`.
Every other property of a passing run is a theorem.

## Plan

Done: every component with state, the composition of the server, and proofs of every
safety property, every action property and both refinements but for their fairness.
What would be next:

1. Foreign datagrams with malformed framing (see the end), once it is settled what the
   parser should do with them.
2. `MS-TimeZone` and the other lookups of `make_response`.
3. Once the two attribute classes write where they should: `RoundTrip` for them,
   and passwords of packets that are signed anew (`src/src/packet.cpp:178`).

## Not modelled

- Splitting a line of a dictionary file into tokens, and with it lines that have
  too few of them and attributes with an OID, which the code skips.  A file that
  includes itself recurses until the stack is full; `MaxDepth` bounds it here.
- In `RadiusServer`: `$INCLUDE` (its lines are in their places; `DictionaryLoader`
  has the rest), sends that have to wait (`Socket` has them), `MS-TimeZone`, which
  is shown when it is not empty, the other lookups, and the command line.
- `toString` and the streams' formats; `as_int`, which nothing calls;
  `error.cpp`, a table of messages; `utils.cpp`, which formats a byte.
- Malformed framing: an attribute length below two or past the end of the datagram,
  or a header that announces fewer than 20 bytes, for which the loop is not entered and
  the packet has no attributes.
- The application's threads: the library itself starts none, and the socket is
  modelled with one thread in `run()`, as in the sample's `main`; calling
  `asyncSend` or `close` from another thread at the same moment is not modelled.
