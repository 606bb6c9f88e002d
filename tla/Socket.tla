------------------------------- MODULE Socket -------------------------------
(***************************************************************************)
(* radius_lite::Socket (src/src/socket.cpp) on the single-threaded         *)
(* io_service it is given: the receive loop, which shares one buffer and   *)
(* one endpoint among all completions, and asyncSend, which serialises the *)
(* packet at once but sends it from a posted handler.                      *)
(*                                                                         *)
(* A step of the run() thread is one whole handler.  The kernel and the    *)
(* reactor are external: they move datagrams and complete operations       *)
(* between handlers.  The application calls asyncSend and close between    *)
(* handlers, and may call asyncSend from the receive callback, as the      *)
(* sample server does.                                                     *)
(***************************************************************************)
EXTENDS Naturals, Sequences, FiniteSets

CONSTANTS
    Endpoints,      \* addresses of peers
    NoEndpoint,     \* the value of a default-constructed endpoint
    MaxDatagrams,   \* bound: datagrams that arrive
    MaxSends,       \* bound: calls of asyncSend
    MaxErrors,      \* bound: errors recvfrom reports on an open socket
    InboxCapacity,  \* datagrams the kernel keeps for the socket
    SendCapacity    \* datagrams the kernel accepts before it would block

ASSUME SocketAssumption ==
    /\ NoEndpoint \notin Endpoints
    /\ MaxDatagrams \in Nat /\ MaxSends \in Nat /\ MaxErrors \in Nat
    /\ InboxCapacity \in Nat \ {0}
    /\ SendCapacity \in Nat \ {0}

VARIABLES
    inbox,          \* kernel: datagrams received and not yet read
    outbox,         \* kernel: number of datagrams accepted and not yet gone
    open,           \* the socket is open
    ready,          \* io_service: handlers ready to run, oldest first
    recvOps,        \* reactor: receive operations that wait for data
    sendOps,        \* reactor: send operations that wait for room
    recvBuffer,     \* Socket::recv_buffer_: the datagram it holds
    remoteEndpoint, \* Socket::remote_endpoint_
    loop,           \* run(): "running", or "escaped" once an exception left it
    arrivals, calls, errors,    \* datagrams, asyncSend calls, errors so far
    beat,           \* history: parity of the completions on a closed socket
    handled,        \* history: what handle_receive_ did with each datagram
    wire,           \* history: datagrams given to the kernel, in order
    sendReports     \* history: calls of the callbacks of asyncSend

recvVars == <<inbox, recvOps, recvBuffer, remoteEndpoint>>
sendVars == <<outbox, sendOps, wire>>
vars == <<recvVars, sendVars, open, ready, loop,
          arrivals, calls, errors, beat, handled, sendReports>>

-----------------------------------------------------------------------------
(* Data.  What matters of a datagram is who sent it and what the Packet    *)
(* constructor does with it:                                               *)
(*   "valid"       it builds a packet                                      *)
(*   "malformed"   it throws radius_lite::Exception                        *)
(*   "short"       fewer than 20 bytes: the same, after a check of its own *)
(*   "unparsable"  it throws another exception (std::length_error)         *)
Forms == {"valid", "malformed", "short", "unparsable"}

Datagrams == [id : 1 .. MaxDatagrams, from : Endpoints, form : Forms]

NoDatagram == [id |-> 0, from |-> NoEndpoint, form |-> "short"]

(* A call of asyncSend: its number, its destination, and the datagram it   *)
(* answers (0 for a send that answers none).                               *)
Sends == [id : 1 .. MaxSends, to : Endpoints, re : 0 .. MaxDatagrams]

Codes == {"ok", "failed", "aborted", "badDescriptor"}

OrderReceive == [kind |-> "orderReceive"]
Received(ec) == [kind |-> "received", ec |-> ec]
Posted(s)    == [kind |-> "send", send |-> s]
Sent(s, ec)  == [kind |-> "sent", send |-> s, ec |-> ec]

ReceiveHandlers == {OrderReceive} \cup {Received(ec) : ec \in Codes}
SendHandlers == {Posted(s) : s \in Sends}
                    \cup {Sent(s, ec) : s \in Sends, ec \in Codes}
Handlers == ReceiveHandlers \cup SendHandlers

-----------------------------------------------------------------------------
(* Fault: the loop is started twice, or not at all. *)
InitialHandlers_Twice == <<OrderReceive, OrderReceive>>
InitialHandlers_None == <<>>

(* What the constructor posts: start_receive_loop_. *)
InitialHandlers == <<OrderReceive>>

Init ==
    /\ inbox = <<>> /\ outbox = 0
    /\ open = TRUE
    /\ ready = InitialHandlers
    /\ recvOps = 0 /\ sendOps = <<>>
    /\ recvBuffer = NoDatagram
    /\ remoteEndpoint = NoEndpoint
    /\ loop = "running"
    /\ arrivals = 0 /\ calls = 0 /\ errors = 0
    /\ beat = FALSE
    /\ handled = <<>> /\ wire = <<>> /\ sendReports = <<>>

-----------------------------------------------------------------------------
(* Receiving.                                                              *)

(* order_receive_, with q the handlers ready once the running one is done: *)
(* asio fails at once on a closed socket; with no other operation waiting  *)
(* it tries recvfrom at once, which fails or reads a datagram; and else it *)
(* leaves the operation to the reactor.                                    *)
StartReceive(q) ==
    \/ /\ ~open
       /\ ready' = Append(q, Received("badDescriptor"))
       /\ UNCHANGED <<recvVars, errors>>
    \/ /\ open /\ recvOps = 0 /\ errors < MaxErrors
       /\ errors' = errors + 1
       /\ ready' = Append(q, Received("failed"))
       /\ UNCHANGED recvVars
    \/ /\ open /\ recvOps = 0 /\ inbox # <<>>
       /\ recvBuffer' = Head(inbox)
       /\ remoteEndpoint' = Head(inbox).from
       /\ inbox' = Tail(inbox)
       /\ ready' = Append(q, Received("ok"))
       /\ UNCHANGED <<recvOps, errors>>
    \/ /\ open /\ (recvOps > 0 \/ inbox = <<>>)
       /\ recvOps' = recvOps + 1
       /\ ready' = q
       /\ UNCHANGED <<inbox, recvBuffer, remoteEndpoint, errors>>

(* Fault: the check of the error code is inverted.                         *)
ErrorCalls_Inverted(ec, form) ==
    (IF ec = "ok" THEN <<"error">> ELSE <<>>)
        \o (IF ec # "ok" \/ form = "short" THEN <<"tooShort">> ELSE <<>>)

(* The calls of the callback before the try block: none of them returns    *)
(* from handle_receive_.  A completion with an error carries 0 bytes.      *)
ErrorCalls(ec, form) ==
    (IF ec # "ok" THEN <<"error">> ELSE <<>>)
        \o (IF ec # "ok" \/ form = "short" THEN <<"tooShort">> ELSE <<>>)

(* The try block: the packet is built, which may throw; the callback that  *)
(* gets it may send a reply, and may throw, inside the same try block; a   *)
(* radius_lite::Exception of either leads to one more call.                *)
TryBlock(ec, form) ==
    IF ec = "ok" /\ form = "valid"
    THEN {[calls |-> <<"packet">>, reply |-> r, escapes |-> x] :
              r, x \in BOOLEAN}
         \cup {[calls |-> <<"packet", "exception">>, reply |-> r, escapes |-> x] :
              r, x \in BOOLEAN}
    ELSE IF ec = "ok" /\ form = "unparsable"
    THEN {[calls |-> <<>>, reply |-> FALSE, escapes |-> TRUE]}
    ELSE {[calls |-> <<"exception">>, reply |-> FALSE, escapes |-> x] :
              x \in BOOLEAN}

(* Every way handle_receive_ can go: a callback that throws before the try *)
(* block leaves at once, the rest ends as the try block does.              *)
Executions(ec, form) ==
    LET before == ErrorCalls(ec, form)
    IN  {[calls |-> SubSeq(before, 1, n), reply |-> FALSE, escapes |-> TRUE] :
              n \in 1 .. Len(before)}
        \cup {[calls |-> before \o t.calls, reply |-> t.reply,
               escapes |-> t.escapes] : t \in TryBlock(ec, form)}

(* Fault: the handler is posted twice. *)
Post_Twice(q, to, re) ==
    LET s == Posted([id |-> calls + 1, to |-> to, re |-> re])
    IN  q \o <<s, s>>

(* Fault: the handler goes before those that wait. *)
Post_First(q, to, re) ==
    <<Posted([id |-> calls + 1, to |-> to, re |-> re])>> \o q

(* asyncSend, called while q is the queue of handlers: the bytes and the   *)
(* destination are copied into the posted handler.                         *)
Post(q, to, re) == Append(q, Posted([id |-> calls + 1, to |-> to, re |-> re]))

(* The handler posted by the constructor. *)
RunOrderReceive ==
    /\ loop = "running" /\ ready # <<>>
    /\ Head(ready).kind = "orderReceive"
    /\ StartReceive(Tail(ready))
    /\ UNCHANGED <<sendVars, open, loop, arrivals, calls, beat, handled,
                   sendReports>>

(* The completion of a receive: handle_receive_, then order_receive_ again *)
(* unless an exception got out of handle_receive_.                         *)
RunReceived ==
    /\ loop = "running" /\ ready # <<>>
    /\ Head(ready).kind = "received"
    /\ \E x \in Executions(Head(ready).ec, recvBuffer.form) :
         LET q == IF x.reply
                  THEN Post(Tail(ready), remoteEndpoint, recvBuffer.id)
                  ELSE Tail(ready)
         IN  /\ x.reply => calls < MaxSends
             /\ calls' = IF x.reply THEN calls + 1 ELSE calls
             /\ beat' = IF Head(ready).ec = "badDescriptor" THEN ~beat ELSE beat
             /\ handled' = IF Head(ready).ec = "ok"
                           THEN Append(handled, [datagram |-> recvBuffer,
                                                 source |-> remoteEndpoint,
                                                 calls |-> x.calls])
                           ELSE handled
             /\ \/ /\ x.escapes
                   /\ loop' = "escaped"
                   /\ ready' = q
                   /\ UNCHANGED <<recvVars, errors>>
                \/ /\ ~x.escapes
                   /\ StartReceive(q)
                   /\ UNCHANGED loop
    /\ UNCHANGED <<sendVars, open, arrivals, sendReports>>

-----------------------------------------------------------------------------
(* Sending.                                                                *)

(* The application calls asyncSend outside the receive callback. *)
AsyncSend ==
    /\ loop = "running"
    /\ calls < MaxSends
    /\ calls' = calls + 1
    /\ \E to \in Endpoints : ready' = Post(ready, to, 0)
    /\ UNCHANGED <<recvVars, sendVars, open, loop, arrivals, errors,
                   beat, handled, sendReports>>

(* Fault: the handler refers to the caller's endpoint instead of copying it, *)
(* which for a reply is Socket::remote_endpoint_.                          *)
Destination_Shared(s) == IF s.re = 0 THEN s.to ELSE remoteEndpoint

(* Where async_send_to sends: the copy of the destination in the handler. *)
Destination(s) == s.to

(* The bytes async_send_to reads while the posted handler runs: its own    *)
(* copy of the serialised packet.                                          *)
BytesInHandler == {"intact"}

(* The bytes the reactor reads later: the posted handler, and the vector   *)
(* in it, are gone, and what a freed block holds is anybody's guess.       *)
BytesAfterHandler == {"intact", "garbage"}

(* The kernel takes send s now, or refuses it for good.                    *)
Transmit(s, bytes, q) ==
    \/ /\ \E b \in bytes :
            wire' = Append(wire, [id |-> s.id, to |-> Destination(s),
                                  re |-> s.re, bytes |-> b])
       /\ outbox' = outbox + 1
       /\ ready' = Append(q, Sent(s, "ok"))
    \/ /\ ready' = Append(q, Sent(s, "failed"))
       /\ UNCHANGED <<wire, outbox>>

(* The posted handler of asyncSend: async_send_to. *)
RunSend ==
    /\ loop = "running" /\ ready # <<>>
    /\ Head(ready).kind = "send"
    /\ LET s == Head(ready).send
       IN  \/ /\ ~open
              /\ ready' = Append(Tail(ready), Sent(s, "badDescriptor"))
              /\ UNCHANGED sendVars
           \/ /\ open /\ sendOps = <<>> /\ outbox < SendCapacity
              /\ Transmit(s, BytesInHandler, Tail(ready))
              /\ UNCHANGED sendOps
           \/ /\ open /\ (sendOps # <<>> \/ outbox = SendCapacity)
              /\ sendOps' = Append(sendOps, s)
              /\ ready' = Tail(ready)
              /\ UNCHANGED <<wire, outbox>>
    /\ UNCHANGED <<recvVars, open, loop, arrivals, calls, errors,
                   beat, handled, sendReports>>

(* Fault: the error code is not passed on. *)
ReportedCode_Dropped(ec) == "ok"

(* What handle_send_ tells the callback. *)
ReportedCode(ec) == ec

(* The completion of a send: handle_send_, whose callback may throw. *)
RunSent ==
    /\ loop = "running" /\ ready # <<>>
    /\ Head(ready).kind = "sent"
    /\ sendReports' = Append(sendReports, [id |-> Head(ready).send.id,
                                           ec |-> ReportedCode(Head(ready).ec)])
    /\ ready' = Tail(ready)
    /\ loop' \in {"running", "escaped"}
    /\ UNCHANGED <<recvVars, sendVars, open, arrivals, calls, errors, beat,
                   handled>>

-----------------------------------------------------------------------------
(* Faults: the operations that wait are left to the reactor, or they are   *)
(* forgotten.                                                              *)
Aborted_None == ready
Aborted_Reads == ready \o [i \in 1 .. recvOps |-> Received("aborted")]
KeptSends_All == sendOps

(* The handlers close makes ready, and the sends it leaves waiting. *)
Aborted == ready \o [i \in 1 .. recvOps |-> Received("aborted")]
                 \o [i \in 1 .. Len(sendOps) |-> Sent(sendOps[i], "aborted")]
KeptSends == <<>>

(* close: the reactor completes what waits with operation_aborted, reads   *)
(* before writes, and the kernel throws away what nobody read.  A second   *)
(* close changes nothing.                                                  *)
Close ==
    /\ loop = "running"
    /\ open
    /\ open' = FALSE
    /\ inbox' = <<>>
    /\ recvOps' = 0
    /\ sendOps' = KeptSends
    /\ ready' = Aborted
    /\ UNCHANGED <<recvBuffer, remoteEndpoint, outbox, wire, loop,
                   arrivals, calls, errors, beat, handled, sendReports>>

-----------------------------------------------------------------------------
(* The kernel and the reactor.                                             *)

(* A datagram arrives; one that finds the inbox full is dropped. *)
Arrive ==
    /\ loop = "running" /\ open
    /\ arrivals < MaxDatagrams
    /\ arrivals' = arrivals + 1
    /\ \E from \in Endpoints, form \in Forms :
         inbox' = IF Len(inbox) < InboxCapacity
                  THEN Append(inbox, [id |-> arrivals + 1, from |-> from,
                                      form |-> form])
                  ELSE inbox
    /\ UNCHANGED <<recvOps, recvBuffer, remoteEndpoint, sendVars, open, ready,
                   loop, calls, errors, beat, handled, sendReports>>

(* The reactor performs a waiting receive. *)
ReactorReceive ==
    /\ loop = "running"
    /\ recvOps > 0 /\ inbox # <<>>
    /\ recvOps' = recvOps - 1
    /\ recvBuffer' = Head(inbox)
    /\ remoteEndpoint' = Head(inbox).from
    /\ inbox' = Tail(inbox)
    /\ ready' = Append(ready, Received("ok"))
    /\ UNCHANGED <<sendVars, open, loop, arrivals, calls, errors,
                   beat, handled, sendReports>>

(* recvfrom fails: the buffer and the endpoint keep what they held. *)
ReactorReceiveError ==
    /\ loop = "running"
    /\ recvOps > 0 /\ errors < MaxErrors
    /\ errors' = errors + 1
    /\ recvOps' = recvOps - 1
    /\ ready' = Append(ready, Received("failed"))
    /\ UNCHANGED <<inbox, recvBuffer, remoteEndpoint, sendVars, open, loop,
                   arrivals, calls, beat, handled, sendReports>>

(* The reactor performs the oldest waiting send. *)
ReactorSend ==
    /\ loop = "running"
    /\ sendOps # <<>> /\ outbox < SendCapacity
    /\ sendOps' = Tail(sendOps)
    /\ Transmit(Head(sendOps), BytesAfterHandler, ready)
    /\ UNCHANGED <<recvVars, open, loop, arrivals, calls, errors,
                   beat, handled, sendReports>>

(* The network takes a datagram from the kernel. *)
Drain ==
    /\ outbox > 0
    /\ outbox' = outbox - 1
    /\ UNCHANGED <<recvVars, sendOps, wire, open, ready, loop,
                   arrivals, calls, errors, beat, handled, sendReports>>

RunHandler == RunOrderReceive \/ RunReceived \/ RunSend \/ RunSent

Next ==
    \/ RunOrderReceive
    \/ RunReceived
    \/ AsyncSend
    \/ RunSend
    \/ RunSent
    \/ Close
    \/ Arrive
    \/ ReactorReceive
    \/ ReactorReceiveError
    \/ ReactorSend
    \/ Drain

Spec == Init /\ [][Next]_vars

(* run() takes ready handlers and polls the reactor; the network drains.   *)
(* Nothing makes a peer send, recvfrom fail or the application close.      *)
Fairness ==
    /\ WF_vars(RunHandler)
    /\ WF_vars(ReactorReceive)
    /\ WF_vars(ReactorSend)
    /\ WF_vars(Drain)

FairSpec == Spec /\ Fairness

-----------------------------------------------------------------------------
(* Properties.                                                             *)

IsReceive(i) == ready[i].kind \in {"orderReceive", "received"}
IsTaken(i) == ready[i] = Received("ok")

(* Every variable has its type. *)
TypeOK ==
    /\ inbox \in Seq(Datagrams) /\ Len(inbox) <= InboxCapacity
    /\ outbox \in 0 .. SendCapacity
    /\ open \in BOOLEAN
    /\ ready \in Seq(Handlers)
    /\ recvOps \in Nat
    /\ sendOps \in Seq(Sends)
    /\ recvBuffer \in Datagrams \cup {NoDatagram}
    /\ remoteEndpoint \in Endpoints \cup {NoEndpoint}
    /\ loop \in {"running", "escaped"}
    /\ arrivals \in 0 .. MaxDatagrams
    /\ calls \in 0 .. MaxSends
    /\ errors \in 0 .. MaxErrors
    /\ beat \in BOOLEAN
    /\ handled \in Seq([datagram : Datagrams, source : Endpoints,
                        calls : Seq({"tooShort", "exception", "packet"})])
    /\ wire \in Seq([id : 1 .. MaxSends, to : Endpoints, re : 0 .. MaxDatagrams,
                     bytes : {"intact", "garbage"}])
    /\ sendReports \in Seq([id : 1 .. MaxSends, ec : Codes])

(* At any time at most one receive is under way, whether as a handler or   *)
(* as an operation of the reactor, so one buffer and one endpoint suffice. *)
OneReceiver ==
    /\ recvOps <= 1
    /\ \A i, j \in DOMAIN ready : IsReceive(i) /\ IsReceive(j) => i = j
    /\ recvOps = 1 => \A i \in DOMAIN ready : ~IsReceive(i)

(* As long as run() has not been left by an exception a receive is under   *)
(* way: no error, no reply and no close breaks the chain.                  *)
ReceiverAlive ==
    loop = "running" => recvOps = 1 \/ \E i \in DOMAIN ready : IsReceive(i)

(* Between the completion of a receive and its handler nothing overwrites  *)
(* recv_buffer_ and remote_endpoint_: only the step that handles the       *)
(* datagram may bring the next one.                                        *)
BufferStable ==
    [][(\E i \in DOMAIN ready : IsTaken(i)) /\ handled' = handled
          => UNCHANGED <<recvBuffer, remoteEndpoint>>]_vars

(* Every call of asyncSend is in exactly one place: its posted handler, an *)
(* operation of the reactor, its completion, or a call of its callback.    *)
SendConservation ==
    \A id \in 1 .. MaxSends :
        Cardinality({i \in DOMAIN ready :
                        ~IsReceive(i) /\ ready[i].send.id = id})
          + Cardinality({i \in DOMAIN sendOps : sendOps[i].id = id})
          + Cardinality({i \in DOMAIN sendReports : sendReports[i].id = id})
        = IF id <= calls THEN 1 ELSE 0

(* Datagrams leave in the order of the calls of asyncSend, each once, also *)
(* when the kernel blocks and replies mix with sends of the application.   *)
SendsKeepOrder ==
    \A i, j \in DOMAIN wire : i < j => wire[i].id < wire[j].id

(* The callback of asyncSend is told of success exactly when the kernel    *)
(* got the datagram.                                                       *)
SendReportsTruthful ==
    \A i \in DOMAIN sendReports :
        sendReports[i].ec = "ok"
            <=> \E k \in DOMAIN wire : wire[k].id = sendReports[i].id

(* A reply goes to the peer whose datagram it answers, although the        *)
(* endpoint the callback sees is the shared remote_endpoint_ and the next  *)
(* datagram may have changed it by the time the reply is sent.             *)
RepliesGoToSender ==
    \A k \in DOMAIN wire : wire[k].re # 0 =>
        \E i \in DOMAIN handled :
            /\ handled[i].datagram.id = wire[k].re
            /\ handled[i].datagram.from = wire[k].to
            /\ \E n \in DOMAIN handled[i].calls : handled[i].calls[n] = "packet"

(* After close nothing is sent, and of the datagrams at most the one that  *)
(* was already read is still handed to the callback.                       *)
ClosedIsSilent ==
    [][~open => /\ wire' = wire
                /\ handled' # handled =>
                       \A i \in DOMAIN ready' : ready'[i] # Received("ok")]_vars

(* What reaches the kernel is what makeSendBuffer produced. *)
SentIntact == \A k \in DOMAIN wire : wire[k].bytes = "intact"

(* A datagram the kernel kept is handed over, unless the socket is closed  *)
(* or a callback lets an exception out; receive errors do not prevent it.  *)
EveryDatagramServed ==
    \A id \in 1 .. MaxDatagrams :
        (\E i \in DOMAIN inbox : inbox[i].id = id)
            ~> \/ \E i \in DOMAIN handled : handled[i].datagram.id = id
               \/ ~open
               \/ loop = "escaped"

(* The callback of every asyncSend is called, also when the socket is      *)
(* closed first, unless a callback lets an exception out of run().         *)
EverySendReported ==
    \A id \in 1 .. MaxSends :
        (id <= calls) ~> \/ \E i \in DOMAIN sendReports : sendReports[i].id = id
                         \/ loop = "escaped"

(* run() returns once nothing is left to do. *)
Quiescent == ready = <<>> /\ recvOps = 0 /\ sendOps = <<>>
RunReturns == <>(Quiescent \/ loop = "escaped")

(* The socket is a serial datagram server: the buffer holds the datagram   *)
(* taken while the completion that will hand it over waits.                *)
Service == INSTANCE DatagramService WITH
    Room <- InboxCapacity,
    waiting <- inbox,
    taken <- IF \E i \in DOMAIN ready : IsTaken(i) THEN <<recvBuffer>> ELSE <<>>,
    served <- [i \in DOMAIN handled |-> [datagram |-> handled[i].datagram,
                                         source |-> handled[i].source]],
    status <- IF loop = "escaped" THEN "ended"
              ELSE IF open THEN "open" ELSE "closed"

(* Datagrams are served in the order they were kept, one at a time, each   *)
(* with the address of its own sender, and none is left in the buffer.     *)
ServesDatagrams == Service!FairSpec

=============================================================================
