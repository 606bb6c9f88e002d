---------------------------- MODULE SocketProofs ----------------------------
(***************************************************************************)
(* Theorems about Socket.tla, for every set of peers and every bound: the  *)
(* receive loop lives and is alone, the buffer is stable while it is used, *)
(* each call of asyncSend is in one place, datagrams leave in the order of *)
(* the calls, the callbacks are told the truth, replies go to the sender,  *)
(* a closed socket is silent, and the socket is the serial server of       *)
(* DatagramService.                                                        *)
(***************************************************************************)
EXTENDS Socket, SequenceTheorems, FiniteSetTheorems, TLAPS

-----------------------------------------------------------------------------
(* Handlers are told apart by their kind. *)
LEMMA HandlerKinds ==
    /\ \A h \in ReceiveHandlers : h.kind \in {"orderReceive", "received"}
    /\ \A h \in SendHandlers : h.kind \in {"send", "sent"} /\ h.send \in Sends
    /\ \A h \in Handlers : h.kind = "received" => h.ec \in Codes
    /\ \A h \in Handlers : h.kind = "sent" => h.ec \in Codes
    /\ \A h \in Handlers :
          h.kind \in {"orderReceive", "received"} <=> h \in ReceiveHandlers
    /\ \A h \in Handlers : h.kind \in {"send", "sent"} <=> h \in SendHandlers
BY DEF ReceiveHandlers, SendHandlers, Handlers, OrderReceive, Received,
       Posted, Sent

(* What handle_receive_ can do with a datagram: a reply implies that the   *)
(* datagram was received, and the calls are of the known kinds.            *)
LEMMA ExecutionsType ==
    ASSUME NEW ec \in Codes, NEW form, NEW x \in Executions(ec, form)
    PROVE  /\ x.reply \in BOOLEAN /\ x.escapes \in BOOLEAN
           /\ x.reply => ec = "ok"
           /\ ec = "ok" => x.calls \in Seq({"tooShort", "exception", "packet"})
<1> DEFINE K == {"tooShort", "exception", "packet"}
<1>1. /\ <<>> \in Seq(K) /\ <<"tooShort">> \in Seq(K) /\ <<"exception">> \in Seq(K)
      /\ <<"packet">> \in Seq(K) /\ <<"packet", "exception">> \in Seq(K)
  OBVIOUS
<1>2. ec = "ok" => ErrorCalls(ec, form) \in Seq(K)
  <2>1. CASE form = "short"
    BY <2>1, <1>1, ConcatProperties DEF ErrorCalls
  <2>2. CASE form # "short"
    BY <2>2, <1>1, ConcatProperties DEF ErrorCalls
  <2> QED BY <2>1, <2>2
<1>3. ASSUME NEW n \in 1 .. Len(ErrorCalls(ec, form)), ec = "ok"
      PROVE  SubSeq(ErrorCalls(ec, form), 1, n) \in Seq(K)
  BY <1>2, <1>3, SubSeqProperties
<1>4. ASSUME NEW t \in TryBlock(ec, form)
      PROVE  /\ t.reply \in BOOLEAN /\ t.escapes \in BOOLEAN
             /\ t.reply => ec = "ok"
             /\ t.calls \in Seq(K)
  <2>1. PICK r \in BOOLEAN, e \in BOOLEAN, c \in Seq(K) :
             /\ t = [calls |-> c, reply |-> r, escapes |-> e]
             /\ r => ec = "ok"
    <3>1. CASE ec = "ok" /\ form = "valid"
      <4>1. PICK r \in BOOLEAN, e \in BOOLEAN :
               \/ t = [calls |-> <<"packet">>, reply |-> r, escapes |-> e]
               \/ t = [calls |-> <<"packet", "exception">>, reply |-> r,
                       escapes |-> e]
        BY <3>1 DEF TryBlock
      <4> QED BY <4>1, <3>1, <1>1
    <3>2. CASE ec = "ok" /\ form = "unparsable"
      <4>1. t = [calls |-> <<>>, reply |-> FALSE, escapes |-> TRUE]
        BY <3>2 DEF TryBlock
      <4> QED BY <4>1, <1>1
    <3>3. CASE ~(ec = "ok" /\ form \in {"valid", "unparsable"})
      <4>1. PICK e \in BOOLEAN :
               t = [calls |-> <<"exception">>, reply |-> FALSE, escapes |-> e]
        BY <3>3 DEF TryBlock
      <4> QED BY <4>1, <1>1
    <3> QED BY <3>1, <3>2, <3>3
  <2> QED BY <2>1
<1>5. CASE \E n \in 1 .. Len(ErrorCalls(ec, form)) :
             x = [calls |-> SubSeq(ErrorCalls(ec, form), 1, n),
                  reply |-> FALSE, escapes |-> TRUE]
  BY <1>3, <1>5
<1>6. CASE \E t \in TryBlock(ec, form) :
             x = [calls |-> ErrorCalls(ec, form) \o t.calls,
                  reply |-> t.reply, escapes |-> t.escapes]
  <2>1. PICK t \in TryBlock(ec, form) :
             x = [calls |-> ErrorCalls(ec, form) \o t.calls,
                  reply |-> t.reply, escapes |-> t.escapes]
    BY <1>6
  <2>2. ec = "ok" => ErrorCalls(ec, form) \o t.calls \in Seq(K)
    BY <1>2, <1>4, ConcatProperties
  <2> QED BY <2>1, <2>2, <1>4
<1> QED BY <1>5, <1>6 DEF Executions

-----------------------------------------------------------------------------
(* Type correctness.                                                       *)

(* The type of handled needs to know that a datagram is in the buffer when *)
(* a successful completion waits: a queue with such a completion comes     *)
(* with a filled buffer.                                                   *)
Untaken == Handlers \ {Received("ok")}

BufferFilled ==
    \/ ready \in Seq(Untaken)
    \/ recvBuffer \in Datagrams /\ remoteEndpoint \in Endpoints

TypeInv == TypeOK /\ BufferFilled

LEMMA HandlerTypes ==
    /\ OrderReceive \in Untaken
    /\ \A ec \in Codes : Received(ec) \in Handlers
    /\ \A ec \in Codes \ {"ok"} : Received(ec) \in Untaken
    /\ \A s \in Sends : Posted(s) \in Untaken
    /\ \A s \in Sends, ec \in Codes : Sent(s, ec) \in Untaken
    /\ Untaken \subseteq Handlers
<1>1. /\ \A ec \in Codes : Received(ec) \in Handlers
      /\ \A s \in Sends : Posted(s) \in Handlers
      /\ \A s \in Sends, ec \in Codes : Sent(s, ec) \in Handlers
      /\ OrderReceive \in Handlers
  BY DEF Handlers, ReceiveHandlers, SendHandlers
<1>2. /\ \A ec \in Codes \ {"ok"} : Received(ec) # Received("ok")
      /\ OrderReceive # Received("ok")
      /\ \A s \in Sends : Posted(s) # Received("ok")
      /\ \A s \in Sends, ec \in Codes : Sent(s, ec) # Received("ok")
  <2>1. ASSUME NEW ec \in Codes PROVE Received(ec).ec = ec
    BY DEF Received
  <2>2. /\ OrderReceive.kind # Received("ok").kind
        /\ \A s \in Sends : Posted(s).kind # Received("ok").kind
        /\ \A s \in Sends, ec \in Codes : Sent(s, ec).kind # Received("ok").kind
    BY DEF OrderReceive, Received, Posted, Sent
  <2> QED BY <2>1, <2>2 DEF Codes
<1> QED BY <1>1, <1>2 DEF Untaken

(* Starting a receive keeps the types, whatever handlers q are ready. *)
LEMMA StartReceiveType ==
    ASSUME TypeOK, NEW q \in Seq(Handlers),
           q \in Seq(Untaken) \/ (recvBuffer \in Datagrams
                                    /\ remoteEndpoint \in Endpoints),
           StartReceive(q)
    PROVE  /\ inbox' \in Seq(Datagrams) /\ Len(inbox') <= InboxCapacity
           /\ ready' \in Seq(Handlers)
           /\ recvOps' \in Nat
           /\ recvBuffer' \in Datagrams \cup {NoDatagram}
           /\ remoteEndpoint' \in Endpoints \cup {NoEndpoint}
           /\ errors' \in 0 .. MaxErrors
           /\ BufferFilled'
<1> USE DEF TypeOK, BufferFilled
<1>0. errors' \in 0 .. MaxErrors
  BY SocketAssumption DEF StartReceive
<1>1. CASE UNCHANGED recvVars /\ \E ec \in {"badDescriptor", "failed"} :
                                     ready' = Append(q, Received(ec))
  <2>1. PICK ec \in {"badDescriptor", "failed"} : ready' = Append(q, Received(ec))
    BY <1>1
  <2>2. Received(ec) \in Untaken
    BY HandlerTypes DEF Codes
  <2>3. ready' \in Seq(Handlers) /\ (q \in Seq(Untaken) => ready' \in Seq(Untaken))
    BY <2>1, <2>2, AppendProperties, HandlerTypes
  <2> QED BY <1>0, <1>1, <2>3 DEF recvVars
<1>2. CASE /\ open /\ recvOps = 0 /\ inbox # <<>>
           /\ recvBuffer' = Head(inbox)
           /\ remoteEndpoint' = Head(inbox).from
           /\ inbox' = Tail(inbox)
           /\ ready' = Append(q, Received("ok"))
           /\ UNCHANGED recvOps
  <2>1. /\ Head(inbox) \in Datagrams /\ Tail(inbox) \in Seq(Datagrams)
        /\ Len(Tail(inbox)) = Len(inbox) - 1
    BY <1>2, HeadTailProperties
  <2>2. Len(inbox) \in Nat /\ Len(Tail(inbox)) <= InboxCapacity
    BY <2>1, LenProperties, SocketAssumption
  <2>3. Head(inbox).from \in Endpoints
    BY <2>1 DEF Datagrams
  <2>4. ready' \in Seq(Handlers)
    BY <1>2, AppendProperties, HandlerTypes DEF Codes
  <2> QED BY <1>0, <1>2, <2>1, <2>2, <2>3, <2>4
<1>3. CASE /\ open /\ (recvOps > 0 \/ inbox = <<>>)
           /\ recvOps' = recvOps + 1
           /\ ready' = q
           /\ UNCHANGED <<inbox, recvBuffer, remoteEndpoint>>
  BY <1>0, <1>3
<1> QED BY <1>1, <1>2, <1>3 DEF StartReceive

(* Giving a send to the kernel keeps the types. *)
LEMMA TransmitType ==
    ASSUME TypeOK, NEW s \in Sends, NEW q \in Seq(Handlers),
           NEW bytes \in SUBSET {"intact", "garbage"}, outbox < SendCapacity,
           Transmit(s, bytes, q)
    PROVE  /\ outbox' \in 0 .. SendCapacity
           /\ wire' \in Seq([id : 1 .. MaxSends, to : Endpoints,
                             re : 0 .. MaxDatagrams, bytes : {"intact", "garbage"}])
           /\ ready' \in Seq(Handlers)
           /\ q \in Seq(Untaken) => ready' \in Seq(Untaken)
<1> DEFINE W == [id : 1 .. MaxSends, to : Endpoints,
                 re : 0 .. MaxDatagrams, bytes : {"intact", "garbage"}]
<1>1. \A ec \in {"ok", "failed"} :
          /\ Append(q, Sent(s, ec)) \in Seq(Handlers)
          /\ q \in Seq(Untaken) => Append(q, Sent(s, ec)) \in Seq(Untaken)
  BY HandlerTypes, AppendProperties DEF Codes
<1>2. CASE /\ \E b \in bytes :
                 wire' = Append(wire, [id |-> s.id, to |-> Destination(s),
                                       re |-> s.re, bytes |-> b])
           /\ outbox' = outbox + 1
           /\ ready' = Append(q, Sent(s, "ok"))
  <2>1. PICK b \in bytes :
          wire' = Append(wire, [id |-> s.id, to |-> Destination(s),
                                re |-> s.re, bytes |-> b])
    BY <1>2
  <2>2. [id |-> s.id, to |-> Destination(s), re |-> s.re, bytes |-> b] \in W
    BY DEF Sends, Destination
  <2>3. wire' \in Seq(W)
    BY <2>1, <2>2, AppendProperties DEF TypeOK
  <2>4. outbox' \in 0 .. SendCapacity
    BY <1>2, SocketAssumption DEF TypeOK
  <2> QED BY <1>1, <1>2, <2>3, <2>4
<1>3. CASE /\ ready' = Append(q, Sent(s, "failed"))
           /\ UNCHANGED <<wire, outbox>>
  BY <1>1, <1>3 DEF TypeOK
<1> QED BY <1>2, <1>3 DEF Transmit

(* Posting a send keeps the queue well typed. *)
LEMMA PostType ==
    ASSUME TypeOK, calls < MaxSends, NEW q \in Seq(Handlers),
           NEW to \in Endpoints, NEW re \in 0 .. MaxDatagrams
    PROVE  /\ Post(q, to, re) \in Seq(Handlers)
           /\ q \in Seq(Untaken) => Post(q, to, re) \in Seq(Untaken)
<1>1. [id |-> calls + 1, to |-> to, re |-> re] \in Sends
  BY SocketAssumption DEF TypeOK, Sends
<1> QED BY <1>1, HandlerTypes, AppendProperties DEF Post

(* The handler at the head of the queue, and the queue without it. *)
LEMMA HeadTailType ==
    ASSUME TypeInv, ready # <<>>
    PROVE  /\ Head(ready) \in Handlers
           /\ Tail(ready) \in Seq(Handlers)
           /\ Tail(ready) \in Seq(Untaken)
                \/ (recvBuffer \in Datagrams /\ remoteEndpoint \in Endpoints)
           /\ Head(ready).kind = "received" /\ Head(ready).ec = "ok"
                => recvBuffer \in Datagrams /\ remoteEndpoint \in Endpoints
<1> USE DEF TypeInv, TypeOK, BufferFilled
<1>1. Head(ready) \in Handlers /\ Tail(ready) \in Seq(Handlers)
  BY HeadTailProperties
<1>2. ready \in Seq(Untaken) => Head(ready) \in Untaken /\ Tail(ready) \in Seq(Untaken)
  BY HeadTailProperties
<1>3. ASSUME Head(ready).kind = "received", Head(ready).ec = "ok"
      PROVE  Head(ready) = Received("ok")
  BY <1>1, <1>3 DEF Handlers, ReceiveHandlers, SendHandlers, OrderReceive,
       Received, Posted, Sent
<1> QED BY <1>1, <1>2, <1>3 DEF Untaken

LEMMA InitType == Init => TypeInv
<1> SUFFICES ASSUME Init PROVE TypeInv
  OBVIOUS
<1> USE SocketAssumption DEF Init
<1>1. ready \in Seq(Handlers) /\ ready \in Seq(Untaken)
  BY HandlerTypes DEF InitialHandlers
<1>2. /\ inbox \in Seq(Datagrams) /\ Len(inbox) <= InboxCapacity
      /\ sendOps \in Seq(Sends)
  BY EmptySeq
<1>3. /\ handled \in Seq([datagram : Datagrams, source : Endpoints,
                          calls : Seq({"tooShort", "exception", "packet"})])
      /\ wire \in Seq([id : 1 .. MaxSends, to : Endpoints, re : 0 .. MaxDatagrams,
                       bytes : {"intact", "garbage"}])
      /\ sendReports \in Seq([id : 1 .. MaxSends, ec : Codes])
  BY EmptySeq
<1>4. /\ outbox \in 0 .. SendCapacity /\ arrivals \in 0 .. MaxDatagrams
      /\ calls \in 0 .. MaxSends /\ errors \in 0 .. MaxErrors
      /\ recvOps \in Nat
      /\ recvBuffer \in Datagrams \cup {NoDatagram}
      /\ remoteEndpoint \in Endpoints \cup {NoEndpoint}
      /\ loop \in {"running", "escaped"}
  OBVIOUS
<1>5. open \in BOOLEAN /\ beat \in BOOLEAN
  OBVIOUS
<1> QED BY <1>1, <1>2, <1>3, <1>4, <1>5 DEF TypeInv, TypeOK, BufferFilled

LEMMA RunReceivedType == TypeInv /\ RunReceived => TypeInv'
<1> SUFFICES ASSUME TypeInv, RunReceived PROVE TypeInv'
  OBVIOUS
<1> DEFINE h == Head(ready)
<1>1. /\ h \in Handlers /\ Tail(ready) \in Seq(Handlers)
      /\ h.kind = "received" /\ h.ec \in Codes
      /\ Tail(ready) \in Seq(Untaken)
            \/ (recvBuffer \in Datagrams /\ remoteEndpoint \in Endpoints)
      /\ h.ec = "ok" => recvBuffer \in Datagrams /\ remoteEndpoint \in Endpoints
  BY HeadTailType, HandlerKinds DEF RunReceived
<1>2. PICK x \in Executions(h.ec, recvBuffer.form) :
        LET q == IF x.reply
                 THEN Post(Tail(ready), remoteEndpoint, recvBuffer.id)
                 ELSE Tail(ready)
        IN  /\ x.reply => calls < MaxSends
            /\ calls' = IF x.reply THEN calls + 1 ELSE calls
            /\ beat' = IF h.ec = "badDescriptor" THEN ~beat ELSE beat
            /\ handled' = IF h.ec = "ok"
                          THEN Append(handled, [datagram |-> recvBuffer,
                                                source |-> remoteEndpoint,
                                                calls |-> x.calls])
                          ELSE handled
            /\ \/ /\ x.escapes
                  /\ loop' = "escaped"
                  /\ ready' = q
                  /\ UNCHANGED <<recvVars, errors>>
               \/ /\ ~x.escapes
                  /\ StartReceive(q)
                  /\ UNCHANGED loop
  BY DEF RunReceived
<1> DEFINE q == IF x.reply
                THEN Post(Tail(ready), remoteEndpoint, recvBuffer.id)
                ELSE Tail(ready)
<1>3. /\ x.reply \in BOOLEAN
      /\ x.reply => h.ec = "ok"
      /\ h.ec = "ok" => x.calls \in Seq({"tooShort", "exception", "packet"})
  BY <1>1, ExecutionsType
<1>4. /\ q \in Seq(Handlers)
      /\ q \in Seq(Untaken) \/ (recvBuffer \in Datagrams
                                  /\ remoteEndpoint \in Endpoints)
  <2>1. CASE x.reply
    <3>1. recvBuffer.id \in 0 .. MaxDatagrams
      BY <1>1, <1>3, <2>1, SocketAssumption DEF Datagrams
    <3> QED BY <1>1, <1>2, <1>3, <2>1, <3>1, PostType DEF TypeInv
  <2>2. CASE ~x.reply
    BY <1>1, <2>2
  <2> QED BY <1>3, <2>1, <2>2
<1>5. calls' \in 0 .. MaxSends
  BY <1>2, <1>3, SocketAssumption DEF TypeInv, TypeOK
<1>6. handled' \in Seq([datagram : Datagrams, source : Endpoints,
                        calls : Seq({"tooShort", "exception", "packet"})])
  <2>1. CASE h.ec = "ok"
    <3>1. [datagram |-> recvBuffer, source |-> remoteEndpoint, calls |-> x.calls]
            \in [datagram : Datagrams, source : Endpoints,
                 calls : Seq({"tooShort", "exception", "packet"})]
      BY <1>1, <1>3, <2>1
    <3> QED BY <1>2, <2>1, <3>1, AppendProperties DEF TypeInv, TypeOK
  <2>2. CASE h.ec # "ok"
    BY <1>2, <2>2 DEF TypeInv, TypeOK
  <2> QED BY <2>1, <2>2
<1>7. /\ inbox' \in Seq(Datagrams) /\ Len(inbox') <= InboxCapacity
      /\ ready' \in Seq(Handlers)
      /\ recvOps' \in Nat
      /\ recvBuffer' \in Datagrams \cup {NoDatagram}
      /\ remoteEndpoint' \in Endpoints \cup {NoEndpoint}
      /\ errors' \in 0 .. MaxErrors
      /\ BufferFilled'
      /\ loop' \in {"running", "escaped"}
  <2>1. CASE ready' = q /\ UNCHANGED <<recvVars, errors>> /\ loop' = "escaped"
    BY <1>4, <2>1 DEF TypeInv, TypeOK, BufferFilled, recvVars
  <2>2. CASE StartReceive(q) /\ UNCHANGED loop
    <3>1. loop' \in {"running", "escaped"}
      BY <2>2 DEF TypeInv, TypeOK
    <3> QED BY <1>4, <2>2, <3>1, StartReceiveType DEF TypeInv
  <2> QED BY <1>2, <2>1, <2>2
<1>8. beat' \in BOOLEAN
  BY <1>2 DEF TypeInv, TypeOK
<1>9. UNCHANGED <<sendVars, open, arrivals, sendReports>>
  BY DEF RunReceived
<1> QED BY <1>5, <1>6, <1>7, <1>8, <1>9 DEF TypeInv, TypeOK, sendVars

LEMMA RunOrderReceiveType == TypeInv /\ RunOrderReceive => TypeInv'
<1> SUFFICES ASSUME TypeInv, RunOrderReceive PROVE TypeInv'
  OBVIOUS
<1>1. StartReceive(Tail(ready))
  BY DEF RunOrderReceive
<1>2. /\ inbox' \in Seq(Datagrams) /\ Len(inbox') <= InboxCapacity
      /\ ready' \in Seq(Handlers)
      /\ recvOps' \in Nat
      /\ recvBuffer' \in Datagrams \cup {NoDatagram}
      /\ remoteEndpoint' \in Endpoints \cup {NoEndpoint}
      /\ errors' \in 0 .. MaxErrors
      /\ BufferFilled'
  BY <1>1, HeadTailType, StartReceiveType DEF RunOrderReceive, TypeInv
<1>3. UNCHANGED <<sendVars, open, loop, arrivals, calls, beat, handled,
                  sendReports>>
  BY DEF RunOrderReceive
<1> QED BY <1>2, <1>3 DEF TypeInv, TypeOK, sendVars

LEMMA RunSendType == TypeInv /\ RunSend => TypeInv'
<1> SUFFICES ASSUME TypeInv, RunSend PROVE TypeInv'
  OBVIOUS
<1> DEFINE s == Head(ready).send
           q == Tail(ready)
<1>1. /\ s \in Sends
      /\ q \in Seq(Handlers)
      /\ q \in Seq(Untaken) \/ (recvBuffer \in Datagrams
                                  /\ remoteEndpoint \in Endpoints)
  BY HeadTailType, HandlerKinds DEF RunSend
<1>2. UNCHANGED <<recvVars, open, loop, arrivals, calls, errors, beat,
                  handled, sendReports>>
  BY DEF RunSend
<1>3. /\ outbox' \in 0 .. SendCapacity
      /\ sendOps' \in Seq(Sends)
      /\ wire' \in Seq([id : 1 .. MaxSends, to : Endpoints, re : 0 .. MaxDatagrams,
                        bytes : {"intact", "garbage"}])
      /\ ready' \in Seq(Handlers)
      /\ q \in Seq(Untaken) => ready' \in Seq(Untaken)
  <2>1. CASE ready' = Append(q, Sent(s, "badDescriptor")) /\ UNCHANGED sendVars
    <3>1. Sent(s, "badDescriptor") \in Untaken
      BY <1>1, HandlerTypes DEF Codes
    <3>2. ready' \in Seq(Handlers) /\ (q \in Seq(Untaken) => ready' \in Seq(Untaken))
      BY <1>1, <2>1, <3>1, HandlerTypes, AppendProperties
    <3> QED BY <2>1, <3>2 DEF TypeInv, TypeOK, sendVars
  <2>2. CASE /\ outbox < SendCapacity
             /\ Transmit(s, BytesInHandler, q)
             /\ UNCHANGED sendOps
    <3>1. BytesInHandler \in SUBSET {"intact", "garbage"}
      BY DEF BytesInHandler
    <3>2. sendOps' \in Seq(Sends)
      BY <2>2 DEF TypeInv, TypeOK
    <3> QED BY <1>1, <2>2, <3>1, <3>2, TransmitType DEF TypeInv
  <2>3. CASE /\ sendOps' = Append(sendOps, s)
             /\ ready' = q
             /\ UNCHANGED <<wire, outbox>>
    <3>1. sendOps' \in Seq(Sends)
      BY <1>1, <2>3, AppendProperties DEF TypeInv, TypeOK
    <3> QED BY <1>1, <2>3, <3>1 DEF TypeInv, TypeOK
  <2> QED BY <2>1, <2>2, <2>3 DEF RunSend
<1>4. BufferFilled'
  BY <1>1, <1>2, <1>3 DEF BufferFilled, recvVars
<1> QED BY <1>2, <1>3, <1>4 DEF TypeInv, TypeOK, recvVars

LEMMA RunSentType == TypeInv /\ RunSent => TypeInv'
<1> SUFFICES ASSUME TypeInv, RunSent PROVE TypeInv'
  OBVIOUS
<1>1. /\ Head(ready).send \in Sends /\ Head(ready).ec \in Codes
      /\ Tail(ready) \in Seq(Handlers)
      /\ Tail(ready) \in Seq(Untaken) \/ (recvBuffer \in Datagrams
                                            /\ remoteEndpoint \in Endpoints)
  BY HeadTailType, HandlerKinds DEF RunSent
<1>2. [id |-> Head(ready).send.id, ec |-> ReportedCode(Head(ready).ec)]
        \in [id : 1 .. MaxSends, ec : Codes]
  BY <1>1 DEF Sends, ReportedCode
<1>3. sendReports' \in Seq([id : 1 .. MaxSends, ec : Codes])
  BY <1>2, AppendProperties DEF RunSent, TypeInv, TypeOK
<1>4. /\ ready' = Tail(ready) /\ loop' \in {"running", "escaped"}
      /\ UNCHANGED <<recvVars, sendVars, open, arrivals, calls, errors, beat, handled>>
  BY DEF RunSent
<1>5. BufferFilled'
  BY <1>1, <1>4 DEF BufferFilled, recvVars
<1> QED BY <1>1, <1>3, <1>4, <1>5 DEF TypeInv, TypeOK, recvVars, sendVars

LEMMA CloseType == TypeInv /\ Close => TypeInv'
<1> SUFFICES ASSUME TypeInv, Close PROVE TypeInv'
  OBVIOUS
<1> DEFINE reads == [i \in 1 .. recvOps |-> Received("aborted")]
           sends == [i \in 1 .. Len(sendOps) |-> Sent(sendOps[i], "aborted")]
<1>1. reads \in Seq(Untaken)
  BY HandlerTypes DEF Codes, TypeInv, TypeOK
<1>2. sends \in Seq(Untaken)
  <2>1. Len(sendOps) \in Nat /\ \A i \in 1 .. Len(sendOps) : sendOps[i] \in Sends
    BY LenProperties, ElementOfSeq DEF TypeInv, TypeOK
  <2>2. \A i \in 1 .. Len(sendOps) : Sent(sendOps[i], "aborted") \in Untaken
    BY <2>1, HandlerTypes DEF Codes
  <2> QED BY <2>1, <2>2
<1>3. reads \in Seq(Handlers) /\ sends \in Seq(Handlers)
  BY <1>1, <1>2, HandlerTypes, SeqMonotonic
<1>4. ready' = ready \o reads \o sends
  BY DEF Close, Aborted
<1>5. ready' \in Seq(Handlers)
  BY <1>3, <1>4, ConcatProperties DEF TypeInv, TypeOK
<1>6. ready \in Seq(Untaken) => ready' \in Seq(Untaken)
  BY <1>1, <1>2, <1>4, ConcatProperties
<1>7. /\ inbox' = <<>> /\ recvOps' = 0 /\ open' = FALSE /\ sendOps' = <<>>
      /\ UNCHANGED <<recvBuffer, remoteEndpoint, outbox, wire, loop,
                     arrivals, calls, errors, beat, handled, sendReports>>
  BY DEF Close, KeptSends
<1>8. /\ inbox' \in Seq(Datagrams) /\ Len(inbox') <= InboxCapacity
      /\ sendOps' \in Seq(Sends)
  BY <1>7, EmptySeq, SocketAssumption
<1> QED BY <1>5, <1>6, <1>7, <1>8 DEF TypeInv, TypeOK, BufferFilled

LEMMA ArriveType == TypeInv /\ Arrive => TypeInv'
<1> SUFFICES ASSUME TypeInv, Arrive PROVE TypeInv'
  OBVIOUS
<1>1. PICK from \in Endpoints, form \in Forms :
         inbox' = IF Len(inbox) < InboxCapacity
                  THEN Append(inbox, [id |-> arrivals + 1, from |-> from,
                                      form |-> form])
                  ELSE inbox
  BY DEF Arrive
<1>2. arrivals' \in 0 .. MaxDatagrams
  BY SocketAssumption DEF Arrive, TypeInv, TypeOK
<1>3. [id |-> arrivals + 1, from |-> from, form |-> form] \in Datagrams
  BY SocketAssumption DEF Arrive, TypeInv, TypeOK, Datagrams
<1>4. inbox' \in Seq(Datagrams) /\ Len(inbox') <= InboxCapacity
  BY <1>1, <1>3, SocketAssumption, AppendProperties, LenProperties
     DEF TypeInv, TypeOK
<1> QED BY <1>2, <1>4 DEF Arrive, TypeInv, TypeOK, BufferFilled, sendVars

LEMMA ReactorReceiveType == TypeInv /\ ReactorReceive => TypeInv'
<1> SUFFICES ASSUME TypeInv, ReactorReceive PROVE TypeInv'
  OBVIOUS
<1>1. /\ Head(inbox) \in Datagrams /\ Tail(inbox) \in Seq(Datagrams)
      /\ Len(Tail(inbox)) <= InboxCapacity
  BY HeadTailProperties, LenProperties, SocketAssumption
     DEF ReactorReceive, TypeInv, TypeOK
<1>2. Head(inbox).from \in Endpoints
  BY <1>1 DEF Datagrams
<1>3. ready' \in Seq(Handlers)
  BY HandlerTypes, AppendProperties DEF ReactorReceive, TypeInv, TypeOK, Codes
<1>4. recvOps' \in Nat
  BY DEF ReactorReceive, TypeInv, TypeOK
<1> QED BY <1>1, <1>2, <1>3, <1>4
        DEF ReactorReceive, TypeInv, TypeOK, BufferFilled, sendVars

LEMMA ReactorReceiveErrorType == TypeInv /\ ReactorReceiveError => TypeInv'
<1> SUFFICES ASSUME TypeInv, ReactorReceiveError PROVE TypeInv'
  OBVIOUS
<1>1. /\ ready' \in Seq(Handlers)
      /\ ready \in Seq(Untaken) => ready' \in Seq(Untaken)
  BY HandlerTypes, AppendProperties DEF ReactorReceiveError, TypeInv, TypeOK, Codes
<1>2. recvOps' \in Nat /\ errors' \in 0 .. MaxErrors
  BY SocketAssumption DEF ReactorReceiveError, TypeInv, TypeOK
<1> QED BY <1>1, <1>2
        DEF ReactorReceiveError, TypeInv, TypeOK, BufferFilled, sendVars

LEMMA ReactorSendType == TypeInv /\ ReactorSend => TypeInv'
<1> SUFFICES ASSUME TypeInv, ReactorSend PROVE TypeInv'
  OBVIOUS
<1>1. Head(sendOps) \in Sends /\ Tail(sendOps) \in Seq(Sends)
  BY HeadTailProperties DEF ReactorSend, TypeInv, TypeOK
<1>2. BytesAfterHandler \in SUBSET {"intact", "garbage"}
  BY DEF BytesAfterHandler
<1>3. /\ outbox' \in 0 .. SendCapacity
      /\ wire' \in Seq([id : 1 .. MaxSends, to : Endpoints, re : 0 .. MaxDatagrams,
                        bytes : {"intact", "garbage"}])
      /\ ready' \in Seq(Handlers)
      /\ ready \in Seq(Untaken) => ready' \in Seq(Untaken)
  <2>1. ready \in Seq(Handlers)
    BY DEF TypeInv, TypeOK
  <2> QED BY <1>1, <1>2, <2>1, TransmitType DEF ReactorSend, TypeInv
<1> QED BY <1>1, <1>3 DEF ReactorSend, TypeInv, TypeOK, BufferFilled, recvVars

LEMMA OtherTypes == TypeInv /\ (AsyncSend \/ Drain \/ UNCHANGED vars) => TypeInv'
<1>1. ASSUME TypeInv, AsyncSend PROVE TypeInv'
  <2>1. PICK to \in Endpoints : ready' = Post(ready, to, 0)
    BY <1>1 DEF AsyncSend
  <2>2. /\ ready' \in Seq(Handlers)
        /\ ready \in Seq(Untaken) => ready' \in Seq(Untaken)
    <3>1. ready \in Seq(Handlers) /\ 0 \in 0 .. MaxDatagrams
      BY <1>1, SocketAssumption DEF TypeInv, TypeOK
    <3> QED BY <1>1, <2>1, <3>1, PostType DEF AsyncSend, TypeInv
  <2>3. calls' \in 0 .. MaxSends
    BY <1>1, SocketAssumption DEF AsyncSend, TypeInv, TypeOK
  <2> QED BY <1>1, <2>2, <2>3
          DEF AsyncSend, TypeInv, TypeOK, BufferFilled, recvVars, sendVars
<1>2. ASSUME TypeInv, Drain PROVE TypeInv'
  BY <1>2, SocketAssumption DEF Drain, TypeInv, TypeOK, BufferFilled, recvVars
<1>3. ASSUME TypeInv, UNCHANGED vars PROVE TypeInv'
  BY <1>3 DEF vars, TypeInv, TypeOK, BufferFilled, recvVars, sendVars
<1> QED BY <1>1, <1>2, <1>3

(* Every step keeps the types. *)
LEMMA StepType == TypeInv /\ [Next]_vars => TypeInv'
BY RunOrderReceiveType, RunReceivedType, RunSendType, RunSentType, CloseType,
   ArriveType, ReactorReceiveType, ReactorReceiveErrorType, ReactorSendType,
   OtherTypes DEF Next

(* The variables of the socket, its handlers and the histories have their  *)
(* types in every reachable state.                                         *)
THEOREM TypeCorrect == Spec => []TypeOK
<1>1. Spec => []TypeInv
  BY InitType, StepType, PTL DEF Spec
<1>2. TypeInv => TypeOK
  BY DEF TypeInv
<1> QED BY <1>1, <1>2, PTL

-----------------------------------------------------------------------------
(* The receive loop.                                                       *)

NoReceive(q) == q \in Seq(SendHandlers)

OneReceive(q) ==
    \E i \in 1 .. Len(q) :
        /\ q[i] \in ReceiveHandlers
        /\ \A j \in 1 .. Len(q) : q[j] \in ReceiveHandlers => j = i

(* OneReceiver and ReceiverAlive say where the one receive may be; this is *)
(* the inductive form: it is a handler, or an operation, or the run() that *)
(* would have started it was left by an exception.                         *)
ReceiverInv ==
    \/ recvOps = 0 /\ OneReceive(ready)
    \/ recvOps = 1 /\ NoReceive(ready)
    \/ loop = "escaped" /\ recvOps = 0 /\ NoReceive(ready)

LEMMA DisjointHandlers ==
    /\ \A h \in SendHandlers : h \notin ReceiveHandlers
    /\ \A h \in Handlers : h \in ReceiveHandlers \/ h \in SendHandlers
BY HandlerKinds DEF Handlers

LEMMA NoReceiveIff ==
    ASSUME NEW q \in Seq(Handlers)
    PROVE  NoReceive(q) <=> \A i \in 1 .. Len(q) : q[i] \notin ReceiveHandlers
<1>1. /\ Len(q) \in Nat /\ q \in [1 .. Len(q) -> Handlers]
      /\ \A i \in 1 .. Len(q) : q[i] \in Handlers
  BY LenProperties, ElementOfSeq
<1>2. ASSUME NoReceive(q), NEW i \in 1 .. Len(q) PROVE q[i] \notin ReceiveHandlers
  BY <1>2, ElementOfSeq, DisjointHandlers DEF NoReceive
<1>3. ASSUME \A i \in 1 .. Len(q) : q[i] \notin ReceiveHandlers PROVE NoReceive(q)
  <2>1. \A i \in 1 .. Len(q) : q[i] \in SendHandlers
    BY <1>1, <1>3, DisjointHandlers
  <2>2. q \in [1 .. Len(q) -> SendHandlers]
    BY <1>1, <2>1
  <2> QED BY <1>1, <2>2, SeqDef DEF NoReceive
<1> QED BY <1>2, <1>3

(* How the number of receives in a queue changes as handlers come and go.  *)
LEMMA ReceiveAppended ==
    ASSUME NEW q \in Seq(Handlers), NEW h \in Handlers
    PROVE  /\ h \in SendHandlers /\ NoReceive(q) => NoReceive(Append(q, h))
           /\ h \in SendHandlers /\ OneReceive(q) => OneReceive(Append(q, h))
           /\ h \in ReceiveHandlers /\ NoReceive(q) => OneReceive(Append(q, h))
<1> DEFINE a == Append(q, h)
<1>1. /\ a \in Seq(Handlers) /\ Len(q) \in Nat /\ Len(a) = Len(q) + 1
      /\ \A i \in 1 .. Len(q) : a[i] = q[i]
      /\ a[Len(q) + 1] = h
  BY AppendProperties, LenProperties
<1> HIDE DEF a
<1>2. ASSUME h \in SendHandlers, NoReceive(q) PROVE NoReceive(a)
  BY <1>1, <1>2, NoReceiveIff, DisjointHandlers
<1>3. ASSUME h \in SendHandlers, OneReceive(q) PROVE OneReceive(a)
  <2>1. PICK i \in 1 .. Len(q) :
          /\ q[i] \in ReceiveHandlers
          /\ \A j \in 1 .. Len(q) : q[j] \in ReceiveHandlers => j = i
    BY <1>3 DEF OneReceive
  <2>2. i \in 1 .. Len(a) /\ a[i] \in ReceiveHandlers
    BY <1>1, <2>1
  <2>3. ASSUME NEW j \in 1 .. Len(a), a[j] \in ReceiveHandlers PROVE j = i
    <3>1. j # Len(q) + 1
      BY <1>1, <1>3, <2>3, DisjointHandlers
    <3> QED BY <1>1, <2>1, <2>3, <3>1
  <2> QED BY <2>2, <2>3 DEF OneReceive
<1>4. ASSUME h \in ReceiveHandlers, NoReceive(q) PROVE OneReceive(a)
  <2>1. \A i \in 1 .. Len(q) : q[i] \notin ReceiveHandlers
    BY <1>4, NoReceiveIff
  <2>2. Len(q) + 1 \in 1 .. Len(a) /\ a[Len(q) + 1] \in ReceiveHandlers
    BY <1>1, <1>4
  <2>3. ASSUME NEW j \in 1 .. Len(a), a[j] \in ReceiveHandlers PROVE j = Len(q) + 1
    <3>1. CASE j \in 1 .. Len(q)
      BY <1>1, <2>1, <2>3, <3>1
    <3>2. CASE j \notin 1 .. Len(q)
      BY <1>1, <3>2
    <3> QED BY <3>1, <3>2
  <2> QED BY <2>2, <2>3 DEF OneReceive
<1> QED BY <1>2, <1>3, <1>4 DEF a

LEMMA ReceiveRemoved ==
    ASSUME NEW q \in Seq(Handlers), q # <<>>
    PROVE  /\ NoReceive(q) => Head(q) \in SendHandlers /\ NoReceive(Tail(q))
           /\ Head(q) \in SendHandlers /\ OneReceive(q) => OneReceive(Tail(q))
           /\ Head(q) \in ReceiveHandlers /\ OneReceive(q) => NoReceive(Tail(q))
<1> DEFINE t == Tail(q)
<1>1. /\ t \in Seq(Handlers) /\ Len(q) \in Nat \ {0} /\ Len(t) = Len(q) - 1
      /\ \A i \in 1 .. Len(t) : t[i] = q[i + 1]
      /\ Head(q) = q[1] /\ Head(q) \in Handlers
  BY HeadTailProperties, EmptySeq
<1> HIDE DEF t
<1>2. ASSUME NoReceive(q) PROVE Head(q) \in SendHandlers /\ NoReceive(t)
  <2>1. \A i \in 1 .. Len(q) : q[i] \notin ReceiveHandlers
    BY <1>2, NoReceiveIff
  <2>2. \A i \in 1 .. Len(t) : t[i] \notin ReceiveHandlers
    BY <1>1, <2>1
  <2> QED BY <1>1, <2>1, <2>2, NoReceiveIff, DisjointHandlers
<1>3. ASSUME Head(q) \in SendHandlers, OneReceive(q) PROVE OneReceive(t)
  <2>1. PICK i \in 1 .. Len(q) :
          /\ q[i] \in ReceiveHandlers
          /\ \A j \in 1 .. Len(q) : q[j] \in ReceiveHandlers => j = i
    BY <1>3 DEF OneReceive
  <2>2. i # 1
    BY <1>1, <1>3, <2>1, DisjointHandlers
  <2>3. i - 1 \in 1 .. Len(t) /\ t[i - 1] = q[i]
    BY <1>1, <2>2
  <2>4. ASSUME NEW j \in 1 .. Len(t), t[j] \in ReceiveHandlers PROVE j = i - 1
    BY <1>1, <2>1, <2>4
  <2> QED BY <2>1, <2>3, <2>4 DEF OneReceive
<1>4. ASSUME Head(q) \in ReceiveHandlers, OneReceive(q) PROVE NoReceive(t)
  <2>1. \A j \in 1 .. Len(q) : q[j] \in ReceiveHandlers => j = 1
    BY <1>1, <1>4 DEF OneReceive
  <2>2. \A j \in 1 .. Len(t) : t[j] \notin ReceiveHandlers
    BY <1>1, <2>1
  <2> QED BY <1>1, <2>2, NoReceiveIff
<1> QED BY <1>2, <1>3, <1>4 DEF t

LEMMA ReceiveConcatenated ==
    ASSUME NEW p \in Seq(Handlers), NEW q \in Seq(Handlers)
    PROVE  /\ NoReceive(p) /\ NoReceive(q) => NoReceive(p \o q)
           /\ OneReceive(p) /\ NoReceive(q) => OneReceive(p \o q)
<1> DEFINE c == p \o q
<1>1. /\ c \in Seq(Handlers) /\ Len(p) \in Nat /\ Len(q) \in Nat
      /\ Len(c) = Len(p) + Len(q)
      /\ \A i \in 1 .. Len(p) + Len(q) :
            c[i] = IF i <= Len(p) THEN p[i] ELSE q[i - Len(p)]
  BY ConcatProperties, LenProperties
<1> HIDE DEF c
<1>2. ASSUME NoReceive(p), NoReceive(q) PROVE NoReceive(c)
  <2>1. /\ \A i \in 1 .. Len(p) : p[i] \notin ReceiveHandlers
        /\ \A i \in 1 .. Len(q) : q[i] \notin ReceiveHandlers
    BY <1>2, NoReceiveIff
  <2>2. ASSUME NEW i \in 1 .. Len(c) PROVE c[i] \notin ReceiveHandlers
    <3>1. CASE i <= Len(p)
      BY <1>1, <2>1, <3>1
    <3>2. CASE i > Len(p)
      <4>1. i - Len(p) \in 1 .. Len(q) /\ c[i] = q[i - Len(p)]
        BY <1>1, <3>2
      <4> QED BY <2>1, <4>1
    <3> QED BY <1>1, <3>1, <3>2
  <2> QED BY <1>1, <2>2, NoReceiveIff
<1>3. ASSUME OneReceive(p), NoReceive(q) PROVE OneReceive(c)
  <2>1. PICK i \in 1 .. Len(p) :
          /\ p[i] \in ReceiveHandlers
          /\ \A j \in 1 .. Len(p) : p[j] \in ReceiveHandlers => j = i
    BY <1>3 DEF OneReceive
  <2>2. \A j \in 1 .. Len(q) : q[j] \notin ReceiveHandlers
    BY <1>3, NoReceiveIff
  <2>3. i \in 1 .. Len(c) /\ c[i] \in ReceiveHandlers
    BY <1>1, <2>1
  <2>4. ASSUME NEW j \in 1 .. Len(c), c[j] \in ReceiveHandlers PROVE j = i
    <3>1. CASE j <= Len(p)
      BY <1>1, <2>1, <2>4, <3>1
    <3>2. CASE j > Len(p)
      <4>1. j - Len(p) \in 1 .. Len(q) /\ c[j] = q[j - Len(p)]
        BY <1>1, <3>2
      <4> QED BY <2>2, <2>4, <4>1
    <3> QED BY <1>1, <3>1, <3>2
  <2> QED BY <2>3, <2>4 DEF OneReceive
<1> QED BY <1>2, <1>3 DEF c

LEMMA InitReceiver == Init => ReceiverInv
<1> SUFFICES ASSUME Init PROVE ReceiverInv
  OBVIOUS
<1>1. Len(ready) = 1 /\ ready[1] = OrderReceive
  BY DEF Init, InitialHandlers
<1>2. OrderReceive \in ReceiveHandlers
  BY DEF ReceiveHandlers
<1> QED BY <1>1, <1>2 DEF Init, ReceiverInv, OneReceive

(* A receive started when none is under way is the only one. *)
LEMMA StartReceiveReceiver ==
    ASSUME NEW q \in Seq(Handlers), NoReceive(q), recvOps = 0, StartReceive(q)
    PROVE  ReceiverInv'
<1>1. \A ec \in Codes : /\ Received(ec) \in ReceiveHandlers
                        /\ Received(ec) \in Handlers
  BY DEF ReceiveHandlers, Handlers
<1>2. CASE /\ recvOps' = 0
           /\ \/ ready' = Append(q, Received("ok"))
              \/ ready' = Append(q, Received("badDescriptor"))
              \/ ready' = Append(q, Received("failed"))
  BY <1>1, <1>2, ReceiveAppended DEF ReceiverInv, Codes
<1>3. CASE recvOps' = 1 /\ ready' = q
  BY <1>3 DEF ReceiverInv
<1> QED BY <1>2, <1>3 DEF StartReceive, recvVars

(* The head of the queue is the one receive, or the one receive is         *)
(* elsewhere; a queue that gets one handler for sends keeps its receives.  *)
LEMMA HeadIsReceive ==
    ASSUME TypeInv, ReceiverInv, ready # <<>>, Head(ready) \in ReceiveHandlers
    PROVE  recvOps = 0 /\ NoReceive(Tail(ready))
BY ReceiveRemoved, DisjointHandlers DEF ReceiverInv, TypeInv, TypeOK

LEMMA OnlySendsChange ==
    ASSUME ReceiverInv, UNCHANGED recvOps, loop' = loop \/ loop' = "escaped",
           NoReceive(ready) => NoReceive(ready'),
           OneReceive(ready) => OneReceive(ready')
    PROVE  ReceiverInv'
BY DEF ReceiverInv

(* What the completion of a receive leaves: a queue q without receives, and *)
(* the next receive unless an exception got out.                           *)
LEMMA ReceivedQueue ==
    ASSUME TypeInv, ReceiverInv, RunReceived
    PROVE  /\ recvOps = 0
           /\ \E q \in Seq(Handlers) :
                /\ NoReceive(q)
                /\ \/ loop' = "escaped" /\ ready' = q /\ UNCHANGED recvVars
                   \/ loop' = loop /\ StartReceive(q)
<1>1. /\ ready # <<>> /\ Head(ready) \in ReceiveHandlers
      /\ Tail(ready) \in Seq(Handlers)
      /\ recvOps = 0 /\ NoReceive(Tail(ready))
  <2>1. ready # <<>> /\ Head(ready).kind \in {"orderReceive", "received"}
    BY DEF RunReceived
  <2> QED BY <2>1, HeadTailType, HandlerKinds, HeadIsReceive
<1> DEFINE P == Post(Tail(ready), remoteEndpoint, recvBuffer.id)
<1>2. PICK x \in Executions(Head(ready).ec, recvBuffer.form) :
        LET q == IF x.reply THEN P ELSE Tail(ready)
        IN  /\ x.reply => calls < MaxSends
            /\ \/ loop' = "escaped" /\ ready' = q /\ UNCHANGED recvVars
               \/ loop' = loop /\ StartReceive(q)
  BY DEF RunReceived
<1> DEFINE q == IF x.reply THEN P ELSE Tail(ready)
<1>3. q \in Seq(Handlers) /\ NoReceive(q)
  <2>1. CASE x.reply
    <3>1. /\ Head(ready).ec = "ok"
          /\ recvBuffer \in Datagrams /\ remoteEndpoint \in Endpoints
      BY <1>1, <2>1, HeadTailType, HandlerKinds, ExecutionsType DEF RunReceived
    <3>2. recvBuffer.id \in 0 .. MaxDatagrams
      BY <3>1, SocketAssumption DEF Datagrams
    <3>3. [id |-> calls + 1, to |-> remoteEndpoint, re |-> recvBuffer.id] \in Sends
      BY <1>2, <2>1, <3>1, <3>2, SocketAssumption DEF TypeInv, TypeOK, Sends
    <3>4. Posted([id |-> calls + 1, to |-> remoteEndpoint, re |-> recvBuffer.id])
              \in SendHandlers
      BY <3>3 DEF SendHandlers
    <3>5. P \in Seq(Handlers) /\ NoReceive(P)
      BY <1>1, <3>4, ReceiveAppended, AppendProperties DEF Post, Handlers
    <3> QED BY <2>1, <3>5
  <2>2. CASE ~x.reply
    BY <1>1, <2>2
  <2> QED BY <2>1, <2>2
<1>4. \/ loop' = "escaped" /\ ready' = q /\ UNCHANGED recvVars
      \/ loop' = loop /\ StartReceive(q)
  BY <1>2
<1> HIDE DEF q
<1> QED BY <1>1, <1>3, <1>4

LEMMA ReceiveStepReceiver ==
    ASSUME TypeInv, ReceiverInv, RunOrderReceive \/ RunReceived
    PROVE  ReceiverInv'
<1>1. CASE RunOrderReceive
  <2>1. ready # <<>> /\ Head(ready).kind = "orderReceive" /\ StartReceive(Tail(ready))
    BY <1>1 DEF RunOrderReceive
  <2>2. Tail(ready) \in Seq(Handlers) /\ recvOps = 0 /\ NoReceive(Tail(ready))
    BY <2>1, HeadTailType, HandlerKinds, HeadIsReceive
  <2> QED BY <2>1, <2>2, StartReceiveReceiver
<1>2. CASE RunReceived
  <2>1. PICK q \in Seq(Handlers) :
           /\ NoReceive(q)
           /\ \/ loop' = "escaped" /\ ready' = q /\ UNCHANGED recvVars
              \/ loop' = loop /\ StartReceive(q)
    BY <1>2, ReceivedQueue
  <2>2. recvOps = 0
    BY <1>2, ReceivedQueue
  <2>3. CASE loop' = "escaped" /\ ready' = q /\ UNCHANGED recvVars
    BY <2>1, <2>2, <2>3 DEF ReceiverInv, recvVars
  <2>4. CASE StartReceive(q)
    BY <2>1, <2>2, <2>4, StartReceiveReceiver
  <2> QED BY <2>1, <2>3, <2>4
<1> QED BY <1>1, <1>2

LEMMA TransmitReceives ==
    ASSUME NEW s \in Sends, NEW q \in Seq(Handlers), NEW bytes,
           Transmit(s, bytes, q)
    PROVE  /\ NoReceive(q) => NoReceive(ready')
           /\ OneReceive(q) => OneReceive(ready')
<1>1. \A ec \in Codes : Sent(s, ec) \in SendHandlers /\ Sent(s, ec) \in Handlers
  BY DEF SendHandlers, Handlers
<1> QED BY <1>1, ReceiveAppended DEF Transmit, Codes

LEMMA SendStepReceiver ==
    ASSUME TypeInv, ReceiverInv, RunSend \/ RunSent \/ ReactorSend \/ AsyncSend
    PROVE  ReceiverInv'
<1>0. ready \in Seq(Handlers) /\ UNCHANGED recvOps
  BY DEF RunSend, RunSent, ReactorSend, AsyncSend, recvVars, TypeInv, TypeOK
<1>1. ASSUME ready # <<>>, Head(ready).kind \in {"send", "sent"}
      PROVE  /\ Head(ready) \in SendHandlers /\ Head(ready).send \in Sends
             /\ Tail(ready) \in Seq(Handlers)
             /\ NoReceive(ready) => NoReceive(Tail(ready))
             /\ OneReceive(ready) => OneReceive(Tail(ready))
  BY <1>0, <1>1, HeadTailType, HandlerKinds, ReceiveRemoved
<1>2. CASE RunSend
  <2> DEFINE s == Head(ready).send
             q == Tail(ready)
  <2>1. /\ s \in Sends /\ q \in Seq(Handlers)
        /\ NoReceive(ready) => NoReceive(q)
        /\ OneReceive(ready) => OneReceive(q)
    BY <1>1, <1>2 DEF RunSend
  <2>2. /\ NoReceive(q) => NoReceive(ready')
        /\ OneReceive(q) => OneReceive(ready')
    <3>1. CASE ready' = Append(q, Sent(s, "badDescriptor"))
      <4>1. Sent(s, "badDescriptor") \in SendHandlers
        BY <2>1 DEF SendHandlers, Codes
      <4> QED BY <2>1, <3>1, <4>1, ReceiveAppended DEF Handlers
    <3>2. CASE Transmit(s, BytesInHandler, q)
      BY <2>1, <3>2, TransmitReceives
    <3>3. CASE ready' = q
      BY <3>3
    <3> QED BY <1>2, <3>1, <3>2, <3>3 DEF RunSend
  <2>3. loop' = loop
    BY <1>2 DEF RunSend
  <2> QED BY <1>0, <2>1, <2>2, <2>3, OnlySendsChange
<1>3. CASE RunSent
  <2>1. ready' = Tail(ready) /\ (loop' = loop \/ loop' = "escaped")
    BY <1>3 DEF RunSent
  <2> QED BY <1>0, <1>1, <1>3, <2>1, OnlySendsChange DEF RunSent
<1>4. CASE ReactorSend
  <2>1. Head(sendOps) \in Sends
    BY <1>4, HeadTailProperties DEF ReactorSend, TypeInv, TypeOK
  <2>2. /\ NoReceive(ready) => NoReceive(ready')
        /\ OneReceive(ready) => OneReceive(ready')
    BY <1>0, <1>4, <2>1, TransmitReceives DEF ReactorSend
  <2>3. loop' = loop
    BY <1>4 DEF ReactorSend
  <2> QED BY <1>0, <2>2, <2>3, OnlySendsChange
<1>5. CASE AsyncSend
  <2>1. PICK to \in Endpoints : ready' = Post(ready, to, 0)
    BY <1>5 DEF AsyncSend
  <2>2. [id |-> calls + 1, to |-> to, re |-> 0] \in Sends
    BY <1>5, SocketAssumption DEF AsyncSend, TypeInv, TypeOK, Sends
  <2>3. Posted([id |-> calls + 1, to |-> to, re |-> 0]) \in SendHandlers
    BY <2>2 DEF SendHandlers
  <2>4. /\ NoReceive(ready) => NoReceive(ready')
        /\ OneReceive(ready) => OneReceive(ready')
    BY <1>0, <2>1, <2>3, ReceiveAppended DEF Post, Handlers
  <2>5. loop' = loop
    BY <1>5 DEF AsyncSend
  <2> QED BY <1>0, <2>4, <2>5, OnlySendsChange
<1> QED BY <1>2, <1>3, <1>4, <1>5

LEMMA CloseReceiver ==
    ASSUME TypeInv, ReceiverInv, Close PROVE ReceiverInv'
<1> DEFINE reads == [i \in 1 .. recvOps |-> Received("aborted")]
           sends == [i \in 1 .. Len(sendOps) |-> Sent(sendOps[i], "aborted")]
<1>1. ready \in Seq(Handlers) /\ sends \in Seq(Handlers) /\ NoReceive(sends)
  <2>1. Len(sendOps) \in Nat /\ \A i \in 1 .. Len(sendOps) : sendOps[i] \in Sends
    BY LenProperties, ElementOfSeq DEF TypeInv, TypeOK
  <2>2. \A i \in 1 .. Len(sendOps) : Sent(sendOps[i], "aborted") \in SendHandlers
    BY <2>1 DEF SendHandlers, Codes
  <2>3. sends \in Seq(SendHandlers)
    BY <2>1, <2>2
  <2> QED BY <2>3, SeqMonotonic DEF Handlers, NoReceive, TypeInv, TypeOK
<1>2. /\ ready' = (ready \o reads) \o sends
      /\ recvOps' = 0 /\ loop' = loop
  BY DEF Close, Aborted
<1>3. CASE recvOps = 0
  <2>1. reads = <<>>
    BY <1>3
  <2>2. ready' = ready \o sends
    BY <1>1, <1>2, <2>1, ConcatEmptySeq
  <2> QED BY <1>1, <1>2, <1>3, <2>2, ReceiveConcatenated DEF ReceiverInv
<1>4. CASE recvOps = 1 /\ NoReceive(ready)
  <2>1. reads = <<Received("aborted")>>
    BY <1>4
  <2>2. Received("aborted") \in ReceiveHandlers /\ Received("aborted") \in Handlers
    BY DEF ReceiveHandlers, Handlers, Codes
  <2>3. ready \o reads = Append(ready, Received("aborted"))
    BY <1>1, <2>1, <2>2, AppendIsConcat
  <2> HIDE DEF reads
  <2>4. OneReceive(ready \o reads) /\ ready \o reads \in Seq(Handlers)
    <3>1. /\ OneReceive(Append(ready, Received("aborted")))
          /\ Append(ready, Received("aborted")) \in Seq(Handlers)
      BY <1>1, <1>4, <2>2, ReceiveAppended, AppendProperties
    <3> QED BY <2>3, <3>1
  <2> QED BY <1>1, <1>2, <2>4, ReceiveConcatenated DEF ReceiverInv
<1> QED BY <1>3, <1>4 DEF ReceiverInv

LEMMA ReactorStepReceiver ==
    ASSUME TypeInv, ReceiverInv,
           ReactorReceive \/ ReactorReceiveError \/ Arrive \/ Drain \/ UNCHANGED vars
    PROVE  ReceiverInv'
<1>1. CASE ReactorReceive \/ ReactorReceiveError
  <2>1. PICK ec \in Codes : ready' = Append(ready, Received(ec))
    BY <1>1 DEF ReactorReceive, ReactorReceiveError, Codes
  <2>2. recvOps = 1 /\ NoReceive(ready) /\ recvOps' = 0
    BY <1>1 DEF ReactorReceive, ReactorReceiveError, ReceiverInv
  <2>3. Received(ec) \in ReceiveHandlers /\ Received(ec) \in Handlers
    BY DEF ReceiveHandlers, Handlers
  <2>4. OneReceive(ready')
    BY <2>1, <2>2, <2>3, ReceiveAppended DEF TypeInv, TypeOK
  <2> QED BY <2>2, <2>4 DEF ReceiverInv
<1>2. CASE Arrive \/ Drain \/ UNCHANGED vars
  <2>1. UNCHANGED <<recvOps, ready, loop>>
    BY <1>2 DEF Arrive, Drain, vars, recvVars, sendVars
  <2> QED BY <2>1 DEF ReceiverInv
<1> QED BY <1>1, <1>2

LEMMA StepReceiver == TypeInv /\ ReceiverInv /\ [Next]_vars => ReceiverInv'
BY ReceiveStepReceiver, SendStepReceiver, CloseReceiver, ReactorStepReceiver
   DEF Next

LEMMA ReceiverInvImplies == TypeInv /\ ReceiverInv => OneReceiver /\ ReceiverAlive
<1> SUFFICES ASSUME TypeInv, ReceiverInv PROVE OneReceiver /\ ReceiverAlive
  OBVIOUS
<1>1. /\ DOMAIN ready = 1 .. Len(ready) /\ ready \in Seq(Handlers)
      /\ \A i \in 1 .. Len(ready) :
            ready[i] \in Handlers /\ (IsReceive(i) <=> ready[i] \in ReceiveHandlers)
  <2>1. DOMAIN ready = 1 .. Len(ready) /\ ready \in Seq(Handlers)
    BY LenProperties DEF TypeInv, TypeOK
  <2>2. \A i \in 1 .. Len(ready) : ready[i] \in Handlers
    BY <2>1, ElementOfSeq
  <2> QED BY <2>1, <2>2, HandlerKinds DEF IsReceive
<1>2. NoReceive(ready) => \A i \in DOMAIN ready : ~IsReceive(i)
  BY <1>1, NoReceiveIff
<1>3. OneReceive(ready) =>
        /\ \A i, j \in DOMAIN ready : IsReceive(i) /\ IsReceive(j) => i = j
        /\ \E i \in DOMAIN ready : IsReceive(i)
  BY <1>1 DEF OneReceive
<1> QED BY <1>2, <1>3 DEF ReceiverInv, OneReceiver, ReceiverAlive

(* There is never more than one receive under way: the shared buffer has   *)
(* one user, whatever errors, replies and close do.                        *)
THEOREM ReceiveLoop == Spec => []OneReceiver
<1>1. Spec => [](TypeInv /\ ReceiverInv)
  BY InitType, StepType, InitReceiver, StepReceiver, PTL DEF Spec
<1> QED BY <1>1, ReceiverInvImplies, PTL

(* Until an exception leaves run() a receive is under way: no error, reply *)
(* or close breaks the chain.                                              *)
THEOREM ReceiveLoopLives == Spec => []ReceiverAlive
<1>1. Spec => [](TypeInv /\ ReceiverInv)
  BY InitType, StepType, InitReceiver, StepReceiver, PTL DEF Spec
<1> QED BY <1>1, ReceiverInvImplies, PTL

-----------------------------------------------------------------------------
(* The shared buffer.                                                      *)

LEMMA BufferStep ==
    ASSUME TypeInv, ReceiverInv, [Next]_vars,
           NEW i \in DOMAIN ready, IsTaken(i), handled' = handled
    PROVE  UNCHANGED <<recvBuffer, remoteEndpoint>>
<1>1. recvOps = 0
  <2>1. i \in 1 .. Len(ready) /\ ready \in Seq(Handlers)
    BY LenProperties DEF TypeInv, TypeOK
  <2>2. ready[i] \in ReceiveHandlers
    BY DEF IsTaken, ReceiveHandlers, Codes
  <2> QED BY <2>1, <2>2, NoReceiveIff DEF ReceiverInv
<1>2. ASSUME RunOrderReceive \/ RunReceived PROVE UNCHANGED <<recvBuffer, remoteEndpoint>>
  <2>1. ready # <<>> /\ Head(ready).kind \in {"orderReceive", "received"}
    BY <1>2 DEF RunOrderReceive, RunReceived
  <2>2. ready \in Seq(Handlers) /\ DOMAIN ready = 1 .. Len(ready)
    BY LenProperties DEF TypeInv, TypeOK
  <2>3. Len(ready) \in Nat \ {0} /\ Head(ready) = ready[1] /\ 1 \in DOMAIN ready
    BY <2>1, <2>2, EmptySeq
  <2>4. IsReceive(1) /\ IsReceive(i)
    BY <2>1, <2>3 DEF IsReceive, IsTaken, Received
  <2>5. Head(ready) = Received("ok")
    BY <2>3, <2>4, ReceiverInvImplies DEF OneReceiver, IsTaken
  <2>6. RunReceived /\ Head(ready).ec = "ok"
    BY <1>2, <2>5 DEF RunOrderReceive, Received
  <2>7. PICK e : handled' = Append(handled, e)
    BY <2>6 DEF RunReceived
  <2> DEFINE T == [datagram : Datagrams, source : Endpoints,
                   calls : Seq({"tooShort", "exception", "packet"})]
  <2>8. handled \in Seq(T \cup {e})
    BY SeqMonotonic DEF TypeInv, TypeOK
  <2>9. Len(handled') = Len(handled) + 1 /\ Len(handled) \in Nat
    BY <2>7, <2>8, AppendProperties, LenProperties
  <2> QED BY <2>9
<1>3. ASSUME ~(RunOrderReceive \/ RunReceived) PROVE UNCHANGED <<recvBuffer, remoteEndpoint>>
  BY <1>1, <1>3 DEF Next, AsyncSend, RunSend, RunSent, Close, Arrive, ReactorReceive,
     ReactorReceiveError, ReactorSend, Drain, vars, recvVars
<1> QED BY <1>2, <1>3

(* A datagram that was read stays in recv_buffer_, and its sender in       *)
(* remote_endpoint_, until its handler runs, whatever happens in between.  *)
THEOREM BufferIsStable == Spec => BufferStable
<1>1. Spec => [](TypeInv /\ ReceiverInv)
  BY InitType, StepType, InitReceiver, StepReceiver, PTL DEF Spec
<1>2. TypeInv /\ ReceiverInv /\ [Next]_vars
        => [(\E i \in DOMAIN ready : IsTaken(i)) /\ handled' = handled
                => UNCHANGED <<recvBuffer, remoteEndpoint>>]_vars
  BY BufferStep
<1> QED BY <1>1, <1>2, PTL DEF Spec, BufferStable

-----------------------------------------------------------------------------
(* How often a sequence q has an element of T, and how that changes.       *)

None(q, T) == \A i \in 1 .. Len(q) : q[i] \notin T

One(q, T) == \E i \in 1 .. Len(q) :
                /\ q[i] \in T
                /\ \A j \in 1 .. Len(q) : q[j] \in T => j = i

Keeps(q, r, T) == (None(q, T) => None(r, T)) /\ (One(q, T) => One(r, T))

LEMMA CountAppended ==
    ASSUME NEW S, NEW T, NEW q \in Seq(S), NEW h \in S
    PROVE  /\ h \notin T => Keeps(q, Append(q, h), T)
           /\ h \in T /\ None(q, T) => One(Append(q, h), T)
<1> DEFINE a == Append(q, h)
<1>1. /\ Len(q) \in Nat /\ Len(a) = Len(q) + 1
      /\ \A i \in 1 .. Len(q) : a[i] = q[i]
      /\ a[Len(q) + 1] = h
  BY AppendProperties, LenProperties
<1> HIDE DEF a
<1>2. ASSUME h \notin T, None(q, T) PROVE None(a, T)
  BY <1>1, <1>2 DEF None
<1>3. ASSUME h \notin T, One(q, T) PROVE One(a, T)
  <2>1. PICK i \in 1 .. Len(q) :
          /\ q[i] \in T
          /\ \A j \in 1 .. Len(q) : q[j] \in T => j = i
    BY <1>3 DEF One
  <2>2. i \in 1 .. Len(a) /\ a[i] \in T
    BY <1>1, <2>1
  <2>3. ASSUME NEW j \in 1 .. Len(a), a[j] \in T PROVE j = i
    <3>1. j # Len(q) + 1
      BY <1>1, <1>3, <2>3
    <3> QED BY <1>1, <2>1, <2>3, <3>1
  <2> QED BY <2>2, <2>3 DEF One
<1>4. ASSUME h \in T, None(q, T) PROVE One(a, T)
  <2>1. Len(q) + 1 \in 1 .. Len(a) /\ a[Len(q) + 1] \in T
    BY <1>1, <1>4
  <2>2. ASSUME NEW j \in 1 .. Len(a), a[j] \in T PROVE j = Len(q) + 1
    <3>1. CASE j \in 1 .. Len(q)
      BY <1>1, <1>4, <2>2, <3>1 DEF None
    <3>2. CASE j \notin 1 .. Len(q)
      BY <1>1, <3>2
    <3> QED BY <3>1, <3>2
  <2> QED BY <2>1, <2>2 DEF One
<1> QED BY <1>2, <1>3, <1>4 DEF a, Keeps

LEMMA CountRemoved ==
    ASSUME NEW S, NEW T, NEW q \in Seq(S), q # <<>>
    PROVE  /\ Head(q) \notin T => Keeps(q, Tail(q), T)
           /\ Head(q) \in T => ~None(q, T)
           /\ Head(q) \in T /\ One(q, T) => None(Tail(q), T)
<1> DEFINE t == Tail(q)
<1>1. /\ Len(q) \in Nat \ {0} /\ Len(t) = Len(q) - 1
      /\ \A i \in 1 .. Len(t) : t[i] = q[i + 1]
      /\ Head(q) = q[1]
  BY HeadTailProperties, EmptySeq
<1> HIDE DEF t
<1>2. ASSUME None(q, T) PROVE None(t, T) /\ Head(q) \notin T
  BY <1>1, <1>2 DEF None
<1>3. ASSUME Head(q) \notin T, One(q, T) PROVE One(t, T)
  <2>1. PICK i \in 1 .. Len(q) :
          /\ q[i] \in T
          /\ \A j \in 1 .. Len(q) : q[j] \in T => j = i
    BY <1>3 DEF One
  <2>2. i # 1
    BY <1>1, <1>3, <2>1
  <2>3. i - 1 \in 1 .. Len(t) /\ t[i - 1] = q[i]
    BY <1>1, <2>2
  <2>4. ASSUME NEW j \in 1 .. Len(t), t[j] \in T PROVE j = i - 1
    BY <1>1, <2>1, <2>4
  <2> QED BY <2>1, <2>3, <2>4 DEF One
<1>4. ASSUME Head(q) \in T, One(q, T) PROVE None(t, T)
  <2>1. \A j \in 1 .. Len(q) : q[j] \in T => j = 1
    BY <1>1, <1>4 DEF One
  <2> QED BY <1>1, <2>1 DEF None
<1> QED BY <1>2, <1>3, <1>4 DEF t, Keeps

LEMMA CountConcatenated ==
    ASSUME NEW S, NEW T, NEW p \in Seq(S), NEW q \in Seq(S)
    PROVE  /\ None(q, T) => Keeps(p, p \o q, T)
           /\ None(p, T) => Keeps(q, p \o q, T)
<1> DEFINE c == p \o q
<1>1. /\ Len(p) \in Nat /\ Len(q) \in Nat /\ Len(c) = Len(p) + Len(q)
      /\ \A i \in 1 .. Len(p) + Len(q) :
            c[i] = IF i <= Len(p) THEN p[i] ELSE q[i - Len(p)]
  BY ConcatProperties, LenProperties
<1> HIDE DEF c
<1>2. /\ \A i \in 1 .. Len(p) : i \in 1 .. Len(c) /\ c[i] = p[i]
      /\ \A i \in 1 .. Len(q) : Len(p) + i \in 1 .. Len(c) /\ c[Len(p) + i] = q[i]
      /\ \A i \in 1 .. Len(c) : i \in 1 .. Len(p) \/ i - Len(p) \in 1 .. Len(q)
  <2>1. ASSUME NEW i \in 1 .. Len(p) PROVE i \in 1 .. Len(c) /\ c[i] = p[i]
    <3>1. i \in 1 .. Len(c) /\ i \in 1 .. Len(p) + Len(q) /\ i <= Len(p)
      BY <1>1
    <3> QED BY <1>1, <3>1
  <2>2. ASSUME NEW i \in 1 .. Len(q) PROVE Len(p) + i \in 1 .. Len(c) /\ c[Len(p) + i] = q[i]
    <3>1. /\ Len(p) + i \in 1 .. Len(c) /\ Len(p) + i \in 1 .. Len(p) + Len(q)
          /\ ~(Len(p) + i <= Len(p)) /\ Len(p) + i - Len(p) = i
      BY <1>1
    <3>2. c[Len(p) + i] = q[Len(p) + i - Len(p)]
      BY <1>1, <3>1
    <3> QED BY <3>1, <3>2
  <2>3. ASSUME NEW i \in 1 .. Len(c) PROVE i \in 1 .. Len(p) \/ i - Len(p) \in 1 .. Len(q)
    BY <1>1
  <2> QED BY <2>1, <2>2, <2>3
<1>3. \A i \in 1 .. Len(c) :
         c[i] = IF i \in 1 .. Len(p) THEN p[i] ELSE q[i - Len(p)]
  BY <1>1
<1>4. ASSUME None(p, T), None(q, T) PROVE None(c, T)
  BY <1>2, <1>3, <1>4 DEF None
<1>5. ASSUME One(p, T), None(q, T) PROVE One(c, T)
  <2>1. PICK i \in 1 .. Len(p) :
          /\ p[i] \in T
          /\ \A j \in 1 .. Len(p) : p[j] \in T => j = i
    BY <1>5 DEF One
  <2>2. \A j \in 1 .. Len(c) : c[j] \in T => j = i
    BY <1>2, <1>3, <1>5, <2>1 DEF None
  <2> QED BY <1>2, <2>1, <2>2 DEF One
<1>6. ASSUME None(p, T), One(q, T) PROVE One(c, T)
  <2>1. PICK i \in 1 .. Len(q) :
          /\ q[i] \in T
          /\ \A j \in 1 .. Len(q) : q[j] \in T => j = i
    BY <1>6 DEF One
  <2>2. ASSUME NEW j \in 1 .. Len(c), c[j] \in T PROVE j = Len(p) + i
    <3>1. j \notin 1 .. Len(p)
      BY <1>3, <1>6, <2>2 DEF None
    <3>2. j - Len(p) \in 1 .. Len(q) /\ q[j - Len(p)] \in T
      BY <1>2, <1>3, <2>2, <3>1
    <3>3. j - Len(p) = i
      BY <2>1, <3>2
    <3> QED BY <1>1, <3>3
  <2> QED BY <1>2, <2>1, <2>2 DEF One
<1> QED BY <1>4, <1>5, <1>6 DEF c, Keeps

(* Two sequences of one length, where T of the first is U of the second.   *)
LEMMA CountMapped ==
    ASSUME NEW T, NEW U, NEW q, NEW r, Len(r) = Len(q),
           \A i \in 1 .. Len(q) : q[i] \in T <=> r[i] \in U
    PROVE  (None(q, T) => None(r, U)) /\ (One(q, T) => One(r, U))
BY DEF None, One

-----------------------------------------------------------------------------
(* The elements of a sequence, whatever their order. *)

Elements(q) == {q[i] : i \in 1 .. Len(q)}

LEMMA ElementsChange ==
    ASSUME NEW S, NEW q \in Seq(S)
    PROVE  /\ Elements(q) \subseteq S
           /\ \A h \in S : Elements(Append(q, h)) = Elements(q) \cup {h}
           /\ q # <<>> => Head(q) \in Elements(q) /\ Elements(Tail(q)) \subseteq Elements(q)
           /\ \A r \in Seq(S) : Elements(q \o r) = Elements(q) \cup Elements(r)
<1>1. Elements(q) \subseteq S
  BY ElementOfSeq DEF Elements
<1>2. ASSUME NEW h \in S PROVE Elements(Append(q, h)) = Elements(q) \cup {h}
  <2> DEFINE a == Append(q, h)
  <2>1. /\ Len(q) \in Nat /\ Len(a) = Len(q) + 1
        /\ \A i \in 1 .. Len(q) : a[i] = q[i]
        /\ a[Len(q) + 1] = h
    BY AppendProperties, LenProperties
  <2> HIDE DEF a
  <2>2. 1 .. Len(a) = (1 .. Len(q)) \cup {Len(q) + 1}
    BY <2>1
  <2>3. Elements(a) = {a[i] : i \in 1 .. Len(q)} \cup {a[Len(q) + 1]}
    BY <2>2 DEF Elements
  <2> QED BY <2>1, <2>3 DEF Elements, a
<1>3. ASSUME q # <<>>
      PROVE  Head(q) \in Elements(q) /\ Elements(Tail(q)) \subseteq Elements(q)
  <2> DEFINE t == Tail(q)
  <2>1. /\ Len(q) \in Nat \ {0} /\ Len(t) = Len(q) - 1
        /\ \A i \in 1 .. Len(t) : t[i] = q[i + 1] /\ i + 1 \in 1 .. Len(q)
        /\ Head(q) = q[1] /\ 1 \in 1 .. Len(q)
    BY <1>3, HeadTailProperties, EmptySeq
  <2> HIDE DEF t
  <2> QED BY <2>1 DEF Elements, t
<1>4. ASSUME NEW r \in Seq(S)
      PROVE  Elements(q \o r) = Elements(q) \cup Elements(r)
  <2> DEFINE c == q \o r
  <2>1. /\ Len(q) \in Nat /\ Len(r) \in Nat /\ Len(c) = Len(q) + Len(r)
        /\ \A i \in 1 .. Len(q) + Len(r) :
              c[i] = IF i <= Len(q) THEN q[i] ELSE r[i - Len(q)]
    BY ConcatProperties, LenProperties
  <2> HIDE DEF c
  <2>2. /\ \A i \in 1 .. Len(q) : i \in 1 .. Len(c) /\ c[i] = q[i]
        /\ \A i \in 1 .. Len(r) : Len(q) + i \in 1 .. Len(c) /\ c[Len(q) + i] = r[i]
        /\ \A i \in 1 .. Len(c) :
              \/ i \in 1 .. Len(q) /\ c[i] = q[i]
              \/ i - Len(q) \in 1 .. Len(r) /\ c[i] = r[i - Len(q)]
    <3>1. ASSUME NEW i \in 1 .. Len(q) PROVE i \in 1 .. Len(c) /\ c[i] = q[i]
      BY <2>1
    <3>2. ASSUME NEW i \in 1 .. Len(r) PROVE Len(q) + i \in 1 .. Len(c) /\ c[Len(q) + i] = r[i]
      <4>1. /\ Len(q) + i \in 1 .. Len(c) /\ Len(q) + i \in 1 .. Len(q) + Len(r)
            /\ ~(Len(q) + i <= Len(q)) /\ Len(q) + i - Len(q) = i
        BY <2>1
      <4>2. c[Len(q) + i] = r[Len(q) + i - Len(q)]
        BY <2>1, <4>1
      <4> QED BY <4>1, <4>2
    <3>3. ASSUME NEW i \in 1 .. Len(c)
          PROVE  \/ i \in 1 .. Len(q) /\ c[i] = q[i]
                 \/ i - Len(q) \in 1 .. Len(r) /\ c[i] = r[i - Len(q)]
      BY <2>1
    <3> QED BY <3>1, <3>2, <3>3
  <2>3. Elements(c) \subseteq Elements(q) \cup Elements(r)
    BY <2>2 DEF Elements
  <2>4. Elements(q) \subseteq Elements(c)
    BY <2>2 DEF Elements
  <2>5. Elements(r) \subseteq Elements(c)
    <3>1. ASSUME NEW i \in 1 .. Len(r) PROVE r[i] \in Elements(c)
      <4>1. Len(q) + i \in 1 .. Len(c) /\ c[Len(q) + i] = r[i]
        BY <2>2
      <4> QED BY <4>1, Zenon DEF Elements
    <3> QED BY <3>1 DEF Elements
  <2> QED BY <2>3, <2>4, <2>5 DEF c
<1> QED BY <1>1, <1>2, <1>3, <1>4

(* Datagrams, or waiting sends, with growing numbers. *)
Ascending(s) == \A i, j \in 1 .. Len(s) : i < j => s[i].id < s[j].id

LEMMA AscendingChange ==
    ASSUME NEW S, NEW s \in Seq(S), Ascending(s)
    PROVE  /\ \A e \in S : (\A f \in Elements(s) : f.id < e.id) => Ascending(Append(s, e))
           /\ s # <<>> => /\ Ascending(Tail(s))
                          /\ \A f \in Elements(Tail(s)) : Head(s).id < f.id
<1>1. ASSUME NEW e \in S, \A f \in Elements(s) : f.id < e.id
      PROVE  Ascending(Append(s, e))
  <2> DEFINE a == Append(s, e)
  <2>1. /\ Len(s) \in Nat /\ Len(a) = Len(s) + 1
        /\ \A i \in 1 .. Len(s) : a[i] = s[i]
        /\ a[Len(s) + 1] = e
    BY AppendProperties, LenProperties
  <2> HIDE DEF a
  <2>2. \A i \in 1 .. Len(s) : s[i].id < e.id
    BY <1>1 DEF Elements
  <2>3. ASSUME NEW i \in 1 .. Len(a), NEW j \in 1 .. Len(a), i < j
        PROVE  a[i].id < a[j].id
    <3>1. i \in 1 .. Len(s) /\ (j \in 1 .. Len(s) \/ j = Len(s) + 1)
      BY <2>1, <2>3
    <3> QED BY <2>1, <2>2, <2>3, <3>1 DEF Ascending
  <2> QED BY <2>3 DEF Ascending, a
<1>2. ASSUME s # <<>>
      PROVE  Ascending(Tail(s)) /\ \A f \in Elements(Tail(s)) : Head(s).id < f.id
  <2> DEFINE t == Tail(s)
  <2>1. /\ Len(s) \in Nat \ {0} /\ Len(t) = Len(s) - 1
        /\ \A i \in 1 .. Len(t) : t[i] = s[i + 1] /\ i + 1 \in 1 .. Len(s)
        /\ Head(s) = s[1] /\ 1 \in 1 .. Len(s)
    BY <1>2, HeadTailProperties, EmptySeq
  <2> HIDE DEF t
  <2>2. Ascending(t)
    BY <2>1 DEF Ascending
  <2>3. \A i \in 1 .. Len(t) : s[1].id < t[i].id
    BY <2>1 DEF Ascending
  <2> QED BY <2>1, <2>2, <2>3 DEF Elements, t
<1> QED BY <1>1, <1>2

(* The posted handlers of a queue, with growing numbers. *)
Ordered(q) ==
    \A i, j \in 1 .. Len(q) :
        i < j /\ q[i].kind = "send" /\ q[j].kind = "send"
            => q[i].send.id < q[j].send.id

LEMMA OrderedChange ==
    ASSUME NEW q \in Seq(Handlers), Ordered(q)
    PROVE  /\ \A h \in Handlers :
                 (h.kind = "send" => \A g \in Elements(q) :
                                        g.kind = "send" => g.send.id < h.send.id)
                     => Ordered(Append(q, h))
           /\ q # <<>> =>
                 /\ Ordered(Tail(q))
                 /\ Head(q).kind = "send" => \A g \in Elements(Tail(q)) :
                        g.kind = "send" => Head(q).send.id < g.send.id
           /\ \A r \in Seq(Handlers) :
                 (\A g \in Elements(r) : g.kind # "send") => Ordered(q \o r)
<1>1. ASSUME NEW h \in Handlers,
             h.kind = "send" => \A g \in Elements(q) :
                                    g.kind = "send" => g.send.id < h.send.id
      PROVE  Ordered(Append(q, h))
  <2> DEFINE a == Append(q, h)
  <2>1. /\ Len(q) \in Nat /\ Len(a) = Len(q) + 1
        /\ \A i \in 1 .. Len(q) : a[i] = q[i]
        /\ a[Len(q) + 1] = h
    BY AppendProperties, LenProperties
  <2> HIDE DEF a
  <2>2. \A i \in 1 .. Len(q) :
           q[i].kind = "send" /\ h.kind = "send" => q[i].send.id < h.send.id
    BY <1>1 DEF Elements
  <2>3. ASSUME NEW i \in 1 .. Len(a), NEW j \in 1 .. Len(a), i < j,
               a[i].kind = "send", a[j].kind = "send"
        PROVE  a[i].send.id < a[j].send.id
    <3>1. i \in 1 .. Len(q) /\ (j \in 1 .. Len(q) \/ j = Len(q) + 1)
      BY <2>1, <2>3
    <3> QED BY <2>1, <2>2, <2>3, <3>1 DEF Ordered
  <2> QED BY <2>3 DEF Ordered, a
<1>2. ASSUME q # <<>>
      PROVE  /\ Ordered(Tail(q))
             /\ Head(q).kind = "send" => \A g \in Elements(Tail(q)) :
                    g.kind = "send" => Head(q).send.id < g.send.id
  <2> DEFINE t == Tail(q)
  <2>1. /\ Len(q) \in Nat \ {0} /\ Len(t) = Len(q) - 1
        /\ \A i \in 1 .. Len(t) : t[i] = q[i + 1] /\ i + 1 \in 1 .. Len(q)
        /\ Head(q) = q[1] /\ 1 \in 1 .. Len(q)
    BY <1>2, HeadTailProperties, EmptySeq
  <2> HIDE DEF t
  <2>2. Ordered(t)
    <3>1. ASSUME NEW i \in 1 .. Len(t), NEW j \in 1 .. Len(t), i < j,
                 t[i].kind = "send", t[j].kind = "send"
          PROVE  t[i].send.id < t[j].send.id
      <4>1. /\ i + 1 \in 1 .. Len(q) /\ j + 1 \in 1 .. Len(q) /\ i + 1 < j + 1
            /\ t[i] = q[i + 1] /\ t[j] = q[j + 1]
        BY <2>1, <3>1
      <4> QED BY <3>1, <4>1 DEF Ordered
    <3> QED BY <3>1 DEF Ordered
  <2>3. q[1].kind = "send" =>
           \A i \in 1 .. Len(t) : t[i].kind = "send" => q[1].send.id < t[i].send.id
    BY <2>1 DEF Ordered
  <2> QED BY <2>1, <2>2, <2>3 DEF Elements, t
<1>3. ASSUME NEW r \in Seq(Handlers), \A g \in Elements(r) : g.kind # "send"
      PROVE  Ordered(q \o r)
  <2> DEFINE c == q \o r
  <2>1. /\ Len(q) \in Nat /\ Len(r) \in Nat /\ Len(c) = Len(q) + Len(r)
        /\ \A i \in 1 .. Len(q) + Len(r) :
              c[i] = IF i <= Len(q) THEN q[i] ELSE r[i - Len(q)]
    BY ConcatProperties, LenProperties
  <2> HIDE DEF c
  <2>2. \A i \in 1 .. Len(r) : r[i].kind # "send"
    BY <1>3 DEF Elements
  <2>3. \A i \in 1 .. Len(c) : c[i].kind = "send" => i \in 1 .. Len(q) /\ c[i] = q[i]
    BY <2>1, <2>2
  <2> QED BY <2>3 DEF Ordered, c
<1> QED BY <1>1, <1>2, <1>3

-----------------------------------------------------------------------------
(* What the steps of Socket do to sends.  Each step is one of six moves;   *)
(* q is the queue without the handler that ran.                            *)

WireItems == [id : 1 .. MaxSends, to : Endpoints, re : 0 .. MaxDatagrams,
              bytes : {"intact", "garbage"}]
Reports == [id : 1 .. MaxSends, ec : Codes]

(* The queue as it is, or without the receive handler that ran. *)
Rest(q) == \/ q = ready
           \/ ready # <<>> /\ Head(ready) \in ReceiveHandlers /\ q = Tail(ready)

(* A receive is added to queue q, or nothing. *)
MaybeReceive(q) ==
    ready' = q \/ \E h \in ReceiveHandlers : ready' = Append(q, h)

ReceiveMove ==
    /\ \E q \in Seq(Handlers) : Rest(q) /\ MaybeReceive(q)
    /\ UNCHANGED <<sendOps, wire, sendReports, calls>>

CallMove ==
    /\ \E q \in Seq(Handlers), s \in Sends :
         /\ Rest(q) /\ s.id = calls + 1
         /\ MaybeReceive(Append(q, Posted(s)))
    /\ calls' = calls + 1
    /\ UNCHANGED <<sendOps, wire, sendReports>>

(* The send ends: from its posted handler, or from the reactor. *)
EndMove ==
    /\ \E s \in Sends, q \in Seq(Handlers), ec \in Codes :
         /\ \/ /\ ready # <<>> /\ Head(ready) = Posted(s) /\ q = Tail(ready)
               /\ sendOps' = sendOps
               /\ ec = "ok" => sendOps = <<>>
            \/ /\ sendOps # <<>> /\ Head(sendOps) = s /\ q = ready
               /\ sendOps' = Tail(sendOps)
         /\ ready' = Append(q, Sent(s, ec))
         /\ \/ ec # "ok" /\ wire' = wire
            \/ ec = "ok" /\ \E w \in WireItems : w.id = s.id /\ wire' = Append(wire, w)
    /\ UNCHANGED <<sendReports, calls>>

WaitMove ==
    /\ \E s \in Sends : /\ ready # <<>> /\ Head(ready) = Posted(s)
                        /\ sendOps' = Append(sendOps, s)
    /\ ready' = Tail(ready)
    /\ UNCHANGED <<wire, sendReports, calls>>

ReportMove ==
    /\ \E s \in Sends, ec \in Codes :
         /\ ready # <<>> /\ Head(ready) = Sent(s, ec)
         /\ sendReports' = Append(sendReports, [id |-> s.id, ec |-> ec])
    /\ ready' = Tail(ready)
    /\ UNCHANGED <<sendOps, wire, calls>>

AbortedSends == [i \in 1 .. Len(sendOps) |-> Sent(sendOps[i], "aborted")]

CloseMove ==
    /\ \E r \in Seq(ReceiveHandlers) : ready' = (ready \o r) \o AbortedSends
    /\ sendOps' = <<>>
    /\ UNCHANGED <<wire, sendReports, calls>>

Move == ReceiveMove \/ CallMove \/ EndMove \/ WaitMove \/ ReportMove \/ CloseMove

LEMMA SendTypes ==
    ASSUME TypeInv
    PROVE  /\ ready \in Seq(Handlers) /\ sendOps \in Seq(Sends)
           /\ wire \in Seq(WireItems) /\ sendReports \in Seq(Reports)
           /\ calls \in Nat /\ calls <= MaxSends
           /\ AbortedSends \in Seq(Handlers) /\ Len(AbortedSends) = Len(sendOps)
<1>1. /\ ready \in Seq(Handlers) /\ sendOps \in Seq(Sends)
      /\ wire \in Seq(WireItems) /\ sendReports \in Seq(Reports)
      /\ calls \in Nat /\ calls <= MaxSends
  BY SocketAssumption DEF TypeInv, TypeOK, WireItems, Reports
<1>2. Len(sendOps) \in Nat /\ \A i \in 1 .. Len(sendOps) : sendOps[i] \in Sends
  BY <1>1, LenProperties, ElementOfSeq
<1>3. \A i \in 1 .. Len(sendOps) : Sent(sendOps[i], "aborted") \in Handlers
  BY <1>2, HandlerTypes DEF Codes
<1> QED BY <1>1, <1>2, <1>3 DEF AbortedSends

LEMMA StartReceiveMoves ==
    ASSUME NEW q, StartReceive(q) PROVE MaybeReceive(q)
<1>1. \A ec \in {"ok", "badDescriptor", "failed"} : Received(ec) \in ReceiveHandlers
  BY DEF ReceiveHandlers, Codes
<1> QED BY <1>1 DEF StartReceive, MaybeReceive

LEMMA ReceiveIsMove ==
    ASSUME TypeInv, RunOrderReceive \/ RunReceived PROVE Move
<1>1. /\ ready # <<>> /\ Head(ready) \in ReceiveHandlers
      /\ Tail(ready) \in Seq(Handlers)
  <2>1. ready # <<>> /\ Head(ready).kind \in {"orderReceive", "received"}
    BY DEF RunOrderReceive, RunReceived
  <2> QED BY <2>1, HeadTailType, HandlerKinds
<1>2. Rest(Tail(ready))
  BY <1>1 DEF Rest
<1>3. CASE RunOrderReceive
  <2>1. UNCHANGED <<sendOps, wire, sendReports, calls>> /\ MaybeReceive(Tail(ready))
    BY <1>3, StartReceiveMoves DEF RunOrderReceive, sendVars
  <2> QED BY <1>1, <1>2, <2>1 DEF Move, ReceiveMove
<1>4. CASE RunReceived
  <2> DEFINE s == [id |-> calls + 1, to |-> remoteEndpoint, re |-> recvBuffer.id]
  <2>1. PICK x \in Executions(Head(ready).ec, recvBuffer.form) :
          LET q == IF x.reply
                   THEN Post(Tail(ready), remoteEndpoint, recvBuffer.id)
                   ELSE Tail(ready)
          IN  /\ x.reply => calls < MaxSends
              /\ calls' = IF x.reply THEN calls + 1 ELSE calls
              /\ ready' = q \/ StartReceive(q)
    BY <1>4 DEF RunReceived
  <2>2. UNCHANGED <<sendOps, wire, sendReports>>
    BY <1>4 DEF RunReceived, sendVars
  <2>3. CASE x.reply
    <3>1. /\ Head(ready).ec = "ok"
          /\ recvBuffer \in Datagrams /\ remoteEndpoint \in Endpoints
      BY <1>1, <1>4, <2>3, HeadTailType, HandlerKinds, ExecutionsType DEF RunReceived
    <3>2. recvBuffer.id \in 0 .. MaxDatagrams
      BY <3>1, SocketAssumption DEF Datagrams
    <3>3. s \in Sends /\ s.id = calls + 1
      BY <2>1, <2>3, <3>1, <3>2, SocketAssumption DEF TypeInv, TypeOK, Sends
    <3>4. MaybeReceive(Append(Tail(ready), Posted(s)))
      BY <2>1, <2>3, StartReceiveMoves DEF Post, MaybeReceive
    <3>5. calls' = calls + 1
      BY <2>1, <2>3
    <3> HIDE DEF s
    <3> QED BY <1>1, <1>2, <2>2, <3>3, <3>4, <3>5 DEF Move, CallMove
  <2>4. CASE ~x.reply
    <3>1. MaybeReceive(Tail(ready)) /\ calls' = calls
      BY <2>1, <2>4, StartReceiveMoves DEF MaybeReceive
    <3> QED BY <1>1, <1>2, <2>2, <3>1 DEF Move, ReceiveMove
  <2> QED BY <2>1, <2>3, <2>4
<1> QED BY <1>3, <1>4

LEMMA TransmitIsMove ==
    ASSUME TypeInv, NEW s \in Sends, NEW q \in Seq(Handlers),
           NEW bytes \in SUBSET {"intact", "garbage"}, Transmit(s, bytes, q)
    PROVE  \E ec \in Codes :
              /\ ready' = Append(q, Sent(s, ec))
              /\ \/ ec # "ok" /\ wire' = wire
                 \/ ec = "ok" /\ \E w \in WireItems : w.id = s.id /\ wire' = Append(wire, w)
<1>1. CASE \E b \in bytes :
             wire' = Append(wire, [id |-> s.id, to |-> Destination(s),
                                   re |-> s.re, bytes |-> b])
             /\ ready' = Append(q, Sent(s, "ok"))
  <2>1. PICK b \in bytes :
             /\ wire' = Append(wire, [id |-> s.id, to |-> Destination(s),
                                      re |-> s.re, bytes |-> b])
             /\ ready' = Append(q, Sent(s, "ok"))
    BY <1>1
  <2> DEFINE w == [id |-> s.id, to |-> Destination(s), re |-> s.re, bytes |-> b]
  <2>2. w \in WireItems /\ w.id = s.id
    BY DEF WireItems, Sends, Destination
  <2> QED BY <2>1, <2>2 DEF Codes
<1>2. CASE ready' = Append(q, Sent(s, "failed")) /\ wire' = wire
  BY <1>2 DEF Codes
<1> QED BY <1>1, <1>2 DEF Transmit

LEMMA PostedHead ==
    ASSUME TypeInv, ready # <<>>, Head(ready).kind = "send"
    PROVE  /\ Head(ready).send \in Sends /\ Head(ready) = Posted(Head(ready).send)
           /\ Tail(ready) \in Seq(Handlers)
<1>1. Head(ready) \in SendHandlers /\ Tail(ready) \in Seq(Handlers)
  BY HeadTailType, HandlerKinds
<1>2. Head(ready) \in {Posted(s) : s \in Sends}
  BY <1>1 DEF SendHandlers, Sent
<1>3. PICK s \in Sends : Head(ready) = Posted(s)
  BY <1>2
<1>4. Posted(s).send = s
  BY DEF Posted
<1> QED BY <1>1, <1>3, <1>4

LEMMA SentHead ==
    ASSUME TypeInv, ready # <<>>, Head(ready).kind = "sent"
    PROVE  /\ Head(ready).send \in Sends /\ Head(ready).ec \in Codes
           /\ Head(ready) = Sent(Head(ready).send, Head(ready).ec)
           /\ Tail(ready) \in Seq(Handlers)
<1>1. Head(ready) \in SendHandlers /\ Tail(ready) \in Seq(Handlers)
  BY HeadTailType, HandlerKinds
<1>2. Head(ready) \in {Sent(s, ec) : s \in Sends, ec \in Codes}
  BY <1>1 DEF SendHandlers, Posted
<1>3. PICK s \in Sends, ec \in Codes : Head(ready) = Sent(s, ec)
  BY <1>2
<1>4. Sent(s, ec).send = s /\ Sent(s, ec).ec = ec
  BY DEF Sent
<1> QED BY <1>1, <1>3, <1>4

LEMMA RunSendIsMove == TypeInv /\ RunSend => EndMove \/ WaitMove
<1> SUFFICES ASSUME TypeInv, RunSend PROVE EndMove \/ WaitMove
  OBVIOUS
<1> DEFINE s == Head(ready).send
           q == Tail(ready)
<1>1. /\ ready # <<>> /\ s \in Sends /\ Head(ready) = Posted(s) /\ q \in Seq(Handlers)
      /\ UNCHANGED <<sendReports, calls>>
  BY PostedHead DEF RunSend
<1>2. CASE ready' = Append(q, Sent(s, "badDescriptor")) /\ UNCHANGED sendVars
  BY <1>1, <1>2 DEF EndMove, sendVars, Codes
<1>3. CASE sendOps = <<>> /\ Transmit(s, BytesInHandler, q) /\ UNCHANGED sendOps
  <2>1. BytesInHandler \in SUBSET {"intact", "garbage"}
    BY DEF BytesInHandler
  <2>2. PICK ec \in Codes :
              /\ ready' = Append(q, Sent(s, ec))
              /\ \/ ec # "ok" /\ wire' = wire
                 \/ ec = "ok" /\ \E w \in WireItems : w.id = s.id /\ wire' = Append(wire, w)
    BY <1>1, <1>3, <2>1, TransmitIsMove
  <2> HIDE DEF s, q
  <2> QED BY <1>1, <1>3, <2>2 DEF EndMove, q
<1>4. CASE sendOps' = Append(sendOps, s) /\ ready' = q /\ UNCHANGED <<wire, outbox>>
  BY <1>1, <1>4 DEF WaitMove
<1> QED BY <1>2, <1>3, <1>4 DEF RunSend

LEMMA RunSentIsMove == TypeInv /\ RunSent => ReportMove
<1> SUFFICES ASSUME TypeInv, RunSent PROVE ReportMove
  OBVIOUS
<1>1. /\ ready # <<>> /\ Head(ready).send \in Sends /\ Head(ready).ec \in Codes
      /\ Head(ready) = Sent(Head(ready).send, Head(ready).ec)
  BY SentHead DEF RunSent
<1> QED BY <1>1 DEF RunSent, ReportedCode, sendVars, ReportMove

LEMMA ReactorSendIsMove == TypeInv /\ ReactorSend => EndMove
<1> SUFFICES ASSUME TypeInv, ReactorSend PROVE EndMove
  OBVIOUS
<1> DEFINE s == Head(sendOps)
<1>1. ready \in Seq(Handlers) /\ sendOps # <<>> /\ s \in Sends
  BY SendTypes, HeadTailProperties DEF ReactorSend, TypeInv, TypeOK
<1>2. BytesAfterHandler \in SUBSET {"intact", "garbage"}
  BY DEF BytesAfterHandler
<1>3. PICK ec \in Codes :
            /\ ready' = Append(ready, Sent(s, ec))
            /\ \/ ec # "ok" /\ wire' = wire
               \/ ec = "ok" /\ \E w \in WireItems : w.id = s.id /\ wire' = Append(wire, w)
  BY <1>1, <1>2, TransmitIsMove DEF ReactorSend
<1>4. sendOps' = Tail(sendOps) /\ UNCHANGED <<sendReports, calls>>
  BY DEF ReactorSend
<1> QED BY <1>1, <1>3, <1>4 DEF EndMove

LEMMA CloseIsMove == TypeInv /\ Close => Move
<1> SUFFICES ASSUME TypeInv, Close PROVE Move
  OBVIOUS
<1> DEFINE reads == [i \in 1 .. recvOps |-> Received("aborted")]
<1>1. reads \in Seq(ReceiveHandlers)
  <2>1. Received("aborted") \in ReceiveHandlers
    BY DEF ReceiveHandlers, Codes
  <2> QED BY <2>1 DEF TypeInv, TypeOK
<1>2. /\ ready' = (ready \o reads) \o AbortedSends
      /\ sendOps' = <<>>
      /\ UNCHANGED <<wire, sendReports, calls>>
  BY DEF Close, Aborted, KeptSends, AbortedSends
<1> HIDE DEF reads
<1> QED BY <1>1, <1>2 DEF Move, CloseMove

LEMMA StepIsMove == TypeInv /\ [Next]_vars => Move
<1> SUFFICES ASSUME TypeInv, [Next]_vars PROVE Move
  OBVIOUS
<1>0. ready \in Seq(Handlers) /\ Rest(ready)
  BY SendTypes DEF Rest
<1>1. CASE RunOrderReceive \/ RunReceived
  BY <1>1, ReceiveIsMove
<1>2. CASE RunSend
  BY <1>2, RunSendIsMove DEF Move
<1>3. CASE RunSent
  BY <1>3, RunSentIsMove DEF Move
<1>4. CASE Close
  BY <1>4, CloseIsMove
<1>5. CASE AsyncSend
  <2>1. PICK to \in Endpoints : ready' = Post(ready, to, 0)
    BY <1>5 DEF AsyncSend
  <2> DEFINE s == [id |-> calls + 1, to |-> to, re |-> 0]
  <2>2. s \in Sends /\ s.id = calls + 1
    BY <1>5, SocketAssumption DEF AsyncSend, TypeInv, TypeOK, Sends
  <2>3. MaybeReceive(Append(ready, Posted(s)))
    BY <2>1 DEF Post, MaybeReceive
  <2>4. calls' = calls + 1 /\ UNCHANGED <<sendOps, wire, sendReports>>
    BY <1>5 DEF AsyncSend, sendVars
  <2> HIDE DEF s
  <2> QED BY <1>0, <2>2, <2>3, <2>4 DEF Move, CallMove
<1>6. CASE ReactorSend
  BY <1>6, ReactorSendIsMove DEF Move
<1>7. CASE ReactorReceive \/ ReactorReceiveError
  <2>1. Received("ok") \in ReceiveHandlers /\ Received("failed") \in ReceiveHandlers
    BY DEF ReceiveHandlers, Codes
  <2>2. MaybeReceive(ready) /\ UNCHANGED <<sendOps, wire, sendReports, calls>>
    BY <1>7, <2>1 DEF ReactorReceive, ReactorReceiveError, MaybeReceive, sendVars
  <2> QED BY <1>0, <2>2 DEF Move, ReceiveMove
<1>8. CASE Arrive \/ Drain \/ UNCHANGED vars
  <2>1. MaybeReceive(ready) /\ UNCHANGED <<sendOps, wire, sendReports, calls>>
    BY <1>8 DEF Arrive, Drain, MaybeReceive, vars, sendVars
  <2> QED BY <1>0, <2>1 DEF Move, ReceiveMove
<1> QED BY <1>1, <1>2, <1>3, <1>4, <1>5, <1>6, <1>7, <1>8 DEF Next

-----------------------------------------------------------------------------
(* Every call is in one place.                                             *)

HandlersOf(id) == {h \in SendHandlers : h.send.id = id}
SendsOf(id) == {s \in Sends : s.id = id}
ReportsOf(id) == {r \in Reports : r.id = id}

InOnePlace(id) ==
    \/ One(ready, HandlersOf(id)) /\ None(sendOps, SendsOf(id))
                                  /\ None(sendReports, ReportsOf(id))
    \/ None(ready, HandlersOf(id)) /\ One(sendOps, SendsOf(id))
                                   /\ None(sendReports, ReportsOf(id))
    \/ None(ready, HandlersOf(id)) /\ None(sendOps, SendsOf(id))
                                   /\ One(sendReports, ReportsOf(id))

InNoPlace(id) ==
    None(ready, HandlersOf(id)) /\ None(sendOps, SendsOf(id))
                                /\ None(sendReports, ReportsOf(id))

OnceInv == \A id \in 1 .. MaxSends :
              IF id <= calls THEN InOnePlace(id) ELSE InNoPlace(id)

LEMMA HandlersOfTypes ==
    /\ \A h \in ReceiveHandlers, id \in 1 .. MaxSends :
          h \in Handlers /\ h \notin HandlersOf(id)
    /\ \A s \in Sends, id \in 1 .. MaxSends :
          Posted(s) \in Handlers /\ (Posted(s) \in HandlersOf(id) <=> s.id = id)
    /\ \A s \in Sends, ec \in Codes, id \in 1 .. MaxSends :
          Sent(s, ec) \in Handlers /\ (Sent(s, ec) \in HandlersOf(id) <=> s.id = id)
    /\ \A s \in Sends, id \in 1 .. MaxSends : s \in SendsOf(id) <=> s.id = id
    /\ \A s \in Sends, ec \in Codes, id \in 1 .. MaxSends :
          LET r == [id |-> s.id, ec |-> ec]
          IN  r \in Reports /\ (r \in ReportsOf(id) <=> s.id = id)
<1>1. \A h \in ReceiveHandlers, id \in 1 .. MaxSends :
          h \in Handlers /\ h \notin HandlersOf(id)
  BY DisjointHandlers DEF Handlers, HandlersOf
<1>2. \A s \in Sends : Posted(s) \in SendHandlers /\ Posted(s).send = s
  BY DEF SendHandlers, Posted
<1>3. \A s \in Sends, ec \in Codes : Sent(s, ec) \in SendHandlers /\ Sent(s, ec).send = s
  BY DEF SendHandlers, Sent
<1>4. ASSUME NEW s \in Sends, NEW ec \in Codes
      PROVE  [id |-> s.id, ec |-> ec] \in Reports
  BY DEF Sends, Reports
<1> QED BY <1>1, <1>2, <1>3, <1>4 DEF HandlersOf, SendsOf, ReportsOf, Handlers

(* The handler that ran a receive, and the next receive, count for no send. *)
LEMMA RestKeeps ==
    ASSUME TypeInv, NEW q \in Seq(Handlers), NEW id \in 1 .. MaxSends
    PROVE  /\ Rest(q) => Keeps(ready, q, HandlersOf(id))
           /\ MaybeReceive(q) => Keeps(q, ready', HandlersOf(id))
<1>1. ready \in Seq(Handlers)
  BY SendTypes
<1>2. ASSUME Rest(q) PROVE Keeps(ready, q, HandlersOf(id))
  <2>1. CASE q = ready
    BY <2>1 DEF Keeps
  <2>2. CASE ready # <<>> /\ Head(ready) \in ReceiveHandlers /\ q = Tail(ready)
    BY <1>1, <2>2, CountRemoved, HandlersOfTypes
  <2> QED BY <1>2, <2>1, <2>2 DEF Rest
<1>3. ASSUME MaybeReceive(q) PROVE Keeps(q, ready', HandlersOf(id))
  <2>1. CASE ready' = q
    BY <2>1 DEF Keeps
  <2>2. CASE \E h \in ReceiveHandlers : ready' = Append(q, h)
    <3>1. PICK h \in ReceiveHandlers : ready' = Append(q, h)
      BY <2>2
    <3>2. h \in Handlers /\ h \notin HandlersOf(id)
      BY HandlersOfTypes
    <3> QED BY <3>1, <3>2, CountAppended
  <2> QED BY <1>3, <2>1, <2>2 DEF MaybeReceive
<1> QED BY <1>2, <1>3

(* Taking the handler of send s from the queue. *)
LEMMA HeadRemoved ==
    ASSUME TypeInv, NEW s \in Sends, NEW id \in 1 .. MaxSends, ready # <<>>,
           Head(ready) = Posted(s) \/ \E ec \in Codes : Head(ready) = Sent(s, ec)
    PROVE  /\ id # s.id => Keeps(ready, Tail(ready), HandlersOf(id))
           /\ id = s.id => ~None(ready, HandlersOf(id))
           /\ id = s.id /\ One(ready, HandlersOf(id)) => None(Tail(ready), HandlersOf(id))
<1>1. ready \in Seq(Handlers)
  BY SendTypes
<1>2. Head(ready) \in HandlersOf(id) <=> s.id = id
  <2>1. CASE Head(ready) = Posted(s)
    BY <2>1, HandlersOfTypes
  <2>2. CASE \E ec \in Codes : Head(ready) = Sent(s, ec)
    BY <2>2, HandlersOfTypes
  <2> QED BY <2>1, <2>2
<1> QED BY <1>1, <1>2, CountRemoved

LEMMA InitOnce == Init => OnceInv
<1> SUFFICES ASSUME Init, NEW id \in 1 .. MaxSends PROVE InNoPlace(id) /\ ~(id <= calls)
  BY DEF OnceInv
<1>1. Len(ready) = 1 /\ ready[1] = OrderReceive
  BY DEF Init, InitialHandlers
<1>2. OrderReceive \notin HandlersOf(id)
  BY HandlersOfTypes DEF ReceiveHandlers
<1>3. None(ready, HandlersOf(id))
  BY <1>1, <1>2 DEF None
<1>4. sendOps = <<>> /\ sendReports = <<>> /\ calls = 0 /\ Len(<<>>) = 0
  BY EmptySeq DEF Init
<1> QED BY <1>3, <1>4 DEF InNoPlace, None

LEMMA ReceiveOnce == TypeInv /\ OnceInv /\ ReceiveMove => OnceInv'
<1> SUFFICES ASSUME TypeInv, OnceInv, ReceiveMove, NEW id \in 1 .. MaxSends
             PROVE  (IF id <= calls THEN InOnePlace(id) ELSE InNoPlace(id))'
  BY DEF OnceInv
<1>1. Keeps(ready, ready', HandlersOf(id)) /\ UNCHANGED <<sendOps, sendReports, calls>>
  BY RestKeeps DEF ReceiveMove, Keeps
<1> QED BY <1>1 DEF OnceInv, InOnePlace, InNoPlace, Keeps

LEMMA CallOnce == TypeInv /\ OnceInv /\ CallMove => OnceInv'
<1> SUFFICES ASSUME TypeInv, OnceInv, CallMove, NEW id \in 1 .. MaxSends
             PROVE  (IF id <= calls THEN InOnePlace(id) ELSE InNoPlace(id))'
  BY DEF OnceInv
<1>1. PICK q \in Seq(Handlers), s \in Sends :
        /\ Rest(q) /\ s.id = calls + 1
        /\ MaybeReceive(Append(q, Posted(s)))
  BY DEF CallMove
<1>2. /\ calls' = calls + 1 /\ calls \in Nat
      /\ UNCHANGED <<sendOps, sendReports>>
  BY SendTypes DEF CallMove
<1>3. Posted(s) \in Handlers /\ Append(q, Posted(s)) \in Seq(Handlers)
  BY HandlersOfTypes, HandlerTypes, AppendProperties
<1>4. /\ Keeps(ready, q, HandlersOf(id))
      /\ Keeps(Append(q, Posted(s)), ready', HandlersOf(id))
  BY <1>1, <1>3, RestKeeps
<1>5. CASE id = calls + 1
  <2>1. InNoPlace(id)
    BY <1>2, <1>5 DEF OnceInv
  <2>2. One(Append(q, Posted(s)), HandlersOf(id))
    BY <1>1, <1>3, <1>4, <1>5, <2>1, CountAppended, HandlersOfTypes DEF Keeps, InNoPlace
  <2> QED BY <1>2, <1>4, <1>5, <2>1, <2>2 DEF Keeps, InNoPlace, InOnePlace
<1>6. CASE id # calls + 1
  <2>1. Keeps(q, Append(q, Posted(s)), HandlersOf(id))
    BY <1>1, <1>3, <1>6, CountAppended, HandlersOfTypes
  <2>2. id <= calls' <=> id <= calls
    BY <1>2, <1>6
  <2> QED BY <1>2, <1>4, <2>1, <2>2 DEF OnceInv, InOnePlace, InNoPlace, Keeps
<1> QED BY <1>5, <1>6

(* A send that ends has left its handler or the reactor, and is nowhere.   *)
LEMMA EndLeaves ==
    ASSUME TypeInv, OnceInv, NEW s \in Sends, NEW q,
           \/ /\ ready # <<>> /\ Head(ready) = Posted(s) /\ q = Tail(ready)
              /\ sendOps' = sendOps
           \/ /\ sendOps # <<>> /\ Head(sendOps) = s /\ q = ready
              /\ sendOps' = Tail(sendOps)
    PROVE  /\ s.id \in 1 .. MaxSends /\ s.id <= calls
           /\ None(q, HandlersOf(s.id)) /\ None(sendOps', SendsOf(s.id))
           /\ None(sendReports, ReportsOf(s.id))
<1> DEFINE id == s.id
<1>0. id \in 1 .. MaxSends /\ sendOps \in Seq(Sends)
  BY SendTypes DEF Sends
<1>1. CASE ready # <<>> /\ Head(ready) = Posted(s) /\ q = Tail(ready)
           /\ sendOps' = sendOps
  <2>1. ~None(ready, HandlersOf(id))
    BY <1>0, <1>1, HeadRemoved
  <2>2. id <= calls /\ One(ready, HandlersOf(id)) /\ None(sendOps, SendsOf(id))
        /\ None(sendReports, ReportsOf(id))
    BY <1>0, <2>1 DEF OnceInv, InOnePlace, InNoPlace
  <2> QED BY <1>0, <1>1, <2>2, HeadRemoved
<1>2. CASE sendOps # <<>> /\ Head(sendOps) = s /\ q = ready
           /\ sendOps' = Tail(sendOps)
  <2>1. s \in SendsOf(id)
    BY <1>0, HandlersOfTypes
  <2>2. ~None(sendOps, SendsOf(id))
    BY <1>0, <1>2, <2>1, CountRemoved
  <2>3. id <= calls /\ One(sendOps, SendsOf(id)) /\ None(ready, HandlersOf(id))
        /\ None(sendReports, ReportsOf(id))
    BY <1>0, <2>2 DEF OnceInv, InOnePlace, InNoPlace
  <2> QED BY <1>0, <1>2, <2>1, <2>3, CountRemoved
<1> QED BY <1>1, <1>2

LEMMA EndOnce == TypeInv /\ OnceInv /\ EndMove => OnceInv'
<1> SUFFICES ASSUME TypeInv, OnceInv, EndMove, NEW id \in 1 .. MaxSends
             PROVE  (IF id <= calls THEN InOnePlace(id) ELSE InNoPlace(id))'
  BY DEF OnceInv
<1>1. PICK s \in Sends, q \in Seq(Handlers), ec \in Codes :
         /\ \/ /\ ready # <<>> /\ Head(ready) = Posted(s) /\ q = Tail(ready)
               /\ sendOps' = sendOps
            \/ /\ sendOps # <<>> /\ Head(sendOps) = s /\ q = ready
               /\ sendOps' = Tail(sendOps)
         /\ ready' = Append(q, Sent(s, ec))
  BY DEF EndMove
<1>2. /\ ready \in Seq(Handlers) /\ sendOps \in Seq(Sends) /\ Sent(s, ec) \in Handlers
      /\ UNCHANGED <<sendReports, calls>>
  BY SendTypes, HandlersOfTypes, HandlerTypes DEF EndMove
<1>3. CASE id # s.id
  <2>1. Keeps(ready, q, HandlersOf(id)) /\ Keeps(sendOps, sendOps', SendsOf(id))
    <3>1. CASE ready # <<>> /\ Head(ready) = Posted(s) /\ q = Tail(ready)
               /\ sendOps' = sendOps
      BY <1>3, <3>1, HeadRemoved DEF Keeps
    <3>2. CASE sendOps # <<>> /\ Head(sendOps) = s /\ q = ready
               /\ sendOps' = Tail(sendOps)
      BY <1>2, <1>3, <3>2, CountRemoved, HandlersOfTypes DEF Keeps
    <3> QED BY <1>1, <3>1, <3>2
  <2>2. Keeps(q, ready', HandlersOf(id))
    BY <1>1, <1>2, <1>3, CountAppended, HandlersOfTypes
  <2> QED BY <1>2, <2>1, <2>2 DEF OnceInv, InOnePlace, InNoPlace, Keeps
<1>4. CASE id = s.id
  <2>1. /\ id <= calls
        /\ None(q, HandlersOf(id)) /\ None(sendOps', SendsOf(id))
        /\ None(sendReports, ReportsOf(id))
    BY <1>1, <1>4, EndLeaves
  <2>2. One(ready', HandlersOf(id))
    BY <1>1, <1>2, <1>4, <2>1, CountAppended, HandlersOfTypes
  <2> QED BY <1>2, <2>1, <2>2 DEF InOnePlace
<1> QED BY <1>3, <1>4

LEMMA WaitOnce == TypeInv /\ OnceInv /\ WaitMove => OnceInv'
<1> SUFFICES ASSUME TypeInv, OnceInv, WaitMove, NEW id \in 1 .. MaxSends
             PROVE  (IF id <= calls THEN InOnePlace(id) ELSE InNoPlace(id))'
  BY DEF OnceInv
<1>1. PICK s \in Sends : /\ ready # <<>> /\ Head(ready) = Posted(s)
                         /\ sendOps' = Append(sendOps, s)
  BY DEF WaitMove
<1>2. /\ ready \in Seq(Handlers) /\ sendOps \in Seq(Sends)
      /\ ready' = Tail(ready) /\ UNCHANGED <<sendReports, calls>>
  BY SendTypes DEF WaitMove
<1>3. CASE id # s.id
  <2>1. Keeps(ready, ready', HandlersOf(id))
    BY <1>1, <1>2, <1>3, HeadRemoved
  <2>2. s \notin SendsOf(id)
    BY <1>3, HandlersOfTypes
  <2>3. Keeps(sendOps, sendOps', SendsOf(id))
    BY <1>1, <1>2, <2>2, CountAppended
  <2> QED BY <1>2, <2>1, <2>3 DEF OnceInv, InOnePlace, InNoPlace, Keeps
<1>4. CASE id = s.id
  <2>1. ~None(ready, HandlersOf(id))
    BY <1>1, <1>4, HeadRemoved
  <2>2. id <= calls /\ One(ready, HandlersOf(id)) /\ None(sendOps, SendsOf(id))
        /\ None(sendReports, ReportsOf(id))
    BY <2>1 DEF OnceInv, InOnePlace, InNoPlace
  <2>3. None(ready', HandlersOf(id))
    BY <1>1, <1>2, <1>4, <2>2, HeadRemoved
  <2>4. s \in SendsOf(id)
    BY <1>4, HandlersOfTypes
  <2>5. One(sendOps', SendsOf(id))
    BY <1>1, <1>2, <2>2, <2>4, CountAppended
  <2> QED BY <1>2, <2>2, <2>3, <2>5 DEF InOnePlace
<1> QED BY <1>3, <1>4

LEMMA ReportOnce == TypeInv /\ OnceInv /\ ReportMove => OnceInv'
<1> SUFFICES ASSUME TypeInv, OnceInv, ReportMove, NEW id \in 1 .. MaxSends
             PROVE  (IF id <= calls THEN InOnePlace(id) ELSE InNoPlace(id))'
  BY DEF OnceInv
<1>1. PICK s \in Sends, ec \in Codes :
         /\ ready # <<>> /\ Head(ready) = Sent(s, ec)
         /\ sendReports' = Append(sendReports, [id |-> s.id, ec |-> ec])
  BY DEF ReportMove
<1>2. /\ ready \in Seq(Handlers) /\ sendReports \in Seq(Reports)
      /\ ready' = Tail(ready) /\ UNCHANGED <<sendOps, calls>>
  BY SendTypes DEF ReportMove
<1> DEFINE r == [id |-> s.id, ec |-> ec]
<1>3. r \in Reports /\ (r \in ReportsOf(id) <=> s.id = id)
  BY HandlersOfTypes
<1> HIDE DEF r
<1>4. CASE id # s.id
  <2>1. Keeps(ready, ready', HandlersOf(id))
    BY <1>1, <1>2, <1>4, HeadRemoved
  <2>2. Keeps(sendReports, sendReports', ReportsOf(id))
    BY <1>1, <1>2, <1>3, <1>4, CountAppended DEF r
  <2> QED BY <1>2, <2>1, <2>2 DEF OnceInv, InOnePlace, InNoPlace, Keeps
<1>5. CASE id = s.id
  <2>1. ~None(ready, HandlersOf(id))
    BY <1>1, <1>5, HeadRemoved
  <2>2. id <= calls /\ One(ready, HandlersOf(id)) /\ None(sendOps, SendsOf(id))
        /\ None(sendReports, ReportsOf(id))
    BY <2>1 DEF OnceInv, InOnePlace, InNoPlace
  <2>3. None(ready', HandlersOf(id))
    BY <1>1, <1>2, <1>5, <2>2, HeadRemoved
  <2>4. One(sendReports', ReportsOf(id))
    BY <1>1, <1>2, <1>3, <1>5, <2>2, CountAppended DEF r
  <2> QED BY <1>2, <2>2, <2>3, <2>4 DEF InOnePlace
<1> QED BY <1>4, <1>5

LEMMA CloseOnce == TypeInv /\ OnceInv /\ CloseMove => OnceInv'
<1> SUFFICES ASSUME TypeInv, OnceInv, CloseMove, NEW id \in 1 .. MaxSends
             PROVE  (IF id <= calls THEN InOnePlace(id) ELSE InNoPlace(id))'
  BY DEF OnceInv
<1>1. PICK r \in Seq(ReceiveHandlers) : ready' = (ready \o r) \o AbortedSends
  BY DEF CloseMove
<1>2. /\ ready \in Seq(Handlers) /\ sendOps \in Seq(Sends)
      /\ AbortedSends \in Seq(Handlers) /\ Len(AbortedSends) = Len(sendOps)
      /\ sendOps' = <<>> /\ UNCHANGED <<sendReports, calls>>
  BY SendTypes DEF CloseMove
<1>3. r \in Seq(Handlers) /\ None(r, HandlersOf(id))
  <2>1. \A i \in 1 .. Len(r) : r[i] \in ReceiveHandlers
    BY ElementOfSeq
  <2>2. r \in Seq(Handlers)
    BY SeqMonotonic DEF Handlers
  <2> QED BY <2>1, <2>2, HandlersOfTypes DEF None
<1>4. ready \o r \in Seq(Handlers) /\ Keeps(ready, ready \o r, HandlersOf(id))
  BY <1>2, <1>3, CountConcatenated, ConcatProperties
<1>5. /\ None(sendOps, SendsOf(id)) => None(AbortedSends, HandlersOf(id))
      /\ One(sendOps, SendsOf(id)) => One(AbortedSends, HandlersOf(id))
  <2>1. \A i \in 1 .. Len(sendOps) :
           sendOps[i] \in SendsOf(id) <=> AbortedSends[i] \in HandlersOf(id)
    <3> SUFFICES ASSUME NEW i \in 1 .. Len(sendOps)
                 PROVE  sendOps[i] \in SendsOf(id) <=> AbortedSends[i] \in HandlersOf(id)
      OBVIOUS
    <3>1. sendOps[i] \in Sends /\ AbortedSends[i] = Sent(sendOps[i], "aborted")
      BY <1>2, ElementOfSeq DEF AbortedSends
    <3> QED BY <3>1, HandlersOfTypes DEF Codes
  <2> QED BY <1>2, <2>1, CountMapped
<1>6. /\ None(AbortedSends, HandlersOf(id)) => Keeps(ready, ready', HandlersOf(id))
      /\ None(ready, HandlersOf(id)) => Keeps(AbortedSends, ready', HandlersOf(id))
  BY <1>1, <1>2, <1>4, CountConcatenated DEF Keeps
<1>7. None(sendOps', SendsOf(id))
  BY <1>2, EmptySeq DEF None
<1> QED BY <1>2, <1>5, <1>6, <1>7 DEF OnceInv, InOnePlace, InNoPlace, Keeps

LEMMA StepOnce == TypeInv /\ OnceInv /\ [Next]_vars => OnceInv'
BY StepIsMove, ReceiveOnce, CallOnce, EndOnce, WaitOnce, ReportOnce, CloseOnce DEF Move

(* The number of positions is what None and One say. *)
LEMMA CountIs ==
    ASSUME NEW S, NEW T, NEW q \in Seq(S), NEW P,
           P = {i \in DOMAIN q : q[i] \in T}
    PROVE  /\ None(q, T) => Cardinality(P) = 0
           /\ One(q, T) => Cardinality(P) = 1
<1>1. DOMAIN q = 1 .. Len(q)
  BY LenProperties
<1>2. ASSUME None(q, T) PROVE Cardinality(P) = 0
  <2>1. P = {}
    BY <1>1, <1>2 DEF None
  <2> QED BY <2>1, FS_EmptySet
<1>3. ASSUME One(q, T) PROVE Cardinality(P) = 1
  <2>1. PICK i \in 1 .. Len(q) : q[i] \in T /\ \A j \in 1 .. Len(q) : q[j] \in T => j = i
    BY <1>3 DEF One
  <2>2. P = {i}
    BY <1>1, <2>1
  <2> QED BY <2>2, FS_Singleton
<1> QED BY <1>2, <1>3

LEMMA OnceIsConservation == TypeInv /\ OnceInv => SendConservation
<1> SUFFICES ASSUME TypeInv, OnceInv, NEW id \in 1 .. MaxSends
             PROVE  Cardinality({i \in DOMAIN ready :
                                   ~IsReceive(i) /\ ready[i].send.id = id})
                      + Cardinality({i \in DOMAIN sendOps : sendOps[i].id = id})
                      + Cardinality({i \in DOMAIN sendReports : sendReports[i].id = id})
                    = IF id <= calls THEN 1 ELSE 0
  BY DEF SendConservation
<1> DEFINE R == {i \in DOMAIN ready : ~IsReceive(i) /\ ready[i].send.id = id}
           O == {i \in DOMAIN sendOps : sendOps[i].id = id}
           P == {i \in DOMAIN sendReports : sendReports[i].id = id}
<1>1. /\ ready \in Seq(Handlers) /\ sendOps \in Seq(Sends)
      /\ sendReports \in Seq(Reports) /\ calls \in Nat
  BY SendTypes
<1>2. R = {i \in DOMAIN ready : ready[i] \in HandlersOf(id)}
  <2>1. \A i \in DOMAIN ready : ready[i] \in Handlers
    BY <1>1, LenProperties, ElementOfSeq
  <2>2. \A i \in DOMAIN ready : ~IsReceive(i) <=> ready[i] \in SendHandlers
    BY <2>1, HandlerKinds, DisjointHandlers DEF IsReceive
  <2> QED BY <2>2 DEF HandlersOf
<1>3. O = {i \in DOMAIN sendOps : sendOps[i] \in SendsOf(id)}
  <2>1. \A i \in DOMAIN sendOps : sendOps[i] \in Sends
    BY <1>1, LenProperties, ElementOfSeq
  <2> QED BY <2>1 DEF SendsOf
<1>4. P = {i \in DOMAIN sendReports : sendReports[i] \in ReportsOf(id)}
  <2>1. \A i \in DOMAIN sendReports : sendReports[i] \in Reports
    BY <1>1, LenProperties, ElementOfSeq
  <2> QED BY <2>1 DEF ReportsOf
<1> HIDE DEF R, O, P
<1>5. /\ None(ready, HandlersOf(id)) => Cardinality(R) = 0
      /\ One(ready, HandlersOf(id)) => Cardinality(R) = 1
  BY <1>1, <1>2, CountIs
<1>6. /\ None(sendOps, SendsOf(id)) => Cardinality(O) = 0
      /\ One(sendOps, SendsOf(id)) => Cardinality(O) = 1
  BY <1>1, <1>3, CountIs
<1>7. /\ None(sendReports, ReportsOf(id)) => Cardinality(P) = 0
      /\ One(sendReports, ReportsOf(id)) => Cardinality(P) = 1
  BY <1>1, <1>4, CountIs
<1>8. Cardinality(R) + Cardinality(O) + Cardinality(P) = IF id <= calls THEN 1 ELSE 0
  <2>1. CASE id <= calls
    BY <1>5, <1>6, <1>7, <2>1 DEF OnceInv, InOnePlace
  <2>2. CASE ~(id <= calls)
    BY <1>5, <1>6, <1>7, <2>2 DEF OnceInv, InNoPlace
  <2> QED BY <2>1, <2>2
<1> QED BY <1>8 DEF R, O, P

(* No call of asyncSend is lost, done twice or reported twice, whatever    *)
(* the order of handlers, the reactor, errors and close.                   *)
THEOREM SendsConserved == Spec => []SendConservation
<1>1. Spec => [](TypeInv /\ OnceInv)
  BY InitType, StepType, InitOnce, StepOnce, PTL DEF Spec
<1> QED BY <1>1, OnceIsConservation, PTL

-----------------------------------------------------------------------------
(* Order: what is on the wire was called for before what waits in the      *)
(* reactor, and that before what is posted; each is in order itself.       *)

Later(q, o, w) ==
    \A h \in Elements(q) : h.kind = "send" =>
        /\ h.send.id <= calls
        /\ \A s \in Elements(o) : s.id < h.send.id
        /\ \A x \in Elements(w) : x.id < h.send.id

OrderInv ==
    /\ Ordered(ready) /\ Ascending(sendOps) /\ Ascending(wire)
    /\ Later(ready, sendOps, wire)
    /\ \A s \in Elements(sendOps) :
          s.id <= calls /\ \A x \in Elements(wire) : x.id < s.id
    /\ \A x \in Elements(wire) : x.id <= calls

LEMMA InitOrder == Init => OrderInv
<1> SUFFICES ASSUME Init PROVE OrderInv
  OBVIOUS
<1>1. Len(ready) = 1 /\ ready[1].kind = "orderReceive"
  BY DEF Init, InitialHandlers, OrderReceive
<1>2. sendOps = <<>> /\ wire = <<>> /\ Len(<<>>) = 0
  BY EmptySeq DEF Init
<1> QED BY <1>1, <1>2 DEF OrderInv, Ordered, Ascending, Later, Elements

LEMMA SendsHaveNumbers ==
    ASSUME TypeInv
    PROVE  /\ \A s \in Sends : s.id \in Nat
           /\ \A w \in WireItems : w.id \in Nat
           /\ \A h \in Handlers : h.kind = "send" => h.send.id \in Nat
           /\ \A h \in ReceiveHandlers : h \in Handlers /\ h.kind # "send" /\ h.kind # "sent"
           /\ \A s \in Sends : /\ Posted(s) \in Handlers /\ Posted(s).kind = "send"
                               /\ Posted(s).send = s
           /\ \A s \in Sends, ec \in Codes :
                 /\ Sent(s, ec) \in Handlers /\ Sent(s, ec).kind = "sent"
                 /\ Sent(s, ec).send = s /\ Sent(s, ec).ec = ec
<1>1. /\ \A s \in Sends : s.id \in Nat
      /\ \A w \in WireItems : w.id \in Nat
  BY SocketAssumption DEF Sends, WireItems
<1>2. \A h \in Handlers : h.kind = "send" => h.send.id \in Nat
  BY <1>1, HandlerKinds, DisjointHandlers
<1>3. \A h \in ReceiveHandlers : h \in Handlers /\ h.kind # "send" /\ h.kind # "sent"
  BY HandlerKinds DEF Handlers
<1>4. /\ \A s \in Sends : Posted(s) \in Handlers
      /\ \A s \in Sends, ec \in Codes : Sent(s, ec) \in Handlers
  BY HandlerTypes
<1> QED BY <1>1, <1>2, <1>3, <1>4 DEF Posted, Sent

(* Receives that come and go do not disturb the order. *)
LEMMA RestOrdered ==
    ASSUME TypeInv, NEW q \in Seq(Handlers)
    PROVE  /\ Rest(q) => /\ Elements(q) \subseteq Elements(ready)
                         /\ Ordered(ready) => Ordered(q)
           /\ MaybeReceive(q) => /\ Elements(ready') \subseteq Elements(q) \cup ReceiveHandlers
                                 /\ Ordered(q) => Ordered(ready')
<1>1. ready \in Seq(Handlers)
  BY SendTypes
<1>2. ASSUME Rest(q)
      PROVE  Elements(q) \subseteq Elements(ready) /\ (Ordered(ready) => Ordered(q))
  BY <1>1, <1>2, ElementsChange, OrderedChange DEF Rest
<1>3. ASSUME MaybeReceive(q)
      PROVE  /\ Elements(ready') \subseteq Elements(q) \cup ReceiveHandlers
             /\ Ordered(q) => Ordered(ready')
  <2>1. CASE ready' = q
    BY <2>1
  <2>2. CASE \E h \in ReceiveHandlers : ready' = Append(q, h)
    <3>1. PICK h \in ReceiveHandlers : ready' = Append(q, h)
      BY <2>2
    <3>2. h \in Handlers /\ h.kind # "send"
      BY SendsHaveNumbers
    <3> QED BY <3>1, <3>2, ElementsChange, OrderedChange
  <2> QED BY <1>3, <2>1, <2>2 DEF MaybeReceive
<1> QED BY <1>2, <1>3

LEMMA ReceiveOrder == TypeInv /\ OrderInv /\ ReceiveMove => OrderInv'
<1> SUFFICES ASSUME TypeInv, OrderInv, ReceiveMove PROVE OrderInv'
  OBVIOUS
<1>1. PICK q \in Seq(Handlers) : Rest(q) /\ MaybeReceive(q)
  BY DEF ReceiveMove
<1>2. UNCHANGED <<sendOps, wire, calls>>
  BY DEF ReceiveMove
<1>3. Ordered(ready') /\ Elements(ready') \subseteq Elements(ready) \cup ReceiveHandlers
  BY <1>1, RestOrdered DEF OrderInv
<1>4. Later(ready, sendOps, wire)'
  BY <1>2, <1>3, SendsHaveNumbers DEF OrderInv, Later
<1> QED BY <1>2, <1>3, <1>4 DEF OrderInv

LEMMA CallOrder == TypeInv /\ OrderInv /\ CallMove => OrderInv'
<1> SUFFICES ASSUME TypeInv, OrderInv, CallMove PROVE OrderInv'
  OBVIOUS
<1>1. PICK q \in Seq(Handlers), s \in Sends :
        /\ Rest(q) /\ s.id = calls + 1
        /\ MaybeReceive(Append(q, Posted(s)))
  BY DEF CallMove
<1>2. /\ calls' = calls + 1 /\ calls \in Nat
      /\ UNCHANGED <<sendOps, wire>>
      /\ sendOps \in Seq(Sends) /\ wire \in Seq(WireItems) /\ ready \in Seq(Handlers)
  BY SendTypes DEF CallMove
<1>3. /\ Posted(s) \in Handlers /\ Posted(s).kind = "send" /\ Posted(s).send = s
      /\ Append(q, Posted(s)) \in Seq(Handlers)
  BY SendsHaveNumbers, AppendProperties
<1>4. Elements(q) \subseteq Elements(ready) /\ Ordered(q)
  BY <1>1, RestOrdered DEF OrderInv
<1>5. \A h \in Elements(ready) : h.kind = "send" => h.send.id \in Nat /\ h.send.id <= calls
  BY <1>2, ElementsChange, SendsHaveNumbers DEF OrderInv, Later
<1>6. Ordered(Append(q, Posted(s)))
  BY <1>1, <1>2, <1>3, <1>4, <1>5, OrderedChange
<1>7. /\ Ordered(ready')
      /\ Elements(ready') \subseteq Elements(ready) \cup {Posted(s)} \cup ReceiveHandlers
  <2>1. Elements(Append(q, Posted(s))) = Elements(q) \cup {Posted(s)}
    BY <1>3, ElementsChange
  <2> QED BY <1>1, <1>3, <1>4, <1>6, <2>1, RestOrdered
<1>8. /\ \A e \in Elements(sendOps) : e.id \in Nat /\ e.id <= calls
      /\ \A x \in Elements(wire) : x.id \in Nat /\ x.id <= calls
  BY <1>2, ElementsChange, SendsHaveNumbers DEF OrderInv
<1>9. Later(ready, sendOps, wire)'
  <2> SUFFICES ASSUME NEW h \in Elements(ready'), h.kind = "send"
               PROVE  /\ h.send.id <= calls'
                      /\ \A e \in Elements(sendOps') : e.id < h.send.id
                      /\ \A x \in Elements(wire') : x.id < h.send.id
    BY DEF Later
  <2>1. CASE h \in Elements(ready)
    BY <1>2, <1>5, <2>1 DEF OrderInv, Later
  <2>2. CASE h = Posted(s)
    BY <1>1, <1>2, <1>3, <1>8, <2>2
  <2> QED BY <1>7, <2>1, <2>2, SendsHaveNumbers
<1> QED BY <1>2, <1>7, <1>8, <1>9 DEF OrderInv, Later

LEMMA EndOrder == TypeInv /\ OrderInv /\ EndMove => OrderInv'
<1> SUFFICES ASSUME TypeInv, OrderInv, EndMove PROVE OrderInv'
  OBVIOUS
<1>1. PICK s \in Sends, q \in Seq(Handlers), ec \in Codes :
         /\ \/ /\ ready # <<>> /\ Head(ready) = Posted(s) /\ q = Tail(ready)
               /\ sendOps' = sendOps
               /\ ec = "ok" => sendOps = <<>>
            \/ /\ sendOps # <<>> /\ Head(sendOps) = s /\ q = ready
               /\ sendOps' = Tail(sendOps)
         /\ ready' = Append(q, Sent(s, ec))
         /\ \/ ec # "ok" /\ wire' = wire
            \/ ec = "ok" /\ \E w \in WireItems : w.id = s.id /\ wire' = Append(wire, w)
  BY DEF EndMove
<1>2. /\ calls' = calls /\ ready \in Seq(Handlers)
      /\ sendOps \in Seq(Sends) /\ wire \in Seq(WireItems)
  BY SendTypes DEF EndMove
<1>3. /\ Sent(s, ec) \in Handlers /\ Sent(s, ec).kind = "sent"
      /\ Posted(s).kind = "send" /\ Posted(s).send = s
  BY SendsHaveNumbers
(* The send comes after the wire and before all that stays. *)
<1>4. /\ Ordered(q) /\ Elements(q) \subseteq Elements(ready)
      /\ Ascending(sendOps') /\ Elements(sendOps') \subseteq Elements(sendOps)
      /\ s.id <= calls
      /\ \A x \in Elements(wire) : x.id < s.id
      /\ ec = "ok" => /\ \A h \in Elements(q) : h.kind = "send" => s.id < h.send.id
                      /\ \A e \in Elements(sendOps') : s.id < e.id
  <2>1. CASE /\ ready # <<>> /\ Head(ready) = Posted(s) /\ q = Tail(ready)
             /\ sendOps' = sendOps
             /\ ec = "ok" => sendOps = <<>>
    <3>1. Ordered(q) /\ Elements(q) \subseteq Elements(ready)
          /\ \A h \in Elements(q) : h.kind = "send" => s.id < h.send.id
      BY <1>2, <1>3, <2>1, ElementsChange, OrderedChange DEF OrderInv
    <3>2. Posted(s) \in Elements(ready)
      BY <1>2, <2>1, ElementsChange
    <3>3. s.id <= calls /\ \A x \in Elements(wire) : x.id < s.id
      BY <1>3, <3>2 DEF OrderInv, Later
    <3>4. ec = "ok" => Elements(sendOps') = {}
      BY <2>1, EmptySeq DEF Elements
    <3> QED BY <2>1, <3>1, <3>3, <3>4 DEF OrderInv
  <2>2. CASE /\ sendOps # <<>> /\ Head(sendOps) = s /\ q = ready
             /\ sendOps' = Tail(sendOps)
    <3>1. /\ Ascending(sendOps') /\ Elements(sendOps') \subseteq Elements(sendOps)
          /\ \A e \in Elements(sendOps') : s.id < e.id
          /\ s \in Elements(sendOps)
      BY <1>2, <2>2, ElementsChange, AscendingChange DEF OrderInv
    <3>2. \A h \in Elements(q) : h.kind = "send" => s.id < h.send.id
      BY <2>2, <3>1 DEF OrderInv, Later
    <3> QED BY <2>2, <3>1, <3>2 DEF OrderInv
  <2> QED BY <1>1, <2>1, <2>2
<1>5. Ordered(ready') /\ Elements(ready') \subseteq Elements(ready) \cup {Sent(s, ec)}
  BY <1>1, <1>3, <1>4, ElementsChange, OrderedChange
<1>6. CASE ec # "ok" /\ wire' = wire
  <2>1. Later(ready, sendOps, wire)'
    BY <1>2, <1>3, <1>4, <1>5, <1>6 DEF OrderInv, Later
  <2> QED BY <1>2, <1>4, <1>5, <1>6, <2>1 DEF OrderInv, Later
<1>7. CASE ec = "ok" /\ \E w \in WireItems : w.id = s.id /\ wire' = Append(wire, w)
  <2>1. PICK w \in WireItems : w.id = s.id /\ wire' = Append(wire, w)
    BY <1>7
  <2>2. Elements(wire') = Elements(wire) \cup {w} /\ Ascending(wire')
    BY <1>2, <1>4, <2>1, ElementsChange, AscendingChange DEF OrderInv
  <2>3. Elements(ready') = Elements(q) \cup {Sent(s, ec)}
    BY <1>1, <1>3, ElementsChange
  <2>4. Later(ready, sendOps, wire)'
    <3> SUFFICES ASSUME NEW h \in Elements(ready'), h.kind = "send"
                 PROVE  /\ h.send.id <= calls'
                        /\ \A e \in Elements(sendOps') : e.id < h.send.id
                        /\ \A x \in Elements(wire') : x.id < h.send.id
      BY DEF Later
    <3>1. h \in Elements(q) /\ h \in Elements(ready)
      BY <1>3, <1>4, <2>3
    <3> QED BY <1>2, <1>4, <1>7, <2>1, <2>2, <3>1 DEF OrderInv, Later
  <2>5. \A e \in Elements(sendOps') :
           e.id <= calls' /\ \A x \in Elements(wire') : x.id < e.id
    BY <1>2, <1>4, <1>7, <2>1, <2>2 DEF OrderInv
  <2>6. \A x \in Elements(wire') : x.id <= calls'
    BY <1>2, <1>4, <2>1, <2>2 DEF OrderInv
  <2> QED BY <1>4, <1>5, <2>2, <2>4, <2>5, <2>6 DEF OrderInv, Later
<1> QED BY <1>1, <1>6, <1>7

LEMMA WaitOrder == TypeInv /\ OrderInv /\ WaitMove => OrderInv'
<1> SUFFICES ASSUME TypeInv, OrderInv, WaitMove PROVE OrderInv'
  OBVIOUS
<1>1. PICK s \in Sends : /\ ready # <<>> /\ Head(ready) = Posted(s)
                         /\ sendOps' = Append(sendOps, s)
  BY DEF WaitMove
<1>2. /\ ready \in Seq(Handlers) /\ sendOps \in Seq(Sends)
      /\ ready' = Tail(ready) /\ UNCHANGED <<wire, calls>>
      /\ Posted(s).kind = "send" /\ Posted(s).send = s
  BY SendTypes, SendsHaveNumbers DEF WaitMove
<1>3. /\ Ordered(ready') /\ Elements(ready') \subseteq Elements(ready)
      /\ \A h \in Elements(ready') : h.kind = "send" => s.id < h.send.id
      /\ Posted(s) \in Elements(ready)
  BY <1>1, <1>2, ElementsChange, OrderedChange DEF OrderInv
<1>4. /\ s.id <= calls
      /\ \A e \in Elements(sendOps) : e.id < s.id
      /\ \A x \in Elements(wire) : x.id < s.id
  BY <1>2, <1>3 DEF OrderInv, Later
<1>5. Elements(sendOps') = Elements(sendOps) \cup {s} /\ Ascending(sendOps')
  BY <1>1, <1>2, <1>4, ElementsChange, AscendingChange DEF OrderInv
<1>6. Later(ready, sendOps, wire)'
  BY <1>2, <1>3, <1>5 DEF OrderInv, Later
<1> QED BY <1>2, <1>3, <1>4, <1>5, <1>6 DEF OrderInv, Later

LEMMA OtherOrder == TypeInv /\ OrderInv /\ (ReportMove \/ CloseMove) => OrderInv'
<1>1. ASSUME TypeInv, OrderInv, ReportMove PROVE OrderInv'
  <2>1. /\ ready # <<>> /\ ready \in Seq(Handlers) /\ ready' = Tail(ready)
        /\ UNCHANGED <<sendOps, wire, calls>>
    BY <1>1, SendTypes DEF ReportMove
  <2>2. Ordered(ready') /\ Elements(ready') \subseteq Elements(ready)
    BY <1>1, <2>1, ElementsChange, OrderedChange DEF OrderInv
  <2> QED BY <1>1, <2>1, <2>2 DEF OrderInv, Later
<1>2. ASSUME TypeInv, OrderInv, CloseMove PROVE OrderInv'
  <2>1. PICK r \in Seq(ReceiveHandlers) : ready' = (ready \o r) \o AbortedSends
    BY <1>2 DEF CloseMove
  <2>2. /\ ready \in Seq(Handlers) /\ AbortedSends \in Seq(Handlers)
        /\ sendOps \in Seq(Sends) /\ Len(AbortedSends) = Len(sendOps)
        /\ sendOps' = <<>> /\ UNCHANGED <<wire, calls>>
    BY <1>2, SendTypes DEF CloseMove
  <2>3. /\ r \in Seq(Handlers) /\ ready \o r \in Seq(Handlers)
        /\ \A g \in Elements(r) : g.kind # "send"
    <3>1. r \in Seq(Handlers)
      BY SeqMonotonic DEF Handlers
    <3>2. \A g \in Elements(r) : g \in ReceiveHandlers
      BY ElementOfSeq DEF Elements
    <3> QED BY <1>2, <2>2, <3>1, <3>2, ConcatProperties, SendsHaveNumbers
  <2>4. \A g \in Elements(AbortedSends) : g.kind # "send"
    <3>1. \A i \in 1 .. Len(AbortedSends) : AbortedSends[i] = Sent(sendOps[i], "aborted")
      BY <2>2 DEF AbortedSends
    <3>2. \A e : Sent(e, "aborted").kind = "sent"
      BY DEF Sent
    <3>3. \A i \in 1 .. Len(AbortedSends) : AbortedSends[i].kind = "sent"
      BY <3>1, <3>2
    <3> QED BY <3>3 DEF Elements
  <2>5. Ordered(ready \o r) /\ Ordered(ready')
    BY <1>2, <2>1, <2>2, <2>3, <2>4, OrderedChange DEF OrderInv
  <2>6. Elements(ready') = Elements(ready) \cup Elements(r) \cup Elements(AbortedSends)
    <3>1. Elements(ready \o r) = Elements(ready) \cup Elements(r)
      BY <2>2, <2>3, ElementsChange
    <3> DEFINE p == ready \o r
    <3>2. p \in Seq(Handlers) /\ ready' = p \o AbortedSends
      BY <2>1, <2>3
    <3> HIDE DEF p
    <3>3. Elements(ready') = Elements(p) \cup Elements(AbortedSends)
      BY <2>2, <3>2, ElementsChange
    <3> QED BY <3>1, <3>3 DEF p
  <2>7. Elements(sendOps') = {} /\ Ascending(sendOps')
    BY <2>2, EmptySeq DEF Elements, Ascending
  <2> QED BY <1>2, <2>2, <2>3, <2>4, <2>5, <2>6, <2>7 DEF OrderInv, Later
<1> QED BY <1>1, <1>2

LEMMA StepOrder == TypeInv /\ OrderInv /\ [Next]_vars => OrderInv'
BY StepIsMove, ReceiveOrder, CallOrder, EndOrder, WaitOrder, OtherOrder DEF Move

(* Datagrams leave in the order of the calls of asyncSend, each at most    *)
(* once: neither a send that waits nor a reply overtakes another.          *)
THEOREM SendsInOrder == Spec => []SendsKeepOrder
<1>1. Spec => [](TypeInv /\ OrderInv)
  BY InitType, StepType, InitOrder, StepOrder, PTL DEF Spec
<1>2. TypeInv /\ OrderInv => SendsKeepOrder
  <2>1. TypeInv => DOMAIN wire = 1 .. Len(wire)
    BY SendTypes, LenProperties
  <2> QED BY <2>1 DEF OrderInv, Ascending, SendsKeepOrder
<1> QED BY <1>1, <1>2, PTL

-----------------------------------------------------------------------------
(* Truth: a completion says "ok" for exactly the sends on the wire.        *)

OnWire(id) == \E x \in Elements(wire) : x.id = id

TruthInv ==
    /\ \A h \in Elements(ready) : h.kind = "sent" => (h.ec = "ok" <=> OnWire(h.send.id))
    /\ \A r \in Elements(sendReports) : r.ec = "ok" <=> OnWire(r.id)

LEMMA InitTruth == Init => TruthInv
<1> SUFFICES ASSUME Init PROVE TruthInv
  OBVIOUS
<1>1. Len(ready) = 1 /\ ready[1].kind = "orderReceive"
  BY DEF Init, InitialHandlers, OrderReceive
<1>2. sendReports = <<>> /\ Len(<<>>) = 0
  BY EmptySeq DEF Init
<1> QED BY <1>1, <1>2 DEF TruthInv, Elements

(* What waits is not on the wire yet. *)
LEMMA WaitingNotOnWire ==
    ASSUME TypeInv, OrderInv
    PROVE  /\ \A s \in Elements(sendOps) : ~OnWire(s.id)
           /\ \A h \in Elements(ready) : h.kind = "send" => ~OnWire(h.send.id)
<1>1. /\ ready \in Seq(Handlers) /\ sendOps \in Seq(Sends) /\ wire \in Seq(WireItems)
  BY SendTypes
<1>2. \A x \in Elements(wire) : x.id \in Nat
  BY <1>1, ElementsChange, SendsHaveNumbers
<1>3. ASSUME NEW s \in Elements(sendOps) PROVE ~OnWire(s.id)
  BY <1>2 DEF OrderInv, OnWire
<1>4. ASSUME NEW h \in Elements(ready), h.kind = "send" PROVE ~OnWire(h.send.id)
  BY <1>2, <1>4 DEF OrderInv, Later, OnWire
<1> QED BY <1>3, <1>4

LEMMA QuietTruth ==
    ASSUME TypeInv, OrderInv, TruthInv,
           ReceiveMove \/ CallMove \/ WaitMove \/ ReportMove \/ CloseMove
    PROVE  TruthInv'
<1>0. /\ wire' = wire /\ ready \in Seq(Handlers)
      /\ sendOps \in Seq(Sends) /\ sendReports \in Seq(Reports)
  BY SendTypes DEF ReceiveMove, CallMove, WaitMove, ReportMove, CloseMove
<1>1. ASSUME sendReports' = sendReports,
             \A h \in Elements(ready') :
                h.kind = "sent" => \/ h \in Elements(ready)
                                   \/ h.ec # "ok" /\ ~OnWire(h.send.id)
      PROVE  TruthInv'
  BY <1>0, <1>1 DEF TruthInv, OnWire
<1>2. CASE ReceiveMove
  <2>1. PICK q \in Seq(Handlers) : Rest(q) /\ MaybeReceive(q)
    BY <1>2 DEF ReceiveMove
  <2>2. Elements(ready') \subseteq Elements(ready) \cup ReceiveHandlers
    BY <2>1, RestOrdered
  <2> QED BY <1>1, <1>2, <2>2, SendsHaveNumbers DEF ReceiveMove
<1>3. CASE CallMove
  <2>1. PICK q \in Seq(Handlers), s \in Sends : Rest(q) /\ MaybeReceive(Append(q, Posted(s)))
    BY <1>3 DEF CallMove
  <2>2. Posted(s) \in Handlers /\ Posted(s).kind = "send"
    BY SendsHaveNumbers
  <2>3. /\ Append(q, Posted(s)) \in Seq(Handlers)
        /\ Elements(Append(q, Posted(s))) = Elements(q) \cup {Posted(s)}
    BY <2>2, ElementsChange, AppendProperties
  <2>4. Elements(ready') \subseteq Elements(ready) \cup {Posted(s)} \cup ReceiveHandlers
    BY <2>1, <2>3, RestOrdered
  <2> QED BY <1>1, <1>3, <2>2, <2>4, SendsHaveNumbers DEF CallMove
<1>4. CASE WaitMove
  <2>1. Elements(ready') \subseteq Elements(ready) /\ sendReports' = sendReports
    BY <1>0, <1>4, ElementsChange DEF WaitMove
  <2> QED BY <1>1, <2>1
<1>5. CASE ReportMove
  <2>1. PICK s \in Sends, ec \in Codes :
         /\ ready # <<>> /\ Head(ready) = Sent(s, ec)
         /\ sendReports' = Append(sendReports, [id |-> s.id, ec |-> ec])
    BY <1>5 DEF ReportMove
  <2> DEFINE r == [id |-> s.id, ec |-> ec]
  <2>2. Elements(ready') \subseteq Elements(ready) /\ Sent(s, ec) \in Elements(ready)
    BY <1>0, <1>5, <2>1, ElementsChange DEF ReportMove
  <2>3. ec = "ok" <=> OnWire(s.id)
    BY <2>2, SendsHaveNumbers DEF TruthInv
  <2>4. r \in Reports /\ r.id = s.id /\ r.ec = ec
    BY DEF Reports, Sends
  <2> HIDE DEF r
  <2>5. Elements(sendReports') = Elements(sendReports) \cup {r}
    BY <1>0, <2>1, <2>4, ElementsChange DEF r
  <2> QED BY <1>0, <2>2, <2>3, <2>4, <2>5 DEF TruthInv, OnWire
<1>6. CASE CloseMove
  <2>1. PICK r \in Seq(ReceiveHandlers) : ready' = (ready \o r) \o AbortedSends
    BY <1>6 DEF CloseMove
  <2> DEFINE p == ready \o r
  <2>2. r \in Seq(Handlers) /\ \A h \in Elements(r) : h.kind # "sent"
    <3>1. r \in Seq(Handlers)
      BY SeqMonotonic DEF Handlers
    <3>2. \A g \in Elements(r) : g \in ReceiveHandlers
      BY ElementOfSeq DEF Elements
    <3> QED BY <3>1, <3>2, SendsHaveNumbers
  <2>3. p \in Seq(Handlers) /\ Elements(p) = Elements(ready) \cup Elements(r)
    BY <1>0, <2>2, ConcatProperties, ElementsChange
  <2> HIDE DEF p
  <2>4. Elements(ready') = Elements(p) \cup Elements(AbortedSends)
    <3>1. AbortedSends \in Seq(Handlers) /\ ready' = p \o AbortedSends
      BY <2>1, SendTypes DEF p
    <3> QED BY <2>3, <3>1, ElementsChange
  <2>5. ASSUME NEW h \in Elements(AbortedSends)
        PROVE  h.ec # "ok" /\ ~OnWire(h.send.id)
    <3>1. PICK i \in 1 .. Len(sendOps) : h = Sent(sendOps[i], "aborted")
      BY SendTypes DEF Elements, AbortedSends
    <3>2. sendOps[i] \in Elements(sendOps) /\ sendOps[i] \in Sends
      BY <1>0, ElementOfSeq DEF Elements
    <3>3. h.ec = "aborted" /\ h.send = sendOps[i]
      BY <3>1 DEF Sent
    <3> QED BY <3>2, <3>3, WaitingNotOnWire
  <2>6. sendReports' = sendReports
    BY <1>6 DEF CloseMove
  <2> QED BY <1>1, <2>2, <2>3, <2>4, <2>5, <2>6
<1> QED BY <1>2, <1>3, <1>4, <1>5, <1>6

LEMMA EndTruth == TypeInv /\ OnceInv /\ OrderInv /\ TruthInv /\ EndMove => TruthInv'
<1> SUFFICES ASSUME TypeInv, OnceInv, OrderInv, TruthInv, EndMove PROVE TruthInv'
  OBVIOUS
<1>1. PICK s \in Sends, q \in Seq(Handlers), ec \in Codes :
         /\ \/ /\ ready # <<>> /\ Head(ready) = Posted(s) /\ q = Tail(ready)
               /\ sendOps' = sendOps
            \/ /\ sendOps # <<>> /\ Head(sendOps) = s /\ q = ready
               /\ sendOps' = Tail(sendOps)
         /\ ready' = Append(q, Sent(s, ec))
         /\ \/ ec # "ok" /\ wire' = wire
            \/ ec = "ok" /\ \E w \in WireItems : w.id = s.id /\ wire' = Append(wire, w)
  BY DEF EndMove
<1>2. /\ sendReports' = sendReports /\ ready \in Seq(Handlers)
      /\ sendOps \in Seq(Sends) /\ wire \in Seq(WireItems) /\ sendReports \in Seq(Reports)
  BY SendTypes DEF EndMove
<1>3. /\ Sent(s, ec) \in Handlers /\ Sent(s, ec).kind = "sent"
      /\ Sent(s, ec).send = s /\ Sent(s, ec).ec = ec
      /\ Posted(s).kind = "send" /\ Posted(s).send = s
  BY SendsHaveNumbers
<1>4. s.id \in 1 .. MaxSends /\ None(q, HandlersOf(s.id)) /\ None(sendReports, ReportsOf(s.id))
  BY <1>1, EndLeaves
<1>5. ~OnWire(s.id)
  <2>1. \/ ready # <<>> /\ Head(ready) \in Elements(ready) /\ Head(ready) = Posted(s)
        \/ sendOps # <<>> /\ Head(sendOps) \in Elements(sendOps) /\ Head(sendOps) = s
    BY <1>1, <1>2, ElementsChange
  <2> QED BY <1>3, <2>1, WaitingNotOnWire
<1>6. /\ Elements(ready') = Elements(q) \cup {Sent(s, ec)}
      /\ Elements(q) \subseteq Elements(ready)
  <2>1. Elements(q) \subseteq Elements(ready)
    BY <1>1, <1>2, ElementsChange
  <2> QED BY <1>1, <1>3, <2>1, ElementsChange
<1>7. \A id : OnWire(id)' <=> OnWire(id) \/ (ec = "ok" /\ id = s.id)
  <2>1. CASE ec # "ok" /\ wire' = wire
    BY <2>1 DEF OnWire
  <2>2. CASE ec = "ok" /\ \E w \in WireItems : w.id = s.id /\ wire' = Append(wire, w)
    <3>1. PICK w \in WireItems : w.id = s.id /\ wire' = Append(wire, w)
      BY <2>2
    <3>2. Elements(wire') = Elements(wire) \cup {w}
      BY <1>2, <3>1, ElementsChange
    <3> QED BY <2>2, <3>1, <3>2 DEF OnWire
  <2> QED BY <1>1, <2>1, <2>2
<1>8. ASSUME NEW h \in Elements(q), h.kind = "sent" PROVE h.send.id # s.id
  <2>1. h \in SendHandlers
    BY <1>8, ElementsChange, HandlerKinds
  <2>2. h \notin HandlersOf(s.id)
    BY <1>4 DEF None, Elements
  <2> QED BY <2>1, <2>2 DEF HandlersOf
<1>9. ASSUME NEW r \in Elements(sendReports) PROVE r.id # s.id
  <2>1. r \in Reports
    BY <1>2, ElementsChange
  <2>2. r \notin ReportsOf(s.id)
    BY <1>4 DEF None, Elements
  <2> QED BY <2>1, <2>2 DEF ReportsOf
<1>10. \A h \in Elements(ready') : h.kind = "sent" => (h.ec = "ok" <=> OnWire(h.send.id)')
  <2> SUFFICES ASSUME NEW h \in Elements(ready'), h.kind = "sent"
               PROVE  h.ec = "ok" <=> OnWire(h.send.id)'
    OBVIOUS
  <2>1. CASE h \in Elements(q)
    BY <1>6, <1>7, <1>8, <2>1 DEF TruthInv
  <2>2. CASE h = Sent(s, ec)
    BY <1>3, <1>5, <1>7, <2>2
  <2> QED BY <1>6, <2>1, <2>2
<1>11. \A r \in Elements(sendReports') : r.ec = "ok" <=> OnWire(r.id)'
  BY <1>2, <1>7, <1>9 DEF TruthInv
<1> QED BY <1>10, <1>11 DEF TruthInv

LEMMA StepTruth ==
    TypeInv /\ OnceInv /\ OrderInv /\ TruthInv /\ [Next]_vars => TruthInv'
BY StepIsMove, QuietTruth, EndTruth DEF Move

(* The callback of asyncSend is told of success for the datagrams the      *)
(* kernel got and for no others.                                           *)
THEOREM ReportsTruthful == Spec => []SendReportsTruthful
<1>1. Spec => [](TypeInv /\ OnceInv /\ OrderInv)
  BY InitType, StepType, InitOnce, StepOnce, InitOrder, StepOrder, PTL DEF Spec
<1>2. Spec => [](TypeInv /\ TruthInv)
  BY <1>1, InitTruth, StepTruth, PTL DEF Spec
<1>3. TypeInv /\ TruthInv => SendReportsTruthful
  <2> SUFFICES ASSUME TypeInv, TruthInv, NEW i \in DOMAIN sendReports
               PROVE  sendReports[i].ec = "ok"
                        <=> \E k \in DOMAIN wire : wire[k].id = sendReports[i].id
    BY DEF SendReportsTruthful
  <2>1. DOMAIN sendReports = 1 .. Len(sendReports) /\ DOMAIN wire = 1 .. Len(wire)
    BY SendTypes, LenProperties
  <2>2. sendReports[i] \in Elements(sendReports)
    BY <2>1 DEF Elements
  <2> QED BY <2>1, <2>2 DEF TruthInv, OnWire, Elements
<1> QED BY <1>2, <1>3, PTL

-----------------------------------------------------------------------------
(* The datagram in the buffer and the endpoint belong together.            *)

EndpointMatches == recvBuffer \in Datagrams => remoteEndpoint = recvBuffer.from

LEMMA StartReceiveMatches ==
    ASSUME EndpointMatches, NEW q, StartReceive(q) PROVE EndpointMatches'
BY DEF StartReceive, EndpointMatches, recvVars

LEMMA InitMatches == Init => EndpointMatches
<1>1. NoDatagram \notin Datagrams
  BY SocketAssumption DEF NoDatagram, Datagrams
<1> QED BY <1>1 DEF Init, EndpointMatches

LEMMA StepMatches == EndpointMatches /\ [Next]_vars => EndpointMatches'
<1> SUFFICES ASSUME EndpointMatches, [Next]_vars PROVE EndpointMatches'
  OBVIOUS
<1>1. CASE RunOrderReceive
  BY <1>1, StartReceiveMatches DEF RunOrderReceive
<1>2. CASE RunReceived
  <2>1. \/ UNCHANGED recvVars
        \/ \E q : StartReceive(q)
    BY <1>2 DEF RunReceived
  <2> QED BY <2>1, StartReceiveMatches DEF recvVars, EndpointMatches
<1>3. CASE ReactorReceive
  BY <1>3 DEF ReactorReceive, EndpointMatches
<1>4. CASE AsyncSend \/ RunSend \/ RunSent \/ Close \/ Arrive \/ ReactorReceiveError
             \/ ReactorSend \/ Drain \/ UNCHANGED vars
  <2>1. UNCHANGED <<recvBuffer, remoteEndpoint>>
    BY <1>4 DEF AsyncSend, RunSend, RunSent, Close, Arrive, ReactorReceiveError,
                ReactorSend, Drain, vars, recvVars
  <2> QED BY <2>1 DEF EndpointMatches
<1> QED BY <1>1, <1>2, <1>3, <1>4 DEF Next

-----------------------------------------------------------------------------
(* Replies.                                                                *)

(* What send or datagram s answers was received, from where s goes, and    *)
(* handed to the callback as a packet.                                     *)
Justified(s) ==
    s.re # 0 =>
        \E i \in DOMAIN handled :
            /\ handled[i].datagram.id = s.re
            /\ handled[i].datagram.from = s.to
            /\ \E n \in DOMAIN handled[i].calls : handled[i].calls[n] = "packet"

ReplyInv ==
    /\ EndpointMatches
    /\ \A h \in Elements(ready) : h.kind = "send" => Justified(h.send)
    /\ \A s \in Elements(sendOps) : Justified(s)
    /\ \A w \in Elements(wire) : Justified(w)

(* A callback that replies was called with a packet. *)
LEMMA ReplyMeansPacket ==
    ASSUME NEW form, NEW x \in Executions("ok", form), x.reply
    PROVE  \E n \in DOMAIN x.calls : x.calls[n] = "packet"
<1> DEFINE before == ErrorCalls("ok", form)
<1>1. form = "valid" => before = <<>>
  BY DEF ErrorCalls
<1>2. PICK t \in TryBlock("ok", form) :
         x = [calls |-> before \o t.calls, reply |-> t.reply, escapes |-> t.escapes]
  BY DEF Executions
<1>3. t.reply
  BY <1>2
<1>4. form = "valid"
  <2>1. CASE form = "unparsable"
    <3>1. t = [calls |-> <<>>, reply |-> FALSE, escapes |-> TRUE]
      BY <2>1 DEF TryBlock
    <3> QED BY <1>3, <3>1
  <2>2. CASE form \notin {"valid", "unparsable"}
    <3>1. PICK e \in BOOLEAN :
             t = [calls |-> <<"exception">>, reply |-> FALSE, escapes |-> e]
      BY <2>2 DEF TryBlock
    <3> QED BY <1>3, <3>1
  <2> QED BY <2>1, <2>2
<1>5. t.calls = <<"packet">> \/ t.calls = <<"packet", "exception">>
  <2>1. PICK r \in BOOLEAN, e \in BOOLEAN :
           \/ t = [calls |-> <<"packet">>, reply |-> r, escapes |-> e]
           \/ t = [calls |-> <<"packet", "exception">>, reply |-> r, escapes |-> e]
    BY <1>4 DEF TryBlock
  <2> QED BY <2>1
<1>6. x.calls = t.calls
  <2>1. t.calls \in Seq({"packet", "exception"})
    <3>1. /\ <<"packet">> \in Seq({"packet", "exception"})
          /\ <<"packet", "exception">> \in Seq({"packet", "exception"})
      OBVIOUS
    <3> QED BY <1>5, <3>1
  <2> QED BY <1>1, <1>2, <1>4, <2>1, ConcatEmptySeq
<1>7. 1 \in DOMAIN x.calls /\ x.calls[1] = "packet"
  BY <1>5, <1>6
<1> QED BY <1>7

(* handled only grows, so what is justified stays so. *)
LEMMA JustifiedStays ==
    ASSUME TypeInv, [Next]_vars, NEW s, Justified(s) PROVE Justified(s)'
<1>1. handled' = handled \/ \E e : handled' = Append(handled, e)
  <2>1. CASE RunReceived
    BY <2>1 DEF RunReceived
  <2>2. CASE ~RunReceived
    BY <2>2 DEF Next, RunOrderReceive, AsyncSend, RunSend, RunSent, Close, Arrive,
              ReactorReceive, ReactorReceiveError, ReactorSend, Drain, vars
  <2> QED BY <2>1, <2>2
<1>2. \A i \in DOMAIN handled : i \in DOMAIN handled' /\ handled'[i] = handled[i]
  <2>1. ASSUME NEW e, handled' = Append(handled, e), NEW i \in DOMAIN handled
        PROVE  i \in DOMAIN handled' /\ handled'[i] = handled[i]
    <3>1. PICK S : handled \in Seq(S)
      BY DEF TypeInv, TypeOK
    <3>2. handled \in Seq(S \cup {e}) /\ e \in S \cup {e}
      BY <3>1, SeqMonotonic
    <3> QED BY <2>1, <3>2, AppendProperties, LenProperties
  <2> QED BY <1>1, <2>1
<1> QED BY <1>2 DEF Justified

LEMMA InitReply == Init => ReplyInv
<1> SUFFICES ASSUME Init PROVE ReplyInv
  OBVIOUS
<1>1. Len(ready) = 1 /\ ready[1].kind = "orderReceive"
  BY DEF Init, InitialHandlers, OrderReceive
<1>2. sendOps = <<>> /\ wire = <<>> /\ Len(<<>>) = 0
  BY EmptySeq DEF Init
<1> QED BY <1>1, <1>2, InitMatches DEF ReplyInv, Elements

(* Only a call of asyncSend brings a new posted handler. *)
LEMMA PostedStay ==
    ASSUME TypeInv, Move, calls' = calls, NEW h \in Elements(ready'), h.kind = "send"
    PROVE  h \in Elements(ready)
<1>0. /\ ready \in Seq(Handlers) /\ calls \in Nat /\ AbortedSends \in Seq(Handlers)
      /\ sendOps \in Seq(Sends)
  BY SendTypes
<1>1. CASE ReceiveMove
  <2>1. Elements(ready') \subseteq Elements(ready) \cup ReceiveHandlers
    BY <1>1, RestOrdered DEF ReceiveMove
  <2> QED BY <2>1, SendsHaveNumbers
<1>2. CASE EndMove
  <2>1. PICK s \in Sends, q \in Seq(Handlers), ec \in Codes :
           (q = ready \/ (ready # <<>> /\ q = Tail(ready))) /\ ready' = Append(q, Sent(s, ec))
    BY <1>2 DEF EndMove
  <2>2. Elements(q) \subseteq Elements(ready)
    BY <1>0, <2>1, ElementsChange
  <2>3. Elements(ready') = Elements(q) \cup {Sent(s, ec)}
    BY <2>1, SendsHaveNumbers, ElementsChange
  <2> QED BY <2>2, <2>3, SendsHaveNumbers
<1>3. CASE WaitMove \/ ReportMove
  <2>1. ready # <<>> /\ ready' = Tail(ready)
    BY <1>3 DEF WaitMove, ReportMove
  <2> QED BY <1>0, <2>1, ElementsChange
<1>4. CASE CloseMove
  <2>1. PICK r \in Seq(ReceiveHandlers) : ready' = (ready \o r) \o AbortedSends
    BY <1>4 DEF CloseMove
  <2> DEFINE p == ready \o r
  <2>2. r \in Seq(Handlers) /\ \A g \in Elements(r) : g.kind # "send"
    <3>1. r \in Seq(Handlers)
      BY SeqMonotonic DEF Handlers
    <3>2. \A g \in Elements(r) : g \in ReceiveHandlers
      BY ElementOfSeq DEF Elements
    <3> QED BY <3>1, <3>2, SendsHaveNumbers
  <2>3. p \in Seq(Handlers) /\ Elements(p) = Elements(ready) \cup Elements(r)
    BY <1>0, <2>2, ConcatProperties, ElementsChange
  <2>4. ready' = p \o AbortedSends
    BY <2>1
  <2> HIDE DEF p
  <2>5. Elements(ready') = Elements(p) \cup Elements(AbortedSends)
    BY <1>0, <2>3, <2>4, ElementsChange
  <2>6. \A g \in Elements(AbortedSends) : g.kind # "send"
    <3>1. ASSUME NEW i \in 1 .. Len(AbortedSends) PROVE AbortedSends[i].kind # "send"
      <4>1. AbortedSends[i] = Sent(sendOps[i], "aborted") /\ sendOps[i] \in Sends
        BY <1>0, SendTypes, ElementOfSeq DEF AbortedSends
      <4> QED BY <4>1, SendsHaveNumbers DEF Codes
    <3> QED BY <3>1 DEF Elements
  <2> QED BY <2>2, <2>3, <2>5, <2>6
<1>5. ~CallMove
  BY <1>0 DEF CallMove
<1> QED BY <1>1, <1>2, <1>3, <1>4, <1>5 DEF Move

(* A reply is posted with the id and the sender of the datagram that was   *)
(* just handed over.                                                       *)
LEMMA ReplyPosted ==
    ASSUME TypeInv, EndpointMatches, RunReceived, NEW h \in Elements(ready'), h.kind = "send"
    PROVE  h \in Elements(ready) \/ Justified(h.send)'
<1> DEFINE s == [id |-> calls + 1, to |-> remoteEndpoint, re |-> recvBuffer.id]
<1>1. /\ ready # <<>> /\ Head(ready) \in ReceiveHandlers /\ Head(ready).ec \in Codes
      /\ Tail(ready) \in Seq(Handlers) /\ ready \in Seq(Handlers)
  BY HeadTailType, HandlerKinds, SendTypes DEF RunReceived
<1>2. PICK x \in Executions(Head(ready).ec, recvBuffer.form) :
        LET q == IF x.reply
                 THEN Post(Tail(ready), remoteEndpoint, recvBuffer.id)
                 ELSE Tail(ready)
        IN  /\ x.reply => calls < MaxSends
            /\ handled' = IF Head(ready).ec = "ok"
                          THEN Append(handled, [datagram |-> recvBuffer,
                                                source |-> remoteEndpoint,
                                                calls |-> x.calls])
                          ELSE handled
            /\ ready' = q \/ StartReceive(q)
  BY DEF RunReceived
<1>3. Elements(Tail(ready)) \subseteq Elements(ready)
  BY <1>1, ElementsChange
<1>4. CASE ~x.reply
  <2>1. MaybeReceive(Tail(ready))
    BY <1>2, <1>4, StartReceiveMoves DEF MaybeReceive
  <2>2. Elements(ready') \subseteq Elements(ready) \cup ReceiveHandlers
    BY <1>1, <1>3, <2>1, RestOrdered
  <2> QED BY <2>2, SendsHaveNumbers
<1>5. CASE x.reply
  <2>1. /\ Head(ready).ec = "ok"
        /\ recvBuffer \in Datagrams /\ remoteEndpoint \in Endpoints
    BY <1>1, <1>5, HeadTailType, HandlerKinds, ExecutionsType DEF RunReceived
  <2>2. recvBuffer.id \in 0 .. MaxDatagrams
    BY <2>1, SocketAssumption DEF Datagrams
  <2>3. s \in Sends
    BY <1>2, <1>5, <2>1, <2>2, SocketAssumption DEF TypeInv, TypeOK, Sends
  <2>4. MaybeReceive(Append(Tail(ready), Posted(s)))
    BY <1>2, <1>5, StartReceiveMoves DEF Post, MaybeReceive
  <2>5. Elements(ready') \subseteq Elements(ready) \cup {Posted(s)} \cup ReceiveHandlers
    <3> HIDE DEF s
    <3>1. Posted(s) \in Handlers
      BY <2>3, SendsHaveNumbers
    <3>2. /\ Append(Tail(ready), Posted(s)) \in Seq(Handlers)
          /\ Elements(Append(Tail(ready), Posted(s))) = Elements(Tail(ready)) \cup {Posted(s)}
      <4>1. Tail(ready) \in Seq(Handlers)
        BY <1>1
      <4>2. Append(Tail(ready), Posted(s)) \in Seq(Handlers)
        BY <3>1, <4>1, AppendProperties
      <4>3. Elements(Append(Tail(ready), Posted(s))) = Elements(Tail(ready)) \cup {Posted(s)}
        <5>1. \A g \in Handlers :
                 Elements(Append(Tail(ready), g)) = Elements(Tail(ready)) \cup {g}
          BY <4>1, ElementsChange, Zenon
        <5> QED BY <3>1, <5>1, Zenon
      <4> QED BY <4>2, <4>3
    <3> QED BY <1>3, <2>4, <3>2, RestOrdered
  <2>6. PICK t : t = s
    OBVIOUS
  <2>7. Justified(t)'
    <3> DEFINE e == [datagram |-> recvBuffer, source |-> remoteEndpoint, calls |-> x.calls]
               n == Len(handled) + 1
    <3>1. handled' = Append(handled, e)
      BY <1>2, <2>1
    <3>2. PICK S : handled \in Seq(S)
      BY DEF TypeInv, TypeOK
    <3>3. handled \in Seq(S \cup {e}) /\ e \in S \cup {e}
      BY <3>2, SeqMonotonic
    <3>4. n \in DOMAIN handled' /\ handled'[n] = e
      <4> HIDE DEF e
      <4> QED BY <3>1, <3>3, AppendProperties, LenProperties
    <3>5. \E m \in DOMAIN x.calls : x.calls[m] = "packet"
      BY <1>5, <2>1, ReplyMeansPacket
    <3>6. remoteEndpoint = recvBuffer.from
      BY <2>1 DEF EndpointMatches
    <3>7. /\ handled'[n].datagram.id = recvBuffer.id
          /\ handled'[n].datagram.from = remoteEndpoint
          /\ \E m \in DOMAIN handled'[n].calls : handled'[n].calls[m] = "packet"
      BY <3>4, <3>5, <3>6
    <3>8. t.re = recvBuffer.id /\ t.to = remoteEndpoint
      BY <2>6
    <3> HIDE DEF e, n
    <3> QED BY <3>4, <3>7, <3>8 DEF Justified
  <2>8. Posted(t).send = t /\ Posted(t) = Posted(s)
    BY <2>6 DEF Posted
  <2> HIDE DEF s
  <2> QED BY <2>5, <2>7, <2>8, SendsHaveNumbers
<1> QED BY <1>4, <1>5

LEMMA NewPosted ==
    ASSUME TypeInv, EndpointMatches, [Next]_vars, NEW h \in Elements(ready'), h.kind = "send"
    PROVE  h \in Elements(ready) \/ Justified(h.send)'
<1>1. CASE calls' = calls
  BY <1>1, StepIsMove, PostedStay
<1>2. CASE RunReceived
  BY <1>2, ReplyPosted
<1>3. CASE AsyncSend
  <2>1. PICK to \in Endpoints : ready' = Post(ready, to, 0)
    BY <1>3 DEF AsyncSend
  <2> DEFINE s == [id |-> calls + 1, to |-> to, re |-> 0]
  <2>2. s \in Sends /\ s.re = 0
    BY <1>3, SocketAssumption DEF AsyncSend, TypeInv, TypeOK, Sends
  <2>3. ready' = Append(ready, Posted(s)) /\ ready \in Seq(Handlers)
    BY <2>1, SendTypes DEF Post
  <2> HIDE DEF s
  <2>4. Elements(ready') = Elements(ready) \cup {Posted(s)}
    BY <2>2, <2>3, ElementsChange, SendsHaveNumbers
  <2>5. Posted(s).send = s
    BY DEF Posted
  <2> QED BY <2>2, <2>4, <2>5 DEF Justified
<1>4. CASE calls' # calls /\ ~RunReceived /\ ~AsyncSend
  BY <1>4 DEF Next, RunOrderReceive, RunSend, RunSent, Close, Arrive,
              ReactorReceive, ReactorReceiveError, ReactorSend, Drain, vars
<1> QED BY <1>1, <1>2, <1>3, <1>4

(* What waits in the reactor was posted. *)
LEMMA NewWaiting ==
    ASSUME TypeInv, Move, NEW s \in Elements(sendOps')
    PROVE  s \in Elements(sendOps) \/ \E h \in Elements(ready) : h.kind = "send" /\ h.send = s
<1>0. ready \in Seq(Handlers) /\ sendOps \in Seq(Sends)
  BY SendTypes
<1>1. CASE sendOps' = sendOps
  BY <1>1
<1>2. CASE sendOps # <<>> /\ sendOps' = Tail(sendOps)
  BY <1>0, <1>2, ElementsChange
<1>3. CASE sendOps' = <<>>
  BY <1>3, EmptySeq DEF Elements
<1>4. CASE WaitMove
  <2>1. PICK e \in Sends : /\ ready # <<>> /\ Head(ready) = Posted(e)
                           /\ sendOps' = Append(sendOps, e)
    BY <1>4 DEF WaitMove
  <2>2. Elements(sendOps') = Elements(sendOps) \cup {e}
    BY <1>0, <2>1, ElementsChange
  <2>3. Posted(e) \in Elements(ready) /\ Posted(e).kind = "send" /\ Posted(e).send = e
    BY <1>0, <2>1, ElementsChange, SendsHaveNumbers
  <2> QED BY <2>2, <2>3
<1> QED BY <1>1, <1>2, <1>3, <1>4 DEF Move, ReceiveMove, CallMove, EndMove, ReportMove, CloseMove

(* What is transmitted was posted or waited, and goes where it should.     *)
LEMMA NewOnWire ==
    ASSUME TypeInv, [Next]_vars, NEW w \in Elements(wire')
    PROVE  \/ w \in Elements(wire)
           \/ \E s : /\ \/ s \in Elements(sendOps)
                        \/ \E h \in Elements(ready) : h.kind = "send" /\ h.send = s
                     /\ w.re = s.re /\ w.to = s.to
<1>0. ready \in Seq(Handlers) /\ sendOps \in Seq(Sends) /\ wire \in Seq(WireItems)
  BY SendTypes
<1>1. ASSUME NEW s \in Sends, NEW q, NEW bytes \in SUBSET {"intact", "garbage"},
             Transmit(s, bytes, q), w \notin Elements(wire)
      PROVE  w.re = s.re /\ w.to = s.to
  <2>1. wire' # wire
    BY <1>1
  <2>2. PICK b \in bytes :
           wire' = Append(wire, [id |-> s.id, to |-> Destination(s),
                                 re |-> s.re, bytes |-> b])
    BY <1>1, <2>1 DEF Transmit
  <2> DEFINE x == [id |-> s.id, to |-> Destination(s), re |-> s.re, bytes |-> b]
  <2>3. x \in WireItems /\ x.re = s.re /\ x.to = s.to
    BY DEF WireItems, Sends, Destination
  <2> HIDE DEF x
  <2>4. Elements(wire') = Elements(wire) \cup {x}
    BY <1>0, <2>2, <2>3, ElementsChange DEF x
  <2> QED BY <1>1, <2>3, <2>4
<1>2. CASE RunSend
  <2> DEFINE s == Head(ready).send
  <2>1. s \in Sends /\ Head(ready) \in Elements(ready) /\ Head(ready).kind = "send"
    BY <1>0, <1>2, PostedHead, ElementsChange DEF RunSend
  <2>2. wire' = wire \/ Transmit(s, BytesInHandler, Tail(ready))
    BY <1>2 DEF RunSend, sendVars
  <2>3. BytesInHandler \in SUBSET {"intact", "garbage"}
    BY DEF BytesInHandler
  <2> HIDE DEF s
  <2>4. w \in Elements(wire) \/ (w.re = s.re /\ w.to = s.to)
    BY <1>1, <2>1, <2>2, <2>3
  <2> QED BY <2>1, <2>4 DEF s
<1>3. CASE ReactorSend
  <2> DEFINE s == Head(sendOps)
  <2>1. s \in Sends /\ s \in Elements(sendOps)
    BY <1>0, <1>3, ElementsChange, HeadTailProperties DEF ReactorSend
  <2>2. BytesAfterHandler \in SUBSET {"intact", "garbage"}
    BY DEF BytesAfterHandler
  <2>3. Transmit(s, BytesAfterHandler, ready)
    BY <1>3 DEF ReactorSend
  <2> HIDE DEF s
  <2>4. w \in Elements(wire) \/ (w.re = s.re /\ w.to = s.to)
    BY <1>1, <2>1, <2>2, <2>3
  <2> QED BY <2>1, <2>4
<1>4. CASE ~RunSend /\ ~ReactorSend
  <2>1. wire' = wire
    BY <1>4 DEF Next, RunOrderReceive, RunReceived, AsyncSend, RunSent, Close, Arrive,
                ReactorReceive, ReactorReceiveError, Drain, vars, sendVars
  <2> QED BY <2>1
<1> QED BY <1>2, <1>3, <1>4

LEMMA StepReply == TypeInv /\ ReplyInv /\ [Next]_vars => ReplyInv'
<1> SUFFICES ASSUME TypeInv, ReplyInv, [Next]_vars PROVE ReplyInv'
  OBVIOUS
<1>1. EndpointMatches'
  BY StepMatches DEF ReplyInv
<1>2. ASSUME NEW h \in Elements(ready'), h.kind = "send" PROVE Justified(h.send)'
  BY <1>2, NewPosted, JustifiedStays DEF ReplyInv
<1>3. ASSUME NEW s \in Elements(sendOps') PROVE Justified(s)'
  <2>1. Justified(s)
    BY NewWaiting, StepIsMove DEF ReplyInv
  <2> QED BY <2>1, JustifiedStays
<1>4. ASSUME NEW w \in Elements(wire') PROVE Justified(w)'
  <2>1. Justified(w)
    BY NewOnWire DEF ReplyInv, Justified
  <2> QED BY <2>1, JustifiedStays
<1> QED BY <1>1, <1>2, <1>3, <1>4 DEF ReplyInv

(* Every reply on the wire goes to the peer whose datagram it answers,     *)
(* however many datagrams came in while it waited.                         *)
THEOREM RepliesReachSender == Spec => []RepliesGoToSender
<1>1. Spec => [](TypeInv /\ ReplyInv)
  BY InitType, StepType, InitReply, StepReply, PTL DEF Spec
<1>2. TypeInv /\ ReplyInv => RepliesGoToSender
  <2> SUFFICES ASSUME TypeInv, ReplyInv, NEW k \in DOMAIN wire
               PROVE  Justified(wire[k])
    BY DEF RepliesGoToSender, Justified
  <2>1. wire[k] \in Elements(wire)
    BY SendTypes, LenProperties DEF Elements
  <2> QED BY <2>1 DEF ReplyInv
<1> QED BY <1>1, <1>2, PTL

-----------------------------------------------------------------------------
(* Close.                                                                  *)

(* Nothing is left for a closed socket to take or to send. *)
ClosedInv == ~open => sendOps = <<>> /\ recvOps = 0 /\ inbox = <<>>

LEMMA InitClosed == Init => ClosedInv
BY DEF Init, ClosedInv

LEMMA StepClosed == TypeInv /\ ClosedInv /\ [Next]_vars => ClosedInv'
<1> SUFFICES ASSUME TypeInv, ClosedInv, [Next]_vars, ~open'
             PROVE  sendOps' = <<>> /\ recvOps' = 0 /\ inbox' = <<>>
  BY DEF ClosedInv
<1>1. CASE Close
  BY <1>1 DEF Close, KeptSends
<1>2. CASE ~Close
  <2>1. open' = open
    BY <1>2 DEF Next, RunOrderReceive, RunReceived, AsyncSend, RunSend, RunSent, Arrive,
                ReactorReceive, ReactorReceiveError, ReactorSend, Drain, vars
  <2>2. ~open /\ sendOps = <<>> /\ recvOps = 0 /\ inbox = <<>>
    BY <2>1 DEF ClosedInv
  <2>3. ~Arrive /\ ~ReactorReceive /\ ~ReactorReceiveError /\ ~ReactorSend
    BY <2>2 DEF Arrive, ReactorReceive, ReactorReceiveError, ReactorSend
  <2>4. \A q : StartReceive(q) => UNCHANGED <<recvOps, inbox>>
    BY <2>2 DEF StartReceive, recvVars
  <2>5. CASE RunOrderReceive \/ RunReceived
    <3>1. UNCHANGED <<recvOps, inbox, sendOps>>
      BY <2>4, <2>5 DEF RunOrderReceive, RunReceived, recvVars, sendVars
    <3> QED BY <2>2, <3>1
  <2>6. CASE RunSend
    <3>1. UNCHANGED <<recvOps, inbox, sendOps>>
      BY <2>2, <2>6 DEF RunSend, recvVars, sendVars
    <3> QED BY <2>2, <3>1
  <2>7. CASE AsyncSend \/ RunSent \/ Drain \/ UNCHANGED vars
    <3>1. UNCHANGED <<recvOps, inbox, sendOps>>
      BY <2>7 DEF AsyncSend, RunSent, Drain, vars, recvVars, sendVars
    <3> QED BY <2>2, <3>1
  <2> QED BY <1>2, <2>3, <2>5, <2>6, <2>7 DEF Next
<1> QED BY <1>1, <1>2

LEMMA ClosedStep ==
    ASSUME TypeInv, ReceiverInv, ClosedInv, [Next]_vars, ~open
    PROVE  /\ wire' = wire
           /\ handled' # handled => \A i \in DOMAIN ready' : ready'[i] # Received("ok")
<1>1. wire' = wire
  <2>1. ~ReactorSend
    BY DEF ReactorSend, ClosedInv
  <2>2. CASE RunSend
    BY <2>2 DEF RunSend, sendVars
  <2>3. CASE ~RunSend
    BY <2>1, <2>3 DEF Next, RunOrderReceive, RunReceived, AsyncSend, RunSent, Close, Arrive,
                      ReactorReceive, ReactorReceiveError, Drain, vars, sendVars
  <2> QED BY <2>2, <2>3
<1>2. ASSUME handled' # handled, NEW i \in DOMAIN ready'
      PROVE  ready'[i] # Received("ok")
  <2>1. RunReceived
    BY <1>2 DEF Next, RunOrderReceive, AsyncSend, RunSend, RunSent, Close, Arrive,
                ReactorReceive, ReactorReceiveError, ReactorSend, Drain, vars
  <2>2. PICK q \in Seq(Handlers) : /\ NoReceive(q)
                                   /\ ready' = q \/ StartReceive(q)
    BY <2>1, ReceivedQueue
  <2>3. ready' = q \/ ready' = Append(q, Received("badDescriptor"))
    BY <2>2 DEF StartReceive
  <2>4. /\ Received("ok") \in ReceiveHandlers
        /\ Received("badDescriptor") \in Handlers
        /\ Received("badDescriptor") # Received("ok")
    <3>1. Received("badDescriptor").ec # Received("ok").ec
      BY DEF Received
    <3> QED BY <3>1, HandlerTypes DEF ReceiveHandlers, Codes
  <2>5. Received("ok") \notin Elements(q)
    <3>1. \A j \in 1 .. Len(q) : q[j] \notin ReceiveHandlers
      BY <2>2, NoReceiveIff
    <3> QED BY <2>4, <3>1 DEF Elements
  <2>6. Received("ok") \notin Elements(ready')
    <3>1. Elements(Append(q, Received("badDescriptor")))
            = Elements(q) \cup {Received("badDescriptor")}
      BY <2>4, ElementsChange
    <3> QED BY <2>3, <2>4, <2>5, <3>1
  <2>7. DOMAIN ready' = 1 .. Len(ready')
    <3>1. ready' \in Seq(Handlers)
      BY StepType DEF TypeInv, TypeOK
    <3> QED BY <3>1, LenProperties
  <2> QED BY <2>6, <2>7 DEF Elements
<1> QED BY <1>1, <1>2

(* After close nothing reaches the wire, and only the datagram that was    *)
(* read before is still handed to the callback.                            *)
THEOREM ClosedStaysSilent == Spec => ClosedIsSilent
<1>1. Spec => [](TypeInv /\ ReceiverInv /\ ClosedInv)
  BY InitType, StepType, InitReceiver, StepReceiver, InitClosed, StepClosed, PTL DEF Spec
<1>2. TypeInv /\ ReceiverInv /\ ClosedInv /\ [Next]_vars
        => [~open => /\ wire' = wire
                     /\ handled' # handled =>
                            \A i \in DOMAIN ready' : ready'[i] # Received("ok")]_vars
  BY ClosedStep
<1> QED BY <1>1, <1>2, PTL DEF Spec, ClosedIsSilent

-----------------------------------------------------------------------------
(* The serial server of DatagramService, as Service sees it in Socket.     *)

Taken == \E i \in DOMAIN ready : IsTaken(i)
SeenTaken == IF Taken THEN <<recvBuffer>> ELSE <<>>
SeenServed == [i \in DOMAIN handled |-> [datagram |-> handled[i].datagram,
                                         source |-> handled[i].source]]
SeenStatus == IF loop = "escaped" THEN "ended"
              ELSE IF open THEN "open" ELSE "closed"

LEMMA ServiceSteps ==
    /\ Service!Init <=> /\ inbox = <<>> /\ SeenTaken = <<>>
                        /\ SeenServed = <<>> /\ SeenStatus = "open"
    /\ Service!Offer <=> /\ SeenStatus = "open"
                         /\ Len(inbox) < InboxCapacity
                         /\ \E d \in Datagrams : inbox' = Append(inbox, d)
                         /\ UNCHANGED <<SeenTaken, SeenServed, SeenStatus>>
    /\ Service!Take <=> /\ SeenStatus # "ended"
                        /\ SeenTaken = <<>> /\ inbox # <<>>
                        /\ SeenTaken' = <<Head(inbox)>> /\ inbox' = Tail(inbox)
                        /\ UNCHANGED <<SeenServed, SeenStatus>>
    /\ Service!Serve <=>
          /\ SeenStatus # "ended" /\ SeenTaken # <<>>
          /\ SeenServed' = Append(SeenServed, [datagram |-> Head(SeenTaken),
                                               source |-> Head(SeenTaken).from])
          /\ \/ /\ inbox # <<>> /\ SeenTaken' = <<Head(inbox)>>
                /\ inbox' = Tail(inbox) /\ UNCHANGED SeenStatus
             \/ /\ SeenTaken' = <<>> /\ UNCHANGED inbox
                /\ SeenStatus' \in {SeenStatus, "ended"}
    /\ Service!Close <=> /\ SeenStatus = "open" /\ SeenStatus' = "closed"
                         /\ inbox' = <<>> /\ UNCHANGED <<SeenTaken, SeenServed>>
    /\ Service!End <=> /\ SeenStatus # "ended" /\ SeenStatus' = "ended"
                       /\ UNCHANGED <<inbox, SeenTaken, SeenServed>>
BY DEF Service!Init, Service!Offer, Service!Take, Service!Serve, Service!Close,
       Service!End, Service!Served, Taken, SeenTaken, SeenServed, SeenStatus

LEMMA ServiceStutters ==
    ASSUME UNCHANGED <<inbox, SeenTaken, SeenServed, SeenStatus>>
    PROVE  UNCHANGED Service!vars
BY DEF Service!vars, Taken, SeenTaken, SeenServed, SeenStatus

LEMMA TakenIs ==
    /\ TypeInv => (Taken <=> Received("ok") \in Elements(ready))
    /\ TypeInv' => (Taken' <=> Received("ok") \in Elements(ready'))
<1>1. ASSUME TypeInv PROVE Taken <=> Received("ok") \in Elements(ready)
  <2>1. DOMAIN ready = 1 .. Len(ready)
    BY <1>1, LenProperties DEF TypeInv, TypeOK
  <2> QED BY <2>1 DEF Taken, IsTaken, Elements
<1>2. ASSUME TypeInv' PROVE Taken' <=> Received("ok") \in Elements(ready')
  <2>1. DOMAIN ready' = 1 .. Len(ready')
    BY <1>2, LenProperties DEF TypeInv, TypeOK
  <2> QED BY <2>1 DEF Taken, IsTaken, Elements
<1> QED BY <1>1, <1>2

LEMMA TakenHandler ==
    /\ Received("ok") \in ReceiveHandlers /\ Received("ok") \in Handlers
    /\ Received("ok").kind = "received" /\ Received("ok").ec = "ok"
    /\ \A ec \in Codes \ {"ok"} :
          Received(ec) \in Handlers /\ Received(ec) # Received("ok")
    /\ \A s \in Sends, ec \in Codes :
          Sent(s, ec) \in Handlers /\ Sent(s, ec) # Received("ok")
    /\ \A s \in Sends : Posted(s) \in Handlers /\ Posted(s) # Received("ok")
    /\ OrderReceive # Received("ok")
<1>1. \A ec \in Codes \ {"ok"} : Received(ec) # Received("ok")
  <2>1. \A ec \in Codes : Received(ec).ec = ec
    BY DEF Received
  <2> QED BY <2>1 DEF Codes
<1>2. /\ Received("ok") \in ReceiveHandlers /\ Received("ok").kind = "received"
      /\ Received("ok").ec = "ok"
  BY DEF ReceiveHandlers, Codes, Received
<1>3. /\ \A s \in Sends, ec \in Codes : Sent(s, ec).kind = "sent"
      /\ \A s \in Sends : Posted(s).kind = "send"
      /\ OrderReceive.kind = "orderReceive"
  BY DEF Sent, Posted, OrderReceive
<1> QED BY <1>1, <1>2, <1>3, HandlerTypes DEF Codes

(* Starting a receive with nothing taken takes the next datagram or not.   *)
LEMMA StartReceiveTakes ==
    ASSUME TypeInv', NEW q \in Seq(Handlers), NoReceive(q), StartReceive(q)
    PROVE  \/ SeenTaken' = <<>> /\ UNCHANGED inbox
           \/ open /\ inbox # <<>> /\ SeenTaken' = <<Head(inbox)>> /\ inbox' = Tail(inbox)
<1>1. Received("ok") \notin Elements(q)
  <2>1. \A j \in 1 .. Len(q) : q[j] \notin ReceiveHandlers
    BY NoReceiveIff
  <2> QED BY <2>1, TakenHandler DEF Elements
<1>2. CASE UNCHANGED inbox /\ \E ec \in {"badDescriptor", "failed"} :
                                  ready' = Append(q, Received(ec))
  <2>1. PICK ec \in {"badDescriptor", "failed"} : ready' = Append(q, Received(ec))
    BY <1>2
  <2>2. Elements(ready') = Elements(q) \cup {Received(ec)}
    BY <2>1, TakenHandler, ElementsChange DEF Codes
  <2>3. Received("ok") \notin Elements(ready')
    BY <1>1, <2>2, TakenHandler DEF Codes
  <2> QED BY <1>2, <2>3, TakenIs DEF SeenTaken
<1>3. CASE /\ open /\ inbox # <<>>
           /\ recvBuffer' = Head(inbox) /\ inbox' = Tail(inbox)
           /\ ready' = Append(q, Received("ok"))
  <2>1. Elements(ready') = Elements(q) \cup {Received("ok")}
    BY <1>3, TakenHandler, ElementsChange
  <2> QED BY <1>3, <2>1, TakenIs DEF SeenTaken
<1>4. CASE ready' = q /\ UNCHANGED inbox
  BY <1>1, <1>4, TakenIs DEF SeenTaken
<1> QED BY <1>2, <1>3, <1>4 DEF StartReceive, recvVars

(* While a datagram is taken there is no other receive, and none is taken  *)
(* while an operation or another receive handler waits.                    *)
LEMMA TakenAlone ==
    ASSUME TypeInv, ReceiverInv
    PROVE  /\ recvOps > 0 => ~Taken
           /\ ready # <<>> /\ Head(ready) \in ReceiveHandlers =>
                 (Taken <=> Head(ready) = Received("ok"))
<1>1. /\ ready \in Seq(Handlers) /\ DOMAIN ready = 1 .. Len(ready)
      /\ ready # <<>> => Len(ready) \in Nat \ {0} /\ Head(ready) = ready[1]
  BY LenProperties, EmptySeq DEF TypeInv, TypeOK
<1>2. NoReceive(ready) => ~Taken
  BY <1>1, NoReceiveIff, TakenHandler DEF Taken, IsTaken
<1>3. recvOps > 0 => NoReceive(ready)
  BY DEF ReceiverInv
<1>4. ASSUME ready # <<>>, Head(ready) \in ReceiveHandlers
      PROVE  Taken <=> Head(ready) = Received("ok")
  <2>1. OneReceive(ready)
    <3>1. ~NoReceive(ready)
      BY <1>1, <1>4, ReceiveRemoved, DisjointHandlers
    <3> QED BY <3>1 DEF ReceiverInv
  <2>2. \A j \in 1 .. Len(ready) : ready[j] \in ReceiveHandlers => j = 1
    BY <1>1, <1>4, <2>1 DEF OneReceive
  <2>3. 1 \in 1 .. Len(ready)
    BY <1>1, <1>4
  <2> QED BY <1>1, <1>4, <2>2, <2>3, TakenHandler DEF Taken, IsTaken
<1> QED BY <1>2, <1>3, <1>4

(* handled grows by a datagram and its source: so does what is seen of it. *)
LEMMA ServedAppended ==
    ASSUME TypeInv, NEW e, handled' = Append(handled, e)
    PROVE  SeenServed' = Append(SeenServed, [datagram |-> e.datagram, source |-> e.source])
<1> DEFINE m == [datagram |-> e.datagram, source |-> e.source]
           view(i) == [datagram |-> handled[i].datagram, source |-> handled[i].source]
<1>1. PICK S : handled \in Seq(S)
  BY DEF TypeInv, TypeOK
<1>2. handled \in Seq(S \cup {e}) /\ e \in S \cup {e}
  BY <1>1, SeqMonotonic
<1>3. /\ Len(handled) \in Nat /\ DOMAIN handled = 1 .. Len(handled)
      /\ DOMAIN handled' = 1 .. Len(handled) + 1
      /\ \A i \in 1 .. Len(handled) : handled'[i] = handled[i]
      /\ handled'[Len(handled) + 1] = e
  BY <1>2, AppendProperties, LenProperties
<1> DEFINE T == {view(i) : i \in 1 .. Len(handled)} \cup {m}
<1>4. SeenServed = [i \in 1 .. Len(handled) |-> view(i)]
  BY <1>3 DEF SeenServed
<1>5. SeenServed \in Seq(T) /\ Len(SeenServed) = Len(handled) /\ m \in T
  BY <1>3, <1>4
<1>6. SeenServed' = [i \in 1 .. Len(handled) + 1 |->
                        IF i = Len(handled) + 1 THEN m ELSE view(i)]
  <2>1. SeenServed' = [i \in 1 .. Len(handled) + 1 |->
                          [datagram |-> handled'[i].datagram, source |-> handled'[i].source]]
    BY <1>3 DEF SeenServed
  <2>2. \A i \in 1 .. Len(handled) + 1 :
           [datagram |-> handled'[i].datagram, source |-> handled'[i].source]
              = IF i = Len(handled) + 1 THEN m ELSE view(i)
    BY <1>3
  <2> QED BY <2>1, <2>2
<1> HIDE DEF m, view, T
<1>7. SeenServed' \in Seq(T) /\ Len(SeenServed') = Len(handled) + 1
  <2>1. \A i \in 1 .. Len(handled) + 1 :
           (IF i = Len(handled) + 1 THEN m ELSE view(i)) \in T
    BY <1>3 DEF T
  <2> QED BY <1>3, <1>6, <2>1
<1>8. /\ Append(SeenServed, m) \in Seq(T) /\ Len(Append(SeenServed, m)) = Len(handled) + 1
      /\ \A i \in 1 .. Len(handled) : Append(SeenServed, m)[i] = SeenServed[i]
      /\ Append(SeenServed, m)[Len(handled) + 1] = m
  BY <1>5, AppendProperties
<1>9. \A i \in 1 .. Len(handled) + 1 : SeenServed'[i] = Append(SeenServed, m)[i]
  BY <1>3, <1>4, <1>6, <1>8
<1>10. SeenServed' = Append(SeenServed, m)
  BY <1>7, <1>8, <1>9, SeqEqual
<1> QED BY <1>10 DEF m

LEMMA ElementsHead ==
    ASSUME NEW S, NEW q \in Seq(S), q # <<>>
    PROVE  Elements(q) = {Head(q)} \cup Elements(Tail(q))
<1> DEFINE t == Tail(q)
<1>1. /\ Len(q) \in Nat \ {0} /\ Len(t) = Len(q) - 1
      /\ \A i \in 1 .. Len(t) : t[i] = q[i + 1]
      /\ Head(q) = q[1] /\ Head(q) \in Elements(q) /\ Elements(t) \subseteq Elements(q)
  BY HeadTailProperties, EmptySeq, ElementsChange
<1> HIDE DEF t
<1>2. ASSUME NEW i \in 1 .. Len(q) PROVE q[i] \in {Head(q)} \cup Elements(t)
  <2>1. CASE i = 1
    BY <1>1, <2>1
  <2>2. CASE i # 1
    <3>1. i - 1 \in 1 .. Len(t) /\ t[i - 1] = q[i]
      BY <1>1, <2>2
    <3> QED BY <3>1 DEF Elements
  <2> QED BY <2>1, <2>2
<1>3. Elements(q) \subseteq {Head(q)} \cup Elements(t)
  BY <1>2 DEF Elements
<1> QED BY <1>1, <1>3 DEF t

(* Handlers of sends come and go without touching what is taken. *)
LEMMA SendsTakeNothing ==
    ASSUME TypeInv, TypeInv', AsyncSend \/ EndMove \/ WaitMove \/ ReportMove
    PROVE  Taken' <=> Taken
<1>0. ready \in Seq(Handlers)
  BY SendTypes
<1>1. ASSUME ready # <<>>, Head(ready) # Received("ok")
      PROVE  Received("ok") \in Elements(Tail(ready)) <=> Received("ok") \in Elements(ready)
  BY <1>0, <1>1, ElementsHead
<1>2. CASE AsyncSend
  <2>1. PICK to \in Endpoints : ready' = Post(ready, to, 0)
    BY <1>2 DEF AsyncSend
  <2>2. PICK s \in Sends : ready' = Append(ready, Posted(s))
    <3>1. [id |-> calls + 1, to |-> to, re |-> 0] \in Sends
      BY <1>2, SocketAssumption DEF AsyncSend, TypeInv, TypeOK, Sends
    <3> QED BY <2>1, <3>1 DEF Post
  <2>3. Elements(ready') = Elements(ready) \cup {Posted(s)}
    BY <1>0, <2>2, TakenHandler, ElementsChange
  <2> QED BY <2>3, TakenHandler, TakenIs
<1>3. CASE EndMove
  <2>1. PICK s \in Sends, q \in Seq(Handlers), ec \in Codes :
           /\ \/ ready # <<>> /\ Head(ready) = Posted(s) /\ q = Tail(ready)
              \/ q = ready
           /\ ready' = Append(q, Sent(s, ec))
    BY <1>3 DEF EndMove
  <2>2. Elements(ready') = Elements(q) \cup {Sent(s, ec)}
    BY <2>1, TakenHandler, ElementsChange
  <2>3. Received("ok") \in Elements(q) <=> Received("ok") \in Elements(ready)
    BY <1>1, <2>1, TakenHandler
  <2> QED BY <2>2, <2>3, TakenHandler, TakenIs
<1>4. CASE WaitMove
  <2>1. PICK s \in Sends : ready # <<>> /\ Head(ready) = Posted(s) /\ ready' = Tail(ready)
    BY <1>4 DEF WaitMove
  <2>2. Received("ok") \in Elements(ready') <=> Received("ok") \in Elements(ready)
    BY <1>1, <2>1, TakenHandler
  <2> QED BY <2>2, TakenIs
<1>5. CASE ReportMove
  <2>1. PICK s \in Sends, ec \in Codes :
           ready # <<>> /\ Head(ready) = Sent(s, ec) /\ ready' = Tail(ready)
    BY <1>5 DEF ReportMove
  <2>2. Received("ok") \in Elements(ready') <=> Received("ok") \in Elements(ready)
    BY <1>1, <2>1, TakenHandler
  <2> QED BY <2>2, TakenIs
<1> QED BY <1>2, <1>3, <1>4, <1>5

(* What the service sees of a step that leaves the received alone. *)
LEMMA SeenUnchanged ==
    ASSUME UNCHANGED <<inbox, recvBuffer, handled, open>>, Taken' <=> Taken
    PROVE  /\ UNCHANGED <<inbox, SeenTaken, SeenServed>>
           /\ loop' = loop => UNCHANGED SeenStatus
           /\ loop' = "escaped" => SeenStatus' = "ended"
BY DEF SeenTaken, SeenServed, SeenStatus

LEMMA SeenRunning ==
    ASSUME TypeInv PROVE loop = "running" => SeenStatus # "ended"
BY DEF SeenStatus

(* A step of a send is a stuttering step, unless its callback ends run().  *)
LEMMA SendSteps ==
    ASSUME TypeInv, TypeInv', AsyncSend \/ RunSend \/ RunSent \/ ReactorSend
    PROVE  [Service!Next]_(Service!vars)
<1>1. AsyncSend \/ EndMove \/ WaitMove \/ ReportMove
  BY RunSendIsMove, RunSentIsMove, ReactorSendIsMove
<1>2. Taken' <=> Taken
  BY <1>1, SendsTakeNothing
<1>3. /\ UNCHANGED <<inbox, recvBuffer, handled, open>>
      /\ loop = "running"
      /\ loop' = loop \/ loop' = "escaped"
  BY DEF AsyncSend, RunSend, RunSent, ReactorSend, recvVars
<1>4. CASE loop' = loop
  BY <1>2, <1>3, <1>4, SeenUnchanged, ServiceStutters
<1>5. CASE loop' = "escaped"
  <2>1. Service!End
    BY <1>2, <1>3, <1>5, SeenUnchanged, SeenRunning, ServiceSteps
  <2> QED BY <2>1 DEF Service!Next
<1> QED BY <1>3, <1>4, <1>5

(* A datagram arrives, or the kernel and the network do something else.    *)
LEMMA KernelSteps ==
    ASSUME TypeInv, TypeInv', ReceiverInv,
           Arrive \/ ReactorReceiveError \/ Drain \/ UNCHANGED vars
    PROVE  [Service!Next]_(Service!vars)
<1>1. CASE Drain \/ UNCHANGED vars
  <2>1. UNCHANGED <<inbox, recvBuffer, handled, open, ready, loop>>
    BY <1>1 DEF Drain, vars, recvVars
  <2>2. Taken' <=> Taken
    BY <2>1, TakenIs
  <2> QED BY <2>1, <2>2, SeenUnchanged, ServiceStutters
<1>2. CASE ReactorReceiveError
  <2>1. /\ UNCHANGED <<inbox, recvBuffer, handled, open, loop>>
        /\ ready' = Append(ready, Received("failed"))
        /\ ready \in Seq(Handlers)
    BY <1>2 DEF ReactorReceiveError, TypeInv, TypeOK
  <2>2. Elements(ready') = Elements(ready) \cup {Received("failed")}
    BY <2>1, TakenHandler, ElementsChange DEF Codes
  <2>3. Taken' <=> Taken
    BY <2>2, TakenIs, TakenHandler DEF Codes
  <2> QED BY <2>1, <2>3, SeenUnchanged, ServiceStutters
<1>3. CASE Arrive
  <2>1. UNCHANGED <<recvBuffer, handled, open, ready, loop>> /\ loop = "running" /\ open
    BY <1>3 DEF Arrive
  <2>2. PICK from \in Endpoints, form \in Forms :
          inbox' = IF Len(inbox) < InboxCapacity
                   THEN Append(inbox, [id |-> arrivals + 1, from |-> from, form |-> form])
                   ELSE inbox
    BY <1>3 DEF Arrive
  <2> DEFINE d == [id |-> arrivals + 1, from |-> from, form |-> form]
  <2>3. d \in Datagrams
    BY <1>3, SocketAssumption DEF Arrive, Datagrams, TypeInv, TypeOK
  <2>4. UNCHANGED <<SeenTaken, SeenServed, SeenStatus>> /\ SeenStatus = "open"
    BY <2>1, TakenIs DEF SeenTaken, SeenServed, SeenStatus
  <2>5. CASE Len(inbox) < InboxCapacity
    <3>1. inbox' = Append(inbox, d)
      BY <2>2, <2>5
    <3> HIDE DEF d
    <3>2. Service!Offer
      BY <2>3, <2>4, <2>5, <3>1, ServiceSteps
    <3> QED BY <3>2 DEF Service!Next
  <2>6. CASE ~(Len(inbox) < InboxCapacity)
    <3>1. inbox' = inbox
      BY <2>2, <2>6
    <3> QED BY <2>4, <3>1, ServiceStutters
  <2> QED BY <2>5, <2>6
<1> QED BY <1>1, <1>2, <1>3

LEMMA ReactorReceiveStep ==
    ASSUME TypeInv, TypeInv', ReceiverInv, ReactorReceive PROVE Service!Take
<1>1. /\ recvOps > 0 /\ inbox # <<>> /\ loop = "running"
      /\ recvBuffer' = Head(inbox) /\ inbox' = Tail(inbox)
      /\ ready' = Append(ready, Received("ok")) /\ ready \in Seq(Handlers)
      /\ UNCHANGED <<open, loop, handled>>
  BY DEF ReactorReceive, TypeInv, TypeOK
<1>2. SeenTaken = <<>>
  BY <1>1, TakenAlone DEF SeenTaken
<1>3. Elements(ready') = Elements(ready) \cup {Received("ok")}
  BY <1>1, TakenHandler, ElementsChange
<1>4. SeenTaken' = <<Head(inbox)>>
  BY <1>1, <1>3, TakenIs DEF SeenTaken
<1>5. UNCHANGED <<SeenServed, SeenStatus>>
  BY <1>1 DEF SeenServed, SeenStatus
<1> QED BY <1>1, <1>2, <1>4, <1>5, SeenRunning, ServiceSteps

(* close aborts what waits and leaves the datagram that was read. *)
LEMMA CloseStep ==
    ASSUME TypeInv, TypeInv', Close PROVE Service!Close
<1> DEFINE reads == [i \in 1 .. recvOps |-> Received("aborted")]
           p == ready \o reads
<1>0. ready \in Seq(Handlers) /\ AbortedSends \in Seq(Handlers) /\ sendOps \in Seq(Sends)
      /\ Len(AbortedSends) = Len(sendOps) /\ recvOps \in Nat
  BY SendTypes DEF TypeInv, TypeOK
<1>1. reads \in Seq(Handlers) /\ \A h \in Elements(reads) : h = Received("aborted")
  <2>1. Received("aborted") \in Handlers
    BY TakenHandler DEF Codes
  <2>2. reads \in Seq(Handlers) /\ Len(reads) = recvOps
    BY <1>0, <2>1
  <2>3. \A i \in 1 .. recvOps : reads[i] = Received("aborted")
    OBVIOUS
  <2> HIDE DEF reads
  <2> QED BY <2>2, <2>3 DEF Elements
<1>2. ready' = p \o AbortedSends
  BY DEF Close, Aborted, AbortedSends
<1>3. \A h \in Elements(AbortedSends) : h # Received("ok")
  <2>1. ASSUME NEW i \in 1 .. Len(AbortedSends) PROVE AbortedSends[i] # Received("ok")
    <3>1. AbortedSends[i] = Sent(sendOps[i], "aborted") /\ sendOps[i] \in Sends
      BY <1>0, ElementOfSeq DEF AbortedSends
    <3> QED BY <3>1, TakenHandler DEF Codes
  <2> QED BY <2>1 DEF Elements
<1>4. Received("ok") \notin Elements(reads)
  BY <1>1, TakenHandler DEF Codes
<1> HIDE DEF reads
<1>5. p \in Seq(Handlers) /\ Elements(p) = Elements(ready) \cup Elements(reads)
  BY <1>0, <1>1, ConcatProperties, ElementsChange
<1> HIDE DEF p
<1>6. Elements(ready') = Elements(p) \cup Elements(AbortedSends)
  BY <1>0, <1>2, <1>5, ElementsChange
<1>7. Taken' <=> Taken
  BY <1>3, <1>4, <1>5, <1>6, TakenIs
<1>8. UNCHANGED <<SeenTaken, SeenServed>>
  BY <1>7 DEF Close, SeenTaken, SeenServed
<1>9. SeenStatus = "open" /\ SeenStatus' = "closed" /\ inbox' = <<>>
  BY DEF Close, SeenStatus
<1> QED BY <1>8, <1>9, ServiceSteps

(* The first receive takes a datagram if one waits.                        *)
LEMMA OrderReceiveStep ==
    ASSUME TypeInv, TypeInv', ReceiverInv, RunOrderReceive
    PROVE  [Service!Next]_(Service!vars)
<1>1. /\ ready # <<>> /\ Head(ready).kind = "orderReceive" /\ loop = "running"
      /\ StartReceive(Tail(ready))
      /\ UNCHANGED <<open, loop, handled>>
  BY DEF RunOrderReceive
<1>2. Head(ready) \in ReceiveHandlers /\ Tail(ready) \in Seq(Handlers) /\ NoReceive(Tail(ready))
  BY <1>1, HeadTailType, HandlerKinds, HeadIsReceive
<1>3. SeenTaken = <<>>
  <2>1. Head(ready) # Received("ok")
    BY <1>1, TakenHandler
  <2> QED BY <1>1, <1>2, <2>1, TakenAlone DEF SeenTaken
<1>4. UNCHANGED <<SeenServed, SeenStatus>>
  BY <1>1 DEF SeenServed, SeenStatus
<1>5. \/ SeenTaken' = <<>> /\ UNCHANGED inbox
      \/ inbox # <<>> /\ SeenTaken' = <<Head(inbox)>> /\ inbox' = Tail(inbox)
  BY <1>1, <1>2, StartReceiveTakes
<1>6. CASE SeenTaken' = <<>> /\ UNCHANGED inbox
  BY <1>3, <1>4, <1>6, ServiceStutters
<1>7. CASE inbox # <<>> /\ SeenTaken' = <<Head(inbox)>> /\ inbox' = Tail(inbox)
  <2>1. Service!Take
    BY <1>1, <1>3, <1>4, <1>7, SeenRunning, ServiceSteps
  <2> QED BY <2>1 DEF Service!Next
<1> QED BY <1>5, <1>6, <1>7

(* The completion of a receive serves what it brought and takes the next;  *)
(* one that failed only takes the next; an exception ends the service.     *)
LEMMA ReceivedStep ==
    ASSUME TypeInv, TypeInv', ReceiverInv, EndpointMatches, RunReceived
    PROVE  [Service!Next]_(Service!vars)
<1>1. /\ ready # <<>> /\ Head(ready).kind = "received" /\ loop = "running"
      /\ Head(ready) \in Handlers /\ Head(ready) \in ReceiveHandlers
      /\ UNCHANGED open
  BY HeadTailType, HandlerKinds DEF RunReceived
<1>2. PICK q \in Seq(Handlers) :
         /\ NoReceive(q)
         /\ \/ loop' = "escaped" /\ ready' = q /\ UNCHANGED recvVars
            \/ loop' = loop /\ StartReceive(q)
  BY ReceivedQueue
<1>3. \/ /\ loop' = "escaped" /\ SeenStatus' = "ended"
         /\ SeenTaken' = <<>> /\ UNCHANGED inbox
      \/ /\ UNCHANGED SeenStatus
         /\ \/ SeenTaken' = <<>> /\ UNCHANGED inbox
            \/ inbox # <<>> /\ SeenTaken' = <<Head(inbox)>> /\ inbox' = Tail(inbox)
  <2>1. CASE loop' = "escaped" /\ ready' = q /\ UNCHANGED recvVars
    <3>1. Received("ok") \notin Elements(q)
      BY <1>2, NoReceiveIff, TakenHandler DEF Elements
    <3>2. SeenTaken' = <<>>
      BY <2>1, <3>1, TakenIs DEF SeenTaken
    <3> QED BY <2>1, <3>2 DEF SeenStatus, recvVars
  <2>2. CASE loop' = loop /\ StartReceive(q)
    BY <1>1, <1>2, <2>2, StartReceiveTakes DEF SeenStatus
  <2> QED BY <1>2, <2>1, <2>2
<1>4. SeenStatus # "ended"
  BY <1>1, SeenRunning
<1>5. CASE Head(ready).ec # "ok"
  <2>1. SeenTaken = <<>>
    BY <1>1, <1>5, TakenHandler, TakenAlone DEF SeenTaken
  <2>2. handled' = handled
    BY <1>5 DEF RunReceived
  <2>3. UNCHANGED SeenServed
    BY <2>2 DEF SeenServed
  <2>4. \/ UNCHANGED <<inbox, SeenTaken, SeenServed, SeenStatus>>
        \/ Service!End
        \/ Service!Take
    BY <1>3, <1>4, <2>1, <2>3, ServiceSteps
  <2> QED BY <2>4, ServiceStutters DEF Service!Next
<1>6. CASE Head(ready).ec = "ok"
  <2>1. Head(ready) = Received("ok")
    BY <1>1, <1>6 DEF ReceiveHandlers, OrderReceive, Received
  <2>2. SeenTaken = <<recvBuffer>>
    BY <1>1, <2>1, TakenAlone DEF SeenTaken
  <2>3. recvBuffer \in Datagrams /\ remoteEndpoint = recvBuffer.from
    BY <1>1, <1>6, HeadTailType DEF EndpointMatches
  <2>4. PICK calledBack :
          handled' = Append(handled, [datagram |-> recvBuffer, source |-> remoteEndpoint,
                                      calls |-> calledBack])
    BY <1>6 DEF RunReceived
  <2>5. SeenServed' = Append(SeenServed, [datagram |-> recvBuffer,
                                          source |-> remoteEndpoint])
    <3> DEFINE e == [datagram |-> recvBuffer, source |-> remoteEndpoint,
                     calls |-> calledBack]
    <3>1. PICK f : f = e
      OBVIOUS
    <3>2. f.datagram = recvBuffer /\ f.source = remoteEndpoint /\ handled' = Append(handled, f)
      BY <2>4, <3>1
    <3> QED BY <3>2, ServedAppended
  <2>6. Head(SeenTaken) = recvBuffer /\ SeenTaken # <<>>
    BY <2>2
  <2>7. SeenServed' = Append(SeenServed, [datagram |-> Head(SeenTaken),
                                          source |-> Head(SeenTaken).from])
    BY <2>3, <2>5, <2>6
  <2>8. Service!Serve
    BY <1>3, <1>4, <2>6, <2>7, ServiceSteps
  <2> QED BY <2>8 DEF Service!Next
<1> QED BY <1>5, <1>6

LEMMA InitService == Init => Service!Init
<1> SUFFICES ASSUME Init PROVE Service!Init
  OBVIOUS
<1>1. ~Taken
  <2>1. \A i \in DOMAIN ready : ready[i] = OrderReceive
    BY DEF Init, InitialHandlers
  <2> QED BY <2>1, TakenHandler DEF Taken, IsTaken
<1>2. SeenServed = <<>>
  <2>1. handled = <<>> /\ DOMAIN handled = {}
    BY DEF Init
  <2> QED BY <2>1 DEF SeenServed
<1> QED BY <1>1, <1>2, ServiceSteps DEF Init, SeenTaken, SeenStatus

LEMMA StepService ==
    ASSUME TypeInv, ReceiverInv, EndpointMatches, [Next]_vars
    PROVE  [Service!Next]_(Service!vars)
<1>0. TypeInv'
  BY StepType
<1>1. CASE AsyncSend \/ RunSend \/ RunSent \/ ReactorSend
  BY <1>0, <1>1, SendSteps
<1>2. CASE Arrive \/ ReactorReceiveError \/ Drain \/ UNCHANGED vars
  BY <1>0, <1>2, KernelSteps
<1>3. CASE ReactorReceive
  BY <1>0, <1>3, ReactorReceiveStep DEF Service!Next
<1>4. CASE Close
  BY <1>0, <1>4, CloseStep DEF Service!Next
<1>5. CASE RunOrderReceive
  BY <1>0, <1>5, OrderReceiveStep
<1>6. CASE RunReceived
  BY <1>0, <1>6, ReceivedStep
<1> QED BY <1>1, <1>2, <1>3, <1>4, <1>5, <1>6 DEF Next

(* The receive loop is the serial server: it takes datagrams in the order  *)
(* they were kept, one at a time, and hands each over with the address of  *)
(* its own sender, whatever errors, sends and close come in between.       *)
THEOREM ImplementsService == Spec => Service!Spec
<1>1. Spec => [](TypeInv /\ ReceiverInv /\ EndpointMatches)
  BY InitType, StepType, InitReceiver, StepReceiver, InitMatches, StepMatches, PTL DEF Spec
<1>2. TypeInv /\ ReceiverInv /\ EndpointMatches /\ [Next]_vars => [Service!Next]_(Service!vars)
  BY StepService
<1> QED BY <1>1, <1>2, InitService, PTL DEF Spec, Service!Spec

=============================================================================
