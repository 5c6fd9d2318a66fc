-------------------------------- MODULE Wire --------------------------------
(***************************************************************************)
(* The bytes of one connection of comet, over TCP or a websocket: the      *)
(* reader goroutine takes requests from a buffered reader, the dispatcher  *)
(* writes replies and pushed messages to a buffered writer                 *)
(* (internal/comet/server_tcp.go, server_websocket.go, with                *)
(* api/protocol/protocol.go, pkg/websocket and pkg/bufio).                 *)
(*                                                                         *)
(* A body is never copied on its way in: it is a slice of the read buffer, *)
(* and a reply to a change of rooms or operations carries it back, written *)
(* by the dispatcher while the reader may read on.                         *)
(*                                                                         *)
(* Buckets, heartbeats and timeouts are the subject of Session; here the   *)
(* socket closes at any time.                                              *)
(***************************************************************************)
EXTENDS Reader, Writer, Layout
LOCAL INSTANCE FiniteSets

CONSTANTS
    Scripts,    \* what clients do
    Num,        \* slots of ch.CliProto
    SvrProto,   \* capacity of ch.signal
    MaxPack,    \* _maxPackSize
    MaxRead,    \* continuationFrameMaxRead
    Status, Accept  \* cells of the two strings Upgrade answers with

ASSUME WireAssumption ==
    /\ Num \in Nat \ {0}
    /\ SvrProto \in Nat \ {0}
    /\ MaxPack \in Nat
    /\ MaxRead \in Nat
    /\ H \in Nat \ {0} /\ H + 1 <= WSize /\ H <= Size /\ 2 <= Size
    /\ Status \in Nat /\ Accept \in Nat

\* A buffer can hold what is sent, under a masking key or not.
ASSUME ScriptAssumption ==
    /\ Scripts \subseteq ScriptType
    /\ \A s \in Scripts :
        /\ StreamOf(s) \in Seq(Cells)
        /\ \A j \in DOMAIN s.frames : s.frames[j].packet \in 0..Len(s.packets)
    /\ Cells \subseteq [t : Kinds, k : Nat, i : Nat, x : Int]
    /\ \A c \in Cells : {[c EXCEPT !.x = 0], [c EXCEPT !.x = -1]} \subseteq Cells

VARIABLES
    script,             \* what this client does
    ended, impatient,   \* it sent FIN; it did something with a reply outstanding
    open,               \* the socket is
    pc, why,            \* where the reader goroutine is; why it gave up
    authed, got,        \* the handshake is over; packets read
    lines, line,        \* lines read; the parts of this one
    frame, key, part,   \* the frame being read, c.maskKey, its payload
    msg, frames,        \* ReadMessage: payload and n
    proto,              \* the slot being filled
    slots,              \* the slots between rp and wp
    signal, pushed,     \* ch.signal; messages pushed
    wr,                 \* ch.Writer
    lent,               \* wb is out of its pool
    dpc, item,          \* where the dispatcher is; what it writes
    torn                \* a pong and an item of the dispatcher overlapped

client == <<script, ended, impatient>>
request == <<lines, line>>
message == <<frame, key, part, msg, frames>>
reading == <<request, message, proto, got>>
writing == <<wr, lent, item, torn>>
dispatch == <<dpc, writing>>
channel == <<slots, signal, pushed>>
control == <<open, pc, why, authed>>
vars == <<readerVars, client, control, reading, channel, dispatch>>

-----------------------------------------------------------------------------
(* Bodies: slices of the read buffer, or memory of their own *)

Own(cells) == [own |-> TRUE, from |-> 0, n |-> Len(cells), cells |-> cells]
Part(from, n) == [own |-> FALSE, from |-> from, n |-> n, cells |-> <<>>]
Nil == Own(<<>>)

\* What is there when it is looked at.
Contents(b) == IF b.own THEN b.cells ELSE Chars(b.from, b.from + b.n)

\* Fault: the header is taken for a part of the body.
FromStart(b, f, n) == IF b.own THEN Own(First(b.cells, n)) ELSE Part(b.from, n)

\* The slice of n cells behind the first f.  It may go past b: to the end of the
\* buffer, or of the memory append took, as far as that goes.
From(b, f, n) ==
    IF b.own THEN Own([i \in 1..n |-> IF f + i <= b.n THEN b.cells[f + i] ELSE Junk])
    ELSE Part(b.from + f, n)

Reaches(b, n) == n <= b.n \/ (~b.own /\ b.from + n <= Size)
MayReach(b, n) == b.own \/ Reaches(b, n)

NoItem == [of |-> "none", k |-> 0, heart |-> FALSE, body |-> Nil]
Reply(p) == [of |-> "reply", k |-> p.k, heart |-> p.op = "beat", body |-> p.body]
Push(k) ==
    [of |-> "push", k |-> k, heart |-> FALSE,
     body |-> Own(Seqn(script.pushes[k], LAMBDA i : Cell("push", k, i, 0)))]

Init ==
    /\ script \in Scripts
    /\ stream = StreamOf(script)
    /\ sent = 0
    /\ ReaderInit
    /\ ended = FALSE
    /\ impatient = FALSE
    /\ open = TRUE
    /\ pc = IF script.ws THEN "line" ELSE "set"
    /\ why = "none"
    /\ authed = FALSE
    /\ got = 0
    /\ lines = 0
    /\ line = <<>>
    /\ frame = 0
    /\ key = Nil
    /\ part = Nil
    /\ msg = <<>>
    /\ frames = 0
    /\ proto = [k |-> 0, op |-> "none", body |-> Nil]
    /\ slots = <<>>
    /\ signal = <<>>
    /\ pushed = 0
    /\ wr = NewWriter
    /\ lent = TRUE
    /\ dpc = "none"
    /\ item = NoItem
    /\ torn = FALSE

-----------------------------------------------------------------------------
(* The client and the network *)

\* The packets that get a reply: those from the first that authenticates on.
Answered(k) == \E j \in 1..k : script.packets[j].op = "auth"

\* The last cell of the reply to packet k.
LastOf(k, o) == o.of = "reply" /\ o.k = k /\ o.i = o.n

\* A packet is sent, and its reply did not arrive in full.
Outstanding ==
    \E k \in 1..Len(script.packets) :
        /\ Answered(k)
        /\ \E e \in 1..sent : [stream[e] EXCEPT !.x = 0] = LastCell(script, k)
        /\ \A j \in 1..Len(wr.to) : ~LastOf(k, wr.to[j])

Send ==
    /\ ~ended /\ open
    /\ sent < Len(stream)
    /\ \E e \in Ends(script) :
        /\ e > sent
        /\ \A d \in Ends(script) : d > sent => d >= e
        /\ sent' = e
    /\ impatient' = (impatient \/ Outstanding)
    /\ UNCHANGED <<stream, windowVars, buf, held, script, ended, control, reading,
                   channel, dispatch>>

Finish ==
    /\ ~ended /\ open
    /\ ended' = TRUE
    /\ impatient' = (impatient \/ Outstanding)
    /\ UNCHANGED <<readerVars, script, control, reading, channel, dispatch>>

\* A timeout, a reset, a client that is gone.
Close ==
    /\ open
    /\ open' = FALSE
    /\ UNCHANGED <<readerVars, client, pc, why, authed, reading, channel, dispatch>>

\* PushMsg and the broadcasts; a full channel drops the message.
PushTo ==
    /\ authed
    /\ pushed < Len(script.pushes)
    /\ pushed' = pushed + 1
    /\ signal' = IF Len(signal) < SvrProto THEN Append(signal, [of |-> "push", k |-> pushed + 1])
                 ELSE signal
    /\ UNCHANGED <<readerVars, client, control, reading, slots, dispatch>>

\* Get of the pool, by another connection.
Lend ==
    /\ Reuse
    /\ UNCHANGED <<client, control, reading, channel, dispatch>>

-----------------------------------------------------------------------------
(* Steps of the reader goroutine *)

Goto(p) == pc' = p /\ UNCHANGED <<open, why, authed>>

\* The order the reader goroutine ends in.
Exit ==
    IF ~authed THEN <<"close", "putrb", "gone">>
    ELSE IF script.ws THEN <<"close", "finish", "putrb", "gone">>
    ELSE <<"putrb", "close", "finish", "gone">>

Fail(reason) == pc' = Exit[1] /\ why' = reason /\ UNCHANGED <<open, authed>>

\* The process ends.
Panic == pc' = "panic" /\ open' = FALSE /\ UNCHANGED <<why, authed>>

\* One look at the socket.
Receive ==
    /\ \/ open /\ Fill(FALSE)
       \/ (~open \/ (ended /\ next = sent)) /\ Fill(TRUE) /\ next' = next
    /\ UNCHANGED <<client, control, reading, channel, dispatch>>

\* What Pop does before it returns n cells, and when it returns an error.
Popping(n) ==
    \/ PeekFills(n) /\ Receive
    \/ /\ PopFails(n)
       /\ Fail(IF Fits(n) THEN "read" ELSE "full")
       /\ UNCHANGED <<client, reading, channel, dispatch>>

Elsewhere == UNCHANGED <<client, channel, dispatch>>

\* Fault: the slot of the oldest reply is taken.
HasSlotAny == Len(slots) <= Num

HasSlot == Len(slots) < Num

SetProto ==
    /\ pc = "set"
    /\ IF HasSlot
       THEN Goto(IF script.ws THEN "first" ELSE "head")
       ELSE Fail("ring")
    /\ UNCHANGED <<readerVars, reading>>
    /\ Elsewhere

\* The fields of a header; what is none reads as lengths that are refused.
Header(cells) ==
    IF cells[1].t = "head" /\ cells = First(Packet(script, cells[1].k), H)
    THEN LET k == cells[1].k
         IN  [k |-> k, op |-> script.packets[k].op, pack |-> script.packets[k].pack,
              head |-> script.packets[k].head]
    ELSE [k |-> 0, op |-> "none", pack |-> MaxPack + 1, head |-> 0]

TooLarge(h) == h.pack > MaxPack

\* ReadTCP, up to the body.
TakeHead ==
    /\ pc = "head"
    /\ \/ Popping(H)
       \/ /\ Pop(H)
          /\ LET h == Header(Chars(r, r + H))
             IN  /\ CASE TooLarge(h) -> Fail("pack")
                      [] ~TooLarge(h) /\ h.head # H -> Fail("head")
                      [] OTHER -> Goto(IF h.pack > H THEN "body" ELSE "operate")
                 /\ proto' = [k |-> h.k, op |-> h.op, body |-> Nil]
          /\ got' = got + 1
          /\ UNCHANGED <<request, message>>
          /\ Elsewhere

TakeBody ==
    /\ pc = "body"
    /\ LET n == script.packets[proto.k].pack - H
       IN  \/ Popping(n)
           \/ /\ Pop(n)
              /\ proto' = [proto EXCEPT !.body = Part(r, n)]
              /\ Goto("operate")
              /\ UNCHANGED <<request, message, got>>
              /\ Elsewhere

-----------------------------------------------------------------------------
(* What is written: a frame's head over a websocket, a header, a body *)

HeadOf(it) ==
    CASE it.of = "pong" \/ (it.of = "push" /\ ~script.ws) -> 0
      [] it.heart -> H + 1
      [] OTHER -> H

Length(it) == HeadOf(it) + it.body.n

FramedBy(it) == IF script.ws THEN FrameHead(Length(it)) ELSE 0

\* Cells f+1 to f+n of an item, which are written together.
Slice(it, f, n, cell(_)) ==
    Seqn(n, LAMBDA i : Out(it.of, it.k, f + i, FramedBy(it) + Length(it), cell(i)))

Fields(it, f, n) == Slice(it, f, n, LAMBDA i : Clear)

WriteHeader(it) ==
    UNION {Peeked(s, Fields(it, 1, Ext(Length(it))), ~open) : s \in Peeked(wr, Fields(it, 0, 1), ~open)}

WriteHead(s, it) == Peeked(s, Fields(it, FramedBy(it), HeadOf(it)), ~open)

BodyOf(it) ==
    Slice(it, FramedBy(it) + HeadOf(it), it.body.n, LAMBDA i : Contents(it.body)[i])

WriteBody(it) == Written(wr, BodyOf(it), ~open)

\* The writes of an item; what is packed already goes to a TCP connection as it is.
WriteTCP(it) ==
    IF HeadOf(it) = 0 THEN <<"raw">> ELSE IF it.body.n > 0 THEN <<"head", "body">> ELSE <<"head">>

WriteWebsocket(it) == IF it.body.n > 0 THEN <<"frame", "head", "body">> ELSE <<"frame", "head">>

Writes(it) == IF script.ws THEN WriteWebsocket(it) ELSE WriteTCP(it)

-----------------------------------------------------------------------------
(* Handshake and operations *)

Kept(op) == op = "echo"

\* authTCP and authWebsocket read until a packet asks for it; Operate clears
\* the body of all that it does not answer itself.
Operate ==
    /\ pc = "operate"
    /\ CASE ~authed /\ proto.op # "auth" ->
               Goto(IF script.ws THEN "first" ELSE "head") /\ UNCHANGED slots
         [] ~authed /\ proto.op = "auth" ->
               /\ IF script.accept THEN Goto("reply") ELSE Fail("refused")
               /\ UNCHANGED slots
         [] authed ->
               /\ slots' = Append(slots, IF Kept(proto.op) THEN proto ELSE [proto EXCEPT !.body = Nil])
               /\ Goto("signal")
    /\ UNCHANGED <<readerVars, client, reading, signal, pushed, dispatch>>

\* The reply to it is written and flushed before there is a dispatcher.
AuthReply ==
    /\ pc = "reply"
    /\ LET it == [Reply(proto) EXCEPT !.body = Nil]
       IN  wr' \in UNION {Flushed(s, ~open) : s \in
                UNION {WriteHead(t, it) : t \in IF script.ws THEN WriteHeader(it) ELSE {wr}}}
    /\ IF wr'.err
       THEN Fail("write") /\ UNCHANGED dpc
       ELSE /\ authed' = TRUE
            /\ pc' = "set"
            /\ dpc' = "wait"
            /\ UNCHANGED <<open, why>>
    /\ UNCHANGED <<readerVars, client, reading, channel, lent, item, torn>>

Signal ==
    /\ pc = "signal"
    /\ Len(signal) < SvrProto
    /\ signal' = Append(signal, [of |-> "ready", k |-> 0])
    /\ Goto("set")
    /\ UNCHANGED <<readerVars, client, reading, slots, pushed, dispatch>>

-----------------------------------------------------------------------------
(* The request of a websocket *)

\* The parts of a line longer than the buffer are put together.
Joined(l) == l \o Line

Blank(c) == c.t = "sp"

Trimmed(l) ==
    LET kept == {i \in 1..Len(l) : ~Blank(l[i])}
    IN  IF kept = {} THEN <<>>
        ELSE SubSeq(l, CHOOSE i \in kept : \A j \in kept : i <= j,
                       CHOOSE i \in kept : \A j \in kept : i >= j)

IsRequestLine(l) == Cardinality({i \in 1..Len(l) : Blank(l[i])}) >= 2

IsField(l) == l[1].t # "colon" /\ \E i \in 1..Len(l) : l[i].t = "colon"

TakeLine ==
    /\ pc = "line"
    /\ \/ LineFills /\ Receive
       \/ LineFails /\ Fail("read") /\ UNCHANGED reading /\ Elsewhere
       \/ /\ ReadLine
          /\ LET l == Joined(line)
                 end == lines > 0 /\ Trimmed(l) = <<>>
             IN  IF More
                 THEN line' = l /\ lines' = lines /\ Goto("line")
                 ELSE /\ line' = <<>>
                      /\ lines' = lines + 1
                      /\ CASE lines = 0 /\ ~IsRequestLine(l) -> Fail("request")
                           [] lines = 0 /\ IsRequestLine(l) -> Goto("line")
                           [] end /\ script.sub -> Goto("upgrade")
                           [] end /\ ~script.sub -> Fail("path")
                           [] lines > 0 /\ ~end ->
                                IF IsField(Trimmed(l)) THEN Goto("line") ELSE Fail("request")
          /\ UNCHANGED <<message, proto, got>>
          /\ Elsewhere

\* The two strings of the response.
Response(n) ==
    LET f == IF n = 1 THEN 0 ELSE Status
    IN  Seqn(IF n = 1 THEN Status ELSE Accept,
             LAMBDA i : Out("upgrade", 0, f + i, Status + Accept, Clear))

Upgrade ==
    /\ pc = "upgrade"
    /\ IF script.upgrade
       THEN /\ wr' \in UNION {Flushed(s, ~open) : s \in
                    UNION {Strung(t, Response(2), ~open) : t \in Strung(wr, Response(1), ~open)}}
            /\ IF wr'.err THEN Fail("write") ELSE Goto("set")
       ELSE Fail("upgrade") /\ UNCHANGED wr
    /\ UNCHANGED <<readerVars, client, reading, channel, lent, dpc, item, torn>>

-----------------------------------------------------------------------------
(* The frames of a message: ReadMessage and readFrame *)

F == script.frames[frame]

Wants(stage) ==
    CASE stage = "ext" -> Ext(F.n) > 0
      [] stage = "key" -> F.masked
      [] stage = "payload" -> F.n > 0
      [] stage = "unmask" -> F.masked /\ F.n > 0
      [] stage = "frame" -> TRUE

Stages == <<"ext", "key", "payload", "unmask", "frame">>

\* The first stage from number i on that this frame has.
Stage(i) ==
    LET wanted == {j \in i..5 : Wants(Stages[j])}
    IN  Stages[CHOOSE j \in wanted : \A k \in wanted : j <= k]

TakeFirst ==
    /\ pc = "first"
    /\ \/ Popping(1)
       \/ /\ ReadByte
          /\ IF buf[r].t = "first" /\ script.frames[buf[r].k].op # "reserved"
             THEN frame' = buf[r].k /\ Goto("second")
             ELSE Fail("bits") /\ UNCHANGED frame
          /\ part' = Nil
          /\ UNCHANGED <<request, key, msg, frames, proto, got>>
          /\ Elsewhere

TakeSecond ==
    /\ pc = "second"
    /\ \/ Popping(1)
       \/ ReadByte /\ Goto(Stage(1)) /\ UNCHANGED reading /\ Elsewhere

TakeExt ==
    /\ pc = "ext"
    /\ \/ Popping(Ext(F.n))
       \/ Pop(Ext(F.n)) /\ Goto(Stage(2)) /\ UNCHANGED reading /\ Elsewhere

\* Fault: the key stays where it was read.
KeyThere(i) == Part(i, 1)

\* The key is copied: reading on moves the buffer.
Key(i) == Own(<<buf[i]>>)

TakeKey ==
    /\ pc = "key"
    /\ \/ Popping(1)
       \/ /\ Pop(1)
          /\ key' = Key(r)
          /\ Goto(Stage(3))
          /\ UNCHANGED <<request, frame, part, msg, frames, proto, got>>
          /\ Elsewhere

TakePayload ==
    /\ pc = "payload"
    /\ \/ Popping(F.n)
       \/ /\ Pop(F.n)
          /\ part' = Part(r, F.n)
          /\ Goto(Stage(4))
          /\ UNCHANGED <<request, frame, key, msg, frames, proto, got>>
          /\ Elsewhere

\* XOR with the key, in place: the wrong key makes another cell of it.
Unmasked(c) == [c EXCEPT !.x = IF Contents(key)[1] = Cell("key", c.x, 1, 0) THEN 0 ELSE -1]

Unmask ==
    /\ pc = "unmask"
    /\ Scribble(part.from, part.n, [i \in 0..Size-1 |-> Unmasked(buf[i])])
    /\ Goto("frame")
    /\ UNCHANGED reading
    /\ Elsewhere

Payload == msg \o Contents(part)

\* A message in one frame is not copied, the others are put together.
HandleFrame ==
    /\ pc = "frame"
    /\ CASE F.op \in {"data", "cont"} /\ F.fin ->
              /\ part' = IF msg = <<>> THEN part ELSE Own(Payload)
              /\ msg' = <<>>
              /\ Goto("message")
         [] F.op \in {"data", "cont"} /\ ~F.fin ->
              msg' = Payload /\ Goto("count") /\ UNCHANGED part
         [] F.op = "ping" -> Goto("pong") /\ UNCHANGED <<part, msg>>
         [] F.op = "pong" -> Goto("count") /\ UNCHANGED <<part, msg>>
         [] F.op = "close" -> Fail("closed") /\ UNCHANGED <<part, msg>>
         [] OTHER -> Fail("control") /\ UNCHANGED <<part, msg>>
    /\ frames' = IF pc' = "message" THEN 0 ELSE frames
    /\ UNCHANGED <<readerVars, request, frame, key, proto, got>>
    /\ Elsewhere

\* Control frames count as well.
CountFrame ==
    /\ pc = "count"
    /\ IF frames > MaxRead
       THEN Fail("max") /\ UNCHANGED frames
       ELSE Goto("first") /\ frames' = frames + 1
    /\ UNCHANGED <<readerVars, request, frame, key, part, msg, proto, got>>
    /\ Elsewhere

Pong == [of |-> "pong", k |-> frame, heart |-> FALSE, body |-> part]

\* The dispatcher is between two writes of an item.
Midway == dpc \in {"head", "body"}

\* The answer to a ping is written by the reader goroutine, and not flushed.
WritePong ==
    /\ \/ /\ pc = "pong"
          /\ wr' \in WriteHeader(Pong)
          /\ IF wr'.err THEN Fail("write") ELSE Goto(IF part.n > 0 THEN "pongbody" ELSE "count")
       \/ /\ pc = "pongbody"
          /\ wr' \in Written(wr, BodyOf(Pong), ~open)
          /\ IF wr'.err THEN Fail("write") ELSE Goto("count")
    /\ torn' = (torn \/ Midway)
    /\ UNCHANGED <<readerVars, client, reading, channel, lent, dpc, item>>

\* ReadWebsocket, with the message.
TakeMessage ==
    /\ pc = "message"
    /\ IF part.n < H
       THEN Fail("pack") /\ UNCHANGED proto
       ELSE LET h == Header(First(Contents(part), H))
            IN  /\ CASE h.pack < 0 \/ TooLarge(h) -> Fail("pack")
                     [] h.pack \in 0..MaxPack /\ h.head # H -> Fail("head")
                     [] OTHER -> \/ (h.pack > H => MayReach(part, h.pack)) /\ Goto("operate")
                                 \/ h.pack > H /\ ~Reaches(part, h.pack) /\ Panic
                /\ proto' = [k |-> h.k, op |-> h.op,
                             body |-> IF pc' = "operate" /\ h.pack > H THEN From(part, H, h.pack - H)
                                     ELSE Nil]
    /\ got' = got + 1
    /\ UNCHANGED <<readerVars, request, message>>
    /\ Elsewhere

-----------------------------------------------------------------------------
(* The end of the reader goroutine *)

\* What follows a step of the exit.
Following(p) == Exit[1 + CHOOSE i \in 1..Len(Exit) : Exit[i] = p]

Leave ==
    /\ \/ /\ pc = "close"
          /\ open' = FALSE
          /\ UNCHANGED <<held, signal, lent>>
       \/ /\ pc = "putrb"
          /\ held' = FALSE
          /\ lent' = (lent /\ authed)
          /\ UNCHANGED <<open, signal>>
       \/ /\ pc = "finish"
          /\ Len(signal) < SvrProto
          /\ signal' = Append(signal, [of |-> "finish", k |-> 0])
          /\ UNCHANGED <<open, held, lent>>
    /\ pc' = Following(pc)
    /\ UNCHANGED <<stream, sent, windowVars, buf, client, why, authed, reading,
                   slots, pushed, wr, dpc, item, torn>>

-----------------------------------------------------------------------------
(* Steps of the dispatcher *)

DGoto(p) == dpc' = p

\* Between the writes of an item a pong may come.
Overlaps == torn' = (torn \/ pc = "pongbody")

Begin(it) == item' = it /\ DGoto(Head(Writes(it)))

Wait ==
    /\ dpc = "wait"
    /\ signal # <<>>
    /\ signal' = Tail(signal)
    /\ CASE Head(signal).of = "ready" -> DGoto("get") /\ UNCHANGED item
         [] Head(signal).of = "finish" -> DGoto("exit") /\ UNCHANGED item
         [] Head(signal).of = "push" -> Begin(Push(Head(signal).k))
    /\ UNCHANGED <<readerVars, client, control, reading, slots, pushed, wr, lent, torn>>

Get ==
    /\ dpc = "get"
    /\ IF slots = <<>> THEN DGoto("flush") /\ UNCHANGED item ELSE Begin(Reply(Head(slots)))
    /\ UNCHANGED <<readerVars, client, control, reading, channel, wr, lent, torn>>

\* An item is written: a slot is freed, a pushed message flushed.
Done ==
    /\ DGoto(IF item.of = "reply" THEN "get" ELSE "flush")
    /\ slots' = IF item.of = "reply" THEN Tail(slots) ELSE slots

\* The next of the writes an item takes.
Write ==
    /\ \/ dpc = "frame" /\ wr' \in WriteHeader(item)
       \/ dpc = "head" /\ wr' \in WriteHead(wr, item)
       \/ dpc = "body" /\ wr' \in WriteBody(item)
       \/ dpc = "raw" /\ wr' \in WrittenRaw(wr, BodyOf(item), ~open)
    /\ LET writes == Writes(item)
           i == CHOOSE j \in DOMAIN writes : writes[j] = dpc
       IN  CASE wr'.err -> DGoto("shut") /\ UNCHANGED slots
             [] ~wr'.err /\ i < Len(writes) -> DGoto(writes[i + 1]) /\ UNCHANGED slots
             [] OTHER -> Done
    /\ Overlaps
    /\ UNCHANGED <<readerVars, client, control, reading, signal, pushed, lent, item>>

Flush ==
    /\ dpc = "flush"
    /\ wr' \in Flushed(wr, ~open)
    /\ DGoto(IF wr'.err THEN "shut" ELSE "wait")
    /\ item' = NoItem
    /\ UNCHANGED <<readerVars, client, control, reading, channel, lent, torn>>

\* The socket is closed, the buffer put back; without a finish more signals are taken.
Shut ==
    /\ dpc \in {"shut", "exit"}
    /\ open' = FALSE
    /\ lent' = FALSE
    /\ DGoto(IF dpc = "exit" THEN "gone" ELSE "drain")
    /\ UNCHANGED <<readerVars, client, pc, why, authed, reading, channel, wr, item, torn>>

Drain ==
    /\ dpc = "drain"
    /\ signal # <<>>
    /\ signal' = Tail(signal)
    /\ DGoto(IF Head(signal).of = "finish" THEN "gone" ELSE "drain")
    /\ UNCHANGED <<readerVars, client, control, reading, slots, pushed, writing>>

Environment == Send \/ Finish \/ Close \/ PushTo \/ Lend

ReadLoop ==
    \/ SetProto \/ TakeHead \/ TakeBody \/ Operate \/ AuthReply \/ Signal
    \/ TakeLine \/ Upgrade
    \/ TakeFirst \/ TakeSecond \/ TakeExt \/ TakeKey \/ TakePayload \/ Unmask
    \/ HandleFrame \/ CountFrame \/ WritePong \/ TakeMessage
    \/ Leave

Dispatcher == Wait \/ Get \/ Write \/ Flush \/ Shut \/ Drain

Next == pc # "panic" /\ (Environment \/ ReadLoop \/ Dispatcher)

Spec == Init /\ [][Next]_vars

-----------------------------------------------------------------------------

Bodies == [own : BOOLEAN, from : Int, n : Nat, cells : Seq(Cells)]
Slots == [k : Nat, op : Ops \cup {"none"}, body : Bodies]

TypeOK ==
    /\ ReaderTypeOK
    /\ why \in {"none", "ring", "read", "full", "pack", "head", "refused", "request", "path",
               "upgrade", "bits", "closed", "control", "max", "write"}
    /\ {open, ended, impatient, authed, lent, torn} \subseteq BOOLEAN
    /\ proto \in Slots
    /\ slots \in Seq(Slots) /\ Len(slots) <= Num
    /\ Len(signal) <= SvrProto
    /\ Len(wr.buf) <= WSize
    /\ dpc \in {"none", "wait", "get", "frame", "head", "body", "raw", "flush", "shut",
               "exit", "drain", "gone"}

\* The length a packet says is the one it has.
Announces(s, k) == s.packets[k].pack = H + s.packets[k].body

\* The frames of a message, and those before frame j.
Carries(s, j) == s.frames[j].op \in {"data", "cont"}
Before(s, j) == {i \in 1..j-1 : Carries(s, i)}

\* Frame j begins the first packet, or goes on where frame i left off.
Begins(s, j) == s.frames[j].packet = 1 /\ s.frames[j].from = 0
GoesOn(s, i, j) ==
    IF s.frames[i].fin
    THEN s.frames[j].packet = s.frames[i].packet + 1 /\ s.frames[j].from = 0
    ELSE /\ s.frames[j].packet = s.frames[i].packet
         /\ s.frames[j].from = s.frames[i].from + s.frames[i].n

\* So far a client keeps to the protocol: a message is a packet, cut into frames
\* in order; over TCP a packet is as long as it says, or the next is not found.
InStep(s, k, f) ==
    IF s.ws
    THEN \A j \in 1..f : Carries(s, j) =>
            /\ \/ Before(s, j) = {} /\ Begins(s, j)
               \/ \E i \in Before(s, j) : (\A h \in Before(s, j) : h <= i) /\ GoesOn(s, i, j)
            /\ s.frames[j].fin => s.frames[j].from + s.frames[j].n
                                    = H + s.packets[s.frames[j].packet].body
    ELSE \A j \in 1..k : Announces(s, j)

\* A packet that reaches its handler is the next one the client sent, with its
\* body whole and in order, however the stream was cut into reads and frames.
ReadsWhole ==
    pc = "operate" /\ InStep(script, got, frame) =>
        /\ proto.k = got
        /\ Announces(script, got) => Contents(proto.body) = Body(script, got)

\* A request as Upgrade wants it: every line has one line feed, at its end, and
\* the last has nothing else than blanks and a carriage return.
GoodRequest(s) ==
    /\ s.sub /\ s.upgrade
    /\ Len(s.lines) > 1
    /\ \A k \in 1..Len(s.lines) :
        /\ s.lines[k] # <<>>
        /\ \A i \in 1..Len(s.lines[k]) : s.lines[k][i] = "lf" <=> i = Len(s.lines[k])
    /\ IsRequestLine(RequestLine(s, 1))
    /\ \A k \in 2..Len(s.lines)-1 : IsField(Trimmed(RequestLine(s, k)))
    /\ LET last == s.lines[Len(s.lines)]
       IN  \A i \in 1..Len(last)-1 : last[i] = "sp" \/ (last[i] = "cr" /\ i = Len(last) - 1)

\* No more than so many frames in a row that end no message.
Ending(f) == f.op \in {"data", "cont"} /\ f.fin
ShortMessages(s) ==
    \A i, j \in 1..Len(s.frames) :
        i <= j /\ (\A m \in i..j : ~Ending(s.frames[m])) => j - i <= MaxRead

GoodPackets(s) ==
    \A k \in 1..Len(s.packets) :
        /\ Announces(s, k) /\ s.packets[k].pack <= MaxPack
        /\ s.packets[k].head = H
        /\ ~s.ws => s.packets[k].body <= Size

WellBehaved(s) ==
    /\ s.accept
    /\ GoodPackets(s)
    /\ InStep(s, Len(s.packets), Len(s.frames))
    /\ s.ws => /\ GoodRequest(s)
               /\ ShortMessages(s)
               /\ \A j \in 1..Len(s.frames) :
                    /\ s.frames[j].op \in {"data", "cont", "ping", "pong", "close"}
                    /\ s.frames[j].n <= Size

\* A client that keeps to the protocol and waits for its replies is never
\* turned away while its socket is open: no size at its limit is refused, the
\* ring has a slot for it.
WellBehavedIsServed ==
    WellBehaved(script) /\ ~impatient /\ open => why \in {"none", "read", "closed", "write"}

\* Two cells in a row, of one item or of two.
Follows(a, b) ==
    \/ a.i = a.n /\ b.i = 1
    \/ a.i < a.n /\ b = [a EXCEPT !.i = @ + 1, !.c = b.c]

\* What the client gets are whole items, each as long as its head says, whatever
\* the sizes of the writes, unless a pong came in between (conn.go:156).
FramesWhole ==
    LET s == IF wr.err THEN wr.to ELSE wr.to \o wr.buf
    IN  ~torn /\ s # <<>> =>
            /\ s[1].i = 1
            /\ \A j \in 1..Len(s)-1 : Follows(s[j], s[j + 1])

\* A reply carries the body of the request it answers, although the body still
\* lies in the buffer the reader goes on to use: as long as the client waits.
EchoIntact ==
    ~impatient /\ InStep(script, got, frame) =>
        \A j \in 1..Len(wr.to) :
            wr.to[j].of = "reply" /\ wr.to[j].c # Clear /\ Announces(script, wr.to[j].k) =>
                LET n == script.packets[wr.to[j].k].body
                IN  wr.to[j].c = Cell("body", wr.to[j].k, wr.to[j].i - (wr.to[j].n - n), 0)

\* Nothing is put into the write buffer once the pool may have lent it again.
ReturnedIsUntouched == [][~lent => UNCHANGED wr]_vars
=============================================================================
