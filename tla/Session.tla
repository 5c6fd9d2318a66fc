------------------------------ MODULE Session ------------------------------
(***************************************************************************)
(* One connection of the comet server (ServeTCP and dispatchTCP of         *)
(* internal/comet/server_tcp.go, their websocket twins, channel.go,        *)
(* ring.go).  Two goroutines share the channel: the reader takes requests  *)
(* from the socket into the ring and signals, the dispatcher waits for     *)
(* signals and writes replies and pushed messages to the socket.  Around   *)
(* them run the round timer, the goroutines that push messages, and two    *)
(* that close this channel while they hold a lock: a second login with the *)
(* same key, from inside Bucket.Put, and the removal of a room that still  *)
(* has this channel in its list, from inside Room.Close.                   *)
(***************************************************************************)
EXTENDS Integers, Sequences

CONSTANTS
    Num,        \* slots of the ring: CliProto rounded up to a power of two
    SvrProto,   \* capacity of the signal channel
    MaxReq,     \* bound: requests of the client after the handshake
    MaxPush     \* bound: messages pushed to the channel

ASSUME SessionAssumption ==
    /\ Num \in Nat \ {0}
    /\ SvrProto \in Nat \ {0}
    /\ MaxReq \in Nat
    /\ MaxPush \in Nat

VARIABLES
    transport,  \* which pair of functions serves the connection
    conn,       \* the socket: open, broken by the peer, or closed by the server
    timer,      \* trd is in the timer heap
    rb,         \* rb is still out of the reader pool
    reader,     \* where the reader goroutine is
    dispatcher, \* where the dispatcher goroutine is
    finish,     \* its local of that name
    dirty,      \* bytes wait in ch.Writer
    slots, rp, wp,              \* ch.CliProto
    signal,                     \* ch.signal
    room, listed,               \* ch.Room # nil; ch is in the list of a room
    registered, refused,        \* chs[key] = ch; Bucket.Put returned ErrRoomDroped
    takeover,                   \* the second login: idle, send (holding cLock), done
    evict,                      \* Room.Close: idle, send (holding rLock), done
    pushes, key                 \* messages pushed; PushMsg holds the channel

ring == <<slots, rp, wp>>
buckets == <<listed, registered, refused>>
pusher == <<pushes, key>>
closers == <<takeover, evict>>
vars == <<transport, conn, timer, rb, reader, dispatcher, finish, dirty, ring,
          signal, room, buckets, closers, pusher>>

\* Requests as the client sends them, and what the reader makes of them.
Ops == {"heart", "join", "leave", "other"}
ReplyOps == {"heartReply", "reply"}
Handshake == {"auth", "reply", "put", "start", "fail"}
Loop == {"set", "read", "operate", "adv", "signal"}
Exit == {"del", "unlist", "deltimer", "putrb", "closeconn", "finish", "disconnect"}
Replying == {"get", "look", "deref", "write", "advance"}

Init ==
    /\ transport \in {"tcp", "ws"}
    /\ conn = "open"
    /\ timer = TRUE
    /\ rb = TRUE
    /\ reader = "auth"
    /\ dispatcher = "none"
    /\ finish = FALSE
    /\ dirty = FALSE
    /\ slots = [i \in 0..Num-1 |-> [n |-> -1, op |-> "reply"]]
    /\ rp = 0
    /\ wp = 0
    /\ signal = <<>>
    /\ room = FALSE
    /\ listed = FALSE
    /\ registered = FALSE
    /\ refused = FALSE
    /\ takeover = "idle"
    /\ evict = "idle"
    /\ pushes = 0
    /\ key = FALSE

\* A nil dereference in any goroutine ends the process.
Crashed == dispatcher = "panic"

\* "case c.signal <- p": the send that Push drops and Signal and Close wait for.
HasSpace == Len(signal) < SvrProto
Send(x) == HasSpace /\ signal' = Append(signal, x)

Goto(s) == reader' = s
DGoto(s) == dispatcher' = s

-----------------------------------------------------------------------------
(* The reader: handshake *)

\* authTCP up to the answer of Connect.  Reading fails when the socket does;
\* the client can send garbage and logic can refuse the token.
Auth ==
    /\ reader = "auth"
    /\ Goto("reply") \/ Goto("fail")
    /\ UNCHANGED <<transport, conn, timer, rb, dispatcher, finish, dirty, ring,
                   signal, room, buckets, closers, pusher>>

\* The auth reply, written and flushed.
AuthReply ==
    /\ reader = "reply"
    /\ \/ conn # "closed" /\ Goto("put")
       \/ conn # "open" /\ Goto("fail")
    /\ UNCHANGED <<transport, conn, timer, rb, dispatcher, finish, dirty, ring,
                   signal, room, buckets, closers, pusher>>

\* Bucket.Put, without a room, with one, or refused by a dropped one.
Put ==
    /\ reader = "put"
    /\ registered' = TRUE
    /\ \/ Goto("start") /\ UNCHANGED <<room, listed, refused>>
       \/ Goto("start") /\ room' = TRUE /\ listed' = TRUE /\ UNCHANGED refused
       \/ Goto("fail") /\ room' = TRUE /\ refused' = TRUE /\ UNCHANGED listed
    /\ UNCHANGED <<transport, conn, timer, rb, dispatcher, finish, dirty, ring,
                   signal, closers, pusher>>

\* "if err != nil" after the handshake: everything but the bucket is undone.
Fail ==
    /\ reader = "fail"
    /\ conn' = "closed"
    /\ rb' = FALSE
    /\ timer' = FALSE
    /\ Goto("ended")
    /\ UNCHANGED <<transport, dispatcher, finish, dirty, ring, signal, room,
                   buckets, closers, pusher>>

\* tr.Set(trd, hb) and "go s.dispatchTCP".
StartDispatcher ==
    /\ reader = "start"
    /\ timer' = TRUE
    /\ DGoto("wait")
    /\ Goto("set")
    /\ UNCHANGED <<transport, conn, rb, finish, dirty, ring, signal, room, buckets,
                   closers, pusher>>

-----------------------------------------------------------------------------
(* The reader: loop *)

\* CliProto.Set; ErrRingFull ends the session.
RingSet ==
    /\ reader = "set"
    /\ IF wp - rp >= Num THEN Goto("del") ELSE Goto("read")
    /\ UNCHANGED <<transport, conn, timer, rb, dispatcher, finish, dirty, ring,
                   signal, room, buckets, closers, pusher>>

\* ReadTCP into the slot; a heartbeat also renews the timer.  What is already
\* in the buffers can be read when the socket is gone.
ReadRequest ==
    /\ reader = "read"
    /\ wp < MaxReq
    /\ \E o \in Ops :
        /\ slots' = [slots EXCEPT ![wp % Num] = [n |-> wp, op |-> o]]
        /\ timer' = (timer \/ o = "heart")
    /\ Goto("operate")
    /\ UNCHANGED <<transport, conn, rb, dispatcher, finish, dirty, rp, wp, signal, room,
                   buckets, closers, pusher>>

\* The socket failed, or the packet is malformed.
ReadError ==
    /\ reader = "read"
    /\ Goto("del")
    /\ UNCHANGED <<transport, conn, timer, rb, dispatcher, finish, dirty, ring,
                   signal, room, buckets, closers, pusher>>

\* p.Op = ...Reply, in the slot.
Answered(op) == slots' = [slots EXCEPT ![wp % Num].op = op]

\* Fault: a request that is not known is published unanswered.
OperateHalf ==
    /\ reader = "operate"
    /\ Goto("adv")
    /\ UNCHANGED <<transport, conn, timer, rb, dispatcher, finish, dirty, ring, signal,
                   room, buckets, closers, pusher>>

\* Heartbeat, or Operate.  ChangeRoom to a room takes cLock and the new room
\* may refuse; ChangeRoom to "" leaves the list before it clears ch.Room.
\* Leaving a list takes its rLock.  What only logic knows keeps the Op of the
\* client, which may be that of an answer.
Operate ==
    /\ reader = "operate"
    /\ LET op == slots[wp % Num].op IN
       \/ op = "heart" /\ Answered("heartReply") /\ UNCHANGED <<room, listed>> /\ Goto("adv")
       \/ /\ op = "other"
          /\ \E r \in ReplyOps : Answered(r)
          /\ UNCHANGED <<room, listed>>
          /\ Goto("adv")
       \/ /\ op = "join"
          /\ takeover # "send" /\ evict # "send"
          /\ \/ room' = TRUE /\ listed' = TRUE
             \/ listed' = FALSE /\ UNCHANGED room
          /\ Answered("reply")
          /\ Goto("adv")
       \/ /\ op = "leave"
          /\ listed /\ evict # "send"
          /\ listed' = FALSE
          /\ UNCHANGED <<room, slots, reader>>
       \/ /\ op = "leave"
          /\ ~listed
          /\ room' = FALSE
          /\ Answered("reply")
          /\ Goto("adv")
          /\ UNCHANGED listed
    /\ UNCHANGED <<transport, conn, timer, rb, dispatcher, finish, dirty, rp, wp, signal,
                   registered, refused, closers, pusher>>

RingSetAdv ==
    /\ reader = "adv"
    /\ wp' = wp + 1
    /\ Goto("signal")
    /\ UNCHANGED <<transport, conn, timer, rb, dispatcher, finish, dirty, slots, rp,
                   signal, room, buckets, closers, pusher>>

\* Fault: Signal drops its token when the channel is full, as Push does.
SignalOrDrop ==
    /\ reader = "signal"
    /\ IF HasSpace THEN Send("Ready") ELSE UNCHANGED signal
    /\ Goto("set")
    /\ UNCHANGED <<transport, conn, timer, rb, dispatcher, finish, dirty, ring, room,
                   buckets, closers, pusher>>

\* ch.Signal: waits while the channel is full.
Signal ==
    /\ reader = "signal"
    /\ Send("Ready")
    /\ Goto("set")
    /\ UNCHANGED <<transport, conn, timer, rb, dispatcher, finish, dirty, ring, room,
                   buckets, closers, pusher>>

-----------------------------------------------------------------------------
(* The reader: exit.  The two transports return rb at different places. *)

\* b.Del, under cLock; the entry of another connection stays ...
BucketDel ==
    /\ reader = "del"
    /\ takeover # "send"
    /\ registered' = FALSE
    /\ Goto("unlist")
    /\ UNCHANGED <<transport, conn, timer, rb, dispatcher, finish, dirty, ring, signal,
                   room, listed, refused, closers, pusher>>

\* Fault: Del clears ch.Room.
UnlistClearsRoom ==
    /\ reader = "unlist"
    /\ listed => evict # "send"
    /\ listed' = FALSE
    /\ room' = FALSE
    /\ Goto("deltimer")
    /\ UNCHANGED <<transport, conn, timer, rb, dispatcher, finish, dirty, ring, signal,
                   registered, refused, closers, pusher>>

\* ... then room.Del, under rLock.
Unlist ==
    /\ reader = "unlist"
    /\ listed => evict # "send"
    /\ listed' = FALSE
    /\ Goto("deltimer")
    /\ UNCHANGED <<transport, conn, timer, rb, dispatcher, finish, dirty, ring, signal,
                   room, registered, refused, closers, pusher>>

DelTimer ==
    /\ reader = "deltimer"
    /\ timer' = FALSE
    /\ Goto(IF transport = "tcp" THEN "putrb" ELSE "closeconn")
    /\ UNCHANGED <<transport, conn, rb, dispatcher, finish, dirty, ring, signal, room,
                   buckets, closers, pusher>>

PutReadBuffer ==
    /\ reader = "putrb"
    /\ rb' = FALSE
    /\ Goto(IF transport = "tcp" THEN "closeconn" ELSE "disconnect")
    /\ UNCHANGED <<transport, conn, timer, dispatcher, finish, dirty, ring, signal,
                   room, buckets, closers, pusher>>

CloseConn ==
    /\ reader = "closeconn"
    /\ conn' = "closed"
    /\ Goto("finish")
    /\ UNCHANGED <<transport, timer, rb, dispatcher, finish, dirty, ring, signal, room,
                   buckets, closers, pusher>>

\* Fault: Close drops ProtoFinish when the channel is full.
CloseOrDrop ==
    /\ reader = "finish"
    /\ IF HasSpace THEN Send("Finish") ELSE UNCHANGED signal
    /\ Goto(IF transport = "tcp" THEN "disconnect" ELSE "putrb")
    /\ UNCHANGED <<transport, conn, timer, rb, dispatcher, finish, dirty, ring, room,
                   buckets, closers, pusher>>

\* ch.Close: waits while the channel is full.
Close ==
    /\ reader = "finish"
    /\ Send("Finish")
    /\ Goto(IF transport = "tcp" THEN "disconnect" ELSE "putrb")
    /\ UNCHANGED <<transport, conn, timer, rb, dispatcher, finish, dirty, ring, room,
                   buckets, closers, pusher>>

Disconnect ==
    /\ reader = "disconnect"
    /\ Goto("ended")
    /\ UNCHANGED <<transport, conn, timer, rb, dispatcher, finish, dirty, ring, signal,
                   room, buckets, closers, pusher>>

Reader ==
    /\ ~Crashed
    /\ \/ Auth \/ AuthReply \/ Put \/ Fail \/ StartDispatcher
       \/ RingSet \/ ReadRequest \/ ReadError \/ Operate \/ RingSetAdv \/ Signal
       \/ BucketDel \/ Unlist \/ DelTimer \/ PutReadBuffer \/ CloseConn \/ Close \/ Disconnect

-----------------------------------------------------------------------------
(* The dispatcher *)

\* ch.Ready and the switch.
Ready ==
    /\ dispatcher = "wait"
    /\ signal # <<>>
    /\ signal' = Tail(signal)
    /\ finish' = (Head(signal) = "Finish")
    /\ DGoto(IF Head(signal) = "Finish" THEN "failed"
             ELSE IF Head(signal) = "Ready" THEN "get" ELSE "push")
    /\ UNCHANGED <<transport, conn, timer, rb, reader, dirty, ring, room, buckets,
                   closers, pusher>>

\* CliProto.Get; ErrRingEmpty ends the inner loop.
RingGet ==
    /\ dispatcher = "get"
    /\ DGoto(IF rp = wp THEN "flush"
             ELSE IF slots[rp % Num].op = "heartReply" THEN "look" ELSE "write")
    /\ UNCHANGED <<transport, conn, timer, rb, reader, finish, dirty, ring, signal, room,
                   buckets, closers, pusher>>

\* "if ch.Room != nil", read without a lock.
LookRoom ==
    /\ dispatcher = "look"
    /\ DGoto(IF room THEN "deref" ELSE "write")
    /\ UNCHANGED <<transport, conn, timer, rb, reader, finish, dirty, ring, signal, room,
                   buckets, closers, pusher>>

\* ch.Room.OnlineNum(): ch.Room is read once more, unless the compiler kept
\* the value of the test.
DerefRoom ==
    /\ dispatcher = "deref"
    /\ \/ DGoto("write")
       \/ ~room /\ DGoto("panic")
    /\ UNCHANGED <<transport, conn, timer, rb, reader, finish, dirty, ring, signal, room,
                   buckets, closers, pusher>>

\* WriteTCP, WriteTCPHeart: into the buffer, which flushes itself when full.
Write(from, next) ==
    /\ dispatcher = from
    /\ \/ DGoto(next) /\ dirty' = TRUE
       \/ conn # "open" /\ DGoto("failed") /\ UNCHANGED dirty
    /\ UNCHANGED <<transport, conn, timer, rb, reader, finish, ring, signal, room, buckets,
                   closers, pusher>>

WriteReply == Write("write", "advance")
WritePush == Write("push", "flush")

RingGetAdv ==
    /\ dispatcher = "advance"
    /\ rp' = rp + 1
    /\ DGoto("get")
    /\ UNCHANGED <<transport, conn, timer, rb, reader, finish, dirty, slots, wp, signal,
                   room, buckets, closers, pusher>>

Flush ==
    /\ dispatcher = "flush"
    /\ \/ dirty /\ conn # "open" /\ DGoto("failed") /\ UNCHANGED dirty
       \/ (dirty => conn # "closed") /\ DGoto("wait") /\ dirty' = FALSE
    /\ UNCHANGED <<transport, conn, timer, rb, reader, finish, ring, signal, room, buckets,
                   closers, pusher>>

\* Fault: the dispatcher does not wait for ProtoFinish.
FailedNoDrain ==
    /\ dispatcher = "failed"
    /\ conn' = "closed"
    /\ DGoto("exit")
    /\ UNCHANGED <<transport, timer, rb, reader, finish, dirty, ring, signal, room,
                   buckets, closers, pusher>>

\* conn.Close and wp.Put.
Failed ==
    /\ dispatcher = "failed"
    /\ conn' = "closed"
    /\ DGoto(IF finish THEN "exit" ELSE "drain")
    /\ UNCHANGED <<transport, timer, rb, reader, finish, dirty, ring, signal, room,
                   buckets, closers, pusher>>

\* "for !finish": throws signals away until ProtoFinish.
Drain ==
    /\ dispatcher = "drain"
    /\ signal # <<>>
    /\ signal' = Tail(signal)
    /\ finish' = (Head(signal) = "Finish")
    /\ DGoto(IF Head(signal) = "Finish" THEN "exit" ELSE "drain")
    /\ UNCHANGED <<transport, conn, timer, rb, reader, dirty, ring, room, buckets,
                   closers, pusher>>

\* A write to an open socket takes as long as the peer likes.
Dispatcher ==
    /\ ~Crashed
    /\ \/ Ready \/ RingGet \/ LookRoom \/ DerefRoom \/ WriteReply \/ WritePush
       \/ RingGetAdv \/ Flush \/ Failed \/ Drain

-----------------------------------------------------------------------------
(* The rest of the server, and the peer *)

\* Fault: the timer goes off and nothing is closed.
ExpireKeepsConn ==
    /\ ~Crashed
    /\ timer
    /\ timer' = FALSE
    /\ UNCHANGED <<transport, conn, rb, reader, dispatcher, finish, dirty, ring, signal,
                   room, buckets, closers, pusher>>

\* The callback of trd: conn.Close.
Expire ==
    /\ ~Crashed
    /\ timer
    /\ timer' = FALSE
    /\ conn' = "closed"
    /\ UNCHANGED <<transport, rb, reader, dispatcher, finish, dirty, ring, signal, room,
                   buckets, closers, pusher>>

\* The client closes or resets the connection.
PeerGone ==
    /\ conn = "open"
    /\ conn' = "broken"
    /\ UNCHANGED <<transport, timer, rb, reader, dispatcher, finish, dirty, ring, signal,
                   room, buckets, closers, pusher>>

\* PushMsg looks the channel up under cLock ...
Lookup ==
    /\ ~Crashed
    /\ ~key
    /\ registered
    /\ takeover # "send"
    /\ pushes < MaxPush
    /\ key' = TRUE
    /\ UNCHANGED <<transport, conn, timer, rb, reader, dispatcher, finish, dirty, ring,
                   signal, room, buckets, closers, pushes>>

\* Channel.Push: drops the message when the channel is full.
Push ==
    /\ pushes < MaxPush
    /\ pushes' = pushes + 1
    /\ IF HasSpace THEN Send("Msg") ELSE UNCHANGED signal
    /\ UNCHANGED <<transport, conn, timer, rb, reader, dispatcher, finish, dirty, ring,
                   room, buckets, closers>>

\* ... and pushes after the lock was released.
PushMsg == ~Crashed /\ key /\ key' = FALSE /\ Push

\* Room.Push walks the list of the room.
RoomPush == ~Crashed /\ listed /\ UNCHANGED key /\ Push

\* A second login with the key: Bucket.Put takes cLock and finds this channel.
TakeoverStart ==
    /\ ~Crashed
    /\ registered
    /\ takeover = "idle"
    /\ takeover' = "send"
    /\ UNCHANGED <<transport, conn, timer, rb, reader, dispatcher, finish, dirty, ring,
                   signal, room, buckets, evict, pusher>>

\* dch.Close waits while the channel is full; then chs[key] is replaced and
\* the lock released.
TakeoverClose ==
    /\ ~Crashed
    /\ takeover = "send"
    /\ Send("Finish")
    /\ takeover' = "done"
    /\ registered' = FALSE
    /\ UNCHANGED <<transport, conn, timer, rb, reader, dispatcher, finish, dirty, ring,
                   room, listed, refused, evict, pusher>>

\* Room.Close takes rLock and meets this channel in the list.  Module Bucket
\* says when: only in a room that was hurt.
EvictStart ==
    /\ ~Crashed
    /\ listed
    /\ evict = "idle"
    /\ evict' = "send"
    /\ UNCHANGED <<transport, conn, timer, rb, reader, dispatcher, finish, dirty, ring,
                   signal, room, buckets, takeover, pusher>>

\* Its ch.Close waits in the same way.
EvictClose ==
    /\ ~Crashed
    /\ evict = "send"
    /\ Send("Finish")
    /\ evict' = "done"
    /\ UNCHANGED <<transport, conn, timer, rb, reader, dispatcher, finish, dirty, ring,
                   room, buckets, takeover, pusher>>

Next ==
    \/ Reader \/ Dispatcher \/ Expire \/ PeerGone
    \/ Lookup \/ PushMsg \/ RoomPush
    \/ TakeoverStart \/ TakeoverClose \/ EvictStart \/ EvictClose

\* Goroutines run and timers expire.  A read or write on an open socket waits
\* for the peer, which may do nothing.
Waiting == conn = "open" /\ reader \in {"auth", "reply", "read"}
Writing == conn = "open" /\ dispatcher \in {"write", "push", "flush"}

Spec == Init /\ [][Next]_vars

FairSpec ==
    /\ Spec
    /\ WF_vars(~Waiting /\ Reader)
    /\ WF_vars(~Writing /\ Dispatcher)
    /\ WF_vars(Expire)
    /\ WF_vars(TakeoverClose)
    /\ WF_vars(EvictClose)

-----------------------------------------------------------------------------
(* Properties *)

Readers == Handshake \cup Loop \cup Exit \cup {"ended"}
Dispatchers == {"none", "wait", "push", "flush", "failed", "drain", "exit", "panic"}
                 \cup Replying
Signals == {"Ready", "Finish", "Msg"}

TypeOK ==
    /\ transport \in {"tcp", "ws"}
    /\ conn \in {"open", "broken", "closed"}
    /\ timer \in BOOLEAN
    /\ rb \in BOOLEAN
    /\ reader \in Readers
    /\ dispatcher \in Dispatchers
    /\ finish \in BOOLEAN
    /\ dirty \in BOOLEAN
    /\ slots \in [0..Num-1 -> [n : -1..MaxReq, op : Ops \cup ReplyOps]]
    /\ rp \in 0..MaxReq
    /\ wp \in 0..MaxReq
    /\ signal \in Seq(Signals)
    /\ Len(signal) <= SvrProto
    /\ room \in BOOLEAN
    /\ listed \in BOOLEAN
    /\ registered \in BOOLEAN
    /\ refused \in BOOLEAN
    /\ takeover \in {"idle", "send", "done"}
    /\ evict \in {"idle", "send", "done"}
    /\ pushes \in 0..MaxPush
    /\ key \in BOOLEAN

\* Reader and dispatcher share the ring without a lock, yet the slot the
\* reader fills is never one the dispatcher has still to write: every unread
\* slot holds the request of its number, so replies leave in request order.
SlotsIntact ==
    /\ reader \in {"read", "operate", "adv"} => wp - rp < Num
    /\ \A i \in rp..wp-1 : slots[i % Num].n = i

\* The requests in the ring, oldest first.
Pending == [i \in 1..wp-rp |-> slots[(rp + i - 1) % Num]]

Client == INSTANCE Replies WITH accepted <- wp, pending <- Pending, Answers <- ReplyOps

\* The ring, the channel and the two goroutines together are the queue of
\* module Replies: nothing the dispatcher can read is half answered, lost,
\* repeated or out of order.
AnswersInOrder == Client!Spec

Queued(x) == \E i \in 1..Len(signal) : signal[i] = x

\* No lost wakeup: when requests are in the ring and the dispatcher is not
\* working on them, a Ready token is in the channel or about to be sent.
NoLostWakeup ==
    wp # rp /\ dispatcher \in {"wait", "push", "flush"} =>
        reader = "signal" \/ Queued("Ready")

\* A dispatcher never waits for a ProtoFinish that nobody will send: until it
\* has seen one, the reader has still to close or the token is queued.
FinishComes ==
    dispatcher \notin {"none", "exit", "panic"} /\ ~finish =>
        \/ reader \in Loop \cup {"del", "unlist", "deltimer", "closeconn", "finish"}
        \/ transport = "tcp" /\ reader = "putrb"
        \/ Queued("Finish")

\* The dispatcher finds ch.Room nil after its test only for a client that
\* sent more requests before the answer to its heartbeat.
PanicNeedsPipelining == dispatcher = "panic" => wp - rp >= 2 \/ reader = "adv"

\* A login that waits in dch.Close for space in the channel waits for a
\* dispatcher that exists or is about to: only a channel that was refused by a
\* dropped room, or that Room.Close got to first, blocks it and the bucket.
TakeoverMeetsDispatcher ==
    takeover = "send" /\ ~HasSpace =>
        \/ refused \/ evict = "done"
        \/ reader = "start" \/ dispatcher \notin {"none", "exit"}

\* A websocket session returns its read buffer after it closed the socket, so
\* no reply whose body lies in that buffer can still reach the client.
ReadBufferOutlivesSocket == transport = "ws" /\ ~rb => conn = "closed"

Ended == Crashed \/ (reader = "ended" /\ dispatcher \in {"none", "exit"})

\* The dispatcher went away on the ProtoFinish of somebody else, the channel
\* was filled since, and a send to it has no receiver any more.
Leaked ==
    /\ takeover = "done" \/ evict = "done"
    /\ dispatcher = "exit"
    /\ ~HasSpace
    /\ reader \in {"signal", "finish"} \/ takeover = "send" \/ evict = "send"

\* Both goroutines of a session end, whatever the peer does and however full
\* the channel is; the one way not to, of the session's own making, is to be
\* closed by another goroutine and to have the channel filled afterwards.  That
\* the reader gets cLock for Put and Del is assumed of the other sessions of the
\* bucket (WF of Reader): TakeoverReturns names when one of them keeps it.
SessionEnds == <>(Ended \/ Leaked)

\* A login that takes over a channel with a dispatcher gets out of dch.Close
\* and releases the lock of the bucket.
TakeoverReturns ==
    takeover = "send" ~> (takeover = "done" \/ refused \/ evict = "done" \/ Crashed)

\* bucket.go:112 says Put closes the old channel of the key; so the Put of the
\* second login comes back from closing it.
OldChannelCloses == takeover = "send" ~> (takeover = "done" \/ Crashed)
=============================================================================
