--------------------------- MODULE Session_proofs ---------------------------
(***************************************************************************)
(* Proofs about module Session, for every ring size, channel capacity and  *)
(* number of requests and pushes.                                          *)
(***************************************************************************)
EXTENDS Session, SequenceTheorems, TLAPS

-----------------------------------------------------------------------------
(* The signal channel and the ring *)

\* A send keeps what was queued and adds its token.
LEMMA SendQueues ==
    ASSUME signal \in Seq(Signals), NEW x \in Signals, Send(x)
    PROVE  /\ signal' \in Seq(Signals) /\ Len(signal') <= SvrProto
           /\ Queued(x)'
           /\ \A y \in Signals : Queued(y) => Queued(y)'
           /\ \A y \in Signals : Queued(y)' => Queued(y) \/ y = x
<1>1. /\ signal' \in Seq(Signals)
      /\ Len(signal') = Len(signal) + 1
      /\ \A i \in 1..Len(signal) : signal'[i] = signal[i]
      /\ signal'[Len(signal) + 1] = x
  BY DEF Send
<1>2. Len(signal') <= SvrProto
  BY <1>1, SessionAssumption DEF Send, HasSpace
<1> QED BY <1>1, <1>2 DEF Queued

\* A receive takes the head and nothing else.
LEMMA TakeHead ==
    ASSUME signal \in Seq(Signals), signal # <<>>, signal' = Tail(signal)
    PROVE  /\ signal' \in Seq(Signals) /\ Len(signal') = Len(signal) - 1
           /\ Head(signal) \in Signals /\ Queued(Head(signal))
           /\ \A y \in Signals : Queued(y)' => Queued(y)
           /\ \A y \in Signals : Queued(y) /\ Head(signal) # y => Queued(y)'
<1>1. /\ signal' \in Seq(Signals)
      /\ Len(signal') = Len(signal) - 1
      /\ \A i \in 1..Len(signal') : signal'[i] = signal[i + 1]
      /\ Head(signal) = signal[1]
      /\ Len(signal) \in Nat \ {0}
  OBVIOUS
<1>2. Head(signal) \in Signals /\ Queued(Head(signal))
  BY <1>1 DEF Queued
<1>3. ASSUME NEW y \in Signals, Queued(y)' PROVE Queued(y)
  BY <1>1, <1>3 DEF Queued
<1>4. ASSUME NEW y \in Signals, Queued(y), Head(signal) # y PROVE Queued(y)'
  <2>1. PICK i \in 1..Len(signal) : signal[i] = y
    BY <1>4 DEF Queued
  <2>2. i - 1 \in 1..Len(signal') /\ signal'[i - 1] = y
    BY <1>1, <1>4, <2>1
  <2> QED BY <2>2 DEF Queued
<1> QED BY <1>1, <1>2, <1>3, <1>4

\* What does not touch the channel leaves its tokens.
LEMMA SameQueue ==
    ASSUME UNCHANGED signal
    PROVE  \A y \in Signals : Queued(y)' <=> Queued(y)
  BY DEF Queued

\* Channel.Push adds a message or drops it.
LEMMA PushQueues ==
    ASSUME signal \in Seq(Signals), Push
    PROVE  /\ signal' \in Seq(Signals)
           /\ \A y \in Signals : Queued(y) => Queued(y)'
           /\ \A y \in Signals : Queued(y)' => Queued(y) \/ y = "Msg"
<1>1. CASE Send("Msg")
  BY <1>1, SendQueues DEF Signals
<1>2. CASE UNCHANGED signal
  BY <1>2 DEF Queued
<1> QED BY <1>1, <1>2 DEF Push

\* The division of a position by the size of the ring.
LEMMA DivMod ==
    ASSUME NEW n \in Nat, n > 0, NEW i \in Nat
    PROVE  i % n \in Nat /\ i \div n \in Nat /\ i = n * (i \div n) + (i % n)
  OBVIOUS

\* Two multiples of n are n apart.
LEMMA Apart ==
    ASSUME NEW n \in Nat, n > 0, NEW p \in Int, NEW q \in Int
    PROVE  n * q - n * p <= 0 \/ n * q - n * p >= n
<1>1. n * q - n * p = n * (q - p)
  OBVIOUS
<1>2. CASE q - p <= 0
  BY <1>1, <1>2
<1>3. CASE q - p >= 1
  BY <1>1, <1>3
<1> QED BY <1>2, <1>3

\* Less than n apart, two positions of a ring of n slots have different slots.
LEMMA SlotsDiffer ==
    ASSUME NEW n \in Nat, n > 0, NEW i \in Nat, NEW j \in Nat, i < j, j - i < n
    PROVE  i % n # j % n
<1> DEFINE p == i \div n
           q == j \div n
<1>2. /\ p \in Int /\ q \in Int
      /\ i = n * p + (i % n)
      /\ j = n * q + (j % n)
      /\ i % n \in Nat /\ j % n \in Nat
  BY DivMod
<1>4. n * q - n * p <= 0 \/ n * q - n * p >= n
  BY <1>2, Apart
<1>5. n * p \in Int /\ n * q \in Int
  BY <1>2
<1> HIDE DEF p, q
<1> QED BY <1>2, <1>4, <1>5

-----------------------------------------------------------------------------
(* The inductive invariant *)

\* The dispatcher exists from the end of the handshake on; until then the
\* ring is untouched.
Phases ==
    /\ reader \in Handshake => dispatcher = "none" /\ wp = 0 /\ rp = 0
    /\ dispatcher = "none" => reader \in Handshake \cup {"ended"}

\* The reader is ahead of the dispatcher, and owns the slot it is filling.
RingInv ==
    /\ rp <= wp
    /\ reader \in {"read", "operate", "adv"} => wp - rp < Num
    /\ reader \in {"operate", "adv"} => wp < MaxReq
    /\ dispatcher \in {"look", "deref", "write", "advance", "panic"} => rp < wp

\* The slot the reader is filling, and those the dispatcher has still to write.
SlotsInv ==
    /\ reader \in {"operate", "adv"} => slots[wp % Num].n = wp
    /\ reader = "adv" => slots[wp % Num].op \in ReplyOps
    /\ \A i \in rp..wp-1 : slots[i % Num].n = i

\* Who has sent ProtoFinish, and what became of it.
FinishInv ==
    /\ finish => dispatcher \in {"failed", "exit"}
    /\ dispatcher = "exit" => finish
    /\ finish \/ Queued("Finish") =>
         \/ takeover = "done" \/ evict = "done"
         \/ reader \in {"disconnect", "ended"}
         \/ transport = "ws" /\ reader = "putrb"
    /\ FinishComes

\* A channel in chs has a goroutine that will Del it, or was refused.
RegisteredInv ==
    /\ takeover = "send" => registered
    /\ registered => refused \/ reader \in Loop \cup {"start", "del"}

\* ch.Room became nil under the eyes of the dispatcher.
RoomInv ==
    /\ dispatcher = "deref" /\ ~room => wp - rp >= 2 \/ reader = "adv"
    /\ PanicNeedsPipelining

\* A websocket session past the close of its socket.
SocketInv ==
    /\ transport = "ws" /\ reader \in {"finish", "putrb", "disconnect", "ended"} =>
         conn = "closed"
    /\ ReadBufferOutlivesSocket

Inv ==
    /\ TypeOK
    /\ Phases
    /\ RingInv
    /\ SlotsInv
    /\ FinishInv
    /\ NoLostWakeup
    /\ RegisteredInv
    /\ RoomInv
    /\ SocketInv

-----------------------------------------------------------------------------
(* Types, a few variables at a time *)

FlagType ==
    /\ timer \in BOOLEAN
    /\ rb \in BOOLEAN
    /\ finish \in BOOLEAN
    /\ dirty \in BOOLEAN
    /\ room \in BOOLEAN
    /\ listed \in BOOLEAN
    /\ registered \in BOOLEAN
    /\ refused \in BOOLEAN
    /\ key \in BOOLEAN

ConnType ==
    /\ transport \in {"tcp", "ws"}
    /\ conn \in {"open", "broken", "closed"}
    /\ takeover \in {"idle", "send", "done"}
    /\ evict \in {"idle", "send", "done"}
    /\ pushes \in 0..MaxPush

StateType == reader \in Readers /\ dispatcher \in Dispatchers

RingType ==
    /\ slots \in [0..Num-1 -> [n : -1..MaxReq, op : Ops \cup ReplyOps]]
    /\ rp \in 0..MaxReq
    /\ wp \in 0..MaxReq

SignalType == signal \in Seq(Signals) /\ Len(signal) <= SvrProto

\* No step leaves the types of the flags.
LEMMA FlagStep ==
    ASSUME FlagType, [Next]_vars
    PROVE  FlagType'
<1> USE DEF vars, ring, buckets, pusher, closers, FlagType
<1>1. CASE Auth
  BY <1>1 DEF Auth
<1>2. CASE AuthReply
  BY <1>2 DEF AuthReply
<1>3. CASE Put
  BY <1>3 DEF Put
<1>4. CASE Fail
  BY <1>4 DEF Fail
<1>5. CASE StartDispatcher
  BY <1>5 DEF StartDispatcher
<1>6. CASE RingSet \/ ReadError \/ RingSetAdv \/ Signal
  BY <1>6 DEF RingSet, ReadError, RingSetAdv, Signal
<1>7. CASE ReadRequest
  BY <1>7 DEF ReadRequest
<1>8. CASE Operate
  <2>1. timer' = timer /\ rb' = rb /\ finish' = finish /\ dirty' = dirty
    BY <1>8 DEF Operate
  <2>2. registered' = registered /\ refused' = refused /\ key' = key
    BY <1>8 DEF Operate
  <2>3. room' \in BOOLEAN /\ listed' \in BOOLEAN
    BY <1>8 DEF Operate
  <2> QED BY <2>1, <2>2, <2>3
<1>9. CASE BucketDel
  BY <1>9 DEF BucketDel
<1>10. CASE Unlist
  BY <1>10 DEF Unlist
<1>11. CASE DelTimer
  BY <1>11 DEF DelTimer
<1>12. CASE PutReadBuffer
  BY <1>12 DEF PutReadBuffer
<1>13. CASE CloseConn
  BY <1>13 DEF CloseConn
<1>14. CASE Close
  BY <1>14 DEF Close
<1>15. CASE Disconnect
  BY <1>15 DEF Disconnect
<1>16. CASE Ready \/ Drain
  BY <1>16 DEF Ready, Drain
<1>17. CASE RingGet \/ LookRoom \/ DerefRoom \/ RingGetAdv \/ Failed
  BY <1>17 DEF RingGet, LookRoom, DerefRoom, RingGetAdv, Failed
<1>18. CASE WriteReply \/ WritePush
  BY <1>18 DEF WriteReply, WritePush, Write
<1>19. CASE Flush
  BY <1>19 DEF Flush
<1>20. CASE Expire
  BY <1>20 DEF Expire
<1>21. CASE PeerGone \/ TakeoverStart \/ EvictStart \/ EvictClose
  BY <1>21 DEF PeerGone, TakeoverStart, EvictStart, EvictClose
<1>22. CASE Lookup
  BY <1>22 DEF Lookup
<1>23. CASE PushMsg
  BY <1>23 DEF PushMsg, Push
<1>24. CASE RoomPush
  BY <1>24 DEF RoomPush, Push
<1>25. CASE TakeoverClose
  BY <1>25 DEF TakeoverClose
<1>26. CASE UNCHANGED vars
  BY <1>26
<1> QED BY <1>1, <1>2, <1>3, <1>4, <1>5, <1>6, <1>7, <1>8, <1>9, <1>10, <1>11,
      <1>12, <1>13, <1>14, <1>15, <1>16, <1>17, <1>18, <1>19, <1>20, <1>21,
      <1>22, <1>23, <1>24, <1>25, <1>26 DEF Next, Reader, Dispatcher

\* No step leaves the types of the other scalars.
LEMMA ConnStep ==
    ASSUME ConnType, [Next]_vars
    PROVE  ConnType'
<1> USE DEF vars, ring, buckets, pusher, closers, ConnType
<1>1. CASE Auth \/ AuthReply \/ Put \/ Fail \/ StartDispatcher
  BY <1>1, SessionAssumption DEF Auth, AuthReply, Put, Fail, StartDispatcher
<1>2. CASE RingSet \/ ReadRequest \/ ReadError \/ RingSetAdv \/ Signal
  BY <1>2, SessionAssumption DEF RingSet, ReadRequest, ReadError, RingSetAdv,
     Signal
<1>3. CASE Operate
  BY <1>3, SessionAssumption DEF Operate
<1>4. CASE BucketDel \/ Unlist \/ DelTimer \/ PutReadBuffer \/ CloseConn \/
           Close \/ Disconnect
  BY <1>4, SessionAssumption DEF BucketDel, Unlist, DelTimer, PutReadBuffer,
     CloseConn, Close, Disconnect
<1>5. CASE Ready \/ RingGet \/ LookRoom \/ DerefRoom \/ RingGetAdv \/
           Failed \/ Drain
  BY <1>5, SessionAssumption DEF Ready, RingGet, LookRoom, DerefRoom,
     RingGetAdv, Failed, Drain
<1>6. CASE WriteReply \/ WritePush \/ Flush
  BY <1>6, SessionAssumption DEF WriteReply, WritePush, Flush, Write
<1>7. CASE Expire \/ PeerGone \/ Lookup
  BY <1>7, SessionAssumption DEF Expire, PeerGone, Lookup
<1>8. CASE PushMsg \/ RoomPush
  BY <1>8, SessionAssumption DEF PushMsg, RoomPush, Push
<1>9. CASE TakeoverStart \/ TakeoverClose
  BY <1>9, SessionAssumption DEF TakeoverStart, TakeoverClose
<1>10. CASE EvictStart \/ EvictClose
  BY <1>10, SessionAssumption DEF EvictStart, EvictClose
<1>11. CASE UNCHANGED vars
  BY <1>11, SessionAssumption
<1> QED BY <1>1, <1>2, <1>3, <1>4, <1>5, <1>6, <1>7, <1>8, <1>9, <1>10, <1>11 DEF Next, Reader, Dispatcher

\* No step leaves the states of the two goroutines.
LEMMA StateStep ==
    ASSUME StateType, [Next]_vars
    PROVE  StateType'
<1> USE DEF vars, ring, buckets, pusher, closers, StateType, Goto, DGoto,
            Readers, Dispatchers, Handshake, Loop, Exit, Replying
<1>1. CASE Auth \/ AuthReply \/ Put \/ Fail \/ StartDispatcher
  BY <1>1 DEF Auth, AuthReply, Put, Fail, StartDispatcher
<1>2. CASE RingSet \/ ReadRequest \/ ReadError \/ Operate \/ RingSetAdv \/
           Signal
  BY <1>2 DEF RingSet, ReadRequest, ReadError, Operate, RingSetAdv, Signal
<1>3. CASE BucketDel \/ Unlist \/ DelTimer \/ PutReadBuffer \/ CloseConn \/
           Close \/ Disconnect
  BY <1>3 DEF BucketDel, Unlist, DelTimer, PutReadBuffer, CloseConn, Close,
     Disconnect
<1>4. CASE Ready \/ RingGet \/ LookRoom \/ DerefRoom \/ WriteReply \/
           WritePush \/ RingGetAdv \/ Flush \/ Failed \/ Drain
  BY <1>4 DEF Ready, RingGet, LookRoom, DerefRoom, WriteReply, WritePush,
     RingGetAdv, Flush, Failed, Drain, Write
<1>5. CASE Expire \/ PeerGone \/ Lookup \/ PushMsg \/ RoomPush \/
           TakeoverStart \/ TakeoverClose \/ EvictStart \/ EvictClose
  BY <1>5 DEF Expire, PeerGone, Lookup, PushMsg, RoomPush, TakeoverStart,
     TakeoverClose, EvictStart, EvictClose, Push
<1>6. CASE UNCHANGED vars
  BY <1>6
<1> QED BY <1>1, <1>2, <1>3, <1>4, <1>5, <1>6 DEF Next, Reader, Dispatcher


\* Who writes the ring.
LEMMA RingFrame ==
    ASSUME [Next]_vars
    PROVE  UNCHANGED ring \/ ReadRequest \/ Operate \/ RingSetAdv \/ RingGetAdv
<1> USE DEF vars, ring, buckets, pusher, closers
<1>1. CASE Auth \/ AuthReply \/ Put \/ Fail \/ StartDispatcher
  BY <1>1 DEF Auth, AuthReply, Put, Fail, StartDispatcher
<1>2. CASE RingSet \/ ReadRequest \/ ReadError \/ Operate \/ RingSetAdv \/
           Signal
  BY <1>2 DEF RingSet, ReadRequest, ReadError, Operate, RingSetAdv, Signal
<1>3. CASE BucketDel \/ Unlist \/ DelTimer \/ PutReadBuffer \/ CloseConn \/
           Close \/ Disconnect
  BY <1>3 DEF BucketDel, Unlist, DelTimer, PutReadBuffer, CloseConn, Close,
     Disconnect
<1>4. CASE Ready \/ RingGet \/ LookRoom \/ DerefRoom \/ WriteReply \/
           WritePush \/ RingGetAdv \/ Flush \/ Failed \/ Drain
  BY <1>4 DEF Ready, RingGet, LookRoom, DerefRoom, WriteReply, WritePush,
     RingGetAdv, Flush, Failed, Drain, Write
<1>5. CASE Expire \/ PeerGone \/ Lookup \/ PushMsg \/ RoomPush \/
           TakeoverStart \/ TakeoverClose \/ EvictStart \/ EvictClose
  BY <1>5 DEF Expire, PeerGone, Lookup, PushMsg, RoomPush, TakeoverStart,
     TakeoverClose, EvictStart, EvictClose, Push
<1>6. CASE UNCHANGED vars
  BY <1>6
<1> QED BY <1>1, <1>2, <1>3, <1>4, <1>5, <1>6 DEF Next, Reader, Dispatcher


\* Who writes the signal channel.
LEMMA SignalFrame ==
    ASSUME [Next]_vars
    PROVE  \/ UNCHANGED signal
           \/ Signal \/ Close \/ TakeoverClose \/ EvictClose
           \/ Ready \/ Drain
           \/ PushMsg \/ RoomPush
<1> USE DEF vars, ring, buckets, pusher, closers
<1>1. CASE Auth \/ AuthReply \/ Put \/ Fail \/ StartDispatcher
  BY <1>1 DEF Auth, AuthReply, Put, Fail, StartDispatcher
<1>2. CASE RingSet \/ ReadRequest \/ ReadError \/ Operate \/ RingSetAdv \/
           Signal
  BY <1>2 DEF RingSet, ReadRequest, ReadError, Operate, RingSetAdv, Signal
<1>3. CASE BucketDel \/ Unlist \/ DelTimer \/ PutReadBuffer \/ CloseConn \/
           Close \/ Disconnect
  BY <1>3 DEF BucketDel, Unlist, DelTimer, PutReadBuffer, CloseConn, Close,
     Disconnect
<1>4. CASE Ready \/ RingGet \/ LookRoom \/ DerefRoom \/ WriteReply \/
           WritePush \/ RingGetAdv \/ Flush \/ Failed \/ Drain
  BY <1>4 DEF Ready, RingGet, LookRoom, DerefRoom, WriteReply, WritePush,
     RingGetAdv, Flush, Failed, Drain, Write
<1>5. CASE Expire \/ PeerGone \/ Lookup \/ PushMsg \/ RoomPush \/
           TakeoverStart \/ TakeoverClose \/ EvictStart \/ EvictClose
  BY <1>5 DEF Expire, PeerGone, Lookup, PushMsg, RoomPush, TakeoverStart,
     TakeoverClose, EvictStart, EvictClose, Push
<1>6. CASE UNCHANGED vars
  BY <1>6
<1> QED BY <1>1, <1>2, <1>3, <1>4, <1>5, <1>6 DEF Next, Reader, Dispatcher


\* No step leaves the type of the ring.
LEMMA RingTypeStep ==
    ASSUME RingType, RingInv, [Next]_vars
    PROVE  RingType'
<1> USE SessionAssumption DEF RingType
<1>1. CASE UNCHANGED ring
  BY <1>1 DEF ring
<1>2. CASE ReadRequest
  <2>1. PICK o \in Ops : slots' = [slots EXCEPT ![wp % Num] = [n |-> wp, op |-> o]]
    BY <1>2 DEF ReadRequest
  <2> QED BY <1>2, <2>1 DEF ReadRequest
<1>3. CASE Operate
  <2>1. \/ slots' = slots
        \/ \E op \in ReplyOps : slots' = [slots EXCEPT ![wp % Num].op = op]
    BY <1>3 DEF Operate, Answered, ReplyOps
  <2>2. rp' = rp /\ wp' = wp
    BY <1>3 DEF Operate
  <2>3. wp % Num \in 0..Num-1
    OBVIOUS
  <2>4. slots' \in [0..Num-1 -> [n : -1..MaxReq, op : Ops \cup ReplyOps]]
    BY <2>1, <2>3
  <2> QED BY <2>2, <2>4
<1>4. CASE RingSetAdv
  BY <1>4 DEF RingSetAdv, RingInv
<1>5. CASE RingGetAdv
  BY <1>5 DEF RingGetAdv, RingInv, Replying
<1> QED BY <1>1, <1>2, <1>3, <1>4, <1>5, RingFrame

\* No step overfills the channel.
LEMMA SignalStep ==
    ASSUME SignalType, [Next]_vars
    PROVE  SignalType'
<1> USE DEF SignalType
<1>1. CASE UNCHANGED signal
  BY <1>1
<1>2. CASE Signal \/ Close \/ TakeoverClose \/ EvictClose \/ PushMsg \/ RoomPush
  <2>1. signal' = signal \/ \E x \in Signals : Send(x)
    BY <1>2 DEF Signal, Close, TakeoverClose, EvictClose, PushMsg, RoomPush,
           Push, Signals
  <2> QED BY <2>1, SendQueues
<1>3. CASE Ready \/ Drain
  <2>1. signal # <<>> /\ signal' = Tail(signal)
    BY <1>3 DEF Ready, Drain
  <2> QED BY <2>1, TakeHead, SessionAssumption
<1> QED BY <1>1, <1>2, <1>3, SignalFrame


-----------------------------------------------------------------------------
(* Each part of the invariant is kept by every step *)

\* The dispatcher starts once, after the handshake, with an empty ring.
LEMMA PhasesStep ==
    ASSUME Phases, [Next]_vars
    PROVE  Phases'
<1> USE DEF vars, ring, buckets, pusher, closers, Phases, Goto, DGoto,
            Handshake
<1>1. CASE Auth \/ AuthReply \/ Put \/ Fail \/ StartDispatcher
  BY <1>1 DEF Auth, AuthReply, Put, Fail, StartDispatcher
<1>2. CASE RingSet \/ ReadRequest \/ ReadError
  BY <1>2 DEF RingSet, ReadRequest, ReadError
<1>3. CASE Operate
  BY <1>3 DEF Operate
<1>4. CASE RingSetAdv \/ Signal
  BY <1>4 DEF RingSetAdv, Signal
<1>5. CASE BucketDel \/ Unlist \/ DelTimer \/ PutReadBuffer \/ CloseConn \/
           Close \/ Disconnect
  BY <1>5 DEF BucketDel, Unlist, DelTimer, PutReadBuffer, CloseConn, Close,
     Disconnect
<1>6. CASE Ready \/ RingGet \/ LookRoom \/ DerefRoom
  BY <1>6 DEF Ready, RingGet, LookRoom, DerefRoom
<1>7. CASE WriteReply \/ WritePush \/ RingGetAdv \/ Flush \/ Failed \/ Drain
  BY <1>7 DEF WriteReply, WritePush, RingGetAdv, Flush, Failed, Drain, Write
<1>8. CASE Expire \/ PeerGone \/ Lookup \/ PushMsg \/ RoomPush \/
           TakeoverStart \/ TakeoverClose \/ EvictStart \/ EvictClose
  BY <1>8 DEF Expire, PeerGone, Lookup, PushMsg, RoomPush, TakeoverStart,
     TakeoverClose, EvictStart, EvictClose, Push
<1>9. CASE UNCHANGED vars
  BY <1>9
<1> QED BY <1>1, <1>2, <1>3, <1>4, <1>5, <1>6, <1>7, <1>8, <1>9 DEF Next, Reader, Dispatcher

\* The dispatcher never overtakes the reader, nor the reader the ring.
LEMMA RingStep ==
    ASSUME RingType, Phases, RingInv, [Next]_vars
    PROVE  RingInv'
<1> USE DEF vars, ring, buckets, pusher, closers, RingType, Phases, RingInv,
            Goto, DGoto, Handshake, Replying
<1>1. CASE Auth \/ AuthReply \/ Put \/ Fail \/ StartDispatcher
  BY <1>1, SessionAssumption DEF Auth, AuthReply, Put, Fail, StartDispatcher
<1>2. CASE RingSet
  BY <1>2, SessionAssumption DEF RingSet
<1>3. CASE ReadRequest \/ ReadError
  BY <1>3, SessionAssumption DEF ReadRequest, ReadError
<1>4. CASE Operate
  BY <1>4, SessionAssumption DEF Operate
<1>5. CASE RingSetAdv \/ Signal
  BY <1>5, SessionAssumption DEF RingSetAdv, Signal
<1>6. CASE BucketDel \/ Unlist \/ DelTimer \/ PutReadBuffer \/ CloseConn \/
           Close \/ Disconnect
  BY <1>6, SessionAssumption DEF BucketDel, Unlist, DelTimer, PutReadBuffer,
     CloseConn, Close, Disconnect
<1>7. CASE Ready \/ RingGet \/ LookRoom \/ DerefRoom
  BY <1>7, SessionAssumption DEF Ready, RingGet, LookRoom, DerefRoom
<1>8. CASE WriteReply \/ WritePush
  BY <1>8, SessionAssumption DEF WriteReply, WritePush, Write
<1>9. CASE RingGetAdv
  BY <1>9, SessionAssumption DEF RingGetAdv
<1>10. CASE Flush \/ Failed \/ Drain
  BY <1>10, SessionAssumption DEF Flush, Failed, Drain
<1>11. CASE Expire \/ PeerGone \/ Lookup \/ PushMsg \/ RoomPush \/
            TakeoverStart \/ TakeoverClose \/ EvictStart \/ EvictClose
  BY <1>11, SessionAssumption DEF Expire, PeerGone, Lookup, PushMsg, RoomPush,
     TakeoverStart, TakeoverClose, EvictStart, EvictClose, Push
<1>12. CASE UNCHANGED vars
  BY <1>12, SessionAssumption
<1> QED BY <1>1, <1>2, <1>3, <1>4, <1>5, <1>6, <1>7, <1>8, <1>9, <1>10, <1>11,
      <1>12 DEF Next, Reader, Dispatcher

\* Put registers, Del and a second login deregister.
LEMMA RegisteredStep ==
    ASSUME RegisteredInv, [Next]_vars
    PROVE  RegisteredInv'
<1> USE DEF vars, ring, buckets, pusher, closers, RegisteredInv, Goto, Loop
<1>1. CASE Auth \/ AuthReply \/ Put \/ Fail \/ StartDispatcher
  BY <1>1 DEF Auth, AuthReply, Put, Fail, StartDispatcher
<1>2. CASE RingSet \/ ReadRequest \/ ReadError
  BY <1>2 DEF RingSet, ReadRequest, ReadError
<1>3. CASE Operate
  BY <1>3 DEF Operate
<1>4. CASE RingSetAdv \/ Signal
  BY <1>4 DEF RingSetAdv, Signal
<1>5. CASE BucketDel \/ Unlist \/ DelTimer \/ PutReadBuffer \/ CloseConn \/
           Close \/ Disconnect
  BY <1>5 DEF BucketDel, Unlist, DelTimer, PutReadBuffer, CloseConn, Close,
     Disconnect
<1>6. CASE Ready \/ RingGet \/ LookRoom \/ DerefRoom \/ WriteReply \/
           WritePush \/ RingGetAdv \/ Flush \/ Failed \/ Drain
  BY <1>6 DEF Ready, RingGet, LookRoom, DerefRoom, WriteReply, WritePush,
     RingGetAdv, Flush, Failed, Drain, Write
<1>7. CASE Expire \/ PeerGone \/ Lookup \/ PushMsg \/ RoomPush \/
           TakeoverStart \/ TakeoverClose \/ EvictStart \/ EvictClose
  BY <1>7 DEF Expire, PeerGone, Lookup, PushMsg, RoomPush, TakeoverStart,
     TakeoverClose, EvictStart, EvictClose, Push
<1>8. CASE UNCHANGED vars
  BY <1>8
<1> QED BY <1>1, <1>2, <1>3, <1>4, <1>5, <1>6, <1>7, <1>8 DEF Next, Reader, Dispatcher

\* Only an answer of the reader makes ch.Room nil, and it is one behind.
LEMMA RoomStep ==
    ASSUME RingType, RingInv, RoomInv, [Next]_vars
    PROVE  RoomInv'
<1> USE DEF vars, ring, buckets, pusher, closers, RingType, RingInv, RoomInv,
            PanicNeedsPipelining, Crashed, Goto, DGoto, Replying
<1>1. CASE Auth \/ AuthReply \/ Put \/ Fail \/ StartDispatcher
  BY <1>1 DEF Auth, AuthReply, Put, Fail, StartDispatcher
<1>2. CASE RingSet \/ ReadRequest \/ ReadError
  BY <1>2 DEF RingSet, ReadRequest, ReadError
<1>3. CASE Operate
  BY <1>3 DEF Operate
<1>4. CASE RingSetAdv
  BY <1>4 DEF RingSetAdv
<1>5. CASE Signal
  BY <1>5 DEF Signal
<1>6. CASE BucketDel \/ Unlist \/ DelTimer \/ PutReadBuffer \/ CloseConn \/
           Close \/ Disconnect
  BY <1>6 DEF BucketDel, Unlist, DelTimer, PutReadBuffer, CloseConn, Close,
     Disconnect
<1>7. CASE Ready \/ RingGet
  BY <1>7 DEF Ready, RingGet
<1>8. CASE LookRoom \/ DerefRoom
  BY <1>8 DEF LookRoom, DerefRoom
<1>9. CASE WriteReply \/ WritePush \/ RingGetAdv
  BY <1>9 DEF WriteReply, WritePush, RingGetAdv, Write
<1>10. CASE Flush \/ Failed \/ Drain
  BY <1>10 DEF Flush, Failed, Drain
<1>11. CASE Expire \/ PeerGone \/ Lookup \/ PushMsg \/ RoomPush \/
            TakeoverStart \/ TakeoverClose \/ EvictStart \/ EvictClose
  BY <1>11 DEF Expire, PeerGone, Lookup, PushMsg, RoomPush, TakeoverStart,
     TakeoverClose, EvictStart, EvictClose, Push
<1>12. CASE UNCHANGED vars
  BY <1>12
<1> QED BY <1>1, <1>2, <1>3, <1>4, <1>5, <1>6, <1>7, <1>8, <1>9, <1>10, <1>11,
      <1>12 DEF Next, Reader, Dispatcher

\* A websocket session closes its socket before it returns its buffer.
LEMMA SocketStep ==
    ASSUME ConnType, SocketInv, [Next]_vars
    PROVE  SocketInv'
<1> USE DEF vars, ring, buckets, pusher, closers, ConnType, SocketInv,
            ReadBufferOutlivesSocket, Goto
<1>1. CASE Auth \/ AuthReply \/ Put \/ Fail \/ StartDispatcher
  BY <1>1 DEF Auth, AuthReply, Put, Fail, StartDispatcher
<1>2. CASE RingSet \/ ReadRequest \/ ReadError
  BY <1>2 DEF RingSet, ReadRequest, ReadError
<1>3. CASE Operate
  BY <1>3 DEF Operate
<1>4. CASE RingSetAdv \/ Signal
  BY <1>4 DEF RingSetAdv, Signal
<1>5. CASE BucketDel \/ Unlist \/ DelTimer \/ PutReadBuffer \/ CloseConn \/
           Close \/ Disconnect
  BY <1>5 DEF BucketDel, Unlist, DelTimer, PutReadBuffer, CloseConn, Close,
     Disconnect
<1>6. CASE Ready \/ RingGet \/ LookRoom \/ DerefRoom \/ WriteReply \/
           WritePush \/ RingGetAdv \/ Flush \/ Failed \/ Drain
  BY <1>6 DEF Ready, RingGet, LookRoom, DerefRoom, WriteReply, WritePush,
     RingGetAdv, Flush, Failed, Drain, Write
<1>7. CASE Expire \/ PeerGone \/ Lookup \/ PushMsg \/ RoomPush \/
           TakeoverStart \/ TakeoverClose \/ EvictStart \/ EvictClose
  BY <1>7 DEF Expire, PeerGone, Lookup, PushMsg, RoomPush, TakeoverStart,
     TakeoverClose, EvictStart, EvictClose, Push
<1>8. CASE UNCHANGED vars
  BY <1>8
<1> QED BY <1>1, <1>2, <1>3, <1>4, <1>5, <1>6, <1>7, <1>8 DEF Next, Reader, Dispatcher

\* The reader comes to a slot only through the actions that write it.
LEMMA ReaderFrame ==
    ASSUME [Next]_vars
    PROVE  ReadRequest \/ Operate \/ reader' \notin {"operate", "adv"} \/ reader' = reader
<1> USE DEF vars, ring, buckets, pusher, closers, Goto
<1>1. CASE Auth \/ AuthReply \/ Put \/ Fail \/ StartDispatcher
  BY <1>1 DEF Auth, AuthReply, Put, Fail, StartDispatcher
<1>2. CASE RingSet \/ ReadRequest \/ ReadError \/ Operate \/ RingSetAdv \/
           Signal
  BY <1>2 DEF RingSet, ReadRequest, ReadError, Operate, RingSetAdv, Signal
<1>3. CASE BucketDel \/ Unlist \/ DelTimer \/ PutReadBuffer \/ CloseConn \/
           Close \/ Disconnect
  BY <1>3 DEF BucketDel, Unlist, DelTimer, PutReadBuffer, CloseConn, Close,
     Disconnect
<1>4. CASE Ready \/ RingGet \/ LookRoom \/ DerefRoom \/ WriteReply \/
           WritePush \/ RingGetAdv \/ Flush \/ Failed \/ Drain
  BY <1>4 DEF Ready, RingGet, LookRoom, DerefRoom, WriteReply, WritePush,
     RingGetAdv, Flush, Failed, Drain, Write
<1>5. CASE Expire \/ PeerGone \/ Lookup \/ PushMsg \/ RoomPush \/
           TakeoverStart \/ TakeoverClose \/ EvictStart \/ EvictClose
  BY <1>5 DEF Expire, PeerGone, Lookup, PushMsg, RoomPush, TakeoverStart,
     TakeoverClose, EvictStart, EvictClose, Push
<1>6. CASE UNCHANGED vars
  BY <1>6
<1> QED BY <1>1, <1>2, <1>3, <1>4, <1>5, <1>6 DEF Next, Reader, Dispatcher

\* The slot of a request is not written again before its answer is sent.
LEMMA SlotsStep ==
    ASSUME RingType, RingInv, SlotsInv, [Next]_vars
    PROVE  SlotsInv'
<1> USE DEF RingType
<1>1. CASE ReadRequest
  <2>1. wp - rp < Num /\ rp <= wp /\ Num \in Nat /\ Num > 0
    BY <1>1, SessionAssumption DEF ReadRequest, RingInv
  <2>2. PICK o \in Ops : slots' = [slots EXCEPT ![wp % Num] = [n |-> wp, op |-> o]]
    BY <1>1 DEF ReadRequest
  <2>3. wp % Num \in 0..Num-1
    BY <2>1
  <2>4. slots'[wp % Num].n = wp
    BY <2>2, <2>3
  <2>5. ASSUME NEW i \in rp..wp-1 PROVE slots'[i % Num].n = i
    <3>1. i \in Nat /\ wp \in Nat /\ i < wp /\ wp - i < Num
      BY <2>1
    <3>2. i % Num # wp % Num
      BY <2>1, <3>1, SlotsDiffer
    <3>3. i % Num \in 0..Num-1
      BY <2>1, <3>1
    <3> QED BY <2>2, <3>2, <3>3 DEF SlotsInv
  <2> QED BY <1>1, <2>4, <2>5 DEF ReadRequest, Goto, SlotsInv
<1>2. CASE Operate
  <2>1. wp % Num \in 0..Num-1 /\ \A i \in rp..wp-1 : i % Num \in 0..Num-1
    BY SessionAssumption
  <2>2. \/ slots' = slots
        \/ \E op \in ReplyOps : slots' = [slots EXCEPT ![wp % Num].op = op]
    BY <1>2 DEF Operate, Answered, ReplyOps
  <2>3. \A j \in 0..Num-1 : slots'[j].n = slots[j].n
    BY <2>2
  <2>4. reader' = "adv" => slots'[wp % Num].op \in ReplyOps
    BY <1>2, <2>1 DEF Operate, Answered, Goto, ReplyOps
  <2> QED BY <1>2, <2>1, <2>3, <2>4 DEF Operate, SlotsInv
<1>3. CASE RingSetAdv
  <2>1. slots' = slots /\ rp' = rp /\ wp' = wp + 1 /\ reader' = "signal"
    BY <1>3 DEF RingSetAdv, Goto
  <2>2. slots[wp % Num].n = wp
    BY <1>3 DEF RingSetAdv, SlotsInv
  <2>3. ASSUME NEW i \in rp..wp PROVE slots[i % Num].n = i
    <3>1. i \in rp..wp-1 \/ i = wp
      OBVIOUS
    <3> QED BY <3>1, <2>2 DEF SlotsInv
  <2> QED BY <2>1, <2>3 DEF SlotsInv
<1>4. CASE RingGetAdv
  BY <1>4 DEF RingGetAdv, SlotsInv
<1>5. CASE UNCHANGED ring /\ ~ReadRequest /\ ~Operate
  BY <1>5, ReaderFrame DEF ring, SlotsInv
<1> QED BY <1>1, <1>2, <1>3, <1>4, <1>5, RingFrame

\* The reader signals after it advances, and a token is only taken to work on the ring.
LEMMA NoLostStep ==
    ASSUME SignalType, Phases, NoLostWakeup, [Next]_vars
    PROVE  NoLostWakeup'
<1> USE DEF vars, ring, buckets, pusher, closers, SignalType, Signals, Phases,
            NoLostWakeup, Goto, DGoto, Handshake
<1>1. CASE Auth \/ AuthReply \/ Put \/ Fail \/ StartDispatcher
  BY <1>1, SameQueue DEF Auth, AuthReply, Put, Fail, StartDispatcher
<1>2. CASE RingSet \/ ReadRequest \/ ReadError
  BY <1>2, SameQueue DEF RingSet, ReadRequest, ReadError
<1>3. CASE Operate
  BY <1>3, SameQueue DEF Operate
<1>4. CASE RingSetAdv
  BY <1>4, SameQueue DEF RingSetAdv
<1>5. CASE Signal
  BY <1>5, SendQueues DEF Signal
<1>6. CASE BucketDel \/ Unlist \/ DelTimer \/ PutReadBuffer \/ CloseConn \/
           Disconnect
  BY <1>6, SameQueue DEF BucketDel, Unlist, DelTimer, PutReadBuffer,
     CloseConn, Disconnect
<1>7. CASE Close
  BY <1>7, SendQueues DEF Close
<1>8. CASE Ready
  BY <1>8, TakeHead DEF Ready
<1>9. CASE RingGet \/ LookRoom \/ DerefRoom
  BY <1>9, SameQueue DEF RingGet, LookRoom, DerefRoom
<1>10. CASE WriteReply \/ WritePush
  BY <1>10, SameQueue DEF WriteReply, WritePush, Write
<1>11. CASE RingGetAdv
  BY <1>11, SameQueue DEF RingGetAdv
<1>12. CASE Flush \/ Failed
  BY <1>12, SameQueue DEF Flush, Failed
<1>13. CASE Drain
  BY <1>13, SameQueue DEF Drain
<1>14. CASE Expire \/ PeerGone \/ Lookup \/ TakeoverStart \/ EvictStart
  BY <1>14, SameQueue DEF Expire, PeerGone, Lookup, TakeoverStart, EvictStart
<1>15. CASE PushMsg
  BY <1>15, PushQueues DEF PushMsg, Push
<1>16. CASE RoomPush
  BY <1>16, PushQueues DEF RoomPush, Push
<1>17. CASE TakeoverClose
  BY <1>17, SendQueues DEF TakeoverClose
<1>18. CASE EvictClose
  BY <1>18, SendQueues DEF EvictClose
<1>19. CASE UNCHANGED vars
  BY <1>19, SameQueue
<1> QED BY <1>1, <1>2, <1>3, <1>4, <1>5, <1>6, <1>7, <1>8, <1>9, <1>10, <1>11,
      <1>12, <1>13, <1>14, <1>15, <1>16, <1>17, <1>18, <1>19 DEF Next, Reader, Dispatcher

\* Until a ProtoFinish is seen there is one to come.
LEMMA FinishStep ==
    ASSUME ConnType, SignalType, Phases, FinishInv, [Next]_vars
    PROVE  FinishInv'
<1> USE DEF vars, ring, buckets, pusher, closers, ConnType, SignalType,
            Signals, Phases, FinishInv, FinishComes, Goto, DGoto, Loop,
            Handshake
<1>1. CASE Auth \/ AuthReply \/ Put \/ Fail \/ StartDispatcher
  BY <1>1, SameQueue DEF Auth, AuthReply, Put, Fail, StartDispatcher
<1>2. CASE RingSet \/ ReadRequest \/ ReadError
  BY <1>2, SameQueue DEF RingSet, ReadRequest, ReadError
<1>3. CASE Operate
  BY <1>3, SameQueue DEF Operate
<1>4. CASE RingSetAdv
  BY <1>4, SameQueue DEF RingSetAdv
<1>5. CASE Signal
  BY <1>5, SendQueues DEF Signal
<1>6. CASE BucketDel \/ Unlist \/ DelTimer \/ PutReadBuffer \/ CloseConn \/
           Disconnect
  BY <1>6, SameQueue DEF BucketDel, Unlist, DelTimer, PutReadBuffer,
     CloseConn, Disconnect
<1>7. CASE Close
  BY <1>7, SendQueues DEF Close
<1>8. CASE Ready
  BY <1>8, TakeHead DEF Ready
<1>9. CASE RingGet \/ LookRoom \/ DerefRoom
  BY <1>9, SameQueue DEF RingGet, LookRoom, DerefRoom
<1>10. CASE WriteReply \/ WritePush
  BY <1>10, SameQueue DEF WriteReply, WritePush, Write
<1>11. CASE RingGetAdv
  BY <1>11, SameQueue DEF RingGetAdv
<1>12. CASE Flush \/ Failed
  BY <1>12, SameQueue DEF Flush, Failed
<1>13. CASE Drain
  BY <1>13, TakeHead DEF Drain
<1>14. CASE Expire \/ PeerGone \/ Lookup \/ TakeoverStart \/ EvictStart
  BY <1>14, SameQueue DEF Expire, PeerGone, Lookup, TakeoverStart, EvictStart
<1>15. CASE PushMsg
  BY <1>15, PushQueues DEF PushMsg, Push
<1>16. CASE RoomPush
  BY <1>16, PushQueues DEF RoomPush, Push
<1>17. CASE TakeoverClose
  BY <1>17, SendQueues DEF TakeoverClose
<1>18. CASE EvictClose
  BY <1>18, SendQueues DEF EvictClose
<1>19. CASE UNCHANGED vars
  BY <1>19, SameQueue
<1> QED BY <1>1, <1>2, <1>3, <1>4, <1>5, <1>6, <1>7, <1>8, <1>9, <1>10, <1>11,
      <1>12, <1>13, <1>14, <1>15, <1>16, <1>17, <1>18, <1>19 DEF Next, Reader, Dispatcher

-----------------------------------------------------------------------------
(* The invariant, and the theorems it implies *)

LEMMA TypeParts == TypeOK <=> ConnType /\ FlagType /\ StateType /\ RingType /\ SignalType
  BY DEF TypeOK, ConnType, FlagType, StateType, RingType, SignalType

LEMMA InvInit == Init => Inv
<1> SUFFICES ASSUME Init PROVE Inv
  OBVIOUS
<1> USE SessionAssumption DEF Init
<1>1. ConnType /\ FlagType
  BY DEF ConnType, FlagType
<1>2. StateType
  BY DEF StateType, Readers, Dispatchers, Handshake
<1>3. RingType
  BY DEF RingType, ReplyOps
<1>4. SignalType
  BY DEF SignalType
<1>5. Phases /\ RingInv /\ SlotsInv /\ NoLostWakeup
  BY DEF Phases, Handshake, RingInv, SlotsInv, NoLostWakeup
<1>6. FinishInv
  BY DEF FinishInv, FinishComes, Queued
<1>7. RegisteredInv /\ RoomInv /\ SocketInv
  BY DEF RegisteredInv, RoomInv, PanicNeedsPipelining, SocketInv, ReadBufferOutlivesSocket
<1> QED BY <1>1, <1>2, <1>3, <1>4, <1>5, <1>6, <1>7, TypeParts DEF Inv

LEMMA InvStep == Inv /\ [Next]_vars => Inv'
<1> SUFFICES ASSUME Inv, [Next]_vars PROVE Inv'
  OBVIOUS
<1>1. /\ ConnType /\ FlagType /\ StateType /\ RingType /\ SignalType
      /\ Phases /\ RingInv /\ SlotsInv /\ FinishInv /\ NoLostWakeup
      /\ RegisteredInv /\ RoomInv /\ SocketInv
  BY TypeParts DEF Inv
<1>2. ConnType' /\ FlagType' /\ StateType' /\ RingType' /\ SignalType'
  BY <1>1, ConnStep, FlagStep, StateStep, RingTypeStep, SignalStep
<1>3. TypeOK'
  BY <1>2 DEF TypeOK, ConnType, FlagType, StateType, RingType, SignalType
<1>4. Phases' /\ RingInv' /\ SlotsInv'
  BY <1>1, PhasesStep, RingStep, SlotsStep
<1>5. FinishInv' /\ NoLostWakeup'
  BY <1>1, FinishStep, NoLostStep
<1>6. RegisteredInv' /\ RoomInv' /\ SocketInv'
  BY <1>1, RegisteredStep, RoomStep, SocketStep
<1> QED BY <1>3, <1>4, <1>5, <1>6 DEF Inv

\* The invariant holds in every reachable state.
THEOREM Invariance == Spec => []Inv
<1>1. Init => Inv
  BY InvInit
<1>2. Inv /\ [Next]_vars => Inv'
  BY InvStep
<1> QED BY <1>1, <1>2, PTL DEF Spec

\* Every variable of a session keeps its type: the signal channel never holds
\* more than SvrProto tokens, the ring counters never pass the requests made.
THEOREM TypeCorrect == Spec => []TypeOK
<1>1. Inv => TypeOK
  BY DEF Inv
<1> QED BY <1>1, Invariance, PTL

\* The reader never fills a slot the dispatcher has still to write, for every
\* size of the ring: requests are answered in order and none is overwritten.
THEOREM RingKeepsRequests == Spec => []SlotsIntact
<1>1. Inv => SlotsIntact
  BY DEF Inv, RingInv, SlotsInv, SlotsIntact
<1> QED BY <1>1, Invariance, PTL

\* A request in the ring is always being worked on or announced by a token.
THEOREM WakeupsAreKept == Spec => []NoLostWakeup
<1>1. Inv => NoLostWakeup
  BY DEF Inv
<1> QED BY <1>1, Invariance, PTL

\* A dispatcher that has not seen ProtoFinish is still to be sent one.
THEOREM DispatcherIsFinished == Spec => []FinishComes
<1>1. Inv => FinishComes
  BY DEF Inv, FinishInv
<1> QED BY <1>1, Invariance, PTL

\* The read of ch.Room after its nil test finds nil only when the client did
\* not wait for the answer to its heartbeat.
THEOREM NilRoomNeedsPipelining == Spec => []PanicNeedsPipelining
<1>1. Inv => PanicNeedsPipelining
  BY DEF Inv, RoomInv
<1> QED BY <1>1, Invariance, PTL

\* A websocket session gives its read buffer back only after it closed the
\* socket.
THEOREM BufferIsReturnedLast == Spec => []ReadBufferOutlivesSocket
<1>1. Inv => ReadBufferOutlivesSocket
  BY DEF Inv, SocketInv
<1> QED BY <1>1, Invariance, PTL

\* A second login that waits for space in the channel of the first finds its
\* dispatcher alive or about to start, unless a dropped room had refused it.
THEOREM TakeoverIsServed == Spec => []TakeoverMeetsDispatcher
<1>1. Inv => TakeoverMeetsDispatcher
  <2> SUFFICES ASSUME Inv, takeover = "send", ~refused, evict # "done", reader # "start"
               PROVE  dispatcher \notin {"none", "exit"}
    BY DEF TakeoverMeetsDispatcher
  <2>1. reader \in Loop \cup {"del"}
    BY DEF Inv, RegisteredInv
  <2>2. dispatcher # "none"
    BY <2>1 DEF Inv, Phases, Loop, Handshake
  <2>3. dispatcher # "exit"
    BY <2>1 DEF Inv, FinishInv, Loop
  <2> QED BY <2>2, <2>3
<1> QED BY <1>1, Invariance, PTL

-----------------------------------------------------------------------------
(* The session implements module Replies *)

Slot == [n : -1..MaxReq, op : Ops \cup ReplyOps]

\* Reading k slots from position a on.
LEMMA Window ==
    ASSUME NEW s \in [0..Num-1 -> Slot], NEW a \in Nat, NEW k \in Nat
    PROVE  /\ \A i \in 1..k : (a + i - 1) % Num \in 0..Num-1
           /\ [i \in 1..k |-> s[(a + i - 1) % Num]] \in Seq(Slot)
           /\ Len([i \in 1..k |-> s[(a + i - 1) % Num]]) = k
<1>1. Num \in Nat /\ Num > 0
  BY SessionAssumption
<1>2. ASSUME NEW i \in 1..k PROVE (a + i - 1) % Num \in 0..Num-1
  BY <1>1
<1> QED BY <1>1, <1>2

\* The slots of waiting requests, and those only, are read.
LEMMA PendingSlots ==
    ASSUME Inv
    PROVE  /\ Pending \in Seq(Slot) /\ Len(Pending) = wp - rp
           /\ \A i \in 1..wp-rp : Pending[i] = slots[(rp + i - 1) % Num]
           /\ \A i \in 1..wp-rp : (rp + i - 1) % Num \in 0..Num-1
           /\ wp - rp < Num => \A i \in 1..wp-rp : (rp + i - 1) % Num # wp % Num
           /\ wp % Num \in 0..Num-1
           /\ rp \in Nat /\ wp \in Nat /\ wp - rp \in Nat
           /\ slots \in [0..Num-1 -> Slot]
<1>1. RingType /\ rp <= wp
  BY TypeParts DEF Inv, RingInv
<1>2. /\ rp \in Nat /\ wp \in Nat /\ wp - rp \in Nat /\ Num \in Nat /\ Num > 0
      /\ slots \in [0..Num-1 -> Slot]
  BY <1>1, SessionAssumption DEF RingType, Slot
<1>3. /\ Pending \in Seq(Slot) /\ Len(Pending) = wp - rp
      /\ \A i \in 1..wp-rp : (rp + i - 1) % Num \in 0..Num-1
  BY <1>2, Window DEF Pending
<1>4. ASSUME NEW i \in 1..wp-rp, wp - rp < Num
      PROVE  (rp + i - 1) % Num # wp % Num
  <2>1. rp + i - 1 \in Nat /\ rp + i - 1 < wp /\ wp - (rp + i - 1) < Num
    BY <1>2, <1>4
  <2> QED BY <1>2, <2>1, SlotsDiffer
<1>5. wp % Num \in 0..Num-1
  BY <1>2
<1>6. \A i \in 1..wp-rp : Pending[i] = slots[(rp + i - 1) % Num]
  BY DEF Pending
<1> QED BY <1>2, <1>3, <1>4, <1>5, <1>6

\* A step that writes only the slot behind the waiting requests is a stutter.
LEMMA PendingKept ==
    ASSUME Inv, rp' = rp, wp' = wp,
           \A j \in 0..Num-1 : slots'[j] = slots[j] \/ (j = wp % Num /\ wp - rp < Num)
    PROVE  UNCHANGED Client!vars
<1>1. \A i \in 1..wp-rp : slots'[(rp + i - 1) % Num] = slots[(rp + i - 1) % Num]
  BY PendingSlots
<1>2. Pending' = Pending
  BY <1>1 DEF Pending
<1> QED BY <1>2 DEF Client!vars

\* The reader accepts a request when it advances the ring.
LEMMA AdvanceAccepts ==
    ASSUME Inv, RingSetAdv
    PROVE  Client!Accept
<1>1. /\ slots' = slots /\ rp' = rp /\ wp' = wp + 1
      /\ wp - rp < Num
      /\ slots[wp % Num].n = wp /\ slots[wp % Num].op \in ReplyOps
      /\ rp \in Nat /\ wp \in Nat /\ rp <= wp
  BY SessionAssumption DEF RingSetAdv, Inv, RingInv, SlotsInv, TypeOK
<1> DEFINE x == slots[wp % Num]
<1>2. x = [n |-> wp, op |-> x.op]
  BY <1>1, PendingSlots DEF Inv, TypeOK
<1>3. Pending' = Append(Pending, x)
  <2>1. Pending' = [i \in 1..(wp + 1 - rp) |-> slots[(rp + i - 1) % Num]]
    BY <1>1 DEF Pending
  <2>2. Pending' \in Seq(Slot) /\ Len(Pending') = wp + 1 - rp
    <3>1. wp + 1 - rp \in Nat
      BY <1>1
    <3> QED BY <1>1, <2>1, <3>1, PendingSlots, Window
  <2>3. /\ x \in Slot /\ Append(Pending, x) \in Seq(Slot)
        /\ Len(Append(Pending, x)) = wp + 1 - rp
    BY <1>1, PendingSlots
  <2>4. ASSUME NEW i \in 1..(wp + 1 - rp) PROVE Pending'[i] = Append(Pending, x)[i]
    <3>1. Pending'[i] = slots[(rp + i - 1) % Num]
      BY <2>1
    <3>2. CASE i = wp - rp + 1
      <4>1. rp + i - 1 = wp /\ Append(Pending, x)[i] = x
        BY <1>1, <3>2, <2>3, PendingSlots
      <4> QED BY <3>1, <4>1
    <3>3. CASE i # wp - rp + 1
      <4>1. i \in 1..wp-rp
        BY <1>1, <3>3
      <4>2. Append(Pending, x)[i] = Pending[i]
        BY <4>1, <2>3, PendingSlots
      <4> QED BY <3>1, <4>1, <4>2, PendingSlots
    <3> QED BY <3>2, <3>3
  <2> HIDE DEF x
  <2> QED BY <2>2, <2>3, <2>4, SeqEqual
<1>4. Len(Pending) < Num
  BY <1>1, PendingSlots
<1> HIDE DEF x
<1>5. x.op \in ReplyOps
  BY <1>1 DEF x
<1> QED BY <1>1, <1>2, <1>3, <1>4, <1>5 DEF Client!Accept

\* The dispatcher has written an answer when it advances the ring.
LEMMA AdvanceWrites ==
    ASSUME Inv, RingGetAdv
    PROVE  Client!Write
<1>1. /\ slots' = slots /\ rp' = rp + 1 /\ wp' = wp
      /\ rp < wp /\ rp \in Nat /\ wp \in Nat
  BY SessionAssumption DEF RingGetAdv, Inv, RingInv, TypeOK
<1>2. Len(Pending) = wp - rp /\ Pending # <<>>
  BY <1>1, PendingSlots
<1>3. Pending' = Tail(Pending)
  <2>1. Pending' = [i \in 1..(wp - (rp + 1)) |-> slots[((rp + 1) + i - 1) % Num]]
    BY <1>1 DEF Pending
  <2>2. rp + 1 \in Nat /\ wp - (rp + 1) \in Nat
    BY <1>1
  <2>3. Pending' \in Seq(Slot) /\ Len(Pending') = wp - (rp + 1)
    BY <2>1, <2>2, PendingSlots, Window
  <2>4. Tail(Pending) \in Seq(Slot) /\ Len(Tail(Pending)) = wp - (rp + 1)
    BY <1>1, <1>2, PendingSlots
  <2>5. ASSUME NEW i \in 1..(wp - (rp + 1)) PROVE Pending'[i] = Tail(Pending)[i]
    <3>1. /\ i + 1 \in 1..wp-rp /\ (rp + 1) + i - 1 = rp + (i + 1) - 1
          /\ Tail(Pending)[i] = Pending[i + 1]
      BY <1>1, <1>2, <2>4, PendingSlots
    <3> QED BY <2>1, <3>1, PendingSlots
  <2> QED BY <2>3, <2>4, <2>5, SeqEqual
<1> QED BY <1>1, <1>2, <1>3 DEF Client!Write

\* The session implements the queue of answers of module Replies, for every
\* size of the ring and of the signal channel.
THEOREM SessionAnswersInOrder == Spec => AnswersInOrder
<1>1. Init => Client!Init
  BY DEF Init, Client!Init, Pending
<1>2. Inv /\ [Next]_vars => [Client!Next]_(Client!vars)
  <2> SUFFICES ASSUME Inv, [Next]_vars PROVE Client!Next \/ UNCHANGED Client!vars
    OBVIOUS
  <2>1. CASE UNCHANGED ring
    BY <2>1, PendingKept DEF ring
  <2>2. CASE ReadRequest
    <3>1. /\ rp' = rp /\ wp' = wp /\ wp - rp < Num
          /\ \E o \in Ops : slots' = [slots EXCEPT ![wp % Num] = [n |-> wp, op |-> o]]
      BY <2>2 DEF ReadRequest, Inv, RingInv
    <3>2. \A j \in 0..Num-1 : slots'[j] = slots[j] \/ j = wp % Num
      BY <3>1 DEF Inv, TypeOK
    <3> QED BY <3>1, <3>2, PendingKept
  <2>3. CASE Operate
    <3>1. /\ rp' = rp /\ wp' = wp /\ wp - rp < Num
          /\ \/ slots' = slots
             \/ \E op \in ReplyOps : slots' = [slots EXCEPT ![wp % Num].op = op]
      BY <2>3 DEF Operate, Answered, ReplyOps, Inv, RingInv
    <3>2. \A j \in 0..Num-1 : slots'[j] = slots[j] \/ j = wp % Num
      BY <3>1 DEF Inv, TypeOK
    <3> QED BY <3>1, <3>2, PendingKept
  <2>4. CASE RingSetAdv
    BY <2>4, AdvanceAccepts DEF Client!Next
  <2>5. CASE RingGetAdv
    BY <2>5, AdvanceWrites DEF Client!Next
  <2> QED BY <2>1, <2>2, <2>3, <2>4, <2>5, RingFrame
<1> QED BY <1>1, <1>2, Invariance, PTL DEF Spec, AnswersInOrder, Client!Spec
=============================================================================
