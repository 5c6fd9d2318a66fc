------------------------------ MODULE JobRoom ------------------------------
(***************************************************************************)
(* The rooms of job (internal/job/room.go): consumers of kafka look up the *)
(* Room of a message, or make one, and push into its channel; a goroutine  *)
(* per Room collects a batch, sends it on, and leaves when a timeout finds *)
(* nothing to send.  The timeout is a time.AfterFunc whose function puts a *)
(* mark into the same channel, if there is space.                          *)
(*                                                                         *)
(* Time is only what the code compares: late[o] says that Signal passed    *)
(* since the first message of the batch.  An idle timer may go off at any  *)
(* time.                                                                   *)
(***************************************************************************)
EXTENDS Integers, Sequences

CONSTANTS
    Consumers,  \* goroutines that run push, one for each partition
    Rooms,      \* room ids
    Objects,    \* Room structs
    None,       \* nil
    Ready,      \* roomReadyProto
    Batch,      \* conf.Room.Batch
    MaxMsgs     \* bound: messages of type ROOM

Msgs == 1..MaxMsgs

ASSUME JobRoomAssumption ==
    /\ None \notin Objects /\ None \notin Rooms
    /\ Ready \notin Msgs
    /\ Batch \in Nat \ {0}
    /\ MaxMsgs \in Nat

VARIABLES
    rooms,              \* j.rooms
    id, proto,          \* r.id, r.proto
    goroutine,          \* where pushproc of an object is
    buf,                \* its batch: n is the length
    late,               \* Signal passed since last
    td, firing,         \* its timer; functions started and not yet run
    consumer, room, at, \* where push is, its room id, its Room
    pushed,             \* messages so far
    sent                \* the last batch for each room

objectVars == <<id, goroutine, buf, late, td>>
consumerVars == <<consumer, room, at, pushed>>
vars == <<rooms, objectVars, proto, firing, consumerVars, sent>>

Capacity == 2 * Batch

\* A first message never completes a batch.
Limit == IF Batch < 2 THEN 2 ELSE Batch

Init ==
    /\ rooms = [r \in Rooms |-> None]
    /\ id = [o \in Objects |-> None]
    /\ proto = [o \in Objects |-> <<>>]
    /\ goroutine = [o \in Objects |-> "none"]
    /\ buf = [o \in Objects |-> <<>>]
    /\ late = [o \in Objects |-> FALSE]
    /\ td = [o \in Objects |-> "off"]
    /\ firing = [o \in Objects |-> 0]
    /\ consumer = [c \in Consumers |-> "next"]
    /\ room = [c \in Consumers |-> None]
    /\ at = [c \in Consumers |-> None]
    /\ pushed = 0
    /\ sent = [r \in Rooms |-> <<>>]

-----------------------------------------------------------------------------
(* getRoom and Room.Push of a consumer *)

\* The lookup under the read lock.
GetRoom(c) ==
    /\ consumer[c] = "next"
    /\ pushed < MaxMsgs
    /\ \E r \in Rooms :
        /\ room' = [room EXCEPT ![c] = r]
        /\ at' = [at EXCEPT ![c] = rooms[r]]
        /\ consumer' =
            [consumer EXCEPT ![c] = IF rooms[r] = None THEN "make" ELSE "push"]
    /\ UNCHANGED <<rooms, objectVars, proto, firing, pushed, sent>>

\* An object nobody can reach may be allocated again.
Unreachable(o) ==
    /\ goroutine[o] \in {"none", "gone"}
    /\ firing[o] = 0
    /\ \A c \in Consumers : at[c] # o

\* NewRoom, with the start of pushproc: the first timer may find no message.
NewRoom(o, r) ==
    /\ Unreachable(o)
    /\ id' = [id EXCEPT ![o] = r]
    /\ proto' = [proto EXCEPT ![o] = <<>>]
    /\ goroutine' = [goroutine EXCEPT ![o] = "loop"]
    /\ buf' = [buf EXCEPT ![o] = <<>>]
    /\ late' = [late EXCEPT ![o] = FALSE]
    /\ td' = [td EXCEPT ![o] = "idle"]

\* The second lookup, under the write lock.
Make(c) ==
    /\ consumer[c] = "make"
    /\ \/ /\ rooms[room[c]] # None
          /\ at' = [at EXCEPT ![c] = rooms[room[c]]]
          /\ UNCHANGED <<rooms, objectVars, proto>>
       \/ /\ rooms[room[c]] = None
          /\ \E o \in Objects :
                /\ NewRoom(o, room[c])
                /\ rooms' = [rooms EXCEPT ![room[c]] = o]
                /\ at' = [at EXCEPT ![c] = o]
    /\ consumer' = [consumer EXCEPT ![c] = "push"]
    /\ UNCHANGED <<firing, room, pushed, sent>>

\* A send with default: what finds the channel full is dropped.
Offer(o, m) ==
    proto' = IF Len(proto[o]) < Capacity
             THEN [proto EXCEPT ![o] = Append(@, m)] ELSE proto

\* Room.Push; the consumer goes on whatever came of it.
Push(c) ==
    /\ consumer[c] = "push"
    /\ pushed < MaxMsgs
    /\ pushed' = pushed + 1
    /\ Offer(at[c], pushed')
    /\ consumer' = [consumer EXCEPT ![c] = "next"]
    /\ room' = [room EXCEPT ![c] = None]
    /\ at' = [at EXCEPT ![c] = None]
    /\ UNCHANGED <<rooms, objectVars, firing, sent>>

-----------------------------------------------------------------------------
(* pushproc *)

Received(o) ==
    /\ goroutine[o] = "loop"
    /\ proto[o] # <<>>
    /\ proto' = [proto EXCEPT ![o] = Tail(@)]

Collect(o) ==
    /\ Head(proto[o]) # Ready
    /\ buf' = [buf EXCEPT ![o] = Append(@, Head(proto[o]))]

\* Fault: the timer is not set for the new batch.
TakeFirstNoReset(o) ==
    /\ Received(o)
    /\ Collect(o)
    /\ buf[o] = <<>>
    /\ late' = [late EXCEPT ![o] = FALSE]
    /\ UNCHANGED <<rooms, id, goroutine, td, firing, consumerVars, sent>>

TakeFirst(o) ==
    /\ Received(o)
    /\ Collect(o)
    /\ buf[o] = <<>>
    /\ late' = [late EXCEPT ![o] = FALSE]
    /\ td' = [td EXCEPT ![o] = "signal"]
    /\ UNCHANGED <<rooms, id, goroutine, firing, consumerVars, sent>>

\* A further message: the batch is complete, or late, or goes on.
TakeNext(o) ==
    /\ Received(o)
    /\ Collect(o)
    /\ buf[o] # <<>>
    /\ goroutine' =
        [goroutine EXCEPT ![o] =
            IF Len(buf'[o]) < Batch /\ ~late[o] THEN "loop" ELSE "send"]
    /\ UNCHANGED <<rooms, id, late, td, firing, consumerVars, sent>>

\* Fault: every mark ends the goroutine.
TakeReadyExits(o) ==
    /\ Received(o)
    /\ Head(proto[o]) = Ready
    /\ goroutine' = [goroutine EXCEPT ![o] = "exit"]
    /\ UNCHANGED <<rooms, id, buf, late, td, firing, consumerVars, sent>>

\* The mark sends the batch, or ends the goroutine if there is none.
TakeReady(o) ==
    /\ Received(o)
    /\ Head(proto[o]) = Ready
    /\ goroutine' =
        [goroutine EXCEPT ![o] = IF buf[o] = <<>> THEN "exit" ELSE "send"]
    /\ UNCHANGED <<rooms, id, buf, late, td, firing, consumerVars, sent>>

\* To the comets, which Fanout has.
broadcastRoomRawBytes(rid, batch) == sent' = [sent EXCEPT ![rid] = batch]

\* Fault: the timer is not set again.
BroadcastNoReset(o) ==
    /\ goroutine[o] = "send"
    /\ broadcastRoomRawBytes(id[o], buf[o])
    /\ buf' = [buf EXCEPT ![o] = <<>>]
    /\ goroutine' = [goroutine EXCEPT ![o] = "loop"]
    /\ UNCHANGED <<rooms, id, proto, late, td, firing, consumerVars>>

\* The batch goes out, a new buffer is taken, and the timer is set to Idle.
Broadcast(o) ==
    /\ goroutine[o] = "send"
    /\ broadcastRoomRawBytes(id[o], buf[o])
    /\ buf' = [buf EXCEPT ![o] = <<>>]
    /\ td' = [td EXCEPT ![o] = "idle"]
    /\ goroutine' = [goroutine EXCEPT ![o] = "loop"]
    /\ UNCHANGED <<rooms, id, proto, late, firing, consumerVars>>

\* delRoom, by name, and td.Stop.
DelRoom(o) ==
    /\ goroutine[o] = "exit"
    /\ rooms' = [rooms EXCEPT ![id[o]] = None]
    /\ td' = [td EXCEPT ![o] = "off"]
    /\ goroutine' = [goroutine EXCEPT ![o] = "gone"]
    /\ UNCHANGED <<id, proto, buf, late, firing, consumerVars, sent>>

-----------------------------------------------------------------------------
(* The timer *)

\* Signal has passed since the batch was begun.
Elapse(o) ==
    /\ buf[o] # <<>>
    /\ ~late[o]
    /\ late' = [late EXCEPT ![o] = TRUE]
    /\ UNCHANGED <<rooms, id, proto, goroutine, buf, td, firing, consumerVars, sent>>

\* The timer goes off: its function starts in a goroutine of its own.
Fire(o) ==
    /\ td[o] = "idle" \/ (td[o] = "signal" /\ late[o])
    /\ td' = [td EXCEPT ![o] = "off"]
    /\ firing' = [firing EXCEPT ![o] = @ + 1]
    /\ UNCHANGED <<rooms, id, proto, goroutine, buf, late, consumerVars, sent>>

\* The function of AfterFunc, which a later Reset does not stop.
SendReady(o) ==
    /\ firing[o] > 0
    /\ firing' = [firing EXCEPT ![o] = @ - 1]
    /\ Offer(o, Ready)
    /\ UNCHANGED <<rooms, objectVars, consumerVars, sent>>

PushProc(o) == TakeFirst(o) \/ TakeNext(o) \/ TakeReady(o) \/ Broadcast(o) \/ DelRoom(o)
Timer(o) == Elapse(o) \/ Fire(o) \/ SendReady(o)
Consumer(c) == GetRoom(c) \/ Make(c) \/ Push(c)

\* No message comes any more and every room is gone.
Done ==
    /\ pushed = MaxMsgs
    /\ \A o \in Objects : goroutine[o] \in {"none", "gone"} /\ firing[o] = 0
    /\ UNCHANGED vars

Next ==
    \/ \E c \in Consumers : Consumer(c)
    \/ \E o \in Objects : PushProc(o) \/ Timer(o)
    \/ Done

Spec == Init /\ [][Next]_vars

\* Goroutines run, time passes, timers go off; consumers need not push.
FairSpec ==
    /\ Spec
    /\ \A o \in Objects :
        WF_vars(PushProc(o)) /\ WF_vars(Elapse(o)) /\ WF_vars(Fire(o)) /\ WF_vars(SendReady(o))

-----------------------------------------------------------------------------
(* Properties *)

TypeOK ==
    /\ rooms \in [Rooms -> Objects \cup {None}]
    /\ id \in [Objects -> Rooms \cup {None}]
    /\ proto \in [Objects -> Seq(Msgs \cup {Ready})]
    /\ \A o \in Objects : Len(proto[o]) <= Capacity
    /\ goroutine \in [Objects -> {"none", "loop", "send", "exit", "gone"}]
    /\ buf \in [Objects -> Seq(Msgs)]
    /\ late \in [Objects -> BOOLEAN]
    /\ td \in [Objects -> {"off", "idle", "signal"}]
    /\ firing \in [Objects -> Nat]
    /\ consumer \in [Consumers -> {"next", "make", "push"}]
    /\ room \in [Consumers -> Rooms \cup {None}]
    /\ at \in [Consumers -> Objects \cup {None}]
    /\ pushed \in 0..MaxMsgs
    /\ sent \in [Rooms -> Seq(Msgs)]

Live(o) == goroutine[o] \in {"loop", "send", "exit"}

\* A room id has at most one goroutine, and it is in the map exactly as long
\* as that goroutine runs: delRoom, which deletes by name, never deletes the
\* successor of its room, and two consumers never make two rooms.
OneGoroutine ==
    /\ \A o \in Objects : Live(o) => id[o] \in Rooms /\ rooms[id[o]] = o
    /\ \A r \in Rooms : rooms[r] # None => Live(rooms[r]) /\ id[rooms[r]] = r

\* No batch is forgotten and no idle room stays: a goroutine that waits has a
\* timer set, or a mark on its way, or something in its channel that ends the
\* wait, also when the mark was dropped because the channel was full.
WakeupComes ==
    \A o \in Objects :
        goroutine[o] = "loop" =>
            \/ td[o] # "off"
            \/ firing[o] > 0
            \/ proto[o] # <<>> /\ (buf[o] # <<>> => late[o])

\* What a room has accepted and not yet taken; after the mark that ended its
\* goroutine, nothing.
Accepted ==
    [r \in Rooms |->
        IF rooms[r] = None THEN <<>>
        ELSE IF goroutine[rooms[r]] = "exit" THEN <<>> ELSE proto[rooms[r]]]

Taken == [r \in Rooms |-> IF rooms[r] = None THEN <<>> ELSE buf[rooms[r]]]

Queue == INSTANCE RoomQueue WITH queue <- Accepted, batch <- Taken, Mark <- Ready

\* However rooms come and go, a room is one queue: messages go out once, in
\* the order in which they were accepted, in batches of at most Limit, and are
\* lost only behind a mark that found no batch.
ImplementsRoomQueue == Queue!Spec

\* A goroutine does not wait for ever: it sends its batch, or leaves.
LoopEnds == \A o \in Objects : goroutine[o] = "loop" ~> goroutine[o] # "loop"
=============================================================================
