------------------------------- MODULE Bucket -------------------------------
(***************************************************************************)
(* A bucket of the comet server (internal/comet/bucket.go) with the rooms  *)
(* it maps (internal/comet/room.go): the table of channels by key, the     *)
(* table of rooms by id, the connection count of every IP, and the doubly  *)
(* linked list of channels each room keeps.                                *)
(*                                                                         *)
(* A process is the reader goroutine of one connection, named by its       *)
(* channel.  It runs Bucket.Put once, then any number of ChangeRoom, then  *)
(* Bucket.Del.  An action is one region under cLock or rLock, or one       *)
(* access outside of every lock, so that the regions of different          *)
(* goroutines interleave as they do in the server.  Sends of ProtoFinish   *)
(* are recorded in told; that such a send can block is the subject of      *)
(* module Session.                                                         *)
(***************************************************************************)
EXTENDS Integers, FiniteSets

CONSTANTS
    Channels,   \* the channels (connections) that ever use this bucket
    Keys,       \* subscription keys
    IPs,        \* client addresses
    RoomIds,    \* room names
    Rooms,      \* the pool of Room objects; a garbage one is allocated again
    None,       \* nil, and the empty room name
    KeyOf,      \* Channel.Key
    IPOf,       \* Channel.IP
    MaxMoves    \* bound: ChangeRoom calls of all channels together

ASSUME BucketAssumption ==
    /\ None \notin Channels \cup RoomIds \cup Rooms
    /\ IsFiniteSet(Channels)
    /\ KeyOf \in [Channels -> Keys]
    /\ IPOf \in [Channels -> IPs]
    /\ MaxMoves \in Nat

VARIABLES
    chs, rooms, ipCnts,         \* Bucket
    id, head, drop, online,     \* Room: ID, next, drop, Online
    room, next, prev,           \* Channel: Room, Next, Prev
    pc, op, to,                 \* the reader goroutine: where, which call, nroom
    moves,                      \* ChangeRoom calls made
    told,                       \* channels another goroutine sent ProtoFinish
    displaced,                  \* history: channels whose key was taken over
    mem,                        \* history: the room c was Put in and not Del'ed
    hurt                        \* history: rooms that Del'ed a channel they did not hold

bucketVars == <<chs, rooms, ipCnts>>
roomVars == <<id, head, drop, online, hurt>>
linkVars == <<next, prev, mem>>
vars == <<bucketVars, roomVars, linkVars, room, pc, op, to, moves, told, displaced>>

Pcs == {"new", "join", "live", "leave", "left", "unmap", "close",
        "enter", "out", "gone", "refused"}

Init ==
    /\ chs = [k \in Keys |-> None]
    /\ rooms = [rid \in RoomIds |-> None]
    /\ ipCnts = [ip \in IPs |-> 0]
    /\ id = [r \in Rooms |-> None]
    /\ head = [r \in Rooms |-> None]
    /\ drop = [r \in Rooms |-> FALSE]
    /\ online = [r \in Rooms |-> 0]
    /\ hurt = [r \in Rooms |-> FALSE]
    /\ room = [c \in Channels |-> None]
    /\ next = [c \in Channels |-> None]
    /\ prev = [c \in Channels |-> None]
    /\ mem = [c \in Channels |-> None]
    /\ pc = [c \in Channels |-> "new"]
    /\ op = [c \in Channels |-> "none"]
    /\ to = [c \in Channels |-> None]
    /\ moves = 0
    /\ told = {}
    /\ displaced = {}

-----------------------------------------------------------------------------
(* Rooms *)

Members(r) == {c \in Channels : mem[c] = r}

\* A goroutine that has left ServeTCP holds no Room any more.
Ended(c) == pc[c] \in {"gone", "refused"}

\* No goroutine, list or map can reach the object: NewRoom may return it.
Garbage(r) ==
    /\ \A rid \in RoomIds : rooms[rid] # r
    /\ \A c \in Channels : ~Ended(c) => room[c] # r /\ to[c] # r

NewRoom(r, rid) ==
    /\ id' = [id EXCEPT ![r] = rid]
    /\ head' = [head EXCEPT ![r] = None]
    /\ drop' = [drop EXCEPT ![r] = FALSE]
    /\ online' = [online EXCEPT ![r] = 0]
    /\ hurt' = [hurt EXCEPT ![r] = FALSE]

\* r is the room mapped at rid, made now if there is none.
RoomAt(r, rid) ==
    \/ /\ rooms[rid] = r
       /\ UNCHANGED <<rooms, roomVars>>
    \/ /\ rooms[rid] = None
       /\ Garbage(r)
       /\ rooms' = [rooms EXCEPT ![rid] = r]
       /\ NewRoom(r, rid)

\* Fault: the old head keeps its Prev.
RoomPutOneWay(r, c) ==
    /\ prev' = [prev EXCEPT ![c] = None]
    /\ next' = [next EXCEPT ![c] = head[r]]
    /\ head' = [head EXCEPT ![r] = c]
    /\ online' = [online EXCEPT ![r] = @ + 1]
    /\ mem' = [mem EXCEPT ![c] = r]
    /\ UNCHANGED <<id, drop, hurt>>

\* Room.Put on a room that is not dropped: c becomes the head of the list.
RoomPut(r, c) ==
    /\ prev' = [x \in Channels |-> IF x = c THEN None
                                  ELSE IF x = head[r] THEN c ELSE prev[x]]
    /\ next' = [next EXCEPT ![c] = head[r]]
    /\ head' = [head EXCEPT ![r] = c]
    /\ online' = [online EXCEPT ![r] = @ + 1]
    /\ mem' = [mem EXCEPT ![c] = r]
    /\ UNCHANGED <<id, drop, hurt>>

\* Fault: a head that leaves empties the list.
RoomDelCuts(r, c) ==
    /\ prev' = [x \in Channels |-> IF x = c THEN None
                                  ELSE IF x = next[c] THEN prev[c] ELSE prev[x]]
    /\ next' = [x \in Channels |-> IF x = c THEN None
                                  ELSE IF x = prev[c] THEN next[c] ELSE next[x]]
    /\ head' = IF prev[c] = None THEN [head EXCEPT ![r] = None] ELSE head
    /\ online' = [online EXCEPT ![r] = @ - 1]
    /\ drop' = [drop EXCEPT ![r] = (online[r] = 1)]
    /\ mem' = [mem EXCEPT ![c] = None]
    /\ hurt' = [hurt EXCEPT ![r] = @ \/ mem[c] # r]
    /\ UNCHANGED id

\* Fault: the room is dropped with one member left.
RoomDelEarly(r, c) ==
    /\ prev' = [x \in Channels |-> IF x = c THEN None
                                  ELSE IF x = next[c] THEN prev[c] ELSE prev[x]]
    /\ next' = [x \in Channels |-> IF x = c THEN None
                                  ELSE IF x = prev[c] THEN next[c] ELSE next[x]]
    /\ head' = IF prev[c] = None THEN [head EXCEPT ![r] = next[c]] ELSE head
    /\ online' = [online EXCEPT ![r] = @ - 1]
    /\ drop' = [drop EXCEPT ![r] = (online[r] <= 2)]
    /\ mem' = [mem EXCEPT ![c] = None]
    /\ hurt' = [hurt EXCEPT ![r] = @ \/ mem[c] # r]
    /\ UNCHANGED id

\* Room.Del: unlinks c whether or not it is in the list of r.
RoomDel(r, c) ==
    /\ prev' = [x \in Channels |-> IF x = c THEN None
                                  ELSE IF x = next[c] THEN prev[c] ELSE prev[x]]
    /\ next' = [x \in Channels |-> IF x = c THEN None
                                  ELSE IF x = prev[c] THEN next[c] ELSE next[x]]
    /\ head' = IF prev[c] = None THEN [head EXCEPT ![r] = next[c]] ELSE head
    /\ online' = [online EXCEPT ![r] = @ - 1]
    /\ drop' = [drop EXCEPT ![r] = (online[r] = 1)]
    /\ mem' = [mem EXCEPT ![c] = None]
    /\ hurt' = [hurt EXCEPT ![r] = @ \/ mem[c] # r]
    /\ UNCHANGED id

\* The channels met by the walk of Room.Push and Room.Close from r.next along
\* Next: the least set that holds the head and is closed under Next.
Walk(r) ==
    {c \in Channels : \A S \in SUBSET Channels :
        /\ head[r] # None => head[r] \in S
        /\ \A x \in S : next[x] # None => next[x] \in S
        => c \in S}

-----------------------------------------------------------------------------
(* Bucket.Put *)

\* The region under cLock, without a room (rid = "").
PutAlone(c) ==
    /\ pc[c] = "new"
    /\ pc' = [pc EXCEPT ![c] = "live"]
    /\ UNCHANGED <<rooms, roomVars, room>>

\* The region under cLock with a room: the channel is tied to it, not yet in it.
PutIn(c, rid) ==
    /\ pc[c] = "new"
    /\ \E r \in Rooms : RoomAt(r, rid) /\ room' = [room EXCEPT ![c] = r]
    /\ pc' = [pc EXCEPT ![c] = "join"]

\* Fault: the channel that loses the key is not closed.
RegisterSilently(c) ==
    /\ displaced' = displaced \cup ({chs[KeyOf[c]]} \ {None})
    /\ chs' = [chs EXCEPT ![KeyOf[c]] = c]
    /\ ipCnts' = [ipCnts EXCEPT ![IPOf[c]] = @ + 1]
    /\ UNCHANGED told

Register(c) ==
    /\ LET dch == chs[KeyOf[c]] IN
       IF dch = None
       THEN UNCHANGED <<told, displaced>>
       ELSE /\ told' = told \cup {dch}
            /\ displaced' = displaced \cup {dch}
    /\ chs' = [chs EXCEPT ![KeyOf[c]] = c]
    /\ ipCnts' = [ipCnts EXCEPT ![IPOf[c]] = @ + 1]

Put(c) ==
    /\ PutAlone(c) \/ \E rid \in RoomIds : PutIn(c, rid)
    /\ Register(c)
    /\ UNCHANGED <<linkVars, op, to, moves>>

\* Fault: Room.Put does not look at drop.
JoinDropped(c) ==
    /\ pc[c] = "join"
    /\ pc' = [pc EXCEPT ![c] = "live"]
    /\ RoomPut(room[c], c)
    /\ UNCHANGED <<bucketVars, room, op, to, moves, told, displaced>>

\* The room.Put that ends Bucket.Put.  ErrRoomDroped makes ServeTCP close the
\* connection and return without Bucket.Del.
Join(c) ==
    /\ pc[c] = "join"
    /\ IF drop[room[c]]
       THEN /\ pc' = [pc EXCEPT ![c] = "refused"]
            /\ UNCHANGED <<roomVars, linkVars>>
       ELSE /\ pc' = [pc EXCEPT ![c] = "live"]
            /\ RoomPut(room[c], c)
    /\ UNCHANGED <<bucketVars, room, op, to, moves, told, displaced>>

-----------------------------------------------------------------------------
(* Bucket.ChangeRoom *)

\* Where the call goes once the old room is left, and how it starts.
Rest(o) == IF o = "move" THEN "enter" ELSE IF o = "out" THEN "out" ELSE "gone"
Start(c, o) == IF room[c] = None THEN Rest(o) ELSE "leave"

ChangeRoomToNone(c) ==
    /\ pc[c] = "live"
    /\ moves < MaxMoves
    /\ moves' = moves + 1
    /\ op' = [op EXCEPT ![c] = "out"]
    /\ pc' = [pc EXCEPT ![c] = Start(c, "out")]
    /\ UNCHANGED <<bucketVars, roomVars, linkVars, room, to, told, displaced>>

\* The region under cLock that finds or makes the new room.
ChangeRoom(c, rid) ==
    /\ pc[c] = "live"
    /\ moves < MaxMoves
    /\ moves' = moves + 1
    /\ \E r \in Rooms : RoomAt(r, rid) /\ to' = [to EXCEPT ![c] = r]
    /\ op' = [op EXCEPT ![c] = "move"]
    /\ pc' = [pc EXCEPT ![c] = Start(c, "move")]
    /\ UNCHANGED <<chs, ipCnts, linkVars, room, told, displaced>>

\* nroom.Put; on ErrRoomDroped ch.Room keeps its old value and the
\* connection goes on (Operate only logs the error).
Enter(c) ==
    /\ pc[c] = "enter"
    /\ IF drop[to[c]]
       THEN UNCHANGED <<roomVars, linkVars, room>>
       ELSE RoomPut(to[c], c) /\ room' = [room EXCEPT ![c] = to[c]]
    /\ pc' = [pc EXCEPT ![c] = "live"]
    /\ to' = [to EXCEPT ![c] = None]
    /\ op' = [op EXCEPT ![c] = "none"]
    /\ UNCHANGED <<bucketVars, moves, told, displaced>>

\* ch.Room = nil
Out(c) ==
    /\ pc[c] = "out"
    /\ room' = [room EXCEPT ![c] = None]
    /\ pc' = [pc EXCEPT ![c] = "live"]
    /\ op' = [op EXCEPT ![c] = "none"]
    /\ UNCHANGED <<bucketVars, roomVars, linkVars, to, moves, told, displaced>>

-----------------------------------------------------------------------------
(* Bucket.Del *)

\* Fault: the last connection of an IP is not counted out.
UnregisterKeepsIP(c) ==
    LET ch == chs[KeyOf[c]] IN
    /\ chs' = IF ch = c THEN [chs EXCEPT ![KeyOf[c]] = None] ELSE chs
    /\ ipCnts' = IF ch = None THEN ipCnts
                 ELSE [ipCnts EXCEPT ![IPOf[ch]] = IF @ > 1 THEN @ - 1 ELSE @]

\* Fault: the channel stays in chs.
UnregisterKeepsKey(c) ==
    LET ch == chs[KeyOf[c]] IN
    /\ ipCnts' = IF ch = None THEN ipCnts
                 ELSE [ipCnts EXCEPT ![IPOf[ch]] = IF @ > 1 THEN @ - 1 ELSE 0]
    /\ UNCHANGED chs

\* The region under cLock: the IP that loses a connection is that of the
\* channel found under the key.
Unregister(c) ==
    LET ch == chs[KeyOf[c]] IN
    /\ chs' = IF ch = c THEN [chs EXCEPT ![KeyOf[c]] = None] ELSE chs
    /\ ipCnts' = IF ch = None THEN ipCnts
                 ELSE [ipCnts EXCEPT ![IPOf[ch]] = IF @ > 1 THEN @ - 1 ELSE 0]

Del(c) ==
    /\ pc[c] = "live"
    /\ Unregister(c)
    /\ op' = [op EXCEPT ![c] = "del"]
    /\ pc' = [pc EXCEPT ![c] = Start(c, "del")]
    /\ UNCHANGED <<rooms, roomVars, linkVars, room, to, moves, told, displaced>>

-----------------------------------------------------------------------------
(* Leaving the old room: Room.Del, the read of drop, DelRoom *)

\* Room.Del under rLock.
Leave(c) ==
    /\ pc[c] = "leave"
    /\ RoomDel(room[c], c)
    /\ pc' = [pc EXCEPT ![c] = "left"]
    /\ UNCHANGED <<bucketVars, room, op, to, moves, told, displaced>>

\* Fault: ChangeRoom never removes the room it leaves.
ReadDropOnDel(c) ==
    /\ pc[c] = "left"
    /\ pc' = [pc EXCEPT ![c] = IF drop[room[c]] /\ op[c] = "del" THEN "unmap"
                               ELSE Rest(op[c])]
    /\ UNCHANGED <<bucketVars, roomVars, linkVars, room, op, to, moves, told, displaced>>

\* "return r.drop", after rLock was released.
ReadDrop(c) ==
    /\ pc[c] = "left"
    /\ pc' = [pc EXCEPT ![c] = IF drop[room[c]] THEN "unmap" ELSE Rest(op[c])]
    /\ UNCHANGED <<bucketVars, roomVars, linkVars, room, op, to, moves, told, displaced>>

\* DelRoom under cLock: whatever room is mapped at the id goes.
Unmap(c) ==
    /\ pc[c] = "unmap"
    /\ rooms' = [rooms EXCEPT ![id[room[c]]] = None]
    /\ pc' = [pc EXCEPT ![c] = "close"]
    /\ UNCHANGED <<chs, ipCnts, roomVars, linkVars, room, op, to, moves, told, displaced>>

\* room.Close under rLock: ProtoFinish to every channel of the walk.
CloseRoom(c) ==
    /\ pc[c] = "close"
    /\ told' = told \cup Walk(room[c])
    /\ pc' = [pc EXCEPT ![c] = Rest(op[c])]
    /\ UNCHANGED <<bucketVars, roomVars, linkVars, room, op, to, moves, displaced>>

-----------------------------------------------------------------------------
(* What the bucket reports, in one region under cLock *)

\* The rooms of the map that have somebody, and how many.
RoomsCount ==
    [rid \in {i \in RoomIds : rooms[i] # None /\ online[rooms[i]] > 0} |->
        online[rooms[rid]]]

\* The IPs of the map: a count of zero stands for none.
IPCount == {ip \in IPs : ipCnts[ip] > 0}

-----------------------------------------------------------------------------
\* Every connection has ended; the server idles.
AllEnded ==
    /\ \A c \in Channels : Ended(c)
    /\ UNCHANGED vars

Step(c) ==
    \/ Put(c) \/ Join(c)
    \/ ChangeRoomToNone(c) \/ (\E rid \in RoomIds : ChangeRoom(c, rid))
    \/ Enter(c) \/ Out(c) \/ Del(c)
    \/ Leave(c) \/ ReadDrop(c) \/ Unmap(c) \/ CloseRoom(c)

Next == (\E c \in Channels : Step(c)) \/ AllEnded

Spec == Init /\ [][Next]_vars

-----------------------------------------------------------------------------
(* Properties *)

TypeOK ==
    /\ chs \in [Keys -> Channels \cup {None}]
    /\ rooms \in [RoomIds -> Rooms \cup {None}]
    /\ ipCnts \in [IPs -> Nat]
    /\ id \in [Rooms -> RoomIds \cup {None}]
    /\ head \in [Rooms -> Channels \cup {None}]
    /\ drop \in [Rooms -> BOOLEAN]
    /\ online \in [Rooms -> Int]
    /\ hurt \in [Rooms -> BOOLEAN]
    /\ room \in [Channels -> Rooms \cup {None}]
    /\ next \in [Channels -> Channels \cup {None}]
    /\ prev \in [Channels -> Channels \cup {None}]
    /\ mem \in [Channels -> Rooms \cup {None}]
    /\ pc \in [Channels -> Pcs]
    /\ op \in [Channels -> {"none", "move", "out", "del"}]
    /\ to \in [Channels -> Rooms \cup {None}]
    /\ moves \in 0..MaxMoves
    /\ told \subseteq Channels
    /\ displaced \subseteq Channels

\* The links of every room stay a list of its own members, also after a
\* room.Del of a channel the room does not hold: Next and Prev agree, a head
\* has no Prev, and neighbours are in the same room.  So no walk of Push or
\* Close under rLock can loop or stray into another room.
ListWellFormed ==
    /\ \A c, d \in Channels : (next[c] = d) <=> (prev[d] = c)
    /\ \A c, d \in Channels : next[c] = d => mem[c] = mem[d] /\ mem[c] # None
    /\ \A r \in Rooms : head[r] # None => mem[head[r]] = r /\ prev[head[r]] = None

\* While a room only ever Del'ed channels it held, a broadcast reaches all of
\* its members: the walk from the head meets exactly the channels Put and not
\* Del'ed.
WalkIsMembers == \A r \in Rooms : ~hurt[r] => Walk(r) = Members(r)

\* Under the same condition Online counts the members, a room is marked dropped
\* only when nobody is left in it, and RoomsCount reports what is in the rooms.
OnlineCounts ==
    /\ \A r \in Rooms : ~hurt[r] =>
        /\ online[r] = Cardinality(Members(r))
        /\ drop[r] => Members(r) = {}
    /\ \A rid \in DOMAIN RoomsCount : ~hurt[rooms[rid]] =>
        RoomsCount[rid] = Cardinality(Members(rooms[rid]))

\* Removing a room disconnects nobody: when DelRoom closes a room that is not
\* hurt, the room is still dropped and empty, whatever happened since Room.Del
\* released the lock.
CloseReachesNobody ==
    \A c \in Channels :
        pc[c] \in {"unmap", "close"} /\ ~hurt[room[c]] =>
            drop[room[c]] /\ Members(room[c]) = {}

\* A dropped room refuses every Put, so it must not stay mapped for ever: as
\* long as the map holds it, a goroutine is still on its way to unmap it.
DroppedIsBeingRemoved ==
    \A r \in Rooms : drop[r] /\ (\E rid \in RoomIds : rooms[rid] = r) =>
        \E c \in Channels : pc[c] \in {"left", "unmap"} /\ room[c] = r

\* A connected channel is found under its key, or was told to end by the
\* connection that took the key over.
DisplacedIsTold ==
    \A c \in Channels :
        pc[c] # "new" /\ ~Ended(c) /\ op[c] # "del" => chs[KeyOf[c]] = c \/ c \in told

\* After Bucket.Del nothing in the bucket leads to the channel.
GoneIsForgotten ==
    \A c \in Channels : pc[c] = "gone" =>
        /\ \A k \in Keys : chs[k] # c
        /\ \A r \in Rooms : head[r] # c
        /\ \A d \in Channels : next[d] # c /\ prev[d] # c

Counted(ip) == {c \in Channels : IPOf[c] = ip /\ pc[c] # "new" /\ pc[c] # "gone" /\ op[c] # "del"}

\* As long as no key was ever taken over, ipCnts is the number of registered
\* connections of each IP (one refused by a dropped room stays registered), and
\* IPCount names the IPs that have one.
IpExactWithoutTakeover ==
    displaced = {} =>
        /\ \A ip \in IPs : ipCnts[ip] = Cardinality(Counted(ip))
        /\ IPCount = {IPOf[c] : c \in UNION {Counted(ip) : ip \in IPs}}

\* bucket.go:159 says the room that is removed has no active user any more.
RemovedRoomIsEmpty ==
    [][\A rid \in RoomIds : rooms[rid] # None /\ rooms'[rid] = None =>
            Members(rooms[rid]) = {}]_vars

\* room.go:16 says Online is the number of online users of the room.
OnlineIsMembers ==
    \A rid \in RoomIds : rooms[rid] # None =>
        online[rooms[rid]] = Cardinality(Members(rooms[rid]))
=============================================================================
