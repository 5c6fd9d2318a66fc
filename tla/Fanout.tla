------------------------------- MODULE Fanout -------------------------------
(***************************************************************************)
(* How a message from job reaches the channels of a comet                  *)
(* (comet/grpc/server.go, bucket.go, room.go, channel.go): PushMsg to      *)
(* keys, Broadcast to all, BroadcastRoom to the routines of every bucket,  *)
(* which push to the room one message after the other.  A push to a        *)
(* channel never waits: a full channel refuses the message.                *)
(*                                                                         *)
(* The rooms of an id are numbered as they are made: b.rooms leads to the  *)
(* last, and one removed under its members (bucket.go:198) goes on without *)
(* messages.  A room is its members, and a key has one connection at a     *)
(* time: what the lists and a takeover of a key do is in Bucket and        *)
(* Session.                                                                *)
(***************************************************************************)
EXTENDS Naturals, Sequences, FiniteSets

CONSTANTS
    Conns, Keys, Rooms,
    Key,            \* the key of a connection
    Buckets,        \* how many there are
    Bucket,         \* the bucket of a key, by its hash
    Requests,       \* the rpcs: a sequence of [type, keys, room]
    Routines,       \* RoutineAmount
    RoutineSize,
    SvrProto,       \* capacity of ch.signal
    MaxCalls,       \* bound: how many of the calls are made
    MaxMoves,       \* bound: how often a client leaves, goes, changes what it
                    \* listens to, or its dispatcher takes an element
    None

ASSUME FanoutAssumption ==
    /\ Key \in [Conns -> Keys]
    /\ \A c, d \in Conns : Key[c] = Key[d] => c = d
    /\ None \notin Conns \cup (1..Buckets) \X Rooms \X Nat
    /\ Bucket \in [Keys -> 1..Buckets]
    /\ {Buckets, Routines, RoutineSize, SvrProto} \subseteq Nat \ {0}
    /\ {MaxCalls, MaxMoves} \subseteq Nat
    /\ Requests \in Seq([type : {"keys", "room", "all"}, keys : Seq(Keys), room : Rooms])
    /\ \A x \in DOMAIN Requests : Requests[x].type = "keys" => Requests[x].keys # <<>>

Calls == DOMAIN Requests

VARIABLES
    up,             \* the connections in b.chs
    room, listens,  \* ch.Room; whether watchOps has the operation
    moves,          \* how many of the MaxMoves there were
    made, dropped,  \* the number of the room an id leads to; the rooms with drop set
    behind,         \* elements in ch.signal
    log,            \* what was put there, in order
    num,            \* routinesNum of a bucket
    entered, done,  \* what entered b.routines[i]; how much of it was taken
    walk,           \* where roomproc i of a bucket is
    pc, at, reg,    \* a call: where it is, at which key or bucket, what it read
    stayed,         \* those that a call is for since it began
    full            \* those that refused its message

clientVars == <<up, room, listens, moves, made, dropped>>
channelVars == <<behind, log, full>>
routineVars == <<num, entered, done, walk>>
callVars == <<pc, at, reg>>
vars == <<clientVars, channelVars, routineVars, callVars, stayed>>

BucketOf(c) == Bucket[Key[c]]
\* A room is its bucket, id and number.
Objects == (1..Buckets) \X Rooms \X Nat
Mapped(b, r) == <<b, r, made[b][r]>>
Members(o) == {c \in Conns : room[c] = o}
Of(x, i) == Requests[x].keys[i]

\* Bucket.Channel
Channel(k) == IF \E c \in up : Key[c] = k THEN CHOOSE c \in up : Key[c] = k ELSE None

NoWalk == [st |-> "idle", x |-> 0, of |-> None, rest |-> {}]

Init ==
    /\ up = Conns
    /\ room = [c \in Conns |-> None]
    /\ listens = [c \in Conns |-> TRUE]
    /\ moves = 0
    /\ made = [b \in 1..Buckets |-> [r \in Rooms |-> 0]]
    /\ dropped = {}
    /\ behind = [c \in Conns |-> 0]
    /\ log = [c \in Conns |-> <<>>]
    /\ num = [b \in 1..Buckets |-> 0]
    /\ entered = [b \in 1..Buckets |-> [i \in 0..Routines-1 |-> <<>>]]
    /\ done = [b \in 1..Buckets |-> [i \in 0..Routines-1 |-> 0]]
    /\ walk = [b \in 1..Buckets |-> [i \in 0..Routines-1 |-> NoWalk]]
    /\ pc = [x \in Calls |-> "new"]
    /\ at = [x \in Calls |-> 1]
    /\ reg = [x \in Calls |-> None]
    /\ stayed = [x \in Calls |-> {}]
    /\ full = [x \in Calls |-> {}]

-----------------------------------------------------------------------------
(* Clients.  Locks: a walk holds the room for reading, a broadcast cLock. *)

RoomIsRead(o) == \E b \in 1..Buckets, i \in 0..Routines-1 :
    walk[b][i].st = "push" /\ walk[b][i].of = o

BucketIsRead(b) == \E x \in Calls : pc[x] = "cast" /\ at[x] = b

\* Those a call is for, by what they do themselves, and by the rooms they are in:
\* that of the id, not one that was removed under them.
Addressed(x, c) ==
    CASE Requests[x].type = "room" -> room[c] = Mapped(BucketOf(c), Requests[x].room)
      [] Requests[x].type = "all" -> c \in up /\ listens[c]
      [] Requests[x].type = "keys" ->
            c \in up /\ listens[c] /\ \E i \in 1..Len(Requests[x].keys) : Of(x, i) = Key[c]

Stay == stayed' = [x \in Calls |-> {c \in stayed[x] : Addressed(x, c)'}]

Move == moves < MaxMoves /\ moves' = moves + 1

\* Room.Put, after a login or a change of rooms: into the room of the id, or one
\* that was it when the bucket was asked.
Enter(c, r) ==
    /\ c \in up /\ room[c] = None
    /\ \E n \in 0..made[BucketOf(c)][r] :
        LET o == <<BucketOf(c), r, n>>
        IN  o \notin dropped /\ ~RoomIsRead(o) /\ room' = [room EXCEPT ![c] = o]
    /\ UNCHANGED <<up, listens, moves, made, dropped, channelVars, routineVars, callVars>> /\ Stay

\* Room.Del; the last one drops the room.
Leave(c) ==
    /\ Move
    /\ room[c] # None
    /\ ~RoomIsRead(room[c])
    /\ room' = [room EXCEPT ![c] = None]
    /\ dropped' = IF Members(room[c]) = {c} THEN dropped \cup {room[c]} ELSE dropped
    /\ UNCHANGED <<up, listens, made, channelVars, routineVars, callVars>> /\ Stay

\* Bucket.DelRoom, by name: of a dropped room, once by who left it last, and once
\* more by another who left and saw it dropped (room.go:70); when that one is late
\* the room that has the id by then goes, whoever is in it.
DelRoom(b, r) ==
    /\ ~BucketIsRead(b)
    /\ made[b][r] < 2 * Cardinality({o \in dropped : o[1] = b /\ o[2] = r})
    /\ made' = [made EXCEPT ![b][r] = @ + 1]
    /\ UNCHANGED <<up, room, listens, moves, dropped, channelVars, routineVars, callVars>> /\ Stay

\* OpSub and OpUnsub.
Listen(c) ==
    /\ c \in up /\ Move
    /\ listens' = [listens EXCEPT ![c] = ~@]
    /\ UNCHANGED <<up, room, made, dropped, channelVars, routineVars, callVars>> /\ Stay

\* Bucket.Del; what comes is still put into the channel, if it was found before.
Del(c) ==
    /\ c \in up /\ Move
    /\ ~BucketIsRead(BucketOf(c))
    /\ up' = up \ {c}
    /\ UNCHANGED <<room, listens, made, dropped, channelVars, routineVars, callVars>> /\ Stay

\* The dispatcher takes an element, if it is not stuck in a write.
Ready(c) ==
    /\ behind[c] > 0 /\ Move
    /\ behind' = [behind EXCEPT ![c] = @ - 1]
    /\ UNCHANGED <<up, room, listens, made, dropped, log, full, routineVars, callVars, stayed>>

Client(c) ==
    (\E r \in Rooms : Enter(c, r)) \/ Leave(c) \/ Listen(c) \/ Del(c) \/ Ready(c)

-----------------------------------------------------------------------------
(* Channel.Push *)

\* Fault: the send waits for space.
OfferWaits(c, x) ==
    /\ behind[c] < SvrProto
    /\ behind' = [behind EXCEPT ![c] = @ + 1]
    /\ log' = [log EXCEPT ![c] = Append(@, x)]
    /\ UNCHANGED full

Offer(c, x) ==
    IF behind[c] < SvrProto
    THEN /\ behind' = [behind EXCEPT ![c] = @ + 1]
         /\ log' = [log EXCEPT ![c] = Append(@, x)]
         /\ UNCHANGED full
    ELSE full' = [full EXCEPT ![x] = @ \cup {c}] /\ UNCHANGED <<behind, log>>

-----------------------------------------------------------------------------
(* The calls *)

Goto(x, p, n, v) ==
    /\ pc' = [pc EXCEPT ![x] = p]
    /\ at' = [at EXCEPT ![x] = n]
    /\ reg' = [reg EXCEPT ![x] = v]

\* Of equal requests the first is made first: they differ in their names only.
Start(x) ==
    /\ pc[x] = "new" /\ \A y \in 1..x-1 : Requests[y] = Requests[x] => pc[y] # "new"
    /\ Cardinality({y \in Calls : pc[y] # "new"}) < MaxCalls
    /\ stayed' = [stayed EXCEPT ![x] = {c \in Conns : Addressed(x, c)}]
    /\ Goto(x, CASE Requests[x].type = "keys" -> "look"
                 [] Requests[x].type = "room" -> "number"
                 [] Requests[x].type = "all" -> "lock", 1, None)
    /\ UNCHANGED <<clientVars, channelVars, routineVars>>

\* The next key or bucket of n, or the answer.
Proceed(x, p, n) == Goto(x, IF at[x] = n THEN "ok" ELSE p, at[x] + 1, None)
NextKey(x) == Proceed(x, "look", Len(Requests[x].keys))

\* PushMsg, one key after the other: the channel is read, and used later.
Look(x) ==
    LET c == Channel(Of(x, at[x]))
    IN  /\ pc[x] = "look"
        /\ IF c = None THEN NextKey(x) ELSE Goto(x, "offer", at[x], c)
        /\ UNCHANGED <<clientVars, channelVars, routineVars, stayed>>

\* Fault: a channel that is full is passed over.
Refused(x) == NextKey(x)

\* The first full channel ends the call; the keys after it are not tried.
Refuse(x) == Goto(x, "full", at[x], reg[x])

PushMsg(x) ==
    /\ pc[x] = "offer"
    /\ IF listens[reg[x]]
       THEN Offer(reg[x], x) /\ IF full'[x] = full[x] THEN NextKey(x) ELSE Refuse(x)
       ELSE NextKey(x) /\ UNCHANGED channelVars
    /\ UNCHANGED <<clientVars, routineVars, stayed>>

\* BroadcastRoom, one bucket after the other: the routine's number is drawn, ...
Number(x) ==
    /\ pc[x] = "number"
    /\ num' = [num EXCEPT ![at[x]] = (@ + 1) % Routines]
    /\ Goto(x, "enqueue", at[x], num'[at[x]])
    /\ UNCHANGED <<clientVars, channelVars, entered, done, walk, stayed>>

Queued(b, i) == Len(entered[b][i]) - done[b][i]

\* Fault: one request too many is buffered.
HasRoomForOne(b, i) == Queued(b, i) <= RoutineSize

HasRoom(b, i) == Queued(b, i) < RoutineSize

\* ... and the request waits for space in its channel.
Enqueue(x) ==
    LET b == at[x]
        i == reg[x]
    IN  /\ pc[x] = "enqueue"
        /\ HasRoom(b, i)
        /\ entered' = [entered EXCEPT ![b][i] = Append(@, x)]
        /\ Proceed(x, "number", Buckets)
        /\ UNCHANGED <<clientVars, channelVars, num, done, walk, stayed>>

\* Broadcast answers at once, and goes on: bucket by bucket under cLock.
Lock(x) ==
    LET there == {c \in up : BucketOf(c) = at[x]}
    IN  /\ pc[x] = "lock"
        /\ IF there = {} THEN Proceed(x, "lock", Buckets) ELSE Goto(x, "cast", at[x], there)
        /\ UNCHANGED <<clientVars, channelVars, routineVars, stayed>>

Cast(x) ==
    /\ pc[x] = "cast"
    /\ \E c \in reg[x] :
        /\ IF listens[c] THEN Offer(c, x) ELSE UNCHANGED channelVars
        /\ IF reg[x] = {c} THEN Proceed(x, "lock", Buckets)
           ELSE Goto(x, "cast", at[x], reg[x] \ {c})
    /\ UNCHANGED <<clientVars, routineVars, stayed>>

Serve(x) == Look(x) \/ PushMsg(x) \/ Number(x) \/ Enqueue(x) \/ Lock(x) \/ Cast(x)

Call(x) == Start(x) \/ Serve(x)

-----------------------------------------------------------------------------
(* roomproc and Room.Push *)

\* What b.Room returns; a room that nobody is in may have been made yet or not,
\* and a dropped one is still there.
Room(b, r) ==
    LET o == Mapped(b, r)
    IN  IF Members(o) # {} \/ o \in dropped THEN {o} ELSE {o, None}

Take(b, i) ==
    LET x == entered[b][i][done[b][i] + 1]
        found(o) == [st |-> "found", x |-> x, of |-> o, rest |-> {}]
    IN  /\ walk[b][i].st = "idle" /\ Queued(b, i) > 0
        /\ done' = [done EXCEPT ![b][i] = @ + 1]
        /\ \E o \in Room(b, Requests[x].room) :
                walk' = [walk EXCEPT ![b][i] = IF o = None THEN NoWalk ELSE found(o)]
        /\ UNCHANGED <<clientVars, channelVars, num, entered, callVars, stayed>>

\* Room.Push, under the room's read lock.
WalkOver(w, cs) == IF cs = {} THEN NoWalk ELSE [w EXCEPT !.st = "push", !.rest = cs]

BeginWalk(b, i) ==
    LET w == walk[b][i]
    IN  /\ w.st = "found"
        /\ walk' = [walk EXCEPT ![b][i] = WalkOver(w, Members(w.of))]
        /\ UNCHANGED <<clientVars, channelVars, num, entered, done, callVars, stayed>>

\* Fault: a full channel ends the walk.
AfterRefused(b, i, c) == IF full' = full THEN walk[b][i].rest \ {c} ELSE {}

\* A full channel is passed over.
AfterOffer(b, i, c) == walk[b][i].rest \ {c}

WalkStep(b, i) ==
    /\ walk[b][i].st = "push"
    /\ \E c \in walk[b][i].rest :
        /\ Offer(c, walk[b][i].x)
        /\ walk' = [walk EXCEPT ![b][i] = WalkOver(@, AfterOffer(b, i, c))]
    /\ UNCHANGED <<clientVars, num, entered, done, callVars, stayed>>

Roomproc(b, i) == Take(b, i) \/ BeginWalk(b, i) \/ WalkStep(b, i)

Next ==
    \/ \E c \in Conns : Client(c)
    \/ \E b \in 1..Buckets, r \in Rooms : DelRoom(b, r)
    \/ \E x \in Calls : Call(x)
    \/ \E b \in 1..Buckets, i \in 0..Routines-1 : Roomproc(b, i)

\* Goroutines run.  No client has to do anything: a dispatcher may be stuck.
Fairness ==
    /\ \A x \in Calls : WF_vars(Serve(x))
    /\ \A b \in 1..Buckets, i \in 0..Routines-1 : WF_vars(Roomproc(b, i))

Spec == Init /\ [][Next]_vars /\ Fairness

-----------------------------------------------------------------------------

\* The buffers keep to their sizes: a channel to SvrProto (channel.go:31), the
\* queue of a routine to RoutineSize (bucket.go:33).
TypeOK ==
    /\ up \subseteq Conns
    /\ room \in [Conns -> Objects \cup {None}]
    /\ made \in [1..Buckets -> [Rooms -> Nat]]
    /\ dropped \subseteq Objects
    /\ listens \in [Conns -> BOOLEAN]
    /\ behind \in [Conns -> 0..SvrProto]
    /\ num \in [1..Buckets -> 0..Routines-1]
    /\ pc \in [Calls -> {"new", "look", "offer", "number", "enqueue", "lock", "cast", "ok", "full"}]
    /\ \A b \in 1..Buckets, i \in 0..Routines-1 : Queued(b, i) \in 0..RoutineSize

Got(c, x) == \E i \in 1..Len(log[c]) : log[c][i] = x
Before(s, x, y) == \E i, j \in 1..Len(s) : i < j /\ s[i] = x /\ s[j] = y

RoutineIsDone(x, b) ==
    \E i \in 0..Routines-1 :
        /\ \E n \in 1..done[b][i] : entered[b][i][n] = x
        /\ walk[b][i].x # x

\* A message to a room or to all is put into a channel at most once; when the
\* routine of the bucket, or the broadcast, is through with it, everyone who was
\* there from the call on has it or was full, whatever a full channel, the others
\* that enter and leave, and other messages do in between.  Those whose room was
\* removed under them, by the name it had in common with an earlier one, have not
\* stayed (bucket.go:198, 259), and the list of the room is its members, as in
\* Bucket in a room that is not hurt.  The messages of one routine are in the order
\* they entered it; of two routines nothing is said (bucket.go:205, 255, room.go:73).
EveryoneOnce ==
    \A c \in Conns :
        /\ \A i, j \in 1..Len(log[c]) :
                log[c][i] = log[c][j] /\ Requests[log[c][i]].type # "keys" => i = j
        /\ \A x \in Calls :
                /\ c \in stayed[x]
                /\ \/ Requests[x].type = "room" /\ RoutineIsDone(x, BucketOf(c))
                   \/ Requests[x].type = "all" /\ pc[x] = "ok"
                => Got(c, x) \/ c \in full[x]
        /\ \A i \in 0..Routines-1, x, y \in Calls :
                /\ Before(entered[BucketOf(c)][i], x, y)
                /\ Got(c, x) /\ Got(c, y)
                => Before(log[c], x, y)

\* What PushMsg answers: without an error, everyone it names who was there and
\* listened all the while has the message; with one, those before the channel
\* that was full have it, and nobody it names only after it (server.go:59).
PushMsgAnswers ==
    \A x \in Calls : Requests[x].type = "keys" =>
        /\ pc[x] = "ok" => \A c \in stayed[x] : Got(c, x)
        /\ pc[x] = "full" =>
              /\ full[x] = {reg[x]} /\ Key[reg[x]] = Of(x, at[x])
              /\ \A c \in stayed[x], i \in 1..at[x]-1 : Of(x, i) = Key[c] => Got(c, x)
              /\ \A c \in Conns : Got(c, x) => \E i \in 1..at[x]-1 : Of(x, i) = Key[c]

\* The calls end, with every client and dispatcher stuck: a push to a channel
\* does not wait, and the routines take what a broadcast to a room waits to put
\* (channel.go:71, bucket.go:207).  This is where no key is taken over: a Put that
\* waits in Close under cLock (bucket.go:113) would hold up Look, Lock and Take.
CallsReturn == []<>(\A x \in Calls : pc[x] \in {"new", "ok", "full"})
=============================================================================
