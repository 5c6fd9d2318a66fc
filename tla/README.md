# Specifications of mygoim

mygoim is an instant-messaging server in Go, in three programs. *comet* holds
the connections of the clients (TCP and websocket) and delivers messages to
them; *logic* authenticates clients, keeps in redis which comet serves which
user, and accepts messages to push over HTTP; *job* takes those messages from
kafka and calls the comets. This directory holds TLA+ specifications of the
parts that carry state from step to step, the configurations that check them
with TLC, and proofs checked with TLAPS.

## The system

| component | state | operations | what is hard |
|---|---|---|---|
| bucket (`internal/comet/bucket.go`) | `chs` by key, `rooms` by id, `ipCnts` by IP, under `cLock` | `Put`, `Del`, `ChangeRoom`, `DelRoom`, `Broadcast`, `BroadcastRoom` | several locked regions per operation; `dch.Close` blocks while `cLock` is held |
| room (`internal/comet/room.go`) | list of channels, `Online`, `drop`, under `rLock` | `Put`, `Del`, `Push`, `Close` | `drop` read after the unlock; a channel removed from a room it is not in |
| channel and ring (`channel.go`, `ring.go`) | bounded Go channel `signal`, ring of requests without a lock | `Push`, `Signal`, `Close`, `Ready`; `Get`, `GetAdv`, `Set`, `SetAdv` | wakeups, full channel, reuse of slots |
| connection (`server_tcp.go`, `server_websocket.go`, `operation.go`) | a reader and a dispatcher goroutine, socket, timer entry, buffers | handshake, read, operate, dispatch, tear-down | two goroutines and everybody who closes or pushes |
| round timer (`pkg/time/timer.go`) | heap of deadlines, free list, one `time.Timer` | `Add`, `Del`, `Set`, `expire` | callbacks after the unlock, reuse of entries, arming the signal |
| fan-out of a message (`comet/grpc/server.go`, `bucket.go`, `room.go`) | a queue for each routine of a bucket, `routinesNum` | `PushMsg`, `Broadcast`, `BroadcastRoom`, `roomproc`, `Room.Push` | messages to one room side by side, full channels, clients that come and go |
| buffers (`pkg/bytes`, `pkg/bufio`) | pools of buffers, sliding read window, write buffer | `Get`, `Put`, `Peek`, `Pop`, `ReadLine`, `Write`, `Flush` | slices that outlive their buffer or are moved under their user |
| websocket (`pkg/websocket`) | frames, continuation, masking key | `ReadRequest`, `Upgrade`, `ReadMessage`, `WriteHeader`, `WriteBody` | Pong written by the reading goroutine; limits on frames |
| wire protocol (`api/protocol`) | the slot being read or written | `ReadTCP`, `ReadWebsocket`, `WriteTCP`, `WriteWebsocket`, `WriteTo` | lengths; a body that aliases the read buffer |
| job room (`internal/job/room.go`) | queue and batch of one room | `Push`, `pushproc` | the goroutine exits while others push |
| job, comet clients (`job.go`, `push.go`, `comet.go`) | `rooms`, `cometServers` | `push`, `pushKeys`, `broadcast` | `NewComet` always fails, see below |
| logic sessions (`conn.go`, `dao/redis.go`) | redis hashes and keys with expiry | `Connect`, `Heartbeat`, `Disconnect` | late `Disconnect` of a displaced connection, pipelines that interleave |
| discovery (`pkg/discovery`) | keys with leases; `serviceNodes` built by polling and watching | `register`, `Stop`; `resolverAll`, `watchNode`, `ResolveNow` | nodes that go away between two looks, late answers and late Puts |
| balancer, nodes (`logic/balancer.go`, `nodes.go`) | none: both files are commented out | | |

How they interact. A login comes in on comet: the reader goroutine of the
connection calls logic (`Connect`), puts the channel into a bucket and perhaps
a room, and starts the dispatcher. From then on the reader fills the ring and
signals; the dispatcher empties the ring. Pushes arrive by rpc from job, find
the channel by key or by room and send on `signal` without waiting. A second
login with the key, or the removal of a room, sends `ProtoFinish` and *does*
wait. The round timer closes the socket of a client that is silent. Nothing
but the channel, the ring and `ch.Room` is shared by the two goroutines.

What should hold, per component: a bucket's lists are lists, its counts count,
a room that is removed has nobody in it, nobody is left connected and
unreachable; a session answers every request once and in order, misses no
wakeup, and ends; a takeover ends the old session and returns; the timer fires
what is due and nothing that was deleted; a message pushed to a job room is
sent; a message to a room reaches everyone in it once; what a client sent is
read whole and what it gets is whole, however the bytes are cut; the mapping in
redis names the server that has the connection; a resolver uses what is
registered and forgets what is not.

## Modules

| module | what it is |
|---|---|
| `Bucket` | the bucket and its rooms; processes are the reader goroutines |
| `MCBucket` | the instance TLC checks |
| `Bucket_proofs` | invariants of `Bucket`, proved |
| `Replies` | abstract: what a session promises its client |
| `Session` | one connection with its two goroutines and everything that touches it; implements `Replies` |
| `Session_proofs` | invariants of `Session` and the refinement, proved |
| `Queue` | abstract: what the timer needs of its heap |
| `Heap` | the binary heap in its array; implements `Queue` |
| `MCHeap` | the instance TLC checks |
| `Deadlines` | abstract: what the timer promises a connection |
| `Timer` | the round timer with its goroutine, signal and free list; implements `Deadlines` |
| `RoomQueue` | abstract: what job does with the messages of a room |
| `JobRoom` | job's rooms, their goroutines and timers, and the consumers that push; implements `RoomQueue` |
| `JobRoom_proofs` | invariants of `JobRoom` and the refinement, proved |
| `Mapping` | what logic keeps in redis for the connections of all comets |
| `MCMapping` | the instance TLC checks |
| `Mapping_proofs` | invariants of `Mapping`, proved |
| `Fanout` | pushes to keys, rooms and all, down to the channels of their clients |
| `MCFanout` | the instance TLC checks |
| `Fanout_proofs` | invariants of `Fanout`, proved |
| `Reader` | `bufio.Reader` on a buffer lent by a pool |
| `Writer` | `bufio.Writer`, as the set of states a call can end in |
| `Layout` | what a connection carries: requests, frames, packets |
| `Wire` | one connection as its bytes, composed of `Reader`, `Writer` and `Layout` |
| `MCWire` | the clients TLC explores |
| `Wire_proofs` | invariants of `Reader`, `Writer` and `Wire`, and that a connection uses its reader as `ReaderSpec` says, proved |
| `WireClient_proofs` | what the clients of `Wire` can count on who keep to the protocol and wait, proved |
| `Registry` | processes that register in etcd |
| `Resolver` | the resolver that follows a `Registry` |
| `MCResolver` | the instance TLC checks |
| `Packages_proofs` | invariants of `Timer`, with the refinement, and of `Resolver`, proved: the two packages of `pkg` beside the connection's |

### Bucket

One action is one region under a lock, or one access outside of all locks.
`Put` is the region under `cLock` of `Bucket.Put` (old channel of the key,
table, room, IP count) and `Join` the `room.Put` after it. `ChangeRoom` and
`ChangeRoomToNone` run to where the old room is left; `Leave` is `Room.Del`
under `rLock`, `ReadDrop` its `return r.drop` after the unlock, `Unmap` and
`CloseRoom` the two halves of `DelRoom`; `Enter` or `Out` ends the call. `Del`
is the locked region of `Bucket.Del`, which then leaves through the same
`Leave`. `pc`, `op` and `to` hold where a goroutine is, which call it is in and
the local `nroom`. The list is modelled by its pointers (`head`, `next`,
`prev`), because the hazard is what `Room.Del` does to the pointers of a
channel that is in no list or in another one.

Three history variables carry the specification's own view: `mem[c]` is the
room `c` was `Put` in and not yet `Del`'ed from, `hurt[r]` says that `r` once
`Del`'ed a channel it did not hold, and `displaced` the channels whose key was
taken over. `hurt` is set by the code only through one path: `ChangeRoom` to a
room that is dropped before the channel gets in, which leaves `ch.Room` at the
old room. `WalkIsMembers`, `OnlineCounts` and `CloseReachesNobody` hold for
rooms that are not hurt, `ListWellFormed` and `GoneIsForgotten` always.

A `Room` object that no goroutine, list or table can reach may be allocated
again, so a small pool of objects serves any number of rooms. A send of
`ProtoFinish` is recorded in `told`; that the send can block is the subject of
`Session`. `RoomsCount` and `IPCount` are operators: what they report is what
`OnlineCounts` and `IpExactWithoutTakeover` speak of. `Broadcast`, `roomproc` and
`Room.Push`, which change neither lists nor tables, are the subject of `Fanout`.
`UpRoomsCount` writes `AllOnline`, always zero because `RenewOnline` returns no
counts, and nothing reads it but `OnlineNum`.

### Session

Init is a connection that was just accepted: read buffer taken, handshake timer
set, ring and channel empty. The reader's `reader` and the dispatcher's
`dispatcher` are program counters; one action is one statement that touches
what the other goroutine can see. TCP and websocket run the same statements in
two orders at the end (`transport`): TCP returns the read buffer and then
closes the socket and the channel, websocket closes both first. Requests carry
their number and one of four kinds: a heartbeat, a change into a room, a change
out of it, anything else. `conn` is open, broken by the peer, or closed by the
server; reading what is already buffered and writing what is not yet refused
may still succeed on a broken one.

Around them: `Expire` (the timer's callback), `PeerGone`, `Lookup` and
`PushMsg` (the rpc looks the channel up and pushes after it released the lock),
`RoomPush`, `TakeoverStart` and `TakeoverClose` (a second login with the key:
it holds `cLock` while its `dch.Close` waits), `EvictStart` and `EvictClose`
(`Room.Close` on a room whose list still has this channel; `Bucket` shows that
this takes a hurt room). A goroutine that holds a lock stops the actions that
take it: `BucketDel`, `Lookup` and a `ChangeRoom` wait for a takeover, and
leaving a list waits for `Room.Close`.

Accesses to `rp`, `wp`, the slots and `ch.Room` are interleaved one at a time.
The code has no lock there; that a published slot is seen complete follows from
the send and receive on `signal`, and a stale `rp` only makes the ring look
fuller. For `ch.Room`, read twice in `if ch.Room != nil { ch.Room.OnlineNum() }`,
the compiler may or may not read again: `DerefRoom` allows both, and a nil
second read ends the process (`Crashed`). The pop of a timer and the call of
its callback are one step here; `Timer` has them apart. Calls of logic are
taken to return.

`Replies` is the promise: a queue of at most `Num` complete answers, answers
appended in the order of the requests and removed in that order. `Session`
implements it with `accepted <- wp` and `pending <-` the slots from `rp` to
`wp`. The step that appends is `RingSetAdv`, the one that removes `RingGetAdv`;
everything else stutters. That includes `Operate`, which changes a slot: were
the slot already visible to the dispatcher, it would not be a stutter.

### Heap and Queue

`Heap` has the array and the `index` field of every entry; `Up`, `Down`, `Add`
and `Del` are `up`, `down`, `add` and `del` of `timer.go` as functions on them,
with the code's own indices. The actions are the calls the timer makes: `Add` of
an entry that is not in the array, `Set` (del with the old deadline, add with
the new one) and `Del` of one that may have left, and the pop of the front,
which is a `Del` too. What they owe the timer is `Queue`: an operation changes
the set of entries by the one it is called for, an earliest entry is in front,
and `add` ends at index 0 exactly when the entry is earlier than all others. A
parent behind its child, a wrong `index`, or a stale one taken for a good one
shows as a step that is not one of `Queue`. That last part decides when the signal is armed. With equal
deadlines the front is any of them, which is why `Queue` keeps `first` and does
not compute it.

### Timer and Deadlines

Connections use the timer as comet does: `Add` once, `Set` while they hold the
entry, `Del` once at the end. Each is one action, a region under `t.lock`. The
goroutine's loop is `runner`: `Pop` takes the first entry that is due and keeps
its `fn`, `Call` runs it without the lock, `Sleep` finds nothing due and resets
the signal, `Wake` receives from it. The heap is a set here, by what `Queue`
says of it. The free list is a sequence of entries; `Get` takes its head, or
allocates a block of `Num` and leaves the rest of the block as the list.

`held[o]` is the `TimerData` of connection `o`, which it keeps after the entry
expired: that, with `put` in `Del` whether or not `del` found the entry, and
the callback outside of the lock, is where entries could get two users. The
signal is Go's `time.Timer`: `alarm` is when it goes off, `token` that a value
waits in its channel. `go.mod` asks for Go 1.23, so `Reset` also withdraws a
value that was not received. `Ring` may come any time after `alarm`: the
runtime can be late. The clock (`Tick`) stands still inside a locked region, so
the difference between `td.Delay()` and the moment `Reset` counts it from is
not modelled. A callback is taken to return; in comet it closes a socket.

`Deadlines` is the promise: `Arm` and `Drop` set and clear the deadline of a
connection, `Expire` takes one that has passed, at most one at a time, and then
its callback runs once. `Timer` implements it with the deadline of `o` being
that of its entry while it is in the heap. A callback that was popped before
`Set` or `Del` still runs, in the code and in `Deadlines`.

### JobRoom and RoomQueue

A consumer's `push` of a ROOM message is three steps: the lookup under the read
lock (`GetRoom`), the second lookup with `NewRoom` under the write lock
(`Make`), and the send (`Push`), which drops the message if the channel is full.
A turn of `pushproc` is one step up to where it sends (`TakeFirst`, `TakeNext`,
`TakeReady`), `Broadcast` is the call of `broadcastRoomRawBytes` with the new
buffer and the `Reset`, `DelRoom` the exit. `sent[r]` is what that call was
given: behind it are comet clients that cannot exist (see below). As in
`Bucket`, a `Room` object nobody can reach may be allocated again; one that a
consumer looked up and has not yet pushed to is reachable although its goroutine
is gone.

`time.AfterFunc` starts its function in a goroutine of its own (`Fire`), which
puts the mark `roomReadyProto` into the channel, or drops it (`SendReady`);
`Reset` and `Stop` do not call back a function that was started. Time is only
what the code compares: `late[o]` says that `Signal` passed since the first
message of the batch. The idle timer may go off at any time, and so may the
first timer, set before any message has come.

`RoomQueue` is the promise: for each room id one queue, taken in order into
batches, sent when full or when a mark comes, and what stands behind a mark that
finds no batch is lost. `JobRoom` implements it through the object that `rooms`
has for the id. What the promise does not give, the code does not give either:

* a message accepted behind the mark that ends the goroutine is lost, with no
  error, although the comment of `Push` (`room.go:44`) names only the full
  channel; the same goes for one pushed to an object whose goroutine is gone,
  which the queue never sees;
* a mark that was on its way when a batch went out finds no batch and closes a
  room that is in use; the next message makes it again;
* a first message never completes a batch, so `Limit` is 2 if `Batch` is 1.

`Batch = 0`, which makes the channel unbuffered, is excluded by the `ASSUME`.

### Mapping

A connection is what its comet knows of it (`conn`); it logs in once, with a
`token` that gives its key and user, and a client that comes again is another
connection. `keys` is `key_<key>`, `mids` the hash `mid_<mid>`, each with
whether it expires. The calls of logic are pipelines: `AddMapping`,
`ExpireMapping` and `DelMapping` are the commands that the function of that name
sends, and `Exec` lets redis run the next one. Redis promises no more of a
pipeline than the order of its commands, so those of other calls come in
between. `SET` removes the expiry of a key, and a hash ends with its last field.
`ExpireReply` is the second half of `Heartbeat`: `has` is the last answer, the
one for the key, and what was not found is added again.

The comet of a connection makes its calls one after the other, but a call can
fail for its caller and go on (`Fail`): the error came from redis, and what was
sent still runs or is lost, or only the rpc failed, and then the handler
continues, up to the `AddMapping` of a `Heartbeat`. It moves to the lane
`"stray"`, one for each connection, and may end there at any point
(`StrayEnds`). After a failed Connect, a handshake that fails later, or the
death of the comet (`Crash`), nobody calls Disconnect: the connection is
`"lost"`. Expiry may come any time after `EXPIRE`, not only after the 30
minutes of the configuration; no property needs it to be late.

What is *not* claimed is as telling. A client is found by its key again, but not
by its user: a field that an interleaved `DelMapping` removed from the hash,
while the key was set after it, is never added again, because `has` speaks of
the key. And once an entry names a server whose login ended without Disconnect,
the heartbeats of another connection with that key keep it alive (`Spoiled`),
since `ExpireMapping` does not look at the server.

The readers `ServersByKeys` and `KeysByMids` change nothing and are not actions.

### Fanout

An rpc is a call `x` with a program counter `pc`, the number `at` of the key or
bucket it has come to, and what it read there, `reg`. `PushMsg` looks a key up
(`Look`) and pushes to the channel later, when the client may have gone or
unsubscribed; the first full channel ends it (`Refuse`). `BroadcastRoom` draws a
number from `routinesNum` (`Number`) and then waits for space in that routine's
channel (`Enqueue`), bucket after bucket. `Broadcast` answers at once and goes
on by itself, holding the bucket for reading while it visits the channels
(`Lock`, `Cast`). A routine takes a request and looks the room up (`Take`), gets
the room's lock (`BeginWalk`) and offers the message to one member after the
other (`WalkStep`). `Offer` is `Channel.Push`: it never waits.

Clients enter, leave, subscribe and go at any time the locks allow, and a
dispatcher takes an element or is stuck in a write. The rooms of an id are
numbered: `made` is the number of the room `b.rooms` leads to, and a client is in
the room of one number. `Leave` by the last member drops the room (`dropped`), and
`DelRoom` removes *the room of the id*, by name: once for the one who left last, and
once more for another who left and read `drop` after the unlock (`room.go:70`). When
that one is late, the room that has the id by then goes, whoever is in it; its members
keep it, a routine that looked it up before still walks it (`of`), and no later
message to the id finds them (`Room`, `bucket.go:188`). A room is its members, as the list is in `Bucket`
where a room is not hurt, and a key belongs to one connection (`FanoutAssumption`);
`Bucket` and `Session` say how far the code keeps to that. `stayed[x]` are those
the call was for when it began and has been for ever since (for a message to a
room: in the room its id leads to), `full[x]` those that
refused its message: together they say who has to have it.

What the code does *not* do: a member whose room was removed under it gets no more
of the room's messages, and is not among `stayed`; messages to one room can overtake each other in two
routines, so `EveryoneOnce` orders only those of one routine and says nothing of two; and a message to a
room is not filtered by what its members listen to, unlike the others.

### Reader, Writer, Layout and Wire

`Wire` is one connection as its bytes; `Session` has the same goroutines with
everything that is about their life instead. A client follows a script: the
lines of its request, its frames, its packets, fixed at the start; `Layout`
turns it into a sequence of cells. A cell is a byte or a field that one call
reads, so a header of sixteen bytes is `H` cells. The network delivers the cells
in pieces of every size.

`Reader` is `bufio.Reader` with its indices: `Fill` moves the window to the front
of the buffer and reads behind it, `Pop` returns a part of the buffer and not a
copy, `ReadLine` gives a line in parts when it does not fit, and an error is kept
until the window is empty. `Discard` and `Read` have no caller in comet; they
are there for the specification of the reader alone (`ReaderSpec`): its calls in
any order, which a connection is proved to keep to. Others write to the buffer too: unmasking works in place
(`Scribble`), and once the buffer is back in its pool (`PutBuffer`) the next user
fills it (`Reuse`). `Writer` gives for each call the states it can end in; a
failing connection takes any part of what it is given. A call of the writer is
atomic, and a peek of the two bytes of a frame's head is one cell.

In `Wire` the reader goroutine reads lines (`TakeLine`), upgrades, reads frames
field by field (`TakeFirst` to `Unmask`, `HandleFrame`, `CountFrame`) and packets
out of them (`TakeHead`, `TakeBody`, `TakeMessage`), and operates on them; the
dispatcher writes replies and pushed messages (`Begin`, `Write`, `Flush`). What a
packet's body is, is its place in the buffer (`Part`), and its cells are looked
up when the reply is written: that is where a moved buffer would show.

A script may ask for anything its type allows (`ScriptType`, `ScriptAssumption`):
lengths that do not fit, frames out of order, packets cut anywhere. Over a
websocket the length a packet states is not compared with the message it came in
(`protocol.go:181`): the body is then a slice past the message, over other cells of
the buffer, or past the buffer, and the process ends (`Reaches`, `MayReach`,
`Panic`). How far the memory behind a copied message goes is up to `append`.

Three facts about the code decide the properties:

* the replies to a change of rooms and to `Sub` and `Unsub` carry the body of
  the request, which still lies in the read buffer. A client that sends more
  before it has the reply (`impatient`) can get other bytes back; `EchoIntact` and
  `WellBehavedIsServed` are about those that wait. `EchoIntact` and `ReadsWhole` also ask that
  so far the client kept to the protocol (`InStep`: over a websocket a message is a packet and its
  frames carry it in order, over TCP a packet is as long as it says), because behind a
  packet that does not, the server reads its next header out of a body;
* with a ring of one slot even they are turned away, because the reader asks for
  a slot before the reply is written out of it; two suffice;
* the pong to a ping is written by the reader goroutine, without a flush, into
  the writer the dispatcher uses (`torn`): `FramesWhole` speaks of connections
  where the two did not overlap.

Pushed messages are packed by job already. Over TCP they go out as they are
(`"raw"`); over a websocket `WriteWebsocket` packs them again (`server_websocket.go:357`).

### Registry and Resolver

`Registry` has the processes that register and etcd. A process is started under
its name (`Start`: lease, keep-alive), writes its key on each answer to a
keep-alive (`KeepAlive`, and `Put` when etcd gets it, which may be after the
process stopped), and stops (`Stop`, then `Deregister`), crashes, or loses its
lease (`Expire`): nothing grants it another. `Resolver` has the two goroutines of
one resolver. The poll takes an answer from etcd (`GetAll`), adds its nodes one
by one (`AddFound`), and hands all it knows to the connection (`Push`); the watch
starts at the first tick, follows the events, and ends when it finds that no key
is left (`CheckLeft`). `missed` are the nodes that went away where the view could
not hear of it.

`SplitPath` takes the name from a deleted key and wants two parts. The parts of a
node's key are in `path`, one of the `Paths`, because a dot in a name becomes a slash: the
name `goim.logic` that the configuration has gives three, and the watch panics
at the first deletion it is told (`etcd-resolver.go:283`, modelled as `"panic"`), which ends the
process: neither goroutine goes on (`Running`). So `RegisteredIsUsed` and
`StaleWasMissed` speak of a process that runs. For a service with a dot in its name that
is until the first deletion, and no longer: that a node stays registered helps it
nothing then. The instance has both kinds of names. In the one, the two nodes are of services without a dot,
the second under the prefix of the first: the prefix has no slash at its end, so
that one is in the view too. In the other both are of one service with a dot.

## Runs

| run | checks | states |
|---|---|---|
| `bucket` | `ListWellFormed`, `WalkIsMembers`, `OnlineCounts`, `CloseReachesNobody`, `DroppedIsBeingRemoved`, `DisplacedIsTold`, `GoneIsForgotten`, `IpExactWithoutTakeover` | 2.0 M |
| `session` | `NoLostWakeup`, `FinishComes`, `PanicNeedsPipelining`, `AnswersInOrder`, `SessionEnds`, `TakeoverReturns` | 0.93 M |
| `heap` | `ImplementsQueue` | 2.9 k up to symmetry |
| `timer` | `ScheduledIsHeld`, `ArmedInTime`, `KeepsDeadlines`, `DueIsTaken` | 0.2 M |
| `jobroom` | `WakeupComes`, `ImplementsRoomQueue`, `LoopEnds` | 0.26 M |
| `mapping` | `EntriesAreOwned`, `EntriesExpire`, `KeyFound` | 0.26 M |
| `fanout` | `TypeOK`, `EveryoneOnce`, `PushMsgAnswers`, `CallsReturn` | 0.79 M |
| `wire` | `TypeOK`, `WindowIsStream`, `ReadsWhole`, `WellBehavedIsServed`, `FramesWhole`, `EchoIntact`, `ReturnedIsUntouched` | 1.4 M |
| `resolver` | `ResolverTypeOK`, `StaleWasMissed`, `RegisteredIsUsed`, `EndedIsUnregistered` | 0.76 M |
| `removed_room`, `online_counts`, `takeover` | one property each, violated | |

What is proved and holds by a shorter argument is left to the proofs: the type
invariants of the first six, `SlotsIntact`, `TakeoverMeetsDispatcher` and
`ReadBufferOutlivesSocket` of `Session`, `FreeIsFree` of `Timer`, `OneGoroutine` of
`JobRoom`.

**Bounds of `bucket`.** Three channels, two of them with the same key and
different IPs, the third with the IP of the first: the least with a takeover, a
shared IP and a third party in a room. Two room names, so that a change can go
to another room or back; four `Room` objects, one more than the channels that
can each hold an old one, checked never to run out by the run itself (a missing
object would stop `Put`, and deadlock is checked). Two `ChangeRoom` calls
(`MaxMoves`): the shortest way to a hurt room takes one, and one more is left to
use it.

**Bounds of `session`.** A ring of two slots, which three requests fill and wrap
round, and a channel of one, which makes every wait reachable: a push, a takeover
or an eviction fills it against the reader. `CHECK_DEADLOCK FALSE` because the
system may really stop: see `Leaked`.

**Bounds of `heap`.** Seven entries fill three levels of the heap. Six is the
least with which the last entry, moved into the place of a deleted one, has to
rise: the two must be in different subtrees. Three deadlines give earlier,
equal and later. `EntrySymmetry` is sound: entries are only compared for
equality, and the properties name none. The run has no liveness property.

**Bounds of `timer`.** Two connections, so that an entry is used by one after
the other and two are in the heap at once; a free list of one (`Num`) that has
to grow by a block of one; delays 0 to 2 and a clock to 3, so that an entry is
due at once, or later than another, or moved either way (two `Set`). At the
bound of the clock the goroutine may wait for ever for a signal it set beyond
it; once all connections are gone that is `Idle`, which keeps deadlock checked
everywhere else.

**Bounds of `jobroom`.** Two consumers, so that both find no room and both try
to make it, and so that one can hold a room that is gone. One room id: rooms
share nothing but the map, which is only read and written by id. Two objects:
one in the map and one that is gone and still held. With a `Batch` of two the
channel takes four, and four messages fill it, so that marks are dropped.

**Bounds of `mapping`.** Two connections on two comets. The second one logs in
with the key and user of the first (a second login of the client), with the
user alone (another device, so that the hash has two fields), or with the key
alone (no user). Calls of the first may fail, any number of times, with one
stray call at a time; the commands of two pipelines and a stray one interleave
freely.

**Bounds of `fanout`.** Two clients in one bucket with two routines, each with a
queue of one and each client with a channel of one, so that everything that can
be full is. Three of five requests are made: messages to the room that meet in
one routine or in two, one to both keys, one to all. One move of the clients
comes anywhere in between; they enter rooms freely, and a move that drops the room
brings two `DelRoom`s, of which the second meets the next room with its members. (The
second caller stands for one more client of the old room.) One bucket: buckets share nothing, and the calls
visit them in turn. `CHECK_DEADLOCK FALSE`: when all calls are served and the
clients stand still, nothing is left to do.

**Bounds of `wire`.** Twenty-six scripts, each with the least that makes its
case: packets before and after the login, bodies that fit the buffers exactly or
not, bad lengths, lengths past the message, a login refused; frames masked and not, with lengths of each
kind, fragments, control frames among them, every frame `ReadMessage` refuses;
requests with long lines and bad ones. Both buffers have four cells, so that all
headers fit, one body fits exactly and each message wraps round. `CHECK_DEADLOCK
FALSE`: a connection ends.

**Bounds of `resolver`.** Two processes, of two services without a dot, the second under the
prefix of the first, or of one with a dot; only the first ends or is cut off, and it is started twice,
so that late requests of one run meet the next. The watch is behind by at most
one Put (`MaxEvents`) and any number of deletions, which `MaxLives` bounds.
`CHECK_DEADLOCK FALSE`: a panic ends the process, and the registered ones come to rest.

**Fairness.** `FairSpec` of `Session` lets each goroutine run (`WF` of `Reader`
and `Dispatcher` as a whole, as the Go scheduler does), except where it waits
for the peer on an open socket; a timer that is set expires; and a goroutine that
waits to send on a channel gets its turn (a Go channel serves its senders in
order, weak fairness is less). That the reader runs includes that it gets `cLock`
for `Put` and `Del`: this is assumed of the *other* sessions of the bucket, and the
run `takeover` shows that it can fail, when one of them waits in `dch.Close` under the lock
for ever. `SessionEnds` is what holds of a session whose bucket is not stuck like that;
`CallsReturn` is too, for `Look`, `Lock` and `Take` want `cLock` as well, and
`FanoutAssumption`, which gives a key one connection, leaves takeovers out. `MaxReq` stands for a client that stops sending
sooner or later: one that sends heartbeats for ever keeps its session for ever.
That a timer that is set expires is what `DueIsTaken` shows of `Timer`, under
`WF` of the goroutine's loop as a whole, of `Ring` (the runtime sends on a timer
that went off) and of `Tick`; the connections there need not do anything. Logic
answers a heartbeat of 8 and comet takes it as 8 ns (`operation.go:24`), so in
fact a session's timer expires almost at once; `Session` allows that and any
later time.
In `JobRoom` the goroutine of each room runs (`WF` of `PushProc`), time passes,
a timer that is set goes off and its function runs; consumers need not push. In
`Mapping` calls are served and a client that stays sends heartbeats; it need not
stay, and nothing need fail or expire. In `Fanout` the rpcs and the routines
run; clients and dispatchers need not do anything. In `Resolver` the goroutines
run and tick until one panics, a Get that is made again and again succeeds again and again
(`SF`), requests come to an end, and etcd ends the leases that nobody keeps
alive; nobody has to register.

## What the violated runs show

* `removed_room`: `DelRoom` deletes by name. Two goroutines can both see the
  old room dropped; between their two `DelRoom`s a new room of the name is made
  and joined, and the second one removes it. Its members stay connected and get
  no more room messages.
* `online_counts`: `ChangeRoom` leaves the old room first. If the new one is
  dropped meanwhile the channel is in no room, `ch.Room` names the old one, and
  the next change or `Del` removes it from there again.
* `takeover`: `Bucket.Put` registers the channel before `room.Put` can refuse
  it, and the failed handshake does not call `Bucket.Del`. The key then leads to
  a channel that nobody serves; once pushes have filled it, the next login with
  the key waits in `dch.Close` with `cLock` held, and the bucket is stuck.

The passing properties say how far the damage goes: `TakeoverMeetsDispatcher`
and `TakeoverReturns` name the only two ways to block a takeover, and
`IpExactWithoutTakeover` the only cause of wrong counts per IP: `Del` takes the IP
to count down from the channel it *finds* under the key (`bucket.go:150`), and
after a takeover that is another connection, perhaps from another IP, or none.

Other faults met on the way, which no run is needed to see: `NewComet` always
fails, and `watchComet` of job panics over that (`job.go:100`); `SplitPath`
panics over a name with a dot; a lease that is lost is never granted again
(`etcd-register.go:87`); the loops that accept connections end for good when
one new socket refuses an option (`server_tcp.go:73`); a heartbeat of 8 becomes
8 ns (`operation.go:24`); `broadcast` of job divides by the number of comets it
knows, which may be zero (`push.go:66`); ServeTCP returns the read buffer to
its pool before it closes the socket (`server_tcp.go:245`).

## Proofs

Every theorem is about the specification of its component (`Spec`, `ReaderSpec`,
`ResolverSpec`) for any constants that satisfy the module's `ASSUME`: any number of channels, keys and rooms, any sizes of ring and channel.

`Bucket_proofs`. `TypeCorrect` first; then the list. The links are shown to
stay well formed by an invariant about pointers alone (`Next` and `Prev` are
inverse, neighbours are in the same room, a head has no `Prev`), preserved by
`RoomPut` of a channel that is in no list and by `RoomDel` of any channel. The
counts need more: `Walk` is the least set closed under `Next`, so that "the walk
is the members" can be stated without induction, and a member that is in no
walk would be a closed set of its own. The invariant carries, for rooms that
are not hurt, `Walk = Members` and `online = Cardinality(Members)`, and which
program counters imply which membership.

`Session_proofs`. `Inv` is the conjunction of the type invariant, of what the
two program counters imply of the socket, the timer and the bucket, of the ring
(`rp` up to `wp` up to `rp + Num`, unread slots hold their requests and, before
`wp`, answers), of the tokens in the channel (a `Finish` to come, a `Ready` to
come) and of `ch.Room`. It is proved inductive action by action, and each
property follows from it. `SessionAnswersInOrder` uses it for the refinement of
`Replies`.

`Packages_proofs`, of the timer. The one fact behind all others is who has an entry:
`fn[held[o]] = o` for a connection that has one, whether or not it expired
(`HeldInv`). Two connections with one entry would be the same owner of its `fn`,
and an entry in the heap has a connection, so it is not on the free list. Fresh
entries have higher numbers than all that were ever allocated, which `HeldInv`
also bounds. `ArmedInTime` is inductive with `TypeOK`: an entry that is not
first has one in front of it that the signal covers already. For the
refinement, `Add`, `Set` and `Del` change the deadline of one connection
because no other has its entry, and `Pop` finds `running = None` because only
the goroutine calls. `Num`, `MaxTDs` and the numbers of connections, delays and
`Set` calls are arbitrary.

`JobRoom_proofs`. `OneGoroutine` needs that a consumer in `Make` has a room id
and one in `Push` an object (`ConsumerInv`). `WakeupComes` needs `SignalInv`: a
batch that was begun has its timer set to `Signal`, or that timer went off and
then the batch is late, so that the next message, if not the mark, sends it. The
case that is easy to get wrong is the mark dropped by a full channel: the
messages that filled it are what ends the wait. `BatchInv` bounds the batch and
says that only a goroutine without one leaves. In the refinement each action of
an object that runs maps to the action of its room's queue; objects that are gone
map to nothing, and a `Push` to one stutters.

`Mapping_proofs`. `EntriesAreOwned` is not inductive: between the `DEL` of a
Disconnect and its reply the connection still counts as an owner, although it
owns nothing any more. `KeysOwned` and `MidsOwned` name the owner by the command
it has reached (`KeyDone`, `MidDone`), `CallInv` says what can be left of a
pipeline in each kind of call, and so that a connection that is about to `SET`
has not deleted, and that after `SET` or `HSET` the `EXPIRE` is still to come;
that a stray call has a broken owner is `StrayInv`. The tokens, the servers and
the number of connections are arbitrary.

`Wire_proofs` and, for the last two points, `WireClient_proofs`. Layers, each used by
the next; sizes, scripts, and how the network cuts and fails are arbitrary.

* The reader. The window has to be the next part of the stream: `WindowInv` adds
  to `WindowIsStream` the types, by which what is in the buffer was taken from the
  stream exactly once. Each operation either moves `r`, or goes through `Fill`,
  for which one lemma says what the buffer holds afterwards. A caller that unmasks
  what it was given, and a next user of a returned buffer, write where the
  invariant says nothing.
* The connection calls it as it allows (`ConnectionIsReader`). This needs
  everything a handler relies on when it calls: the buffer is held until the exit
  (`ControlInv`), the frame and the packet being read exist, a payload lies in the
  part already read when it is unmasked and a body inside the buffer
  (`MessageInv`), and that because a header can only be a header the client sent:
  what is in the buffer is of the stream, under a key or not (`StreamInv`). The
  stream of a script is a fold over its requests and frames; that its cells name
  packets and frames of the script is proved along the fold.
  `RingInv`, `SignalInv` and `DispatchInv` bound the ring and the channel and say
  that the dispatcher writes an item that exists, a reply as long as it is in the
  ring. With this `ConnectionTypeCorrect` and `ConnectionReadsStream` follow.
* The writer. `Puts(s, p, t)` says that a call took the writer from `s` to `t` with
  the cells `p`: all of them behind what was there, or after an error a first part of
  all that, and nothing after an earlier error. It is proved of every call, of
  `Strung` along its loop. `FrameInv` then follows an item through its writes:
  the cells so far are whole items in a row (`Whole`), and unless a write failed the
  last one is as far as the dispatcher, or the reader with a pong, has come
  (`Place`). It holds until a pong comes between two writes of the dispatcher
  (`torn`), and says nothing afterwards: that is what `FramesWhole` excludes. A
  write that fails may end anywhere, and `wr.err` stays. So the buffer that a
  dispatcher put back has a failed writer, or the reader has ended: that is `EndInv`,
  and `ReturnedIsUntouched` with it.

* What is read. `WindowIsStream` says that the buffer holds the stream, and not where in
  it a handler is. `At`, the place of `r` in the stream, is what the remaining
  invariants are about, together with `Off`, the place where the items of a script (the
  lines, frames or packets) begin: that the stream has item `k` at `Off(k)` is proved
  along the fold that makes the stream (`OffCells`). `AlignInv`: while a frame is read the
  reader is where that frame has its next field, and between frames it is at the end
  of the last. `QuietInv`: a read error is kept only when nothing more comes, so that a
  call that fails leaves nothing behind it to be misread. `PartInv`: the payload of a
  frame is the part of the packet that it carries, masked before `Unmask` and plain
  after it. `JoinInv`: what `ReadMessage` put together so far is the beginning of the
  packet that the last data frame belongs to, and control frames do not change that.
  `TcpInv`: over TCP the reader is at the packet it is about to read. `TakenInv`: what is
  handed over is packet number `got`. The last is `ReadsWhole`; it needs all the
  others, and `InStep` of what was read so far, not of what comes.

* What is echoed. A reply is put together when it is written, from a body that may
  still lie in the read buffer; what `EchoIntact` needs is that the buffer is not
  filled meanwhile. For a client that waits (`Patient`), on an open connection
  (`Live`): everything it sent since the last packet that waits for a reply is that
  packet (`SendInv`), the packet at hand is one it gets a reply for (`AuthInv`,
  `Answered`), and what the dispatcher writes is the head of the ring (`ItemInv`). A
  packet that was put together was sent whole, whatever frames carried it
  (`PacketArrives`), so at the moment its reply enters the ring nothing else is in the
  stream (`NothingBehind`); as long as the ring is not empty nothing is read, because
  the window is empty and the client sends nothing (`WaitInv`). The last cell of a
  reply ends the waiting, and the ring is empty then, because the cell is written by
  the same step that takes the slot (`LastInv`, `LastIsDone`); a write that fails never
  brings the last cell of its item (`FailsBefore`). `RightInv` is
  `EchoIntact` of all that is written, what the writer still buffers included. The
  theorem assumes `Num > 1`: with a ring of one slot `SetProto` finds no slot while the
  one reply is in it, the connection fails, and `EchoIntact` is lost, as TLC shows for
  `Num = 1`. The code's ring has 8 (5 rounded up to a power of two).

* Who is served. `WellBehavedIsServed` says of a client that keeps to the protocol, and
  waits, that no step of the reader gives it up (`ServedInv`). The ring is the same
  matter as above (`WaitInv`), and again `Num > 1`. Over TCP there is always another
  packet where a header is read (`GotInv`, `HeadIsThere`), over a websocket a frame where
  the first byte of one is (`FrameIsThere`), so nothing is ever read out of step. No limit is
  met on the way: the sizes (`GoodPacket`, `TakeStagesServe`); the count of
  frames, which is never more than the frames in a row that end no message and that the
  client keeps few (`ShortMessages`; `CountInv`: the count that `ReadMessage` keeps is the
  number of those before the one at hand); and the lines of the request. These
  are the hard part, because `readLine` puts a line together out of parts of the
  buffer and cuts what ends it, a carriage return only if it comes together with the line
  feed. `LineInv`: the parts that were read are the beginning of the line at hand
  (`AtLine`), without its end, and the last of them is no carriage return that belongs to the
  line feed; so what is put together is the line without its end (`LineIsRead`), as
  `GoodRequest` has it. The request is sent in one piece (`SentInv`), so that a window that
  is short of a line is full or will be. The attempt to prove this for all scripts showed
  what a client has to keep to besides what the scripts of the run suggest, and that is now in
  `WellBehaved`: one line feed per line and only blanks in the last line, no more than
  `MaxRead` frames in a row behind one that ends no message, and bodies over TCP
  that the buffer can hold. A buffer has two cells at least (`WireAssumption`), for the
  length of a frame.

`Fanout_proofs`. What a call, a routine or a channel has done is read off where
it stands. A call to keys has served exactly those of the keys `Behind` it who
stayed (`KeysInv`). A client is `Reached` by a message to its room when a routine
of its bucket is past the client with it (`Visited`), and by one to all when the
broadcast is (`Through`); then `LogInv` says that whoever has a message was
reached by it (`GotInv`), that whoever stayed and was reached has it or was full
(`ServedInv`), and order and uniqueness. The first of these carries the other
two: a client that was not reached yet does not have the message, so an offer
never puts it there twice, nor behind one that entered the routine later. That a
message enters each bucket once is `EnteredInv`, and that a walk over nobody
passes nobody who stayed comes from `stayed` being kept by what clients do.
That rooms can be removed under their members needs two more invariants. `PlaceInv`: a client
is in a room of its own bucket. `FoundInv`: whoever stayed for a message is in the room
its routine found, because a removal takes everybody in the room out of `stayed`; so the
walk of that room passes all of them. Numbers of clients, buckets, routines and requests, all sizes and the order of
the keys are arbitrary; a client with two connections under one key is not.

`Packages_proofs`, of the resolver. `StaleWasMissed` alone is lost where the poll adds a node
from an answer that has become old, and where the watch applies a Put of a node
that has gone since. `FoundInv` says of the first that such a node was missed, `PutInv`
of the second that behind the Put its deletion is on the way. `ResolverTypeOK`, with the
queue of events and the event in hand, is needed by both. The parts of the names, the processes, their names and numbers of runs are arbitrary.

Of the counts per address (`AddressesAreCounted`): the one fact needed is that
a connection whose key nobody took over is the one found under it (`HeldOK`), so
`Del` counts down the address it counted up, and the floor of the count is
never met.

Where a proof needs an induction over natural numbers, as along a sequence or a
loop, it goes by the least number for which the claim fails (`LeastNumber`): the
induction theorems of the library have an operator as parameter, which no prover
here can instantiate.

Only model-checked: the liveness properties
`SessionEnds`, `TakeoverReturns`, `DueIsTaken`, `LoopEnds`, `KeyFound`,
`CallsReturn`, `RegisteredIsUsed` and `EndedIsUnregistered`, which the prover has
no rules for; and the heap: what the loops `Up` and `Down` leave of the array is an
induction along the tree, for which the run of `Heap` stands with every order of
seven entries.

## Plan

1. Done: `Bucket`, `Session`, `Heap`, `Timer`, `JobRoom`, `Mapping`, `Fanout`,
   `Wire` with its `Reader`, `Writer` and `Layout`, and `Resolver` with its
   `Registry`; proofs of the safety properties of all of these but `Heap`.
2. Next: `job/comet.go` and the way from logic through kafka, once a comet client can
   be made at all.

## Not modelled

Configuration, logging, set-up of the programs, the HTTP and gRPC front ends of
logic and its kafka producer convert and forward and keep no state. The
balancer is commented out. `job/comet.go` cannot run: `NewComet` tests a
variable it never sets (`comet.go:78-82`) and always returns an error. The
whole of comet's `onlineproc` has no effect, because `RenewOnline` returns nil
before it calls logic (`operation.go:50`); so no count ever reaches logic, and its
online counts are left out.

Of what is modelled: `NewChannel` and the rounding of the ring's size to a power
of two; `DetTargetNodes` and several targets of one resolver; a watch that etcd
closes; the pause of `Broadcast` between buckets and the `Rooms` rpc; 64-bit
lengths of frames and the UTF-8 of text; the names of the headers of a request,
of which only matters whether `Upgrade` takes them; the wrap of `routinesNum`
after 2^64 messages.
