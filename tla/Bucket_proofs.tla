--------------------------- MODULE Bucket_proofs ---------------------------
(***************************************************************************)
(* Proofs about module Bucket, for every number of channels, keys, rooms   *)
(* and moves.  The argument follows mem, the room whose list holds a       *)
(* channel: it is ch.Room of a goroutine that is not past Room.Del, so a   *)
(* Room.Del hits the list of the caller or, in a hurt room, no list.       *)
(***************************************************************************)
EXTENDS Bucket, FiniteSetTheorems, TLAPS

\* What the program counter of a goroutine says of its registers.
PcOK ==
    \A c \in Channels :
        /\ pc[c] \in {"join", "leave", "left", "unmap", "close"} => room[c] # None
        /\ pc[c] \in {"new", "join", "live", "refused"} => op[c] = "none"
        /\ pc[c] \in {"leave", "left", "unmap", "close", "enter", "out", "gone"} =>
             op[c] # "none"
        /\ pc[c] = "enter" => op[c] = "move"
        /\ pc[c] = "out" => op[c] = "out"
        /\ pc[c] = "gone" => op[c] = "del"
        /\ (op[c] = "move") <=> (to[c] # None)

TypeInv == TypeOK /\ PcOK

\* The types of the variables a Room operation writes.
RoomType ==
    /\ id \in [Rooms -> RoomIds \cup {None}]
    /\ head \in [Rooms -> Channels \cup {None}]
    /\ drop \in [Rooms -> BOOLEAN]
    /\ online \in [Rooms -> Int]
    /\ hurt \in [Rooms -> BOOLEAN]

LinkType ==
    /\ next \in [Channels -> Channels \cup {None}]
    /\ prev \in [Channels -> Channels \cup {None}]
    /\ mem \in [Channels -> Rooms \cup {None}]

\* Finding or making a room keeps the types.
LEMMA RoomAtType ==
    ASSUME TypeOK, NEW r \in Rooms, NEW rid \in RoomIds, RoomAt(r, rid)
    PROVE  rooms' \in [RoomIds -> Rooms \cup {None}] /\ RoomType'
<1>1. CASE UNCHANGED <<rooms, roomVars>>
  BY <1>1 DEF TypeOK, RoomType, roomVars
<1>2. CASE rooms' = [rooms EXCEPT ![rid] = r] /\ NewRoom(r, rid)
  BY <1>2 DEF TypeOK, RoomType, NewRoom
<1> QED BY <1>1, <1>2 DEF RoomAt

\* Room.Put keeps the types.
LEMMA RoomPutType ==
    ASSUME TypeOK, NEW r \in Rooms, NEW c \in Channels, RoomPut(r, c)
    PROVE  RoomType' /\ LinkType'
  BY DEF TypeOK, RoomPut, RoomType, LinkType

\* Room.Del keeps the types.
LEMMA RoomDelType ==
    ASSUME TypeOK, NEW r \in Rooms, NEW c \in Channels, RoomDel(r, c)
    PROVE  RoomType' /\ LinkType'
<1>1. prev' \in [Channels -> Channels \cup {None}]
  BY DEF TypeOK, RoomDel
<1>2. next' \in [Channels -> Channels \cup {None}]
  BY DEF TypeOK, RoomDel
<1>3. head' \in [Rooms -> Channels \cup {None}]
  BY DEF TypeOK, RoomDel
<1>4. /\ id' \in [Rooms -> RoomIds \cup {None}]
      /\ drop' \in [Rooms -> BOOLEAN]
      /\ online' \in [Rooms -> Int]
  BY DEF TypeOK, RoomDel
<1>5. hurt' \in [Rooms -> BOOLEAN]
  BY DEF TypeOK, RoomDel
<1>6. mem' \in [Channels -> Rooms \cup {None}]
  BY DEF TypeOK, RoomDel
<1> QED BY <1>1, <1>2, <1>3, <1>4, <1>5, <1>6 DEF RoomType, LinkType

LEMMA TypeInit == Init => TypeInv
  BY BucketAssumption DEF Init, TypeInv, TypeOK, PcOK, Pcs

\* Every action of a goroutine, and the idle server, keeps types and registers.
LEMMA TypeStep == TypeInv /\ [Next]_vars => TypeInv'
<1> SUFFICES ASSUME TypeInv, [Next]_vars PROVE TypeInv'
  OBVIOUS
<1> USE BucketAssumption DEF TypeInv, Pcs, bucketVars, roomVars, linkVars
<1>1. ASSUME NEW c \in Channels, Put(c) PROVE TypeInv'
  <2>1. chs' \in [Keys -> Channels \cup {None}] /\ ipCnts' \in [IPs -> Nat]
        /\ told' \subseteq Channels /\ displaced' \subseteq Channels
    BY <1>1 DEF Put, Register, TypeOK, BucketAssumption
  <2>2. CASE PutAlone(c)
    BY <1>1, <2>1, <2>2 DEF Put, PutAlone, TypeOK, PcOK
  <2>3. ASSUME NEW rid \in RoomIds, PutIn(c, rid) PROVE TypeInv'
    <3>1. PICK r \in Rooms : RoomAt(r, rid) /\ room' = [room EXCEPT ![c] = r]
      BY <2>3 DEF PutIn
    <3>2. rooms' \in [RoomIds -> Rooms \cup {None}] /\ RoomType'
      BY <3>1, RoomAtType
    <3>3. TypeOK'
      BY <1>1, <2>1, <2>3, <3>1, <3>2 DEF Put, PutIn, TypeOK, RoomType
    <3>4. PcOK'
      BY <1>1, <2>3, <3>1 DEF Put, PutIn, TypeOK, PcOK, BucketAssumption
    <3> QED BY <3>3, <3>4
  <2> QED BY <1>1, <2>2, <2>3 DEF Put
<1>2. ASSUME NEW c \in Channels, Join(c) PROVE TypeInv'
  <2>1. room[c] \in Rooms
    BY <1>2 DEF Join, TypeOK, PcOK
  <2>2. RoomType' /\ LinkType'
    BY <1>2, <2>1, RoomPutType DEF Join, TypeOK, RoomType, LinkType
  <2>3. TypeOK'
    BY <1>2, <2>2 DEF Join, TypeOK, RoomType, LinkType
  <2>4. PcOK'
    BY <1>2 DEF Join, TypeOK, PcOK
  <2> QED BY <2>3, <2>4
<1>3. ASSUME NEW c \in Channels, ChangeRoomToNone(c) PROVE TypeInv'
  BY <1>3 DEF ChangeRoomToNone, Start, Rest, TypeOK, PcOK, BucketAssumption
<1>4. ASSUME NEW c \in Channels, NEW rid \in RoomIds, ChangeRoom(c, rid) PROVE TypeInv'
  <2>1. PICK r \in Rooms : RoomAt(r, rid) /\ to' = [to EXCEPT ![c] = r]
    BY <1>4 DEF ChangeRoom
  <2>2. rooms' \in [RoomIds -> Rooms \cup {None}] /\ RoomType'
    BY <2>1, RoomAtType
  <2>3. TypeOK'
    BY <1>4, <2>1, <2>2 DEF ChangeRoom, Start, Rest, TypeOK, RoomType, BucketAssumption
  <2>4. PcOK'
    BY <1>4, <2>1 DEF ChangeRoom, Start, Rest, TypeOK, PcOK, BucketAssumption
  <2> QED BY <2>3, <2>4
<1>5. ASSUME NEW c \in Channels, Enter(c) PROVE TypeInv'
  <2>1. to[c] \in Rooms
    BY <1>5 DEF Enter, TypeOK, PcOK
  <2>2. RoomType' /\ LinkType'
    BY <1>5, <2>1, RoomPutType DEF Enter, TypeOK, RoomType, LinkType
  <2>3. TypeOK'
    BY <1>5, <2>1, <2>2 DEF Enter, TypeOK, RoomType, LinkType
  <2>4. PcOK'
    BY <1>5, <2>1 DEF Enter, TypeOK, PcOK
  <2> QED BY <2>3, <2>4
<1>6. ASSUME NEW c \in Channels, Out(c) PROVE TypeInv'
  BY <1>6 DEF Out, TypeOK, PcOK
<1>7. ASSUME NEW c \in Channels, Del(c) PROVE TypeInv'
  <2>1. chs' \in [Keys -> Channels \cup {None}] /\ ipCnts' \in [IPs -> Nat]
    BY <1>7 DEF Del, Unregister, TypeOK
  <2>2. TypeOK'
    BY <1>7, <2>1 DEF Del, Start, Rest, TypeOK
  <2>3. PcOK'
    BY <1>7 DEF Del, Start, Rest, TypeOK, PcOK
  <2> QED BY <2>2, <2>3
<1>8. ASSUME NEW c \in Channels, Leave(c) PROVE TypeInv'
  <2>1. room[c] \in Rooms
    BY <1>8 DEF Leave, TypeOK, PcOK
  <2>2. RoomType' /\ LinkType'
    BY <1>8, <2>1, RoomDelType DEF Leave
  <2>3. TypeOK'
    BY <1>8, <2>2 DEF Leave, TypeOK, RoomType, LinkType
  <2>4. PcOK'
    BY <1>8 DEF Leave, TypeOK, PcOK
  <2> QED BY <2>3, <2>4
<1>9. ASSUME NEW c \in Channels, ReadDrop(c) PROVE TypeInv'
  BY <1>9 DEF ReadDrop, Rest, TypeOK, PcOK
<1>10. ASSUME NEW c \in Channels, Unmap(c) PROVE TypeInv'
  BY <1>10 DEF Unmap, TypeOK, PcOK
<1>11. ASSUME NEW c \in Channels, CloseRoom(c) PROVE TypeInv'
  <2>1. told' \subseteq Channels
    BY <1>11 DEF CloseRoom, Walk, TypeOK
  <2>2. TypeOK'
    BY <1>11, <2>1 DEF CloseRoom, Rest, TypeOK
  <2>3. PcOK'
    BY <1>11 DEF CloseRoom, Rest, TypeOK, PcOK
  <2> QED BY <2>2, <2>3
<1>12. CASE UNCHANGED vars
  BY <1>12 DEF vars, TypeOK, PcOK
<1> QED
  BY <1>1, <1>2, <1>3, <1>4, <1>5, <1>6, <1>7, <1>8, <1>9, <1>10, <1>11, <1>12
  DEF Next, Step, AllEnded

LEMMA TypeInvariant == Spec => []TypeInv
  BY TypeInit, TypeStep, PTL DEF Spec

\* The state of a bucket keeps its types.
THEOREM TypeCorrect == Spec => []TypeOK
<1>1. TypeInv => TypeOK
  BY DEF TypeInv
<1> QED BY TypeInvariant, <1>1, PTL

-----------------------------------------------------------------------------
(* The lists of the rooms *)

\* A channel is held by the room of its goroutine, until Room.Del.
MemIsRoom ==
    \A c \in Channels :
        mem[c] # None => mem[c] = room[c] /\ pc[c] \in {"live", "leave"}

\* NewRoom never returns an object that holds a channel.
LEMMA GarbageIsEmpty ==
    ASSUME TypeInv, MemIsRoom, NEW r \in Rooms, Garbage(r)
    PROVE  \A c \in Channels : mem[c] # r
  BY BucketAssumption DEF TypeInv, TypeOK, MemIsRoom, Garbage, Ended

LEMMA MemInit == Init => MemIsRoom
  BY DEF Init, MemIsRoom

LEMMA MemStep == TypeInv /\ MemIsRoom /\ [Next]_vars => MemIsRoom'
<1> SUFFICES ASSUME TypeInv, MemIsRoom, [Next]_vars PROVE MemIsRoom'
  OBVIOUS
<1> USE BucketAssumption DEF TypeInv, TypeOK, MemIsRoom, bucketVars, roomVars, linkVars
<1>1. ASSUME NEW c \in Channels, Put(c) PROVE MemIsRoom'
  BY <1>1 DEF Put, PutAlone, PutIn
<1>2. ASSUME NEW c \in Channels, Join(c) PROVE MemIsRoom'
  BY <1>2 DEF Join, RoomPut
<1>3. ASSUME NEW c \in Channels, ChangeRoomToNone(c) PROVE MemIsRoom'
  BY <1>3 DEF ChangeRoomToNone, Start
<1>4. ASSUME NEW c \in Channels, NEW rid \in RoomIds, ChangeRoom(c, rid) PROVE MemIsRoom'
  BY <1>4 DEF ChangeRoom, Start
<1>5. ASSUME NEW c \in Channels, Enter(c) PROVE MemIsRoom'
  BY <1>5 DEF Enter, RoomPut
<1>6. ASSUME NEW c \in Channels, Out(c) PROVE MemIsRoom'
  BY <1>6 DEF Out
<1>7. ASSUME NEW c \in Channels, Del(c) PROVE MemIsRoom'
  BY <1>7 DEF Del, Start
<1>8. ASSUME NEW c \in Channels, Leave(c) PROVE MemIsRoom'
  BY <1>8 DEF Leave, RoomDel
<1>9. ASSUME NEW c \in Channels, ReadDrop(c) \/ Unmap(c) \/ CloseRoom(c) PROVE MemIsRoom'
  BY <1>9 DEF ReadDrop, Unmap, CloseRoom
<1>10. CASE UNCHANGED vars
  BY <1>10 DEF vars
<1> QED
  BY <1>1, <1>2, <1>3, <1>4, <1>5, <1>6, <1>7, <1>8, <1>9, <1>10
  DEF Next, Step, AllEnded

\* A channel that no room holds has no neighbour and heads no list.
LEMMA LooseChannel ==
    ASSUME TypeInv, ListWellFormed, NEW c \in Channels, mem[c] = None
    PROVE  /\ next[c] = None
           /\ prev[c] = None
           /\ \A d \in Channels : next[d] # c /\ prev[d] # c
           /\ \A r \in Rooms : head[r] # c
  BY BucketAssumption DEF TypeInv, TypeOK, ListWellFormed

\* NewRoom starts an empty list.
LEMMA ListRoomAt ==
    ASSUME TypeInv, ListWellFormed, NEW r \in Rooms, NEW rid \in RoomIds, RoomAt(r, rid),
           UNCHANGED linkVars
    PROVE  ListWellFormed'
  BY BucketAssumption
  DEF TypeInv, TypeOK, ListWellFormed, RoomAt, NewRoom, roomVars, linkVars

\* Room.Put of a channel in no list.
LEMMA ListPut ==
    ASSUME TypeInv, ListWellFormed, NEW r \in Rooms, NEW c \in Channels, mem[c] = None,
           RoomPut(r, c)
    PROVE  ListWellFormed'
<1> USE BucketAssumption DEF TypeInv, TypeOK
<1>1. /\ next[c] = None
      /\ prev[c] = None
      /\ \A d \in Channels : next[d] # c /\ prev[d] # c
      /\ \A q \in Rooms : head[q] # c
  BY LooseChannel
<1>2. \A x, y \in Channels : (next'[x] = y) <=> (prev'[y] = x)
  BY <1>1 DEF ListWellFormed, RoomPut
<1>3. \A x, y \in Channels : next'[x] = y => mem'[x] = mem'[y] /\ mem'[x] # None
  BY <1>1 DEF ListWellFormed, RoomPut
<1>4. \A q \in Rooms : head'[q] # None => mem'[head'[q]] = q /\ prev'[head'[q]] = None
  <2> SUFFICES ASSUME NEW q \in Rooms, head'[q] # None
               PROVE  mem'[head'[q]] = q /\ prev'[head'[q]] = None
    OBVIOUS
  <2>1. CASE q = r
    BY <2>1 DEF RoomPut
  <2>2. CASE q # r
    <3>1. head'[q] = head[q] /\ head[q] # c /\ head[q] \in Channels
      BY <1>1, <2>2 DEF RoomPut
    <3>2. head[q] # head[r]
      BY <2>2, <3>1 DEF ListWellFormed
    <3> QED BY <3>1, <3>2 DEF ListWellFormed, RoomPut
  <2> QED BY <2>1, <2>2
<1> QED BY <1>2, <1>3, <1>4 DEF ListWellFormed

\* Room.Del of a channel that this room or no room holds.
LEMMA ListDel ==
    ASSUME TypeInv, ListWellFormed, NEW r \in Rooms, NEW c \in Channels, mem[c] \in {None, r},
           RoomDel(r, c)
    PROVE  ListWellFormed'
<1> USE BucketAssumption DEF TypeInv, TypeOK
<1>1. \A x, y \in Channels : (next'[x] = y) <=> (prev'[y] = x)
  BY DEF ListWellFormed, RoomDel
<1>2. \A x, y \in Channels : next'[x] = y => mem'[x] = mem'[y] /\ mem'[x] # None
  <2> SUFFICES ASSUME NEW x \in Channels, NEW y \in Channels, next'[x] = y
               PROVE  mem'[x] = mem'[y] /\ mem'[x] # None
    OBVIOUS
  <2>1. x # c /\ y # c
    BY DEF ListWellFormed, RoomDel
  <2>2. mem[x] = mem[y] /\ mem[x] # None
    BY <2>1 DEF ListWellFormed, RoomDel
  <2> QED BY <2>1, <2>2 DEF RoomDel
<1>3. \A q \in Rooms : head'[q] # None => mem'[head'[q]] = q /\ prev'[head'[q]] = None
  <2> SUFFICES ASSUME NEW q \in Rooms, head'[q] # None
               PROVE  mem'[head'[q]] = q /\ prev'[head'[q]] = None
    OBVIOUS
  <2>1. CASE q = r /\ prev[c] = None
    <3>1. head'[q] = next[c] /\ next[c] \in Channels
      BY <2>1 DEF RoomDel
    <3>2. next[c] # c /\ mem[next[c]] = r
      BY <2>1, <3>1 DEF ListWellFormed
    <3> QED BY <2>1, <3>1, <3>2 DEF RoomDel
  <2>2. CASE ~(q = r /\ prev[c] = None)
    <3>1. head'[q] = head[q] /\ head[q] \in Channels
      BY <2>2 DEF RoomDel
    <3>2. head[q] # c
      BY <2>2, <3>1 DEF ListWellFormed
    <3>3. head[q] # next[c]
      BY <3>1 DEF ListWellFormed
    <3> QED BY <3>1, <3>2, <3>3 DEF ListWellFormed, RoomDel
  <2> QED BY <2>1, <2>2
<1> QED BY <1>1, <1>2, <1>3 DEF ListWellFormed

LEMMA ListInit == Init => ListWellFormed
  BY BucketAssumption DEF Init, ListWellFormed

LEMMA ListStep ==
    TypeInv /\ MemIsRoom /\ ListWellFormed /\ [Next]_vars => ListWellFormed'
<1> SUFFICES ASSUME TypeInv, MemIsRoom, ListWellFormed, [Next]_vars PROVE ListWellFormed'
  OBVIOUS
<1>1. ASSUME NEW c \in Channels, Put(c) PROVE ListWellFormed'
  <2>1. UNCHANGED linkVars
    BY <1>1 DEF Put
  <2>2. CASE PutAlone(c)
    BY <2>1, <2>2 DEF PutAlone, ListWellFormed, roomVars, linkVars
  <2>3. ASSUME NEW rid \in RoomIds, PutIn(c, rid) PROVE ListWellFormed'
    BY <2>1, <2>3, ListRoomAt DEF PutIn
  <2> QED BY <1>1, <2>2, <2>3 DEF Put
<1>2. ASSUME NEW c \in Channels, NEW rid \in RoomIds, ChangeRoom(c, rid) PROVE ListWellFormed'
  BY <1>2, ListRoomAt DEF ChangeRoom
<1>3. ASSUME NEW c \in Channels, Join(c) PROVE ListWellFormed'
  <2>1. room[c] \in Rooms /\ mem[c] = None
    BY <1>3 DEF Join, TypeInv, TypeOK, PcOK, MemIsRoom
  <2> QED BY <1>3, <2>1, ListPut DEF Join, ListWellFormed, roomVars, linkVars
<1>4. ASSUME NEW c \in Channels, Enter(c) PROVE ListWellFormed'
  <2>1. to[c] \in Rooms /\ mem[c] = None
    BY <1>4 DEF Enter, TypeInv, TypeOK, PcOK, MemIsRoom
  <2> QED BY <1>4, <2>1, ListPut DEF Enter, ListWellFormed, roomVars, linkVars
<1>5. ASSUME NEW c \in Channels, Leave(c) PROVE ListWellFormed'
  <2>1. room[c] \in Rooms /\ mem[c] \in {None, room[c]}
    BY <1>5 DEF Leave, TypeInv, TypeOK, PcOK, MemIsRoom
  <2> QED BY <1>5, <2>1, ListDel DEF Leave
<1>6. ASSUME NEW c \in Channels,
             \/ ChangeRoomToNone(c) \/ Out(c) \/ Del(c)
             \/ ReadDrop(c) \/ Unmap(c) \/ CloseRoom(c)
      PROVE  ListWellFormed'
  BY <1>6 DEF ChangeRoomToNone, Out, Del, ReadDrop, Unmap, CloseRoom, ListWellFormed,
    roomVars, linkVars
<1>7. CASE UNCHANGED vars
  BY <1>7 DEF vars, ListWellFormed, roomVars, linkVars
<1> QED
  BY <1>1, <1>2, <1>3, <1>4, <1>5, <1>6, <1>7 DEF Next, Step, AllEnded

LEMMA ListInvariant == Spec => [](TypeInv /\ MemIsRoom /\ ListWellFormed)
  BY TypeInvariant, MemInit, MemStep, ListInit, ListStep, PTL DEF Spec

\* The lists of the rooms stay well formed, hurt or not: every walk of
\* Room.Push and Room.Close stays inside its room and ends.
THEOREM ListsAreWellFormed == Spec => []ListWellFormed
  BY ListInvariant, PTL

-----------------------------------------------------------------------------
(* The tables of the bucket *)

IdsOK == \A rid \in RoomIds : rooms[rid] # None => id[rooms[rid]] = rid

ChsOK ==
    \A k \in Keys : chs[k] # None =>
        KeyOf[chs[k]] = k /\ pc[chs[k]] # "new" /\ op[chs[k]] # "del"

TableInv == IdsOK /\ ChsOK /\ DroppedIsBeingRemoved /\ DisplacedIsTold

LEMMA TableInit == Init => TableInv
  BY BucketAssumption DEF Init, TableInv, IdsOK, ChsOK, DroppedIsBeingRemoved, DisplacedIsTold

LEMMA IdsStep == TypeInv /\ IdsOK /\ [Next]_vars => IdsOK'
<1> SUFFICES ASSUME TypeInv, IdsOK, [Next]_vars PROVE IdsOK'
  OBVIOUS
<1> USE BucketAssumption DEF TypeInv, TypeOK, IdsOK, bucketVars, roomVars
<1>1. ASSUME NEW r \in Rooms, NEW rid \in RoomIds, RoomAt(r, rid) PROVE IdsOK'
  BY <1>1 DEF RoomAt, NewRoom, Garbage
<1>2. ASSUME NEW c \in Channels, Put(c) PROVE IdsOK'
  BY <1>1, <1>2 DEF Put, PutAlone, PutIn
<1>3. ASSUME NEW c \in Channels, NEW rid \in RoomIds, ChangeRoom(c, rid) PROVE IdsOK'
  BY <1>1, <1>3 DEF ChangeRoom
<1>4. ASSUME NEW c \in Channels, Join(c) \/ Enter(c) \/ Leave(c) PROVE IdsOK'
  BY <1>4 DEF Join, Enter, Leave, RoomPut, RoomDel
<1>5. ASSUME NEW c \in Channels, Unmap(c) PROVE IdsOK'
  BY <1>5 DEF Unmap
<1>6. ASSUME NEW c \in Channels,
             ChangeRoomToNone(c) \/ Out(c) \/ Del(c) \/ ReadDrop(c) \/ CloseRoom(c)
      PROVE  IdsOK'
  BY <1>6 DEF ChangeRoomToNone, Out, Del, ReadDrop, CloseRoom
<1>7. CASE UNCHANGED vars
  BY <1>7 DEF vars
<1> QED BY <1>2, <1>3, <1>4, <1>5, <1>6, <1>7 DEF Next, Step, AllEnded

LEMMA ChsStep ==
    TypeInv /\ ChsOK /\ DisplacedIsTold /\ [Next]_vars => ChsOK' /\ DisplacedIsTold'
<1> SUFFICES ASSUME TypeInv, ChsOK, DisplacedIsTold, [Next]_vars
             PROVE  ChsOK' /\ DisplacedIsTold'
  OBVIOUS
<1> USE BucketAssumption DEF TypeInv, TypeOK, PcOK, ChsOK, DisplacedIsTold, Ended, bucketVars
<1>1. ASSUME NEW c \in Channels, Put(c) PROVE ChsOK' /\ DisplacedIsTold'
  <2>1. /\ pc[c] = "new"
        /\ pc' = [pc EXCEPT ![c] = "live"] \/ pc' = [pc EXCEPT ![c] = "join"]
        /\ op' = op
        /\ chs' = [chs EXCEPT ![KeyOf[c]] = c]
    BY <1>1 DEF Put, PutAlone, PutIn, Register
  <2>2. told \subseteq told' /\ (chs[KeyOf[c]] # None => chs[KeyOf[c]] \in told')
    BY <1>1 DEF Put, Register
  <2>3. ChsOK'
    BY <2>1
  <2>4. DisplacedIsTold'
    BY <2>1, <2>2
  <2> QED BY <2>3, <2>4
<1>2. ASSUME NEW c \in Channels, Del(c) PROVE ChsOK' /\ DisplacedIsTold'
  <2>1. /\ pc[c] = "live"
        /\ op' = [op EXCEPT ![c] = "del"]
        /\ \E s \in Pcs \ {"new"} : pc' = [pc EXCEPT ![c] = s]
        /\ chs' = IF chs[KeyOf[c]] = c THEN [chs EXCEPT ![KeyOf[c]] = None] ELSE chs
        /\ told' = told
    BY <1>2 DEF Del, Unregister, Start, Rest, Pcs
  <2>2. ChsOK'
    BY <2>1 DEF Pcs
  <2>3. DisplacedIsTold'
    BY <2>1 DEF Pcs
  <2> QED BY <2>2, <2>3
<1>3. ASSUME NEW c \in Channels, Join(c) \/ Enter(c) \/ Out(c) \/ ChangeRoomToNone(c)
      PROVE  ChsOK' /\ DisplacedIsTold'
  BY <1>3 DEF Join, Enter, Out, ChangeRoomToNone, Start, Rest
<1>4. ASSUME NEW c \in Channels, NEW rid \in RoomIds, ChangeRoom(c, rid)
      PROVE  ChsOK' /\ DisplacedIsTold'
  BY <1>4 DEF ChangeRoom, Start, Rest
<1>5. ASSUME NEW c \in Channels, Leave(c) \/ ReadDrop(c) \/ Unmap(c) \/ CloseRoom(c)
      PROVE  ChsOK' /\ DisplacedIsTold'
  BY <1>5 DEF Leave, ReadDrop, Unmap, CloseRoom, Rest
<1>6. CASE UNCHANGED vars
  BY <1>6 DEF vars
<1> QED BY <1>1, <1>2, <1>3, <1>4, <1>5, <1>6 DEF Next, Step, AllEnded

LEMMA DroppedStep ==
    TypeInv /\ IdsOK /\ DroppedIsBeingRemoved /\ [Next]_vars => DroppedIsBeingRemoved'
<1> SUFFICES ASSUME TypeInv, IdsOK, DroppedIsBeingRemoved, [Next]_vars
             PROVE  DroppedIsBeingRemoved'
  OBVIOUS
<1> USE BucketAssumption
    DEF TypeInv, TypeOK, PcOK, IdsOK, DroppedIsBeingRemoved, bucketVars, roomVars
<1>1. ASSUME NEW c \in Channels, Put(c) PROVE DroppedIsBeingRemoved'
  <2>1. CASE PutAlone(c)
    BY <1>1, <2>1 DEF Put, PutAlone
  <2>2. ASSUME NEW rid \in RoomIds, PutIn(c, rid) PROVE DroppedIsBeingRemoved'
    BY <2>2 DEF PutIn, RoomAt, NewRoom
  <2> QED BY <1>1, <2>1, <2>2 DEF Put
<1>2. ASSUME NEW c \in Channels, NEW rid \in RoomIds, ChangeRoom(c, rid)
      PROVE  DroppedIsBeingRemoved'
  BY <1>2 DEF ChangeRoom, RoomAt, NewRoom
<1>3. ASSUME NEW c \in Channels, Join(c) \/ Enter(c) PROVE DroppedIsBeingRemoved'
  BY <1>3 DEF Join, Enter, RoomPut
<1>4. ASSUME NEW c \in Channels, Leave(c) PROVE DroppedIsBeingRemoved'
  BY <1>4 DEF Leave, RoomDel
<1>5. ASSUME NEW c \in Channels, ReadDrop(c) PROVE DroppedIsBeingRemoved'
  BY <1>5 DEF ReadDrop
<1>6. ASSUME NEW c \in Channels, Unmap(c) PROVE DroppedIsBeingRemoved'
  BY <1>6 DEF Unmap
<1>7. ASSUME NEW c \in Channels, ChangeRoomToNone(c) \/ Out(c) \/ Del(c) \/ CloseRoom(c)
      PROVE  DroppedIsBeingRemoved'
  BY <1>7 DEF ChangeRoomToNone, Out, Del, CloseRoom
<1>8. CASE UNCHANGED vars
  BY <1>8 DEF vars
<1> QED BY <1>1, <1>2, <1>3, <1>4, <1>5, <1>6, <1>7, <1>8 DEF Next, Step, AllEnded

LEMMA TableInvariant == Spec => []TableInv
<1>1. TypeInv /\ TableInv /\ [Next]_vars => TableInv'
  BY IdsStep, ChsStep, DroppedStep DEF TableInv
<1> QED BY TypeInvariant, TableInit, <1>1, PTL DEF Spec

\* A dropped room does not stay in the map: whenever the map holds one, some
\* goroutine is between Room.Del and DelRoom of it.
THEOREM DroppedRoomsGo == Spec => []DroppedIsBeingRemoved
<1>1. TableInv => DroppedIsBeingRemoved
  BY DEF TableInv
<1> QED BY TableInvariant, <1>1, PTL

\* A connected channel is in the table under its key, or was told to end.
THEOREM DisplacedChannelsAreTold == Spec => []DisplacedIsTold
<1>1. TableInv => DisplacedIsTold
  BY DEF TableInv
<1> QED BY TableInvariant, <1>1, PTL

\* Nothing in the bucket leads to a channel after Bucket.Del returned.
THEOREM GoneChannelsAreForgotten == Spec => []GoneIsForgotten
<1>1. TypeInv /\ MemIsRoom /\ ListWellFormed /\ TableInv => GoneIsForgotten
  <2> SUFFICES ASSUME TypeInv, MemIsRoom, ListWellFormed, TableInv,
                      NEW c \in Channels, pc[c] = "gone"
               PROVE  /\ \A k \in Keys : chs[k] # c
                      /\ \A r \in Rooms : head[r] # c
                      /\ \A d \in Channels : next[d] # c /\ prev[d] # c
    BY DEF GoneIsForgotten
  <2>1. mem[c] = None /\ op[c] = "del"
    BY DEF TypeInv, TypeOK, PcOK, MemIsRoom
  <2>2. \A k \in Keys : chs[k] # c
    BY <2>1, BucketAssumption DEF TableInv, ChsOK
  <2> QED BY <2>1, <2>2, LooseChannel
<1> QED BY ListInvariant, TableInvariant, <1>1, PTL

-----------------------------------------------------------------------------
(* Rooms that only Del'ed channels they held *)

\* S holds the head h and is closed under the links n.
Reaches(h, n, S) ==
    /\ h # None => h \in S
    /\ \A x \in S : n[x] # None => n[x] \in S

\* The walk from h along n is M: M is such a set, and the least.
WalkIs(h, n, M) ==
    /\ Reaches(h, n, M)
    /\ \A S \in SUBSET Channels : Reaches(h, n, S) => M \subseteq S

\* What a room knows of its members while it is not hurt.
CountsOK(r) ==
    /\ online[r] = Cardinality(Members(r))
    /\ drop[r] => Members(r) = {}
    /\ WalkIs(head[r], next, Members(r))

CountInv == \A r \in Rooms : ~hurt[r] => CountsOK(r)

LEMMA MembersFinite == ASSUME NEW r PROVE IsFiniteSet(Members(r))
<1>1. Members(r) \subseteq Channels
  BY DEF Members
<1> QED BY <1>1, BucketAssumption, FS_Subset

LEMMA WalkOfCounts == ASSUME NEW r \in Rooms, CountsOK(r) PROVE Walk(r) = Members(r)
<1>1. Members(r) \in SUBSET Channels
  BY DEF Members
<1>2. Walk(r) \subseteq Members(r)
  BY <1>1 DEF CountsOK, WalkIs, Reaches, Walk
<1>3. Members(r) \subseteq Walk(r)
  BY DEF CountsOK, WalkIs, Reaches, Walk, Members
<1> QED BY <1>2, <1>3

\* The members of a room are closed under its links, hurt or not.
LEMMA MembersReach ==
    ASSUME TypeInv, ListWellFormed, NEW r \in Rooms
    PROVE  Reaches(head[r], next, Members(r))
<1>1. head[r] # None => head[r] \in Members(r)
  BY BucketAssumption DEF ListWellFormed, Members, TypeInv, TypeOK
<1>2. \A x \in Members(r) : next[x] # None => next[x] \in Members(r)
  BY BucketAssumption DEF ListWellFormed, Members, TypeInv, TypeOK
<1> QED BY <1>1, <1>2 DEF Reaches

\* A step that leaves the room, its members and their links alone.
LEMMA CountsFrame ==
    ASSUME TypeInv, ListWellFormed, NEW q \in Rooms, CountsOK(q),
           head'[q] = head[q], online'[q] = online[q], drop'[q] = drop[q],
           Members(q)' = Members(q),
           \A x \in Members(q) : next'[x] = next[x]
    PROVE  CountsOK(q)'
<1>1. Reaches(head[q], next, Members(q))
  BY MembersReach
<1>2. Reaches(head[q], next', Members(q))
  BY <1>1 DEF Reaches
<1>3. ASSUME NEW S \in SUBSET Channels, Reaches(head[q], next', S) PROVE Members(q) \subseteq S
  <2>1. Reaches(head[q], next, S \cap Members(q))
    BY <1>1, <1>3 DEF Reaches
  <2>2. Members(q) \subseteq S \cap Members(q)
    BY <2>1 DEF CountsOK, WalkIs
  <2> QED BY <2>2
<1> QED BY <1>2, <1>3 DEF CountsOK, WalkIs

LEMMA CountRoomAt ==
    ASSUME TypeInv, MemIsRoom, ListWellFormed, CountInv, NEW r \in Rooms, NEW rid \in RoomIds,
           RoomAt(r, rid), UNCHANGED linkVars
    PROVE  CountInv'
<1> SUFFICES ASSUME NEW q \in Rooms, ~hurt'[q] PROVE CountsOK(q)'
  BY DEF CountInv
<1>1. next' = next /\ Members(q)' = Members(q)
  BY DEF linkVars, Members
<1>2. CASE UNCHANGED <<rooms, roomVars>>
  BY <1>1, <1>2, CountsFrame DEF CountInv, roomVars
<1>3. CASE Garbage(r) /\ NewRoom(r, rid)
  <2>1. CASE q # r
    BY <1>1, <1>3, <2>1, CountsFrame DEF CountInv, NewRoom, TypeInv, TypeOK
  <2>2. CASE q = r
    <3>1. Members(q) = {}
      BY <1>3, <2>2, GarbageIsEmpty DEF Members
    <3>2. head'[q] = None /\ online'[q] = 0 /\ drop'[q] = FALSE
      BY <1>3, <2>2 DEF NewRoom, TypeInv, TypeOK
    <3> QED BY <1>1, <3>1, <3>2, FS_EmptySet DEF CountsOK, WalkIs, Reaches
  <2> QED BY <2>1, <2>2
<1> QED BY <1>2, <1>3 DEF RoomAt

LEMMA CountPut ==
    ASSUME TypeInv, ListWellFormed, CountInv, NEW r \in Rooms, NEW c \in Channels,
           mem[c] = None, ~drop[r], RoomPut(r, c)
    PROVE  CountInv'
<1> SUFFICES ASSUME NEW q \in Rooms, ~hurt'[q] PROVE CountsOK(q)'
  BY DEF CountInv
<1>1. next[c] = None
  BY LooseChannel
<1>2. c \notin Members(q)
  BY BucketAssumption DEF Members
<1>3. ~hurt[q] /\ CountsOK(q)
  BY DEF CountInv, RoomPut
<1>4. CASE q # r
  <2>1. Members(q)' = Members(q)
    BY <1>2, <1>4 DEF Members, RoomPut, TypeInv, TypeOK
  <2>2. \A x \in Members(q) : next'[x] = next[x]
    BY <1>2 DEF Members, RoomPut, TypeInv, TypeOK
  <2>3. head'[q] = head[q] /\ online'[q] = online[q] /\ drop'[q] = drop[q]
    BY <1>4 DEF RoomPut, TypeInv, TypeOK
  <2> QED BY <1>3, <2>1, <2>2, <2>3, CountsFrame
<1>5. CASE q = r
  <2>1. Members(q)' = Members(q) \cup {c}
    BY <1>5 DEF Members, RoomPut, TypeInv, TypeOK
  <2>2. Cardinality(Members(q)') = Cardinality(Members(q)) + 1
    BY <1>2, <2>1, MembersFinite, FS_AddElement
  <2>3. /\ head'[q] = c
        /\ online'[q] = online[q] + 1
        /\ ~drop'[q]
        /\ next' = [next EXCEPT ![c] = head[q]]
    BY <1>5 DEF RoomPut, TypeInv, TypeOK
  <2>4. Reaches(c, next', Members(q) \cup {c})
    <3>1. Reaches(head[q], next, Members(q))
      BY MembersReach
    <3> QED BY <2>3, <3>1 DEF Reaches, Members, TypeInv, TypeOK
  <2>5. ASSUME NEW S \in SUBSET Channels, Reaches(c, next', S)
        PROVE  Members(q) \cup {c} \subseteq S
    <3>1. c \in S
      BY <2>5, BucketAssumption DEF Reaches
    <3>2. head[q] # None => head[q] \in S
      BY <2>3, <2>5, <3>1 DEF Reaches, TypeInv, TypeOK
    <3>3. Reaches(head[q], next, S)
      BY <1>1, <2>3, <2>5, <3>2 DEF Reaches, TypeInv, TypeOK
    <3> QED BY <1>3, <3>1, <3>3 DEF CountsOK, WalkIs
  <2> QED BY <1>3, <2>1, <2>2, <2>3, <2>4, <2>5 DEF CountsOK, WalkIs
<1> QED BY <1>4, <1>5

\* Room.Del of a channel of another room, or of none, that leaves q alone.
LEMMA CountDelOther ==
    ASSUME TypeInv, ListWellFormed, CountInv, NEW r \in Rooms, NEW c \in Channels,
           mem[c] \in {None, r}, RoomDel(r, c), NEW q \in Rooms, q # r, ~hurt'[q]
    PROVE  CountsOK(q)'
<1>1. CountsOK(q)
  BY DEF CountInv, RoomDel, TypeInv, TypeOK
<1>2. Members(q)' = Members(q)
  BY BucketAssumption DEF Members, RoomDel, TypeInv, TypeOK
<1>3. head'[q] = head[q] /\ online'[q] = online[q] /\ drop'[q] = drop[q]
  BY DEF RoomDel, TypeInv, TypeOK
<1>4. \A x \in Members(q) : x # c /\ x # prev[c]
  BY BucketAssumption DEF Members, ListWellFormed, TypeInv, TypeOK
<1>5. \A x \in Members(q) : next'[x] = next[x]
  BY <1>4 DEF Members, RoomDel, TypeInv, TypeOK
<1> QED BY <1>1, <1>2, <1>3, <1>5, CountsFrame

\* Room.Del of a member: the walk is the old one without it.
LEMMA CountDelMember ==
    ASSUME TypeInv, ListWellFormed, NEW r \in Rooms, CountsOK(r), NEW c \in Channels,
           mem[c] = r, RoomDel(r, c)
    PROVE  CountsOK(r)'
<1> DEFINE M == Members(r)
<1>1. c \in M /\ M \in SUBSET Channels /\ Members(r)' = M \ {c}
  BY BucketAssumption DEF Members, RoomDel, TypeInv, TypeOK
<1>2. Cardinality(M \ {c}) = Cardinality(M) - 1 /\ Cardinality(M) \in Nat
  BY <1>1, MembersFinite, FS_RemoveElement, FS_CardinalityType
<1>3. online'[r] = online[r] - 1 /\ drop'[r] = (online[r] = 1)
  BY DEF RoomDel, TypeInv, TypeOK
<1>4. drop'[r] => M \ {c} = {}
  <2>1. IsFiniteSet(M \ {c})
    BY MembersFinite, FS_Subset
  <2>2. drop'[r] => Cardinality(M) = 1
    BY <1>3 DEF CountsOK
  <2>3. drop'[r] => Cardinality(M \ {c}) = 0
    BY <1>2, <2>2
  <2>4. Cardinality(M \ {c}) = 0 => M \ {c} = {}
    BY <2>1, FS_EmptySet
  <2> QED BY <2>3, <2>4
<1>5. Reaches(head[r], next, M)
  BY MembersReach
<1>6. /\ \A x \in Channels : next[x] = c <=> prev[c] = x
      /\ next[c] = c => prev[c] = c
      /\ head[r] = c => prev[c] = None
  BY BucketAssumption DEF ListWellFormed, TypeInv, TypeOK
<1>7. prev[c] = None => head[r] = c
  <2> SUFFICES ASSUME prev[c] = None, head[r] # c PROVE FALSE
    OBVIOUS
  <2>1. Reaches(head[r], next, M \ {c})
    BY <1>1, <1>5, <1>6, BucketAssumption DEF Reaches
  <2>2. M \subseteq M \ {c}
    BY <1>1, <2>1 DEF CountsOK, WalkIs
  <2> QED BY <1>1, <2>2
<1>8. /\ prev[c] = None => head'[r] = next[c]
      /\ prev[c] # None => head'[r] = head[r]
  BY DEF RoomDel, TypeInv, TypeOK
<1>9. \A x \in Channels : next'[x] = IF x = c THEN None
                                     ELSE IF x = prev[c] THEN next[c] ELSE next[x]
  BY DEF RoomDel
<1>10. Reaches(head'[r], next', M \ {c})
  <2>1. head'[r] # None => head'[r] \in M \ {c}
    BY <1>1, <1>5, <1>6, <1>8, BucketAssumption DEF Reaches
  <2>2. ASSUME NEW x \in M \ {c}, next'[x] # None PROVE next'[x] \in M \ {c}
    BY <1>1, <1>5, <1>6, <1>9, <2>2, BucketAssumption DEF Reaches
  <2> QED BY <2>1, <2>2 DEF Reaches
<1>11. ASSUME NEW S \in SUBSET Channels, Reaches(head'[r], next', S) PROVE M \ {c} \subseteq S
  <2>1. CASE next[c] = None \/ next[c] \in S
    <3>1. head[r] # None => head[r] \in S \cup {c}
      BY <1>7, <1>8, <1>11 DEF Reaches
    <3>2. \A x \in S \cup {c} : next[x] # None => next[x] \in S \cup {c}
      BY <1>6, <1>9, <1>11, <2>1 DEF Reaches
    <3>3. M \subseteq S \cup {c}
      BY <3>1, <3>2 DEF CountsOK, WalkIs, Reaches
    <3> QED BY <3>3
  <2>2. CASE next[c] # None /\ next[c] \notin S
    <3>1. prev[c] # None
      BY <1>8, <1>11, <2>2 DEF Reaches
    <3>2. head[r] # None => head[r] \in S \ {c}
      BY <1>6, <1>8, <1>11, <3>1 DEF Reaches
    <3>3. \A x \in S \ {c} : next[x] # None => next[x] \in S \ {c}
      BY <1>6, <1>9, <1>11, <2>2 DEF Reaches
    <3>4. M \subseteq S \ {c}
      BY <3>2, <3>3 DEF CountsOK, WalkIs, Reaches
    <3> QED BY <3>4
  <2> QED BY <2>1, <2>2
<1> HIDE DEF M
<1>12. online'[r] = Cardinality(Members(r)')
  BY <1>1, <1>2, <1>3 DEF CountsOK, M
<1> QED BY <1>1, <1>4, <1>10, <1>11, <1>12 DEF CountsOK, WalkIs

LEMMA CountInit == Init => CountInv
<1> SUFFICES ASSUME Init, NEW r \in Rooms PROVE CountsOK(r)
  BY DEF CountInv
<1>1. Members(r) = {} /\ head[r] = None /\ online[r] = 0
  BY BucketAssumption DEF Init, Members
<1> QED BY <1>1, FS_EmptySet DEF CountsOK, WalkIs, Reaches

LEMMA CountStep ==
    TypeInv /\ MemIsRoom /\ ListWellFormed /\ CountInv /\ [Next]_vars => CountInv'
<1> SUFFICES ASSUME TypeInv, MemIsRoom, ListWellFormed, CountInv, [Next]_vars PROVE CountInv'
  OBVIOUS
<1>1. ASSUME UNCHANGED <<roomVars, linkVars>> PROVE CountInv'
  <2>1. ASSUME NEW q \in Rooms PROVE Members(q)' = Members(q)
    BY <1>1 DEF Members, linkVars
  <2> QED BY <1>1, <2>1 DEF CountInv, CountsOK, WalkIs, Reaches, roomVars, linkVars
<1>2. ASSUME NEW c \in Channels, Put(c) PROVE CountInv'
  <2>1. UNCHANGED linkVars
    BY <1>2 DEF Put
  <2>2. CASE PutAlone(c)
    BY <1>1, <2>1, <2>2 DEF PutAlone
  <2>3. ASSUME NEW rid \in RoomIds, PutIn(c, rid) PROVE CountInv'
    BY <2>1, <2>3, CountRoomAt DEF PutIn
  <2> QED BY <1>2, <2>2, <2>3 DEF Put
<1>3. ASSUME NEW c \in Channels, NEW rid \in RoomIds, ChangeRoom(c, rid) PROVE CountInv'
  BY <1>3, CountRoomAt DEF ChangeRoom
<1>4. ASSUME NEW c \in Channels, Join(c) PROVE CountInv'
  <2>1. room[c] \in Rooms /\ mem[c] = None
    BY <1>4 DEF Join, TypeInv, TypeOK, PcOK, MemIsRoom
  <2> QED BY <1>1, <1>4, <2>1, CountPut DEF Join
<1>5. ASSUME NEW c \in Channels, Enter(c) PROVE CountInv'
  <2>1. to[c] \in Rooms /\ mem[c] = None
    BY <1>5 DEF Enter, TypeInv, TypeOK, PcOK, MemIsRoom
  <2> QED BY <1>1, <1>5, <2>1, CountPut DEF Enter
<1>6. ASSUME NEW c \in Channels, Leave(c) PROVE CountInv'
  <2>1. room[c] \in Rooms /\ mem[c] \in {None, room[c]} /\ RoomDel(room[c], c)
    BY <1>6 DEF Leave, TypeInv, TypeOK, PcOK, MemIsRoom
  <2> SUFFICES ASSUME NEW q \in Rooms, ~hurt'[q] PROVE CountsOK(q)'
    BY DEF CountInv
  <2>2. CASE q # room[c]
    BY <2>1, <2>2, CountDelOther
  <2>3. CASE q = room[c]
    <3>1. mem[c] = room[c] /\ ~hurt[q]
      BY <2>1, <2>3 DEF RoomDel, TypeInv, TypeOK
    <3> QED BY <2>1, <2>3, <3>1, CountDelMember DEF CountInv
  <2> QED BY <2>2, <2>3
<1>7. ASSUME NEW c \in Channels,
             \/ ChangeRoomToNone(c) \/ Out(c) \/ Del(c)
             \/ ReadDrop(c) \/ Unmap(c) \/ CloseRoom(c)
      PROVE  CountInv'
  BY <1>1, <1>7 DEF ChangeRoomToNone, Out, Del, ReadDrop, Unmap, CloseRoom
<1>8. CASE UNCHANGED vars
  BY <1>1, <1>8 DEF vars
<1> QED
  BY <1>2, <1>3, <1>4, <1>5, <1>6, <1>7, <1>8 DEF Next, Step, AllEnded

\* DelRoom of a room that is not hurt: it is dropped and stays empty.
ClosingOK(d) ==
    pc[d] \in {"unmap", "close"} /\ ~hurt[room[d]] =>
        drop[room[d]] /\ \A x \in Channels : mem[x] # room[d]

LEMMA ClosingFrame ==
    ASSUME NEW d \in Channels, ClosingOK(d), pc'[d] = pc[d] \/ pc'[d] = "close",
           pc[d] \in {"unmap", "close"} \/ pc'[d] # "close", room'[d] = room[d],
           drop'[room[d]] = drop[room[d]], hurt'[room[d]] = hurt[room[d]], mem' = mem
    PROVE  ClosingOK(d)'
  BY DEF ClosingOK

LEMMA ClosingRoomAt ==
    ASSUME TypeInv, NEW d \in Channels, ClosingOK(d), NEW r \in Rooms, NEW rid \in RoomIds,
           RoomAt(r, rid), UNCHANGED linkVars, room'[d] = room[d], pc'[d] = pc[d]
    PROVE  ClosingOK(d)'
<1>1. CASE UNCHANGED <<rooms, roomVars>>
  BY <1>1, ClosingFrame DEF roomVars, linkVars, ClosingOK
<1>2. CASE Garbage(r) /\ NewRoom(r, rid) /\ pc[d] \in {"unmap", "close"}
  <2>1. room[d] # r /\ room[d] \in Rooms
    BY <1>2 DEF Garbage, Ended, TypeInv, TypeOK, PcOK
  <2> QED BY <1>2, <2>1, ClosingFrame DEF NewRoom, linkVars, TypeInv, TypeOK
<1>3. CASE pc[d] \notin {"unmap", "close"}
  BY <1>3 DEF ClosingOK
<1> QED BY <1>1, <1>2, <1>3 DEF RoomAt

\* A goroutine other than d joins a room.
LEMMA ClosingPut ==
    ASSUME TypeInv, NEW d \in Channels, ClosingOK(d), NEW c \in Channels, NEW r \in Rooms,
           RoomPut(r, c), ~drop[r], room'[d] = room[d], pc'[d] = pc[d]
    PROVE  ClosingOK(d)'
  BY BucketAssumption DEF RoomPut, ClosingOK, TypeInv, TypeOK, PcOK

LEMMA ClosingStep ==
    ASSUME TypeInv, MemIsRoom, CountInv, [Next]_vars, NEW d \in Channels, ClosingOK(d)
    PROVE  ClosingOK(d)'
<1>1. ASSUME NEW c \in Channels, Put(c) PROVE ClosingOK(d)'
  <2>1. CASE c = d
    BY <1>1, <2>1 DEF Put, PutAlone, PutIn, ClosingOK, TypeInv, TypeOK
  <2>2. CASE c # d /\ PutAlone(c)
    BY <1>1, <2>2 DEF Put, PutAlone, ClosingOK, TypeInv, TypeOK, roomVars, linkVars
  <2>3. ASSUME c # d, NEW rid \in RoomIds, PutIn(c, rid) PROVE ClosingOK(d)'
    <3>1. room'[d] = room[d] /\ pc'[d] = pc[d]
      BY <2>3 DEF PutIn, TypeInv, TypeOK
    <3> QED BY <1>1, <2>3, <3>1, ClosingRoomAt DEF Put, PutIn
  <2> QED BY <1>1, <2>1, <2>2, <2>3 DEF Put
<1>2. ASSUME NEW c \in Channels, NEW rid \in RoomIds, ChangeRoom(c, rid) PROVE ClosingOK(d)'
  <2>1. CASE c = d
    BY <1>2, <2>1 DEF ChangeRoom, Start, Rest, ClosingOK, TypeInv, TypeOK
  <2>2. CASE c # d
    <3>1. room'[d] = room[d] /\ pc'[d] = pc[d]
      BY <1>2, <2>2 DEF ChangeRoom, TypeInv, TypeOK
    <3> QED BY <1>2, <3>1, ClosingRoomAt DEF ChangeRoom
  <2> QED BY <2>1, <2>2
<1>3. ASSUME NEW c \in Channels, Join(c) \/ Enter(c) PROVE ClosingOK(d)'
  <2>1. CASE c = d
    BY <1>3, <2>1 DEF Join, Enter, ClosingOK, TypeInv, TypeOK
  <2>2. CASE c # d
    <3>1. /\ room'[d] = room[d] /\ pc'[d] = pc[d]
          /\ pc[c] = "join" => room[c] \in Rooms
          /\ pc[c] = "enter" => to[c] \in Rooms
      BY <1>3, <2>2 DEF Join, Enter, TypeInv, TypeOK, PcOK
    <3>2. CASE UNCHANGED <<roomVars, linkVars>>
      BY <3>1, <3>2 DEF ClosingOK, roomVars, linkVars
    <3> QED BY <1>3, <3>1, <3>2, ClosingPut DEF Join, Enter
  <2> QED BY <2>1, <2>2
<1>4. ASSUME NEW c \in Channels, Leave(c) PROVE ClosingOK(d)'
  <2>1. CASE c = d
    BY <1>4, <2>1 DEF Leave, ClosingOK, TypeInv, TypeOK
  <2>2. CASE c # d /\ pc[d] \in {"unmap", "close"}
    <3>1. /\ room' = room /\ pc'[d] = pc[d] /\ room[d] \in Rooms
          /\ room[c] \in Rooms /\ RoomDel(room[c], c)
      BY <1>4, <2>2 DEF Leave, TypeInv, TypeOK, PcOK
    <3>2. CASE room[c] = room[d]
      <4>1. ~hurt'[room[d]] => ~hurt[room[d]] /\ mem[c] = room[d]
        BY <3>1, <3>2 DEF RoomDel, TypeInv, TypeOK
      <4> QED BY <2>2, <3>1, <4>1 DEF ClosingOK
    <3>3. CASE room[c] # room[d]
      <4>1. /\ drop'[room[d]] = drop[room[d]] /\ hurt'[room[d]] = hurt[room[d]]
            /\ mem' = [mem EXCEPT ![c] = None]
        BY <3>1, <3>3 DEF RoomDel, TypeInv, TypeOK
      <4> QED BY <3>1, <4>1, BucketAssumption DEF ClosingOK, TypeInv, TypeOK
    <3> QED BY <3>2, <3>3
  <2>3. CASE c # d /\ pc[d] \notin {"unmap", "close"}
    BY <1>4, <2>3 DEF Leave, ClosingOK, TypeInv, TypeOK
  <2> QED BY <2>1, <2>2, <2>3
<1>5. ASSUME NEW c \in Channels, ReadDrop(c) PROVE ClosingOK(d)'
  <2>1. UNCHANGED <<room, drop, hurt, mem>> /\ pc' = [pc EXCEPT ![c] = pc'[c]]
    BY <1>5 DEF ReadDrop, roomVars, linkVars, TypeInv, TypeOK
  <2>2. CASE c = d /\ drop[room[d]]
    <3>1. room[d] \in Rooms
      BY <1>5, <2>2 DEF ReadDrop, TypeInv, TypeOK, PcOK
    <3>2. ~hurt[room[d]] => \A x \in Channels : mem[x] # room[d]
      BY <2>2, <3>1 DEF CountInv, CountsOK, Members
    <3> QED BY <2>1, <2>2, <3>2 DEF ClosingOK
  <2>3. CASE c = d /\ ~drop[room[d]]
    BY <1>5, <2>3 DEF ReadDrop, Rest, ClosingOK, TypeInv, TypeOK
  <2>4. CASE c # d
    BY <2>1, <2>4 DEF ClosingOK, TypeInv, TypeOK
  <2> QED BY <2>2, <2>3, <2>4
<1>6. ASSUME NEW c \in Channels,
             ChangeRoomToNone(c) \/ Out(c) \/ Del(c) \/ Unmap(c) \/ CloseRoom(c)
      PROVE  ClosingOK(d)'
  <2>1. /\ UNCHANGED <<drop, hurt, mem>>
        /\ room'[d] = room[d] \/ pc'[d] = "live"
        /\ pc'[d] \in {"unmap", "close"} => pc[d] \in {"unmap", "close"}
    BY <1>6 DEF ChangeRoomToNone, Out, Del, Unmap, CloseRoom, Start, Rest, roomVars, linkVars,
      TypeInv, TypeOK
  <2> QED BY <2>1 DEF ClosingOK
<1>7. CASE UNCHANGED vars
  BY <1>7 DEF vars, roomVars, linkVars, ClosingOK
<1> QED BY <1>1, <1>2, <1>3, <1>4, <1>5, <1>6, <1>7 DEF Next, Step, AllEnded

LEMMA CloseStep ==
    TypeInv /\ MemIsRoom /\ CountInv /\ CloseReachesNobody /\ [Next]_vars
      => CloseReachesNobody'
<1>1. CloseReachesNobody <=> \A d \in Channels : ClosingOK(d)
  BY DEF CloseReachesNobody, ClosingOK, Members
<1>2. CloseReachesNobody' <=> \A d \in Channels : ClosingOK(d)'
  BY DEF CloseReachesNobody, ClosingOK, Members
<1> QED BY <1>1, <1>2, ClosingStep

LEMMA CountInvariant == Spec => [](CountInv /\ CloseReachesNobody)
<1>1. Init => CloseReachesNobody
  BY DEF Init, CloseReachesNobody
<1> QED BY ListInvariant, CountInit, CountStep, CloseStep, <1>1, PTL DEF Spec

\* A room that is not hurt counts its members and is dropped only when empty.
THEOREM OnlineIsCounted == Spec => []OnlineCounts
<1>1. CountInv /\ TypeInv => OnlineCounts
  <2> SUFFICES ASSUME CountInv, TypeInv PROVE OnlineCounts
    OBVIOUS
  <2>1. \A r \in Rooms : ~hurt[r] =>
            online[r] = Cardinality(Members(r)) /\ (drop[r] => Members(r) = {})
    BY DEF CountInv, CountsOK
  <2>2. ASSUME NEW rid \in DOMAIN RoomsCount, ~hurt[rooms[rid]]
        PROVE  RoomsCount[rid] = Cardinality(Members(rooms[rid]))
    <3>1. /\ rid \in RoomIds /\ rooms[rid] # None
          /\ RoomsCount[rid] = online[rooms[rid]]
      BY <2>2 DEF RoomsCount
    <3>2. rooms[rid] \in Rooms
      BY <3>1 DEF TypeInv, TypeOK
    <3> QED BY <2>1, <2>2, <3>1, <3>2
  <2> QED BY <2>1, <2>2 DEF OnlineCounts
<1> QED BY CountInvariant, TypeInvariant, <1>1, PTL

\* A broadcast to a room that is not hurt reaches its members and nobody else.
THEOREM BroadcastReachesMembers == Spec => []WalkIsMembers
<1>1. CountInv => WalkIsMembers
  BY WalkOfCounts DEF CountInv, WalkIsMembers
<1> QED BY CountInvariant, <1>1, PTL

\* Removing a room that is not hurt sends ProtoFinish to nobody.
THEOREM RemovingARoomDisconnectsNobody == Spec => []CloseReachesNobody
  BY CountInvariant, PTL

-----------------------------------------------------------------------------
(* The connections counted per address *)

\* Put and not yet Del'ed.
Registered(c) == pc[c] \notin {"new", "gone"} /\ op[c] # "del"

\* Who registered and kept the key is the channel found under it.
HeldOK == \A c \in Channels : Registered(c) /\ c \notin displaced => chs[KeyOf[c]] = c

IpsOK == displaced = {} => \A ip \in IPs : ipCnts[ip] = Cardinality(Counted(ip))

IpInv == HeldOK /\ IpsOK

LEMMA CountedFinite == ASSUME NEW ip PROVE IsFiniteSet(Counted(ip))
  BY BucketAssumption, FS_Subset DEF Counted

LEMMA IpInit == Init => IpInv
<1> SUFFICES ASSUME Init PROVE IpInv
  OBVIOUS
<1>1. HeldOK
  BY DEF Init, HeldOK, Registered
<1>2. ASSUME NEW ip \in IPs PROVE Counted(ip) = {} /\ ipCnts[ip] = 0
  BY DEF Init, Counted
<1> QED BY <1>1, <1>2, FS_EmptySet DEF IpInv, IpsOK

\* A step that registers nobody, drops nobody and leaves the tables alone.
LEMMA IpFrame ==
  ASSUME IpInv, UNCHANGED <<chs, ipCnts, displaced>>,
         \A c \in Channels : Registered(c)' = Registered(c)
  PROVE  IpInv'
<1>1. HeldOK'
  BY DEF IpInv, HeldOK
<1>2. ASSUME NEW ip \in IPs PROVE Counted(ip)' = Counted(ip)
  BY DEF Counted, Registered
<1>3. IpsOK'
  BY <1>2 DEF IpInv, IpsOK
<1> QED BY <1>1, <1>3 DEF IpInv

LEMMA IpPut ==
  ASSUME TypeInv, IpInv, NEW c \in Channels, Put(c)
  PROVE  IpInv'
<1> USE BucketAssumption
<1>1. /\ pc[c] = "new" /\ op[c] = "none" /\ op' = op
      /\ \E p \in {"live", "join"} : pc' = [pc EXCEPT ![c] = p]
      /\ chs' = [chs EXCEPT ![KeyOf[c]] = c]
      /\ ipCnts' = [ipCnts EXCEPT ![IPOf[c]] = @ + 1]
  BY DEF Put, PutAlone, PutIn, Register, TypeInv, PcOK
<1>2. displaced' = IF chs[KeyOf[c]] = None THEN displaced ELSE displaced \cup {chs[KeyOf[c]]}
  BY DEF Put, Register
<1>3. ~Registered(c) /\ Registered(c)' /\ \A d \in Channels \ {c} : Registered(d)' = Registered(d)
  BY <1>1 DEF Registered, TypeInv, TypeOK
<1>4. HeldOK'
  <2> SUFFICES ASSUME NEW d \in Channels, Registered(d)', d \notin displaced'
               PROVE  chs'[KeyOf[d]] = d
    BY DEF HeldOK
  <2>1. CASE d = c
    BY <1>1, <2>1 DEF TypeInv, TypeOK
  <2>2. CASE d # c
    <3>1. chs[KeyOf[d]] = d
      BY <1>2, <1>3, <2>2 DEF IpInv, HeldOK
    <3>2. KeyOf[d] # KeyOf[c]
      BY <1>2, <3>1, BucketAssumption
    <3> QED BY <1>1, <3>1, <3>2 DEF TypeInv, TypeOK
  <2> QED BY <2>1, <2>2
<1>5. IpsOK'
  <2> SUFFICES ASSUME displaced' = {}, NEW ip \in IPs
               PROVE  ipCnts'[ip] = Cardinality(Counted(ip))'
    BY DEF IpsOK
  <2>1. ipCnts[ip] = Cardinality(Counted(ip)) /\ ipCnts[ip] \in Nat
    BY <1>2 DEF IpInv, IpsOK, TypeInv, TypeOK
  <2>2. CASE ip = IPOf[c]
    <3>1. Counted(ip)' = Counted(ip) \cup {c} /\ c \notin Counted(ip)
      BY <1>3, <2>2 DEF Counted, Registered
    <3>2. Cardinality(Counted(ip) \cup {c}) = Cardinality(Counted(ip)) + 1
      BY <3>1, CountedFinite, FS_AddElement
    <3> QED BY <1>1, <2>1, <2>2, <3>1, <3>2 DEF TypeInv, TypeOK
  <2>3. CASE ip # IPOf[c]
    <3>1. Counted(ip)' = Counted(ip)
      BY <1>3, <2>3 DEF Counted, Registered
    <3> QED BY <1>1, <2>1, <2>3, <3>1 DEF TypeInv, TypeOK
  <2> QED BY <2>2, <2>3
<1> QED BY <1>4, <1>5 DEF IpInv

\* Bucket.Del counts out the address of the channel under the key: its own.
LEMMA IpDel ==
  ASSUME TypeInv, ChsOK, IpInv, NEW c \in Channels, Del(c)
  PROVE  IpInv'
<1> USE BucketAssumption
<1> DEFINE ch == chs[KeyOf[c]]
<1>1. /\ pc[c] = "live" /\ op[c] = "none"
      /\ op' = [op EXCEPT ![c] = "del"]
      /\ \E p \in Pcs \ {"new"} : pc' = [pc EXCEPT ![c] = p]
      /\ chs' = IF ch = c THEN [chs EXCEPT ![KeyOf[c]] = None] ELSE chs
      /\ ipCnts' = IF ch = None THEN ipCnts
                   ELSE [ipCnts EXCEPT ![IPOf[ch]] = IF @ > 1 THEN @ - 1 ELSE 0]
      /\ displaced' = displaced
  BY DEF Del, Unregister, Start, Rest, Pcs, TypeInv, PcOK
<1>2. Registered(c) /\ ~Registered(c)' /\ \A d \in Channels \ {c} : Registered(d)' = Registered(d)
  BY <1>1 DEF Registered, TypeInv, TypeOK
<1>3. HeldOK'
  <2> SUFFICES ASSUME NEW d \in Channels, Registered(d)', d \notin displaced'
               PROVE  chs'[KeyOf[d]] = d
    BY DEF HeldOK
  <2>1. d # c /\ chs[KeyOf[d]] = d
    BY <1>1, <1>2 DEF IpInv, HeldOK
  <2> QED BY <1>1, <2>1 DEF TypeInv, TypeOK
<1>4. IpsOK'
  <2> SUFFICES ASSUME displaced = {}, NEW ip \in IPs
               PROVE  ipCnts'[ip] = Cardinality(Counted(ip))'
    BY <1>1 DEF IpsOK
  <2>1. ipCnts[ip] = Cardinality(Counted(ip)) /\ ipCnts[ip] \in Nat
    BY DEF IpInv, IpsOK, TypeInv, TypeOK
  <2>2. ch = c
    BY <1>2 DEF IpInv, HeldOK
  <2>3. CASE ip = IPOf[c]
    <3>1. Counted(ip)' = Counted(ip) \ {c} /\ c \in Counted(ip)
      BY <1>2, <2>3 DEF Counted, Registered
    <3>2. Cardinality(Counted(ip) \ {c}) = Cardinality(Counted(ip)) - 1
      BY <3>1, CountedFinite, FS_RemoveElement
    <3>3. Cardinality(Counted(ip)) # 0
      BY <3>1, CountedFinite, FS_EmptySet
    <3>4. ipCnts'[ip] = IF ipCnts[ip] > 1 THEN ipCnts[ip] - 1 ELSE 0
      BY <1>1, <2>2, <2>3 DEF TypeInv, TypeOK
    <3> QED BY <2>1, <3>1, <3>2, <3>3, <3>4
  <2>4. CASE ip # IPOf[c]
    <3>1. Counted(ip)' = Counted(ip)
      BY <1>2, <2>4 DEF Counted, Registered
    <3> QED BY <1>1, <2>1, <2>2, <2>4, <3>1 DEF TypeInv, TypeOK
  <2> QED BY <2>3, <2>4
<1> QED BY <1>3, <1>4 DEF IpInv

LEMMA IpStep == TypeInv /\ ChsOK /\ IpInv /\ [Next]_vars => IpInv'
<1> SUFFICES ASSUME TypeInv, ChsOK, IpInv, [Next]_vars PROVE IpInv'
  OBVIOUS
<1> USE DEF bucketVars
<1>1. ASSUME NEW c \in Channels, Join(c) \/ Enter(c) \/ Out(c) \/ ChangeRoomToNone(c)
      PROVE  IpInv'
  <2>1. \A d \in Channels : Registered(d)' = Registered(d)
    BY <1>1 DEF Join, Enter, Out, ChangeRoomToNone, Start, Rest, Registered,
                TypeInv, TypeOK, PcOK
  <2> QED BY <1>1, <2>1, IpFrame DEF Join, Enter, Out, ChangeRoomToNone
<1>2. ASSUME NEW c \in Channels, NEW rid \in RoomIds, ChangeRoom(c, rid) PROVE IpInv'
  <2>1. \A d \in Channels : Registered(d)' = Registered(d)
    BY <1>2 DEF ChangeRoom, Start, Rest, Registered, TypeInv, TypeOK, PcOK
  <2> QED BY <1>2, <2>1, IpFrame DEF ChangeRoom
<1>3. ASSUME NEW c \in Channels, Leave(c) \/ ReadDrop(c) \/ Unmap(c) \/ CloseRoom(c)
      PROVE  IpInv'
  <2>1. \A d \in Channels : Registered(d)' = Registered(d)
    BY <1>3 DEF Leave, ReadDrop, Unmap, CloseRoom, Rest, Registered, TypeInv, TypeOK, PcOK
  <2> QED BY <1>3, <2>1, IpFrame DEF Leave, ReadDrop, Unmap, CloseRoom
<1>4. CASE UNCHANGED vars
  BY <1>4, IpFrame DEF vars, Registered
<1> QED
  BY <1>1, <1>2, <1>3, <1>4, IpPut, IpDel DEF Next, Step, AllEnded

\* As long as no key was taken over, the count of every address is the number
\* of its connections between Bucket.Put and Bucket.Del, and IPCount names the
\* addresses that have one (bucket.go:129, 150).
THEOREM AddressesAreCounted == Spec => []IpExactWithoutTakeover
<1>1. TypeInv /\ IpInv => IpExactWithoutTakeover
  <2> SUFFICES ASSUME TypeInv, IpInv, displaced = {}
               PROVE  /\ \A ip \in IPs : ipCnts[ip] = Cardinality(Counted(ip))
                      /\ IPCount = {IPOf[c] : c \in UNION {Counted(ip) : ip \in IPs}}
    BY DEF IpExactWithoutTakeover
  <2>1. \A ip \in IPs : ipCnts[ip] = Cardinality(Counted(ip)) /\ ipCnts[ip] \in Nat
    BY DEF IpInv, IpsOK, TypeInv, TypeOK
  <2>2. ASSUME NEW ip \in IPs PROVE ipCnts[ip] > 0 <=> Counted(ip) # {}
    BY <2>1, CountedFinite, FS_EmptySet
  <2>3. \A ip \in IPs : \A c \in Counted(ip) : IPOf[c] = ip
    BY DEF Counted
  <2> QED BY <2>1, <2>2, <2>3 DEF IPCount
<1>2. TableInv => ChsOK
  BY DEF TableInv
<1> QED BY TypeInvariant, TableInvariant, IpInit, IpStep, <1>1, <1>2, PTL DEF Spec
=============================================================================
