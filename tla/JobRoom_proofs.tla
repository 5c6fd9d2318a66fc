--------------------------- MODULE JobRoom_proofs ---------------------------
(***************************************************************************)
(* Proofs about module JobRoom, for any number of consumers, rooms and     *)
(* objects and any Batch: a room has one goroutine, which always has a     *)
(* wakeup, and is one queue however often its Room is made again.          *)
(***************************************************************************)
EXTENDS JobRoom, SequenceTheorems, TLAPS

-----------------------------------------------------------------------------
(* The inductive invariant *)

\* What the state of a goroutine says of its batch.
BatchInv ==
    \A o \in Objects :
        /\ goroutine[o] = "loop" => Len(buf[o]) < Limit
        /\ goroutine[o] = "send" => buf[o] # <<>>
        /\ goroutine[o] \in {"exit", "gone"} => buf[o] = <<>>

\* A batch that was begun has its timer, or the timer went off for it.
SignalInv ==
    \A o \in Objects :
        goroutine[o] = "loop" /\ buf[o] # <<>> =>
            td[o] = "signal" \/ (td[o] = "off" /\ late[o])

\* What a consumer has in hand.
ConsumerInv ==
    \A c \in Consumers :
        /\ consumer[c] = "make" => room[c] \in Rooms
        /\ consumer[c] = "push" => at[c] \in Objects

Inv ==
    TypeOK /\ OneGoroutine /\ BatchInv /\ SignalInv /\ ConsumerInv /\ WakeupComes

-----------------------------------------------------------------------------
(* The channel *)

LEMMA LimitIsPositive == Limit \in Nat /\ 2 <= Limit /\ Capacity \in Nat /\ 2 <= Capacity
<1>1. Batch \in Nat /\ 1 <= Batch
  BY JobRoomAssumption
<1>2. Limit \in Nat /\ 2 <= Limit
  <2>1. CASE Batch < 2
    BY <2>1 DEF Limit
  <2>2. CASE ~(Batch < 2)
    BY <1>1, <2>2 DEF Limit
  <2> QED BY <2>1, <2>2
<1>3. Capacity \in Nat /\ 2 <= Capacity
  BY <1>1 DEF Capacity
<1> QED BY <1>2, <1>3

LEMMA TailFacts ==
    ASSUME NEW S, NEW s \in Seq(S), s # <<>>
    PROVE  /\ Tail(s) \in Seq(S) /\ Head(s) \in S
           /\ Len(s) \in Nat /\ Len(Tail(s)) = Len(s) - 1
  OBVIOUS

\* A send with default leaves something in the channel, and not too much.
LEMMA OfferFacts ==
    ASSUME TypeOK, NEW o \in Objects, NEW m \in Msgs \cup {Ready}, Offer(o, m)
    PROVE  /\ proto' \in [Objects -> Seq(Msgs \cup {Ready})]
           /\ \A p \in Objects : Len(proto'[p]) <= Capacity
           /\ \A p \in Objects \ {o} : proto'[p] = proto[p]
           /\ proto'[o] # <<>>
           /\ proto' = proto \/ proto' = [proto EXCEPT ![o] = Append(@, m)]
<1> DEFINE S == Seq(Msgs \cup {Ready})
           a == Append(proto[o], m)
<1>1. proto \in [Objects -> S] /\ \A p \in Objects : Len(proto[p]) <= Capacity
  BY DEF TypeOK
<1>2. a \in S /\ a # <<>> /\ Len(a) = Len(proto[o]) + 1
  BY <1>1, AppendProperties
<1>3. Len(proto[o]) \in Nat /\ (Len(proto[o]) # 0 => proto[o] # <<>>)
  BY <1>1
<1> HIDE DEF S
<1>4. CASE Len(proto[o]) < Capacity
  <2>1. proto' = [proto EXCEPT ![o] = a]
    BY <1>4 DEF Offer
  <2> HIDE DEF a
  <2>2. /\ proto' \in [Objects -> S] /\ proto'[o] = a
        /\ \A p \in Objects \ {o} : proto'[p] = proto[p]
    BY <1>1, <1>2, <2>1
  <2>3. Len(a) <= Capacity
    BY <1>2, <1>3, <1>4, LimitIsPositive
  <2>4. \A p \in Objects : Len(proto'[p]) <= Capacity
    BY <1>1, <2>2, <2>3
  <2> QED BY <1>2, <2>1, <2>2, <2>4 DEF S, a
<1>5. CASE ~(Len(proto[o]) < Capacity)
  <2>1. proto' = proto
    BY <1>5 DEF Offer
  <2>2. proto[o] # <<>>
    BY <1>3, <1>5, LimitIsPositive
  <2> QED BY <1>1, <2>1, <2>2 DEF S
<1> QED BY <1>4, <1>5

\* A receive takes the first element.
LEMMA ReceivedFacts ==
    ASSUME TypeOK, NEW o \in Objects, Received(o)
    PROVE  /\ proto' \in [Objects -> Seq(Msgs \cup {Ready})]
           /\ \A p \in Objects : Len(proto'[p]) <= Capacity
           /\ \A p \in Objects \ {o} : proto'[p] = proto[p]
           /\ proto'[o] = Tail(proto[o])
           /\ Head(proto[o]) \in Msgs \cup {Ready}
<1> DEFINE S == Seq(Msgs \cup {Ready})
           t == Tail(proto[o])
<1>1. proto \in [Objects -> S] /\ \A p \in Objects : Len(proto[p]) <= Capacity
  BY DEF TypeOK
<1>2. proto[o] # <<>> /\ proto' = [proto EXCEPT ![o] = t]
  BY DEF Received
<1>3. /\ t \in S /\ Head(proto[o]) \in Msgs \cup {Ready}
      /\ Len(proto[o]) \in Nat /\ Len(t) = Len(proto[o]) - 1
  BY <1>1, <1>2, TailFacts
<1> HIDE DEF S
<1>4. Len(t) <= Capacity
  BY <1>1, <1>3, LimitIsPositive
<1> HIDE DEF t
<1>5. /\ proto' \in [Objects -> S] /\ proto'[o] = t
      /\ \A p \in Objects \ {o} : proto'[p] = proto[p]
  BY <1>1, <1>2, <1>3
<1>6. \A p \in Objects : Len(proto'[p]) <= Capacity
  BY <1>1, <1>4, <1>5
<1> QED BY <1>3, <1>5, <1>6 DEF S, t

\* A message joins the batch.
LEMMA CollectFacts ==
    ASSUME TypeOK, NEW o \in Objects, Received(o), Collect(o)
    PROVE  /\ buf' \in [Objects -> Seq(Msgs)]
           /\ \A p \in Objects \ {o} : buf'[p] = buf[p]
           /\ buf'[o] = Append(buf[o], Head(proto[o]))
           /\ buf'[o] # <<>> /\ Len(buf'[o]) = Len(buf[o]) + 1
<1> DEFINE a == Append(buf[o], Head(proto[o]))
<1>1. Head(proto[o]) \in Msgs
  BY ReceivedFacts DEF Collect
<1>2. buf \in [Objects -> Seq(Msgs)] /\ buf' = [buf EXCEPT ![o] = a]
  BY DEF TypeOK, Collect
<1>3. a \in Seq(Msgs) /\ a # <<>> /\ Len(a) = Len(buf[o]) + 1
  BY <1>1, <1>2, AppendProperties
<1> HIDE DEF a
<1>4. buf'[o] = a /\ \A p \in Objects \ {o} : buf'[p] = buf[p]
  BY <1>2
<1> QED BY <1>2, <1>3, <1>4 DEF a

-----------------------------------------------------------------------------
(* Every action keeps the invariant *)

LEMMA InitInv == Init => Inv
<1> SUFFICES ASSUME Init PROVE Inv
  OBVIOUS
<1>1. TypeOK
  <2>1. /\ rooms \in [Rooms -> Objects \cup {None}] /\ id \in [Objects -> Rooms \cup {None}]
        /\ goroutine \in [Objects -> {"none", "loop", "send", "exit", "gone"}]
        /\ late \in [Objects -> BOOLEAN] /\ td \in [Objects -> {"off", "idle", "signal"}]
        /\ firing \in [Objects -> Nat]
        /\ consumer \in [Consumers -> {"next", "make", "push"}]
        /\ room \in [Consumers -> Rooms \cup {None}]
        /\ at \in [Consumers -> Objects \cup {None}]
    BY DEF Init
  <2>2. /\ proto \in [Objects -> Seq(Msgs \cup {Ready})] /\ buf \in [Objects -> Seq(Msgs)]
        /\ sent \in [Rooms -> Seq(Msgs)]
    BY DEF Init
  <2>3. \A o \in Objects : Len(proto[o]) <= Capacity
    BY LimitIsPositive DEF Init
  <2>4. pushed \in 0..MaxMsgs
    BY JobRoomAssumption DEF Init
  <2> QED BY <2>1, <2>2, <2>3, <2>4 DEF TypeOK
<1>2. OneGoroutine /\ BatchInv /\ SignalInv /\ ConsumerInv /\ WakeupComes
  BY DEF Init, OneGoroutine, Live, BatchInv, SignalInv, ConsumerInv, WakeupComes
<1> QED BY <1>1, <1>2 DEF Inv

LEMMA GetRoomInv ==
    ASSUME Inv, NEW c \in Consumers, GetRoom(c)
    PROVE  Inv'
<1> USE DEF Inv
<1>1. PICK r \in Rooms :
        /\ room' = [room EXCEPT ![c] = r] /\ at' = [at EXCEPT ![c] = rooms[r]]
        /\ consumer' =
            [consumer EXCEPT ![c] = IF rooms[r] = None THEN "make" ELSE "push"]
  BY DEF GetRoom
<1>2. UNCHANGED <<rooms, id, goroutine, buf, late, td, proto, firing, pushed, sent>>
  BY DEF GetRoom, objectVars
<1>3. TypeOK'
  BY <1>1, <1>2 DEF TypeOK
<1>4. ConsumerInv'
  BY <1>1 DEF ConsumerInv, TypeOK
<1>5. OneGoroutine' /\ BatchInv' /\ SignalInv' /\ WakeupComes'
  BY <1>2 DEF OneGoroutine, Live, BatchInv, SignalInv, WakeupComes
<1> QED BY <1>3, <1>4, <1>5

\* What holds of a Room that was just made: nobody else has it.
LEMMA MakeInv ==
    ASSUME Inv, NEW c \in Consumers, Make(c)
    PROVE  Inv'
<1> USE DEF Inv
<1> DEFINE r == room[c]
<1>1. /\ consumer[c] = "make" /\ r \in Rooms /\ consumer' = [consumer EXCEPT ![c] = "push"]
      /\ UNCHANGED <<firing, room, pushed, sent>>
  BY DEF Make, ConsumerInv
<1>4. /\ rooms[r] # None => at' = [at EXCEPT ![c] = rooms[r]]
                          /\ UNCHANGED <<rooms, objectVars, proto>>
      /\ rooms[r] = None =>
            \E o \in Objects :
               /\ NewRoom(o, r) /\ rooms' = [rooms EXCEPT ![r] = o]
               /\ at' = [at EXCEPT ![c] = o]
  BY DEF Make
<1> HIDE DEF r
<1>2. CASE rooms[r] # None
  <2>1. /\ at' = [at EXCEPT ![c] = rooms[r]] /\ rooms[r] \in Objects
        /\ UNCHANGED <<rooms, id, goroutine, buf, late, td, proto>>
    BY <1>1, <1>4, <1>2 DEF objectVars, TypeOK
  <2>2. TypeOK'
    BY <1>1, <2>1 DEF TypeOK
  <2>3. ConsumerInv'
    BY <1>1, <2>1 DEF ConsumerInv, TypeOK
  <2>4. OneGoroutine' /\ BatchInv' /\ SignalInv' /\ WakeupComes'
    BY <1>1, <2>1 DEF OneGoroutine, Live, BatchInv, SignalInv, WakeupComes
  <2> QED BY <2>2, <2>3, <2>4
<1>3. CASE rooms[r] = None
  <2>1. PICK o \in Objects :
          /\ NewRoom(o, r) /\ rooms' = [rooms EXCEPT ![r] = o]
          /\ at' = [at EXCEPT ![c] = o]
    BY <1>4, <1>3
  <2>2. /\ id' = [id EXCEPT ![o] = r] /\ proto' = [proto EXCEPT ![o] = <<>>]
        /\ goroutine' = [goroutine EXCEPT ![o] = "loop"] /\ buf' = [buf EXCEPT ![o] = <<>>]
        /\ late' = [late EXCEPT ![o] = FALSE] /\ td' = [td EXCEPT ![o] = "idle"]
        /\ goroutine[o] \in {"none", "gone"}
    BY <2>1 DEF NewRoom, Unreachable
  <2>3. /\ proto'[o] = <<>> /\ goroutine'[o] = "loop" /\ buf'[o] = <<>>
        /\ late'[o] = FALSE /\ td'[o] = "idle" /\ id'[o] = r
    BY <2>2 DEF TypeOK
  <2>8. \A p \in Objects : p # o =>
          /\ proto'[p] = proto[p] /\ goroutine'[p] = goroutine[p] /\ buf'[p] = buf[p]
          /\ late'[p] = late[p] /\ td'[p] = td[p] /\ id'[p] = id[p]
    BY <2>2 DEF TypeOK
  <2>4. TypeOK'
    <3>1. /\ rooms' \in [Rooms -> Objects \cup {None}] /\ id' \in [Objects -> Rooms \cup {None}]
          /\ goroutine' \in [Objects -> {"none", "loop", "send", "exit", "gone"}]
          /\ late' \in [Objects -> BOOLEAN] /\ td' \in [Objects -> {"off", "idle", "signal"}]
          /\ consumer' \in [Consumers -> {"next", "make", "push"}]
          /\ at' \in [Consumers -> Objects \cup {None}]
      BY <1>1, <2>1, <2>2 DEF TypeOK
    <3>2. proto' \in [Objects -> Seq(Msgs \cup {Ready})] /\ buf' \in [Objects -> Seq(Msgs)]
      <4>1. <<>> \in Seq(Msgs \cup {Ready}) /\ <<>> \in Seq(Msgs)
        OBVIOUS
      <4> QED BY <2>2, <4>1 DEF TypeOK
    <3>3. ASSUME NEW p \in Objects PROVE Len(proto'[p]) <= Capacity
      <4>1. CASE p = o
        BY <2>3, <4>1, LimitIsPositive
      <4>2. CASE p # o
        BY <2>8, <4>2 DEF TypeOK
      <4> QED BY <4>1, <4>2
    <3> QED BY <1>1, <3>1, <3>2, <3>3 DEF TypeOK
  <2>5. OneGoroutine'
    <3>1. rooms'[r] = o /\ \A q \in Rooms : q # r => rooms'[q] = rooms[q]
      BY <1>1, <2>1 DEF TypeOK
    <3>2. \A q \in Rooms : rooms[q] # o
      BY <2>2, JobRoomAssumption DEF OneGoroutine, Live
    <3>3. ASSUME NEW p \in Objects, Live(p)' PROVE id'[p] \in Rooms /\ rooms'[id'[p]] = p
      <4>1. CASE p = o
        BY <1>1, <2>3, <3>1, <4>1
      <4>2. CASE p # o
        <5>1. Live(p) /\ id'[p] = id[p]
          BY <2>8, <3>3, <4>2 DEF Live
        <5>2. id[p] \in Rooms /\ rooms[id[p]] = p
          BY <5>1 DEF OneGoroutine
        <5>3. id[p] # r
          BY <1>3, <5>2, JobRoomAssumption
        <5> QED BY <3>1, <5>1, <5>2, <5>3
      <4> QED BY <4>1, <4>2
    <3>4. ASSUME NEW q \in Rooms, rooms'[q] # None
          PROVE  goroutine'[rooms'[q]] \in {"loop", "send", "exit"} /\ id'[rooms'[q]] = q
      <4>1. CASE q = r
        BY <2>3, <3>1, <4>1 DEF Live
      <4>2. CASE q # r
        <5>1. rooms'[q] = rooms[q] /\ rooms[q] \in Objects /\ rooms[q] # o
          BY <3>1, <3>2, <3>4, <4>2 DEF TypeOK
        <5>2. Live(rooms[q]) /\ id[rooms[q]] = q
          BY <3>4, <5>1 DEF OneGoroutine
        <5> QED BY <2>8, <5>1, <5>2 DEF Live
      <4> QED BY <4>1, <4>2
    <3> QED BY <3>3, <3>4 DEF OneGoroutine, Live
  <2>6. BatchInv' /\ SignalInv' /\ WakeupComes'
    <3>1. Len(buf'[o]) < Limit
      BY <2>3, LimitIsPositive
    <3>2. BatchInv'
      BY <2>3, <2>8, <3>1 DEF BatchInv
    <3>3. SignalInv'
      BY <2>3, <2>8 DEF SignalInv
    <3>4. WakeupComes'
      BY <1>1, <2>3, <2>8 DEF WakeupComes
    <3> QED BY <3>2, <3>3, <3>4
  <2>7. ConsumerInv'
    BY <1>1, <2>1 DEF ConsumerInv, TypeOK
  <2> QED BY <2>4, <2>5, <2>6, <2>7
<1> QED BY <1>2, <1>3

\* A send into a channel changes nothing else and cannot lose a wakeup.
LEMMA OfferInv ==
    ASSUME Inv, NEW o \in Objects, NEW m \in Msgs \cup {Ready}, Offer(o, m),
           UNCHANGED <<rooms, id, goroutine, buf, late, td, sent>>
    PROVE  /\ proto' \in [Objects -> Seq(Msgs \cup {Ready})]
           /\ \A p \in Objects : Len(proto'[p]) <= Capacity
           /\ OneGoroutine' /\ BatchInv' /\ SignalInv'
           /\ (\A p \in Objects : p # o => firing'[p] = firing[p]) => WakeupComes'
<1> USE DEF Inv
<1>1. /\ proto' \in [Objects -> Seq(Msgs \cup {Ready})]
      /\ \A p \in Objects : Len(proto'[p]) <= Capacity
      /\ \A p \in Objects \ {o} : proto'[p] = proto[p]
      /\ proto'[o] # <<>>
  BY OfferFacts
<1>2. OneGoroutine' /\ BatchInv' /\ SignalInv'
  BY DEF OneGoroutine, Live, BatchInv, SignalInv
<1>3. ASSUME \A p \in Objects : p # o => firing'[p] = firing[p],
             NEW p \in Objects, goroutine'[p] = "loop"
      PROVE  \/ td'[p] # "off" \/ firing'[p] > 0
             \/ proto'[p] # <<>> /\ (buf'[p] # <<>> => late'[p])
  <2>1. CASE p = o
    BY <1>1, <1>3, <2>1 DEF SignalInv
  <2>2. CASE p # o
    BY <1>1, <1>3, <2>2 DEF WakeupComes
  <2> QED BY <2>1, <2>2
<1> QED BY <1>1, <1>2, <1>3 DEF WakeupComes

LEMMA PushInv ==
    ASSUME Inv, NEW c \in Consumers, Push(c)
    PROVE  Inv'
<1> USE DEF Inv
<1>1. /\ at[c] \in Objects /\ pushed < MaxMsgs /\ pushed' = pushed + 1
      /\ Offer(at[c], pushed')
      /\ consumer' = [consumer EXCEPT ![c] = "next"] /\ room' = [room EXCEPT ![c] = None]
      /\ at' = [at EXCEPT ![c] = None]
      /\ UNCHANGED <<rooms, id, goroutine, buf, late, td, firing, sent>>
  BY DEF Push, objectVars, ConsumerInv
<1>2. pushed' \in 0..MaxMsgs /\ pushed' \in Msgs
  BY <1>1, JobRoomAssumption DEF TypeOK, Msgs
<1>3. /\ proto' \in [Objects -> Seq(Msgs \cup {Ready})]
      /\ \A p \in Objects : Len(proto'[p]) <= Capacity
      /\ OneGoroutine' /\ BatchInv' /\ SignalInv' /\ WakeupComes'
  BY <1>1, <1>2, OfferInv
<1>4. TypeOK'
  BY <1>1, <1>2, <1>3 DEF TypeOK
<1>5. ConsumerInv'
  BY <1>1 DEF ConsumerInv, TypeOK
<1> QED BY <1>3, <1>4, <1>5

LEMMA TakeFirstInv ==
    ASSUME Inv, NEW o \in Objects, TakeFirst(o)
    PROVE  Inv'
<1> USE DEF Inv
<1>1. /\ Received(o) /\ Collect(o) /\ buf[o] = <<>>
      /\ late' = [late EXCEPT ![o] = FALSE] /\ td' = [td EXCEPT ![o] = "signal"]
      /\ UNCHANGED <<rooms, id, goroutine, firing, consumer, room, at, pushed, sent>>
  BY DEF TakeFirst, consumerVars
<1>2. /\ proto' \in [Objects -> Seq(Msgs \cup {Ready})]
      /\ \A p \in Objects : Len(proto'[p]) <= Capacity
      /\ \A p \in Objects \ {o} : proto'[p] = proto[p]
  BY <1>1, ReceivedFacts
<1>3. /\ buf' \in [Objects -> Seq(Msgs)] /\ \A p \in Objects \ {o} : buf'[p] = buf[p]
      /\ buf'[o] # <<>> /\ Len(buf'[o]) = Len(buf[o]) + 1
  BY <1>1, CollectFacts
<1>4. /\ late' \in [Objects -> BOOLEAN] /\ td' \in [Objects -> {"off", "idle", "signal"}]
      /\ td'[o] = "signal" /\ late'[o] = FALSE
      /\ \A p \in Objects \ {o} : td'[p] = td[p] /\ late'[p] = late[p]
  BY <1>1 DEF TypeOK
<1>5. TypeOK'
  BY <1>1, <1>2, <1>3, <1>4 DEF TypeOK
<1>6. OneGoroutine' /\ ConsumerInv'
  BY <1>1 DEF OneGoroutine, Live, ConsumerInv
<1>7. goroutine[o] = "loop" /\ Len(buf'[o]) < Limit
  <2>1. goroutine[o] = "loop" /\ Len(buf'[o]) = 1
    BY <1>1, <1>3 DEF Received
  <2> QED BY <2>1, LimitIsPositive
<1>8. BatchInv'
  BY <1>1, <1>3, <1>7 DEF BatchInv
<1>9. SignalInv'
  BY <1>1, <1>3, <1>4 DEF SignalInv
<1>10. WakeupComes'
  <2> SUFFICES ASSUME NEW p \in Objects, goroutine'[p] = "loop"
               PROVE  \/ td'[p] # "off" \/ firing'[p] > 0
                      \/ proto'[p] # <<>> /\ (buf'[p] # <<>> => late'[p])
    BY DEF WakeupComes
  <2>1. CASE p = o
    BY <1>4, <2>1
  <2>2. CASE p # o
    <3>1. /\ goroutine'[p] = goroutine[p] /\ td'[p] = td[p] /\ firing'[p] = firing[p]
          /\ proto'[p] = proto[p] /\ buf'[p] = buf[p] /\ late'[p] = late[p]
      BY <1>1, <1>2, <1>3, <1>4, <2>2
    <3> QED BY <3>1 DEF WakeupComes
  <2> QED BY <2>1, <2>2
<1> QED BY <1>5, <1>6, <1>8, <1>9, <1>10

\* A goroutine that goes on to another state, with its channel or batch.
LEMMA GoroutineOnly ==
    ASSUME TypeOK, OneGoroutine, NEW o \in Objects, Live(o), UNCHANGED <<rooms, id>>,
           NEW g \in {"loop", "send", "exit"}, goroutine' = [goroutine EXCEPT ![o] = g]
    PROVE  /\ goroutine' \in [Objects -> {"none", "loop", "send", "exit", "gone"}]
           /\ goroutine'[o] = g /\ \A p \in Objects \ {o} : goroutine'[p] = goroutine[p]
           /\ OneGoroutine'
<1>1. /\ goroutine' \in [Objects -> {"none", "loop", "send", "exit", "gone"}]
      /\ goroutine'[o] = g /\ \A p \in Objects \ {o} : goroutine'[p] = goroutine[p]
  BY DEF TypeOK
<1>2. \A p \in Objects : Live(p)' <=> Live(p)
  BY <1>1 DEF Live
<1>3. ASSUME NEW q \in Rooms, rooms[q] # None
      PROVE  goroutine'[rooms[q]] \in {"loop", "send", "exit"}
  <2>1. Live(rooms[q]) /\ rooms[q] \in Objects
    BY <1>3 DEF OneGoroutine, TypeOK
  <2> QED BY <2>1, <1>2 DEF Live
<1> QED BY <1>1, <1>2, <1>3 DEF OneGoroutine, Live

LEMMA TakeNextInv ==
    ASSUME Inv, NEW o \in Objects, TakeNext(o)
    PROVE  Inv'
<1> USE DEF Inv
<1>1. /\ Received(o) /\ Collect(o) /\ buf[o] # <<>>
      /\ goroutine' =
          [goroutine EXCEPT ![o] =
              IF Len(buf'[o]) < Batch /\ ~late[o] THEN "loop" ELSE "send"]
      /\ UNCHANGED <<rooms, id, late, td, firing, consumer, room, at, pushed, sent>>
  BY DEF TakeNext, consumerVars
<1>2. /\ proto' \in [Objects -> Seq(Msgs \cup {Ready})]
      /\ \A p \in Objects : Len(proto'[p]) <= Capacity
      /\ \A p \in Objects \ {o} : proto'[p] = proto[p]
  BY <1>1, ReceivedFacts
<1>3. /\ buf' \in [Objects -> Seq(Msgs)] /\ \A p \in Objects \ {o} : buf'[p] = buf[p]
      /\ buf'[o] # <<>>
  BY <1>1, CollectFacts
<1> DEFINE g == IF Len(buf'[o]) < Batch /\ ~late[o] THEN "loop" ELSE "send"
<1>11. g \in {"loop", "send", "exit"} /\ g # "exit"
  OBVIOUS
<1>12. g = "loop" => Len(buf'[o]) < Batch /\ ~late[o]
  OBVIOUS
<1>13. goroutine' = [goroutine EXCEPT ![o] = g] /\ goroutine[o] = "loop"
  BY <1>1 DEF Received
<1> HIDE DEF g
<1>4. /\ goroutine' \in [Objects -> {"none", "loop", "send", "exit", "gone"}]
      /\ goroutine'[o] \in {"loop", "send"}
      /\ goroutine'[o] = "loop" => Len(buf'[o]) < Batch /\ ~late[o]
      /\ \A p \in Objects \ {o} : goroutine'[p] = goroutine[p]
      /\ goroutine[o] = "loop"
      /\ OneGoroutine'
  BY <1>1, <1>11, <1>12, <1>13, GoroutineOnly DEF Live
<1>5. TypeOK'
  BY <1>1, <1>2, <1>3, <1>4 DEF TypeOK
<1>6. ConsumerInv'
  BY <1>1 DEF ConsumerInv
<1>7. goroutine'[o] = "loop" => Len(buf'[o]) < Limit
  <2>1. CASE Batch < 2
    <3>1. Len(buf'[o]) \in Nat \ {0}
      BY <1>3
    <3>2. Batch \in Nat
      BY JobRoomAssumption
    <3> QED BY <1>4, <2>1, <3>1, <3>2
  <2>2. CASE ~(Batch < 2)
    BY <1>4, <2>2 DEF Limit
  <2> QED BY <2>1, <2>2
<1>8. BatchInv'
  BY <1>3, <1>4, <1>7 DEF BatchInv
<1>9. SignalInv'
  BY <1>1, <1>3, <1>4 DEF SignalInv
<1>10. WakeupComes'
  <2> SUFFICES ASSUME NEW p \in Objects, goroutine'[p] = "loop"
               PROVE  \/ td'[p] # "off" \/ firing'[p] > 0
                      \/ proto'[p] # <<>> /\ (buf'[p] # <<>> => late'[p])
    BY DEF WakeupComes
  <2>1. CASE p = o
    BY <1>1, <1>4, <2>1 DEF SignalInv
  <2>2. CASE p # o
    <3>1. /\ goroutine'[p] = goroutine[p] /\ td'[p] = td[p] /\ firing'[p] = firing[p]
          /\ proto'[p] = proto[p] /\ buf'[p] = buf[p] /\ late'[p] = late[p]
      BY <1>1, <1>2, <1>3, <1>4, <2>2
    <3> QED BY <3>1 DEF WakeupComes
  <2> QED BY <2>1, <2>2
<1> QED BY <1>4, <1>5, <1>6, <1>8, <1>9, <1>10

LEMMA TakeReadyInv ==
    ASSUME Inv, NEW o \in Objects, TakeReady(o)
    PROVE  Inv'
<1> USE DEF Inv
<1> DEFINE g == IF buf[o] = <<>> THEN "exit" ELSE "send"
<1>1. /\ Received(o) /\ goroutine' = [goroutine EXCEPT ![o] = g]
      /\ UNCHANGED <<rooms, id, buf, late, td, firing, consumer, room, at, pushed, sent>>
  BY DEF TakeReady, consumerVars
<1>2. /\ proto' \in [Objects -> Seq(Msgs \cup {Ready})]
      /\ \A p \in Objects : Len(proto'[p]) <= Capacity
      /\ \A p \in Objects \ {o} : proto'[p] = proto[p]
  BY <1>1, ReceivedFacts
<1>3. /\ g \in {"loop", "send", "exit"} /\ g # "loop" /\ Live(o)
  BY <1>1 DEF Received, Live
<1>4. (g = "send" => buf[o] # <<>>) /\ (g = "exit" => buf[o] = <<>>)
  OBVIOUS
<1> HIDE DEF g
<1>5. /\ goroutine' \in [Objects -> {"none", "loop", "send", "exit", "gone"}]
      /\ goroutine'[o] = g /\ \A p \in Objects \ {o} : goroutine'[p] = goroutine[p]
      /\ OneGoroutine'
  BY <1>1, <1>3, GoroutineOnly
<1>6. TypeOK'
  BY <1>1, <1>2, <1>5 DEF TypeOK
<1>7. ConsumerInv'
  BY <1>1 DEF ConsumerInv
<1>8. BatchInv'
  BY <1>1, <1>3, <1>4, <1>5 DEF BatchInv
<1>9. SignalInv' /\ WakeupComes'
  BY <1>1, <1>2, <1>3, <1>5 DEF SignalInv, WakeupComes
<1> QED BY <1>5, <1>6, <1>7, <1>8, <1>9

LEMMA BroadcastInv ==
    ASSUME Inv, NEW o \in Objects, Broadcast(o)
    PROVE  Inv'
<1> USE DEF Inv
<1>1. /\ goroutine[o] = "send" /\ sent' = [sent EXCEPT ![id[o]] = buf[o]]
      /\ buf' = [buf EXCEPT ![o] = <<>>] /\ td' = [td EXCEPT ![o] = "idle"]
      /\ goroutine' = [goroutine EXCEPT ![o] = "loop"]
      /\ UNCHANGED <<rooms, id, proto, late, firing, consumer, room, at, pushed>>
  BY DEF Broadcast, broadcastRoomRawBytes, consumerVars
<1>2. /\ goroutine' \in [Objects -> {"none", "loop", "send", "exit", "gone"}]
      /\ goroutine'[o] = "loop" /\ \A p \in Objects \ {o} : goroutine'[p] = goroutine[p]
      /\ OneGoroutine'
  BY <1>1, GoroutineOnly DEF Live
<1>3. /\ buf' \in [Objects -> Seq(Msgs)] /\ buf'[o] = <<>>
      /\ \A p \in Objects \ {o} : buf'[p] = buf[p]
      /\ td' \in [Objects -> {"off", "idle", "signal"}] /\ td'[o] = "idle"
      /\ \A p \in Objects \ {o} : td'[p] = td[p]
      /\ sent' \in [Rooms -> Seq(Msgs)]
  <2>1. <<>> \in Seq(Msgs)
    OBVIOUS
  <2> QED BY <1>1, <2>1 DEF TypeOK
<1>4. TypeOK'
  BY <1>1, <1>2, <1>3 DEF TypeOK
<1>5. Len(buf'[o]) < Limit
  BY <1>3, LimitIsPositive
<1>6. BatchInv' /\ SignalInv' /\ WakeupComes' /\ ConsumerInv'
  BY <1>1, <1>2, <1>3, <1>5 DEF BatchInv, SignalInv, WakeupComes, ConsumerInv
<1> QED BY <1>2, <1>4, <1>6

\* delRoom deletes its own room.
LEMMA DelRoomInv ==
    ASSUME Inv, NEW o \in Objects, DelRoom(o)
    PROVE  Inv'
<1> USE DEF Inv
<1>1. /\ goroutine[o] = "exit" /\ rooms' = [rooms EXCEPT ![id[o]] = None]
      /\ td' = [td EXCEPT ![o] = "off"] /\ goroutine' = [goroutine EXCEPT ![o] = "gone"]
      /\ UNCHANGED <<id, proto, buf, late, firing, consumer, room, at, pushed, sent>>
  BY DEF DelRoom, consumerVars
<1>2. id[o] \in Rooms /\ rooms[id[o]] = o
  BY <1>1 DEF OneGoroutine, Live
<1>3. /\ goroutine'[o] = "gone" /\ \A p \in Objects \ {o} : goroutine'[p] = goroutine[p]
      /\ \A p \in Objects \ {o} : td'[p] = td[p]
      /\ rooms'[id[o]] = None /\ \A q \in Rooms \ {id[o]} : rooms'[q] = rooms[q]
  BY <1>1, <1>2 DEF TypeOK
<1>4. TypeOK'
  BY <1>1 DEF TypeOK
<1>5. OneGoroutine'
  <2>1. ASSUME NEW p \in Objects, Live(p)' PROVE id[p] \in Rooms /\ rooms'[id[p]] = p
    <3>1. p # o /\ Live(p)
      BY <1>3, <2>1 DEF Live
    <3>2. id[p] \in Rooms /\ rooms[id[p]] = p
      BY <3>1 DEF OneGoroutine
    <3>3. id[p] # id[o]
      BY <1>2, <3>1, <3>2
    <3> QED BY <1>3, <3>2, <3>3
  <2>2. ASSUME NEW q \in Rooms, rooms'[q] # None
        PROVE  goroutine'[rooms'[q]] \in {"loop", "send", "exit"} /\ id[rooms'[q]] = q
    <3>1. q # id[o] /\ rooms'[q] = rooms[q]
      BY <1>3, <2>2
    <3>2. rooms[q] \in Objects /\ Live(rooms[q]) /\ id[rooms[q]] = q
      BY <2>2, <3>1 DEF OneGoroutine, TypeOK
    <3> QED BY <1>3, <3>1, <3>2 DEF Live
  <2> QED BY <1>1, <2>1, <2>2 DEF OneGoroutine, Live
<1>6. BatchInv' /\ SignalInv' /\ WakeupComes' /\ ConsumerInv'
  BY <1>1, <1>3 DEF BatchInv, SignalInv, WakeupComes, ConsumerInv
<1> QED BY <1>4, <1>5, <1>6

LEMMA ElapseInv ==
    ASSUME Inv, NEW o \in Objects, Elapse(o)
    PROVE  Inv'
<1> USE DEF Inv
<1>1. /\ late' = [late EXCEPT ![o] = TRUE]
      /\ UNCHANGED <<rooms, id, proto, goroutine, buf, td, firing, consumer, room, at, pushed, sent>>
  BY DEF Elapse, consumerVars
<1>2. late' \in [Objects -> BOOLEAN] /\ \A p \in Objects : late[p] => late'[p]
  BY <1>1 DEF TypeOK
<1>3. TypeOK'
  BY <1>1, <1>2 DEF TypeOK
<1>4. OneGoroutine' /\ BatchInv' /\ ConsumerInv'
  BY <1>1 DEF OneGoroutine, Live, BatchInv, ConsumerInv
<1>5. SignalInv' /\ WakeupComes'
  BY <1>1, <1>2 DEF SignalInv, WakeupComes
<1> QED BY <1>3, <1>4, <1>5

LEMMA FireInv ==
    ASSUME Inv, NEW o \in Objects, Fire(o)
    PROVE  Inv'
<1> USE DEF Inv
<1>1. /\ td[o] = "idle" \/ (td[o] = "signal" /\ late[o])
      /\ td' = [td EXCEPT ![o] = "off"] /\ firing' = [firing EXCEPT ![o] = @ + 1]
      /\ UNCHANGED <<rooms, id, proto, goroutine, buf, late, consumer, room, at, pushed, sent>>
  BY DEF Fire, consumerVars
<1>2. /\ td'[o] = "off" /\ firing'[o] > 0 /\ firing' \in [Objects -> Nat]
      /\ \A p \in Objects \ {o} : td'[p] = td[p] /\ firing'[p] = firing[p]
  BY <1>1 DEF TypeOK
<1>3. TypeOK'
  BY <1>1, <1>2 DEF TypeOK
<1>4. OneGoroutine' /\ BatchInv' /\ ConsumerInv'
  BY <1>1 DEF OneGoroutine, Live, BatchInv, ConsumerInv
<1>5. SignalInv'
  BY <1>1, <1>2 DEF SignalInv
<1>6. WakeupComes'
  BY <1>1, <1>2 DEF WakeupComes
<1> QED BY <1>3, <1>4, <1>5, <1>6

LEMMA SendReadyInv ==
    ASSUME Inv, NEW o \in Objects, SendReady(o)
    PROVE  Inv'
<1> USE DEF Inv
<1>1. /\ firing[o] > 0 /\ firing' = [firing EXCEPT ![o] = @ - 1] /\ Offer(o, Ready)
      /\ UNCHANGED <<rooms, id, goroutine, buf, late, td, consumer, room, at, pushed, sent>>
  BY DEF SendReady, objectVars, consumerVars
<1>2. firing' \in [Objects -> Nat] /\ \A p \in Objects : p # o => firing'[p] = firing[p]
  BY <1>1 DEF TypeOK
<1>3. /\ proto' \in [Objects -> Seq(Msgs \cup {Ready})]
      /\ \A p \in Objects : Len(proto'[p]) <= Capacity
      /\ OneGoroutine' /\ BatchInv' /\ SignalInv' /\ WakeupComes'
  BY <1>1, <1>2, OfferInv
<1>4. TypeOK'
  BY <1>1, <1>2, <1>3 DEF TypeOK
<1>5. ConsumerInv'
  BY <1>1 DEF ConsumerInv
<1> QED BY <1>3, <1>4, <1>5

LEMMA StutterInv ==
    ASSUME Inv, UNCHANGED vars
    PROVE  Inv'
  BY DEF Inv, vars, objectVars, consumerVars, TypeOK, OneGoroutine, Live, BatchInv,
         SignalInv, ConsumerInv, WakeupComes

LEMMA NextInv == Inv /\ [Next]_vars => Inv'
<1> SUFFICES ASSUME Inv, [Next]_vars PROVE Inv'
  OBVIOUS
<1>1. ASSUME NEW c \in Consumers, Consumer(c) PROVE Inv'
  BY <1>1, GetRoomInv, MakeInv, PushInv DEF Consumer
<1>2. ASSUME NEW o \in Objects, PushProc(o) PROVE Inv'
  BY <1>2, TakeFirstInv, TakeNextInv, TakeReadyInv, BroadcastInv, DelRoomInv DEF PushProc
<1>3. ASSUME NEW o \in Objects, Timer(o) PROVE Inv'
  BY <1>3, ElapseInv, FireInv, SendReadyInv DEF Timer
<1>4. CASE Done
  BY <1>4, StutterInv DEF Done
<1>5. CASE UNCHANGED vars
  BY <1>5, StutterInv
<1> QED BY <1>1, <1>2, <1>3, <1>4, <1>5 DEF Next

-----------------------------------------------------------------------------
(* Theorems *)

\* The whole inductive invariant holds.
THEOREM Invariance == Spec => []Inv
  BY InitInv, NextInv, PTL DEF Spec

\* Every variable keeps its type and no channel holds more than it can.
THEOREM TypeCorrect == Spec => []TypeOK
<1>1. Inv => TypeOK
  BY DEF Inv
<1> QED BY <1>1, Invariance, PTL

\* A room id has at most one goroutine, and the map leads to it until it ends.
THEOREM RoomsHaveOneGoroutine == Spec => []OneGoroutine
<1>1. Inv => OneGoroutine
  BY DEF Inv
<1> QED BY <1>1, Invariance, PTL

\* A goroutine in its loop always has something that will end its wait.
THEOREM WakeupsCome == Spec => []WakeupComes
<1>1. Inv => WakeupComes
  BY DEF Inv
<1> QED BY <1>1, Invariance, PTL

-----------------------------------------------------------------------------
(* A room is one queue *)

\* The channel of an object is the queue of its room while it accepts.
LEMMA QueueOf ==
    ASSUME Inv, NEW o \in Objects, Live(o)
    PROVE  /\ id[o] \in Rooms /\ rooms[id[o]] = o /\ rooms[id[o]] # None
           /\ Taken[id[o]] = buf[o]
           /\ goroutine[o] # "exit" => Accepted[id[o]] = proto[o]
           /\ goroutine[o] = "exit" => Accepted[id[o]] = <<>>
<1>1. id[o] \in Rooms /\ rooms[id[o]] = o /\ o # None
  BY JobRoomAssumption DEF Inv, OneGoroutine
<1> QED BY <1>1 DEF Accepted, Taken

\* A step that changes one object changes the queue of one room.
LEMMA OneRoom ==
    ASSUME Inv, NEW o \in Objects, Live(o), UNCHANGED <<rooms, id>>,
           \A p \in Objects \ {o} :
              proto'[p] = proto[p] /\ goroutine'[p] = goroutine[p] /\ buf'[p] = buf[p]
    PROVE  /\ Taken' = [Taken EXCEPT ![id[o]] = buf'[o]]
           /\ goroutine'[o] # "exit" => Accepted' = [Accepted EXCEPT ![id[o]] = proto'[o]]
           /\ goroutine'[o] = "exit" => Accepted' = [Accepted EXCEPT ![id[o]] = <<>>]
<1>1. id[o] \in Rooms /\ rooms[id[o]] = o /\ o # None
  BY JobRoomAssumption DEF Inv, OneGoroutine
<1>2. ASSUME NEW r \in Rooms, r # id[o], rooms[r] # None
      PROVE  rooms[r] \in Objects \ {o}
  BY <1>2 DEF Inv, TypeOK, OneGoroutine
<1>3. \A r \in Rooms : r # id[o] => Taken'[r] = Taken[r] /\ Accepted'[r] = Accepted[r]
  BY <1>2 DEF Taken, Accepted
<1>4. Taken'[id[o]] = buf'[o]
  BY <1>1 DEF Taken
<1>5. goroutine'[o] # "exit" => Accepted'[id[o]] = proto'[o]
  BY <1>1 DEF Accepted
<1>6. goroutine'[o] = "exit" => Accepted'[id[o]] = <<>>
  BY <1>1 DEF Accepted
<1>7. Taken' = [Taken EXCEPT ![id[o]] = buf'[o]]
  <2>1. \A r \in Rooms : Taken'[r] = [Taken EXCEPT ![id[o]] = buf'[o]][r]
    BY <1>1, <1>3, <1>4 DEF Taken
  <2> QED BY <2>1 DEF Taken
<1>8. ASSUME NEW q, Accepted'[id[o]] = q
      PROVE  Accepted' = [Accepted EXCEPT ![id[o]] = q]
  <2>1. \A r \in Rooms : Accepted'[r] = [Accepted EXCEPT ![id[o]] = q][r]
    BY <1>1, <1>3, <1>8 DEF Accepted
  <2> QED BY <2>1 DEF Accepted
<1> QED BY <1>5, <1>6, <1>7, <1>8

LEMMA SameQueues ==
    ASSUME UNCHANGED <<rooms, goroutine, proto, buf>>
    PROVE  Accepted' = Accepted /\ Taken' = Taken
  BY DEF Accepted, Taken

\* A Room that was just made is the empty queue that its room id already was.
LEMMA MakeStutters ==
    ASSUME Inv, NEW c \in Consumers, Make(c)
    PROVE  UNCHANGED Queue!vars
<1> DEFINE r == room[c]
<1>1. r \in Rooms /\ sent' = sent
  BY DEF Make, Inv, ConsumerInv
<1>2. /\ rooms[r] # None => UNCHANGED <<rooms, objectVars, proto>>
      /\ rooms[r] = None =>
            \E o \in Objects : NewRoom(o, r) /\ rooms' = [rooms EXCEPT ![r] = o]
  BY DEF Make
<1> HIDE DEF r
<1>3. CASE rooms[r] # None
  <2>1. UNCHANGED <<rooms, goroutine, proto, buf>>
    BY <1>2, <1>3 DEF objectVars
  <2> QED BY <1>1, <2>1, SameQueues DEF Queue!vars
<1>4. CASE rooms[r] = None
  <2>1. PICK o \in Objects : NewRoom(o, r) /\ rooms' = [rooms EXCEPT ![r] = o]
    BY <1>2, <1>4
  <2>2. /\ proto' = [proto EXCEPT ![o] = <<>>] /\ buf' = [buf EXCEPT ![o] = <<>>]
        /\ goroutine' = [goroutine EXCEPT ![o] = "loop"] /\ goroutine[o] \in {"none", "gone"}
    BY <2>1 DEF NewRoom, Unreachable
  <2>3. /\ proto'[o] = <<>> /\ buf'[o] = <<>> /\ goroutine'[o] = "loop"
        /\ rooms'[r] = o /\ \A q \in Rooms : q # r => rooms'[q] = rooms[q]
        /\ \A p \in Objects : p # o => /\ proto'[p] = proto[p] /\ buf'[p] = buf[p]
                                       /\ goroutine'[p] = goroutine[p]
    BY <1>1, <2>1, <2>2 DEF Inv, TypeOK
  <2>4. Accepted'[r] = Accepted[r] /\ Taken'[r] = Taken[r]
    BY <1>1, <1>4, <2>3 DEF Accepted, Taken
  <2>5. ASSUME NEW q \in Rooms, q # r
        PROVE  Accepted'[q] = Accepted[q] /\ Taken'[q] = Taken[q]
    <3>1. CASE rooms[q] = None
      BY <2>3, <2>5, <3>1 DEF Accepted, Taken
    <3>2. CASE rooms[q] # None
      <4>1. rooms[q] \in Objects /\ Live(rooms[q])
        BY <3>2 DEF Inv, TypeOK, OneGoroutine
      <4>2. rooms[q] # o /\ rooms'[q] = rooms[q]
        BY <2>2, <2>3, <2>5, <4>1 DEF Live
      <4> QED BY <2>3, <4>1, <4>2 DEF Accepted, Taken
    <3> QED BY <3>1, <3>2
  <2>6. Accepted' = Accepted /\ Taken' = Taken
    <3>1. \A q \in Rooms : Accepted'[q] = Accepted[q] /\ Taken'[q] = Taken[q]
      BY <2>4, <2>5
    <3> QED BY <3>1 DEF Accepted, Taken
  <2> QED BY <1>1, <2>6 DEF Queue!vars
<1> QED BY <1>3, <1>4

\* A send into the channel of an object whose goroutine has left is lost.
LEMMA OfferAccepts ==
    ASSUME Inv, NEW o \in Objects, NEW m \in Msgs \cup {Ready}, Offer(o, m),
           UNCHANGED <<rooms, id, goroutine, buf, sent>>
    PROVE  [\E r \in Rooms : Queue!Accept(r, m)]_Queue!vars
<1>1. /\ \A p \in Objects \ {o} : proto'[p] = proto[p]
      /\ proto' = proto \/ proto' = [proto EXCEPT ![o] = Append(@, m)]
  BY OfferFacts DEF Inv
<1>2. CASE proto' = proto
  BY <1>2, SameQueues DEF Queue!vars
<1>3. CASE proto' # proto /\ Live(o) /\ goroutine[o] # "exit"
  <2>1. proto'[o] = Append(proto[o], m)
    BY <1>1, <1>3 DEF Inv, TypeOK
  <2>2. /\ id[o] \in Rooms /\ Accepted[id[o]] = proto[o] /\ Taken[id[o]] = buf[o]
    BY <1>3, QueueOf
  <2>3. /\ Accepted' = [Accepted EXCEPT ![id[o]] = proto'[o]]
        /\ Taken' = [Taken EXCEPT ![id[o]] = buf'[o]]
    BY <1>1, <1>3, OneRoom
  <2>4. Taken' = Taken
    BY <2>2, <2>3 DEF Taken
  <2>5. Queue!Accept(id[o], m)
    BY <2>1, <2>2, <2>3, <2>4 DEF Queue!Accept
  <2> QED BY <2>2, <2>5
<1>4. CASE ~Live(o) \/ goroutine[o] = "exit"
  <2>1. ASSUME NEW r \in Rooms PROVE Accepted'[r] = Accepted[r]
    <3>1. CASE rooms[r] = None
      BY <3>1 DEF Accepted
    <3>2. CASE rooms[r] # None /\ rooms[r] # o
      <4>1. rooms[r] \in Objects \ {o}
        BY <3>2 DEF Inv, TypeOK
      <4> QED BY <1>1, <4>1 DEF Accepted
    <3>3. CASE rooms[r] # None /\ rooms[r] = o
      <4>1. goroutine[rooms[r]] = "exit"
        BY <1>4, <3>3 DEF Inv, OneGoroutine
      <4> QED BY <4>1 DEF Accepted
    <3> QED BY <3>1, <3>2, <3>3
  <2>2. Accepted' = Accepted
    BY <2>1 DEF Accepted
  <2>3. Taken' = Taken
    BY DEF Taken
  <2> QED BY <2>2, <2>3 DEF Queue!vars
<1> QED BY <1>2, <1>3, <1>4

LEMMA CollectTakes ==
    ASSUME Inv, NEW o \in Objects, Received(o), Collect(o), UNCHANGED <<rooms, id, sent>>,
           \A p \in Objects \ {o} : goroutine'[p] = goroutine[p],
           goroutine'[o] # "exit"
    PROVE  \E r \in Rooms : Queue!Take(r)
<1>1. goroutine[o] = "loop" /\ proto[o] # <<>> /\ Head(proto[o]) # Ready
  BY DEF Received, Collect
<1>2. /\ \A p \in Objects \ {o} : proto'[p] = proto[p]
      /\ proto'[o] = Tail(proto[o])
  BY ReceivedFacts DEF Inv
<1>3. /\ \A p \in Objects \ {o} : buf'[p] = buf[p]
      /\ buf'[o] = Append(buf[o], Head(proto[o]))
  BY CollectFacts DEF Inv
<1>4. /\ id[o] \in Rooms /\ Accepted[id[o]] = proto[o] /\ Taken[id[o]] = buf[o]
  BY <1>1, QueueOf DEF Live
<1>5. /\ Accepted' = [Accepted EXCEPT ![id[o]] = proto'[o]]
      /\ Taken' = [Taken EXCEPT ![id[o]] = buf'[o]]
  BY <1>1, <1>2, <1>3, OneRoom DEF Live
<1>6. Len(buf[o]) < Limit
  BY <1>1 DEF Inv, BatchInv
<1>7. Queue!Take(id[o])
  BY <1>1, <1>2, <1>3, <1>4, <1>5, <1>6 DEF Queue!Take
<1> QED BY <1>4, <1>7

LEMMA TakeReadyMarks ==
    ASSUME Inv, NEW o \in Objects, TakeReady(o)
    PROVE  \E r \in Rooms : Queue!TakeMark(r) \/ Queue!Close(r)
<1>1. /\ Received(o) /\ goroutine[o] = "loop" /\ proto[o] # <<>> /\ Head(proto[o]) = Ready
      /\ UNCHANGED <<rooms, id, buf, sent>>
  BY DEF TakeReady, Received
<1>2. /\ buf[o] = <<>> => goroutine'[o] = "exit"
      /\ buf[o] # <<>> => goroutine'[o] = "send"
      /\ \A p \in Objects \ {o} : goroutine'[p] = goroutine[p]
  BY DEF TakeReady, Inv, TypeOK
<1>3. /\ \A p \in Objects \ {o} : proto'[p] = proto[p]
      /\ proto'[o] = Tail(proto[o])
  BY <1>1, ReceivedFacts DEF Inv
<1>4. /\ id[o] \in Rooms /\ Accepted[id[o]] = proto[o] /\ Taken[id[o]] = buf[o]
  BY <1>1, QueueOf DEF Live
<1>5. /\ Taken' = [Taken EXCEPT ![id[o]] = buf'[o]]
      /\ goroutine'[o] # "exit" => Accepted' = [Accepted EXCEPT ![id[o]] = proto'[o]]
      /\ goroutine'[o] = "exit" => Accepted' = [Accepted EXCEPT ![id[o]] = <<>>]
  BY <1>1, <1>2, <1>3, OneRoom DEF Live
<1>6. Taken' = Taken
  BY <1>1, <1>4, <1>5 DEF Taken
<1>7. CASE buf[o] = <<>>
  BY <1>1, <1>2, <1>4, <1>5, <1>6, <1>7 DEF Queue!Close
<1>8. CASE buf[o] # <<>>
  <2>1. goroutine'[o] # "exit" /\ sent' = sent
    BY <1>1, <1>2, <1>8
  <2>2. Accepted' = [Accepted EXCEPT ![id[o]] = proto'[o]]
    BY <1>5, <2>1
  <2>3. Queue!TakeMark(id[o])
    BY <1>1, <1>3, <1>4, <1>6, <1>8, <2>1, <2>2 DEF Queue!TakeMark
  <2> QED BY <1>4, <2>3
<1> QED BY <1>7, <1>8

LEMMA BroadcastSends ==
    ASSUME Inv, NEW o \in Objects, Broadcast(o)
    PROVE  \E r \in Rooms : Queue!Send(r)
<1>1. /\ goroutine[o] = "send" /\ sent' = [sent EXCEPT ![id[o]] = buf[o]]
      /\ buf'[o] = <<>> /\ \A p \in Objects \ {o} : buf'[p] = buf[p]
      /\ goroutine'[o] = "loop" /\ \A p \in Objects \ {o} : goroutine'[p] = goroutine[p]
      /\ UNCHANGED <<rooms, id, proto>>
  BY DEF Broadcast, broadcastRoomRawBytes, Inv, TypeOK
<1>2. /\ id[o] \in Rooms /\ Accepted[id[o]] = proto[o] /\ Taken[id[o]] = buf[o]
      /\ buf[o] # <<>>
  BY <1>1, QueueOf DEF Live, Inv, BatchInv
<1>3. /\ Accepted' = [Accepted EXCEPT ![id[o]] = proto'[o]]
      /\ Taken' = [Taken EXCEPT ![id[o]] = buf'[o]]
  BY <1>1, OneRoom DEF Live
<1>4. Accepted' = Accepted
  BY <1>1, <1>2, <1>3 DEF Accepted
<1>5. Queue!Send(id[o])
  BY <1>1, <1>2, <1>3, <1>4 DEF Queue!Send
<1> QED BY <1>2, <1>5

LEMMA DelRoomStutters ==
    ASSUME Inv, NEW o \in Objects, DelRoom(o)
    PROVE  UNCHANGED Queue!vars
<1>1. /\ goroutine[o] = "exit" /\ buf[o] = <<>> /\ UNCHANGED <<proto, buf, sent>>
      /\ rooms' = [rooms EXCEPT ![id[o]] = None]
      /\ \A p \in Objects \ {o} : goroutine'[p] = goroutine[p]
  BY DEF DelRoom, Inv, BatchInv, TypeOK
<1>2. /\ id[o] \in Rooms /\ rooms[id[o]] = o
      /\ Accepted[id[o]] = <<>> /\ Taken[id[o]] = <<>>
  BY <1>1, QueueOf DEF Live
<1>3. rooms'[id[o]] = None /\ \A r \in Rooms : r # id[o] => rooms'[r] = rooms[r]
  BY <1>1, <1>2 DEF Inv, TypeOK
<1>4. Accepted'[id[o]] = <<>> /\ Taken'[id[o]] = <<>>
  BY <1>2, <1>3 DEF Accepted, Taken
<1>5. ASSUME NEW r \in Rooms, r # id[o]
      PROVE  Accepted'[r] = Accepted[r] /\ Taken'[r] = Taken[r]
  <2>1. CASE rooms[r] = None
    BY <1>3, <1>5, <2>1 DEF Accepted, Taken
  <2>2. CASE rooms[r] # None
    <3>1. rooms[r] \in Objects \ {o}
      BY <1>5, <2>2 DEF Inv, TypeOK, OneGoroutine
    <3> QED BY <1>1, <1>3, <1>5, <3>1 DEF Accepted, Taken
  <2> QED BY <2>1, <2>2
<1>6. Accepted' = Accepted /\ Taken' = Taken
  <2>1. \A q \in Rooms : Accepted'[q] = Accepted[q] /\ Taken'[q] = Taken[q]
    BY <1>2, <1>4, <1>5
  <2> QED BY <2>1 DEF Accepted, Taken
<1> QED BY <1>1, <1>6 DEF Queue!vars

LEMMA StepQueues == Inv /\ [Next]_vars => [Queue!Next]_Queue!vars
<1> SUFFICES ASSUME Inv, [Next]_vars PROVE [Queue!Next]_Queue!vars
  OBVIOUS
<1>1. ASSUME NEW c \in Consumers, GetRoom(c) PROVE UNCHANGED Queue!vars
  <2>1. UNCHANGED <<rooms, goroutine, proto, buf, sent>>
    BY <1>1 DEF GetRoom, objectVars
  <2> QED BY <2>1, SameQueues DEF Queue!vars
<1>2. ASSUME NEW c \in Consumers, Make(c) PROVE UNCHANGED Queue!vars
  BY <1>2, MakeStutters
<1>3. ASSUME NEW c \in Consumers, Push(c) PROVE [Queue!Next]_Queue!vars
  <2>1. /\ at[c] \in Objects /\ Offer(at[c], pushed') /\ pushed' = pushed + 1
        /\ pushed < MaxMsgs /\ UNCHANGED <<rooms, id, goroutine, buf, sent>>
    BY <1>3 DEF Push, objectVars, Inv, ConsumerInv
  <2>2. pushed' \in Msgs
    BY <2>1, JobRoomAssumption DEF Inv, TypeOK, Msgs
  <2>3. [\E r \in Rooms : Queue!Accept(r, pushed')]_Queue!vars
    BY <2>1, <2>2, OfferAccepts
  <2> QED BY <2>2, <2>3 DEF Queue!Next
<1>4. ASSUME NEW o \in Objects, TakeFirst(o) PROVE Queue!Next
  <2>1. Received(o) /\ Collect(o) /\ UNCHANGED <<rooms, id, sent, goroutine>>
        /\ goroutine[o] = "loop"
    BY <1>4 DEF TakeFirst, Received
  <2> QED BY <2>1, CollectTakes DEF Queue!Next
<1>5. ASSUME NEW o \in Objects, TakeNext(o) PROVE Queue!Next
  <2>1. /\ Received(o) /\ Collect(o) /\ UNCHANGED <<rooms, id, sent>>
        /\ goroutine'[o] # "exit" /\ \A p \in Objects \ {o} : goroutine'[p] = goroutine[p]
    BY <1>5 DEF TakeNext, Inv, TypeOK
  <2> QED BY <2>1, CollectTakes DEF Queue!Next
<1>6. ASSUME NEW o \in Objects, TakeReady(o) \/ Broadcast(o) PROVE Queue!Next
  BY <1>6, TakeReadyMarks, BroadcastSends DEF Queue!Next
<1>7. ASSUME NEW o \in Objects, DelRoom(o) PROVE UNCHANGED Queue!vars
  BY <1>7, DelRoomStutters
<1>8. ASSUME NEW o \in Objects, Elapse(o) \/ Fire(o) PROVE UNCHANGED Queue!vars
  <2>1. UNCHANGED <<rooms, goroutine, proto, buf, sent>>
    BY <1>8 DEF Elapse, Fire
  <2> QED BY <2>1, SameQueues DEF Queue!vars
<1>9. ASSUME NEW o \in Objects, SendReady(o) PROVE [Queue!Next]_Queue!vars
  <2>1. Offer(o, Ready) /\ UNCHANGED <<rooms, id, goroutine, buf, sent>>
    BY <1>9 DEF SendReady, objectVars
  <2>2. [\E r \in Rooms : Queue!Accept(r, Ready)]_Queue!vars
    BY <2>1, OfferAccepts
  <2> QED BY <2>2 DEF Queue!Next
<1>10. CASE Done \/ UNCHANGED vars
  <2>1. UNCHANGED <<rooms, goroutine, proto, buf, sent>>
    BY <1>10 DEF Done, vars, objectVars
  <2> QED BY <2>1, SameQueues DEF Queue!vars
<1> QED BY <1>1, <1>2, <1>3, <1>4, <1>5, <1>6, <1>7, <1>8, <1>9, <1>10
      DEF Next, Consumer, PushProc, Timer

\* A room is one queue: its messages go out once and in order, and are lost
\* only behind a mark that found no batch.
THEOREM RoomsAreQueues == Spec => ImplementsRoomQueue
<1>1. Init => Queue!Init
  <2> SUFFICES ASSUME Init PROVE Queue!Init
    OBVIOUS
  <2>1. Accepted = [r \in Rooms |-> <<>>] /\ Taken = [r \in Rooms |-> <<>>]
    BY DEF Init, Accepted, Taken
  <2> QED BY <2>1 DEF Init, Queue!Init
<1> QED BY <1>1, StepQueues, Invariance, PTL DEF Spec, ImplementsRoomQueue, Queue!Spec
=============================================================================
