---------------------------- MODULE Fanout_proofs ----------------------------
(***************************************************************************)
(* What the rpcs of a comet answer and whom they reach, for any clients,   *)
(* buckets, routines and requests.                                         *)
(***************************************************************************)
EXTENDS Fanout, TLAPS

Bs == 1..Buckets
Rs == 0..Routines-1
Is(x, t) == Requests[x].type = t
Keyed(x) == Requests[x].keys
PCs == {"new", "look", "offer", "number", "enqueue", "lock", "cast", "ok", "full"}
Walks == [st : {"idle", "found", "push"}, x : Calls \cup {0},
          of : Objects \cup {None}, rest : SUBSET Conns]

Types ==
    /\ TypeOK
    /\ log \in [Conns -> Seq(Calls)]
    /\ full \in [Calls -> SUBSET Conns]
    /\ stayed \in [Calls -> SUBSET Conns]
    /\ at \in [Calls -> Nat]
    /\ reg = [x \in Calls |-> reg[x]]
    /\ entered \in [Bs -> [Rs -> Seq(Calls)]]
    /\ done \in [Bs -> [Rs -> Nat]]
    /\ walk \in [Bs -> [Rs -> Walks]]

\* Where a call is, and what it holds there.
CallOK(x) ==
    /\ pc[x] \in {"look", "offer"} => at[x] \in 1..Len(Keyed(x))
    /\ pc[x] \in {"look", "offer", "full"} => Is(x, "keys")
    /\ pc[x] \in {"number", "enqueue"} => Is(x, "room")
    /\ pc[x] \in {"lock", "cast"} => Is(x, "all")
    /\ pc[x] \in {"number", "enqueue", "lock", "cast"} => at[x] \in Bs
    /\ pc[x] = "enqueue" => reg[x] \in Rs
    /\ pc[x] = "cast" => \A c \in reg[x] : c \in Conns /\ BucketOf(c) = at[x]
    /\ pc[x] \in {"offer", "full"} => reg[x] \in Conns /\ Key[reg[x]] = Of(x, at[x])

CallInv == \A x \in Calls : CallOK(x)

StayedInv == \A x \in Calls : \A c \in stayed[x] : Addressed(x, c)

NewOK(x) == pc[x] = "new" => full[x] = {} /\ \A c \in Conns : ~Got(c, x)

NewInv == \A x \in Calls : NewOK(x)

\* The keys before the one a call has come to.
Behind(x, c) == \E i \in 1..at[x]-1 : Of(x, i) = Key[c]

\* A call has served those it has behind it, and no others.
KeysOK(x) ==
    /\ pc[x] \in {"look", "offer", "full"} =>
          /\ \A c \in stayed[x] : Behind(x, c) => Got(c, x)
          /\ \A c \in Conns : Got(c, x) => Behind(x, c)
    /\ pc[x] \in {"look", "offer"} => full[x] = {}
    /\ pc[x] = "full" => full[x] = {reg[x]}
    /\ pc[x] = "ok" /\ Is(x, "keys") => \A c \in stayed[x] : Got(c, x)

KeysInv == \A x \in Calls : KeysOK(x)

Past(x, b) == pc[x] = "ok" \/ (pc[x] \in {"number", "enqueue"} /\ b < at[x])

\* A message to a room enters one routine of a bucket, once, as the call comes
\* to the bucket.
EnteredOK(b, i) == \A n \in 1..Len(entered[b][i]) :
    LET x == entered[b][i][n]
    IN  /\ Is(x, "room")
        /\ Past(x, b)
        /\ \A j \in Rs : \A m \in 1..Len(entered[b][j]) :
                entered[b][j][m] = x => j = i /\ m = n

EnteredInv == \A b \in Bs, i \in Rs : EnteredOK(b, i)

WalkOK(b, i) ==
    LET w == walk[b][i]
    IN  /\ done[b][i] \in 0..Len(entered[b][i])
        /\ w.st = "idle" => w.x = 0
        /\ w.st # "idle" => done[b][i] # 0 /\ w.x = entered[b][i][done[b][i]]
        /\ \A c \in w.rest : BucketOf(c) = b

WalkInv == \A b \in Bs, i \in Rs : WalkOK(b, i)

\* A message to a room, or to all, has come by a client.
VisitedBy(b, i, c, x) ==
    /\ \E n \in 1..done[b][i] : entered[b][i][n] = x
    /\ walk[b][i].x = x => walk[b][i].st = "push" /\ c \notin walk[b][i].rest

Visited(c, x) == \E i \in Rs : VisitedBy(BucketOf(c), i, c, x)

Through(c, x) ==
    \/ pc[x] = "ok"
    \/ pc[x] \in {"lock", "cast"} /\ BucketOf(c) < at[x]
    \/ pc[x] = "cast" /\ BucketOf(c) = at[x] /\ c \notin reg[x]

Reached(c, x) == (Is(x, "room") /\ Visited(c, x)) \/ (Is(x, "all") /\ Through(c, x))

GotInv == \A c \in Conns, x \in Calls : Got(c, x) => Is(x, "keys") \/ Reached(c, x)

ServedInv == \A x \in Calls : \A c \in stayed[x] : Reached(c, x) => Got(c, x) \/ c \in full[x]

OnceInv == \A c \in Conns : \A i, j \in 1..Len(log[c]) :
    log[c][i] = log[c][j] /\ ~Is(log[c][i], "keys") => i = j

OrderInv == \A c \in Conns, i \in Rs, x, y \in Calls :
    Before(entered[BucketOf(c)][i], x, y) /\ Got(c, x) /\ Got(c, y) => Before(log[c], x, y)

\* A client is in a room of its bucket, and a routine found the one in its own
\* that those who stay for the message are in.
PlaceOK(c) == room[c] # None => room[c][1] = BucketOf(c)

FoundOK(b, i) == walk[b][i].st = "found" =>
    /\ walk[b][i].of # None /\ walk[b][i].of[1] = b
    /\ \A c \in stayed[walk[b][i].x] : BucketOf(c) = b => room[c] = walk[b][i].of

PlaceInv == \A c \in Conns : PlaceOK(c)
FoundInv == \A b \in Bs, i \in Rs : FoundOK(b, i)

CallsInv == CallInv /\ StayedInv /\ NewInv /\ KeysInv
RoutinesInv == EnteredInv /\ WalkInv
LogInv == GotInv /\ ServedInv /\ OnceInv /\ OrderInv
Inv == Types /\ CallsInv /\ RoutinesInv /\ LogInv

LEMMA Constants ==
  /\ Bs \subseteq Nat \ {0} /\ Rs \subseteq Nat /\ Calls \subseteq Nat \ {0} /\ 0 \notin Calls
  /\ Buckets \in Bs /\ 1 \in Bs /\ 0 \in Rs /\ Buckets \in Nat /\ Routines \in Nat \ {0}
  /\ RoutineSize \in Nat \ {0} /\ SvrProto \in Nat \ {0}
  /\ \A c \in Conns : BucketOf(c) \in Bs
  /\ \A c, d \in Conns : Key[c] = Key[d] => c = d
  /\ None \notin Objects /\ None \notin Conns
  BY FanoutAssumption DEF Bs, Rs, Calls, BucketOf, Objects

LEMMA RequestTypes ==
  ASSUME NEW x \in Calls
  PROVE  /\ Requests[x].type \in {"keys", "room", "all"}
         /\ Is(x, "keys") => 1 \in 1..Len(Keyed(x))
         /\ Keyed(x) \in Seq(Keys) /\ Len(Keyed(x)) \in Nat
         /\ Requests[x].room \in Rooms
<1> DEFINE Request == [type : {"keys", "room", "all"}, keys : Seq(Keys), room : Rooms]
<1>1. Requests \in Seq(Request)
  BY FanoutAssumption
<1>2. Requests[x] \in Request
  <2> HIDE DEF Request
  <2>1. DOMAIN Requests = 1..Len(Requests)
    BY <1>1
  <2> QED  BY <1>1, <2>1 DEF Calls
<1>3. Is(x, "keys") => Keyed(x) # <<>>
  BY FanoutAssumption DEF Calls, Is, Keyed
<1>4. Keyed(x) \in Seq(Keys)
  BY <1>2 DEF Keyed
<1>5. Len(Keyed(x)) \in Nat /\ (Keyed(x) # <<>> => Len(Keyed(x)) >= 1)
  BY <1>4
<1>6. Requests[x].type \in {"keys", "room", "all"} /\ Requests[x].room \in Rooms
  BY <1>2
<1> QED  BY <1>3, <1>4, <1>5, <1>6

-----------------------------------------------------------------------------
(* Channel.Push *)

\* An offer puts the message into the one channel, or is noted as refused.
LEMMA OfferEffect ==
  ASSUME Types, NEW c \in Conns, NEW x \in Calls, Offer(c, x)
  PROVE  /\ log' \in [Conns -> Seq(Calls)] /\ full' \in [Calls -> SUBSET Conns]
         /\ behind' \in [Conns -> 0..SvrProto]
         /\ \/ /\ log' = [log EXCEPT ![c] = Append(@, x)] /\ full' = full
            \/ /\ log' = log /\ full' = [full EXCEPT ![x] = @ \cup {c}]
<1>1. /\ log \in [Conns -> Seq(Calls)] /\ full \in [Calls -> SUBSET Conns]
      /\ behind \in [Conns -> 0..SvrProto] /\ SvrProto \in Nat
  BY Constants DEF Types, TypeOK
<1>2. CASE behind[c] < SvrProto
  <2>1. /\ behind' = [behind EXCEPT ![c] = @ + 1]
        /\ log' = [log EXCEPT ![c] = Append(@, x)] /\ full' = full
    BY <1>2 DEF Offer
  <2>2. log[c] \in Seq(Calls)
    BY <1>1
  <2>3. Append(log[c], x) \in Seq(Calls)
    BY <2>2
  <2>4. behind[c] + 1 \in 0..SvrProto
    BY <1>1, <1>2
  <2> QED  BY <1>1, <2>1, <2>3, <2>4
<1>3. CASE ~(behind[c] < SvrProto)
  <2>1. behind' = behind /\ log' = log /\ full' = [full EXCEPT ![x] = @ \cup {c}]
    BY <1>3 DEF Offer
  <2> QED  BY <1>1, <2>1
<1> QED  BY <1>2, <1>3

LEMMA OfferGot ==
  ASSUME Types, NEW c \in Conns, NEW x \in Calls, Offer(c, x)
  PROVE  /\ \A d \in Conns, y \in Calls : Got(d, y) => Got(d, y)'
         /\ \A d \in Conns, y \in Calls : Got(d, y)' => Got(d, y) \/ (d = c /\ y = x)
         /\ \A y \in Calls : full[y] \subseteq full'[y] /\ (y # x => full'[y] = full[y])
         /\ full'[x] = full[x] \/ full'[x] = full[x] \cup {c}
         /\ Got(c, x)' \/ c \in full'[x]
         /\ full' # full => full'[x] = full[x] \cup {c} /\ \A y \in Calls : Got(c, y)' => Got(c, y)
<1>1. log \in [Conns -> Seq(Calls)] /\ full \in [Calls -> SUBSET Conns]
  BY DEF Types
<1>2. CASE log' = [log EXCEPT ![c] = Append(@, x)] /\ full' = full
  <2>1. \A d \in Conns : d # c => log'[d] = log[d]
    BY <1>1, <1>2
  <2>2. /\ Len(log'[c]) = Len(log[c]) + 1 /\ Len(log[c]) \in Nat
        /\ log'[c][Len(log[c]) + 1] = x
        /\ \A i \in 1..Len(log[c]) : log'[c][i] = log[c][i]
    BY <1>1, <1>2
  <2>3. \A y \in Calls : Got(c, y) => Got(c, y)'
    BY <2>2 DEF Got
  <2>4. \A y \in Calls : Got(c, y)' => Got(c, y) \/ y = x
    BY <2>2 DEF Got
  <2>5. Got(c, x)'
    BY <2>2 DEF Got
  <2>6. \A d \in Conns, y \in Calls : d # c => (Got(d, y)' <=> Got(d, y))
    BY <2>1 DEF Got
  <2> QED  BY <1>1, <1>2, <2>3, <2>4, <2>5, <2>6
<1>3. CASE log' = log /\ full' = [full EXCEPT ![x] = @ \cup {c}]
  <2>1. \A d \in Conns, y \in Calls : Got(d, y)' <=> Got(d, y)
    BY <1>3 DEF Got
  <2> QED  BY <1>1, <1>3, <2>1
<1> QED  BY <1>2, <1>3, OfferEffect

LEMMA NothingOffered ==
  ASSUME log' = log
  PROVE  \A d \in Conns, y \in Calls : Got(d, y)' <=> Got(d, y)
  BY DEF Got

-----------------------------------------------------------------------------
(* What a step leaves alone *)

LEMMA GotoEffect ==
  ASSUME Types, NEW x \in Calls, NEW p, NEW n \in Nat, NEW v, Goto(x, p, n, v),
         p \in PCs
  PROVE  /\ pc'[x] = p /\ at'[x] = n /\ reg'[x] = v
         /\ \A y \in Calls : y # x => pc'[y] = pc[y] /\ at'[y] = at[y] /\ reg'[y] = reg[y]
         /\ pc' \in [Calls -> PCs]
         /\ at' \in [Calls -> Nat] /\ reg' = [y \in Calls |-> reg'[y]]
<1>1. pc \in [Calls -> PCs] /\ at \in [Calls -> Nat]
  BY DEF Types, TypeOK, PCs
<1>2. reg = [y \in Calls |-> reg[y]]
  BY DEF Types
<1>3. /\ pc' = [pc EXCEPT ![x] = p] /\ at' = [at EXCEPT ![x] = n]
      /\ reg' = [reg EXCEPT ![x] = v]
  BY DEF Goto
<1>4. DOMAIN reg = Calls
  BY <1>2
<1>5. reg' = [y \in Calls |-> reg'[y]] /\ reg'[x] = v /\ \A y \in Calls : y # x => reg'[y] = reg[y]
  BY <1>3, <1>4
<1> QED  BY <1>1, <1>3, <1>5

\* A call that does not move, and whose message is not offered.
LEMMA CallKept ==
  ASSUME CallsInv, NEW y \in Calls, pc'[y] = pc[y], at'[y] = at[y], reg'[y] = reg[y],
         stayed'[y] \subseteq stayed[y],
         Is(y, "keys") \/ pc[y] = "new" =>
            full'[y] = full[y] /\ \A c \in Conns : Got(c, y)' <=> Got(c, y),
         stayed[y] \subseteq Conns
  PROVE  CallOK(y)' /\ NewOK(y)' /\ KeysOK(y)'
<1>1. CallOK(y) /\ NewOK(y) /\ KeysOK(y)
  BY DEF CallsInv, CallInv, NewInv, KeysInv
<1>2. CallOK(y)'
  BY <1>1 DEF CallOK
<1>3. NewOK(y)'
  BY <1>1 DEF NewOK
<1>4. \A c \in Conns : Behind(y, c)' <=> Behind(y, c)
  BY DEF Behind
<1>5. pc[y] \in {"look", "offer", "full"} => Is(y, "keys")
  BY <1>1 DEF CallOK
<1>6. KeysOK(y)'
  BY <1>1, <1>4, <1>5 DEF KeysOK
<1> QED  BY <1>2, <1>3, <1>6

LEMMA StayedKept ==
  ASSUME StayedInv, UNCHANGED clientVars, UNCHANGED stayed
  PROVE  StayedInv'
  BY DEF StayedInv, Addressed, Mapped, BucketOf, clientVars

LEMMA EnteredKept ==
  ASSUME Types, EnteredInv, UNCHANGED entered,
         \A x \in Calls, b \in Bs : Past(x, b) => Past(x, b)'
  PROVE  EnteredInv'
<1> SUFFICES ASSUME NEW b \in Bs, NEW i \in Rs PROVE EnteredOK(b, i)'
  BY DEF EnteredInv
<1>1. entered[b][i] \in Seq(Calls)
  BY DEF Types
<1>2. \A n \in 1..Len(entered[b][i]) : entered[b][i][n] \in Calls
  BY <1>1
<1>3. EnteredOK(b, i)
  BY DEF EnteredInv
<1> QED  BY <1>2, <1>3 DEF EnteredOK

LEMMA WalkKept ==
  ASSUME WalkInv, UNCHANGED <<entered, done, walk>>
  PROVE  WalkInv' /\ \A c \in Conns, x \in Calls : Visited(c, x)' <=> Visited(c, x)
  BY DEF WalkInv, WalkOK, Visited, VisitedBy

\* A step that offers nothing.
LEMMA Quiet ==
  ASSUME LogInv, UNCHANGED <<log, full>>,
         \A x \in Calls, c \in Conns : Reached(c, x) => Reached(c, x)',
         \A x \in Calls : \A c \in stayed'[x] :
            Reached(c, x)' => Reached(c, x) /\ c \in stayed[x],
         \A c \in Conns, i \in Rs, x, y \in Calls :
            Got(c, x) /\ Got(c, y) /\ Before(entered[BucketOf(c)][i], x, y)'
            => Before(entered[BucketOf(c)][i], x, y)
  PROVE  LogInv'
<1>1. \A c \in Conns, x \in Calls : Got(c, x)' <=> Got(c, x)
  BY NothingOffered
<1>2. GotInv'
  BY <1>1 DEF LogInv, GotInv, Is
<1>3. ServedInv'
  BY DEF LogInv, ServedInv, Got
<1>4. OnceInv'
  BY DEF LogInv, OnceInv, Is
<1>5. OrderInv'
  BY <1>1 DEF LogInv, OrderInv, Before
<1> QED  BY <1>2, <1>3, <1>4, <1>5 DEF LogInv

\* A step that offers x to c, who has come to be reached by it with this.
LEMMA Offering ==
  ASSUME Types, LogInv, NEW c \in Conns, NEW x \in Calls, Offer(c, x),
         UNCHANGED <<entered, stayed>>,
         ~Is(x, "keys") => ~Got(c, x) /\ Reached(c, x)',
         \A y \in Calls, d \in Conns : Reached(d, y) => Reached(d, y)',
         \A y \in Calls, d \in Conns : Reached(d, y)' => Reached(d, y) \/ (d = c /\ y = x),
         \A i \in Rs, y \in Calls : Before(entered[BucketOf(c)][i], x, y) => ~Got(c, y) /\ y # x
  PROVE  LogInv'
<1>1. stayed \in [Calls -> SUBSET Conns] /\ log \in [Conns -> Seq(Calls)]
  BY DEF Types
<1>2. /\ \A d \in Conns, y \in Calls : Got(d, y) => Got(d, y)'
      /\ \A d \in Conns, y \in Calls : Got(d, y)' => Got(d, y) \/ (d = c /\ y = x)
      /\ \A y \in Calls : full[y] \subseteq full'[y]
      /\ Got(c, x)' \/ c \in full'[x]
  BY OfferGot
<1>3. GotInv'
  BY <1>2 DEF LogInv, GotInv, Is
<1>4. ASSUME NEW y \in Calls, NEW d \in stayed'[y], Reached(d, y)'
      PROVE  Got(d, y)' \/ d \in full'[y]
  BY <1>1, <1>2, <1>4 DEF LogInv, ServedInv
<1>5. ServedInv'
  BY <1>4 DEF ServedInv
<1>6. CASE log' = log
  <2>1. OnceInv'
    BY <1>6 DEF LogInv, OnceInv, Is
  <2>2. \A d \in Conns, y \in Calls : Got(d, y)' <=> Got(d, y)
    BY <1>6, NothingOffered
  <2>3. OrderInv'
    BY <1>6, <2>2 DEF LogInv, OrderInv, Before
  <2> QED  BY <1>3, <1>5, <2>1, <2>3 DEF LogInv
<1>7. CASE log' = [log EXCEPT ![c] = Append(@, x)]
  <2>1. \A d \in Conns : d # c => log'[d] = log[d]
    BY <1>1, <1>7
  <2>2. /\ Len(log'[c]) = Len(log[c]) + 1 /\ Len(log[c]) \in Nat
        /\ log'[c][Len(log[c]) + 1] = x
        /\ \A i \in 1..Len(log[c]) : log'[c][i] = log[c][i]
    BY <1>1, <1>7
  <2>3. ASSUME NEW d \in Conns, NEW i \in 1..Len(log'[d]), NEW j \in 1..Len(log'[d]),
               log'[d][i] = log'[d][j], ~Is(log'[d][i], "keys")
        PROVE  i = j
    <3>1. CASE d # c
      BY <2>1, <2>3, <3>1 DEF LogInv, OnceInv
    <3>2. CASE d = c
      <4>1. CASE i \in 1..Len(log[c]) /\ j \in 1..Len(log[c])
        BY <2>2, <2>3, <3>2, <4>1 DEF LogInv, OnceInv
      <4>2. CASE i = Len(log[c]) + 1 /\ j = Len(log[c]) + 1
        BY <4>2
      <4>3. CASE i \in 1..Len(log[c]) /\ j = Len(log[c]) + 1
        <5>1. log[c][i] = x /\ ~Is(x, "keys")
          BY <2>2, <2>3, <3>2, <4>3
        <5> QED  BY <4>3, <5>1 DEF Got
      <4>4. CASE j \in 1..Len(log[c]) /\ i = Len(log[c]) + 1
        <5>1. log[c][j] = x /\ ~Is(x, "keys")
          BY <2>2, <2>3, <3>2, <4>4
        <5> QED  BY <4>4, <5>1 DEF Got
      <4> QED  BY <2>2, <3>2, <4>1, <4>2, <4>3, <4>4
    <3> QED  BY <3>1, <3>2
  <2>4. OnceInv'
    BY <2>3 DEF OnceInv, Is
  <2>5. ASSUME NEW d \in Conns, NEW i \in Rs, NEW y \in Calls, NEW z \in Calls,
               Before(entered[BucketOf(d)][i], y, z), Got(d, y)', Got(d, z)'
        PROVE  Before(log[d], y, z)'
    <3>1. CASE Got(d, y) /\ Got(d, z)
      <4>1. Before(log[d], y, z)
        BY <2>5, <3>1 DEF LogInv, OrderInv
      <4>2. CASE d # c
        BY <2>1, <4>1, <4>2 DEF Before
      <4>3. CASE d = c
        <5>1. PICK j, k \in 1..Len(log[c]) : j < k /\ log[c][j] = y /\ log[c][k] = z
          BY <4>1, <4>3 DEF Before
        <5>2. /\ j \in 1..Len(log'[c]) /\ k \in 1..Len(log'[c])
              /\ log'[c][j] = y /\ log'[c][k] = z
          BY <2>2, <5>1
        <5> QED  BY <4>3, <5>1, <5>2 DEF Before
      <4> QED  BY <4>2, <4>3
    <3>2. CASE Got(d, y) /\ d = c /\ z = x
      BY <2>2, <3>2 DEF Before, Got
    <3>3. CASE d = c /\ y = x /\ ~Got(c, x)
      <4>1. ~Got(c, z) /\ z # x
        BY <2>5, <3>3
      <4> QED  BY <1>2, <2>5, <3>3, <4>1
    <3> QED  BY <1>2, <2>5, <3>1, <3>2, <3>3
  <2>6. OrderInv'
    BY <2>5 DEF OrderInv, Before
  <2> QED  BY <1>3, <1>5, <2>4, <2>6 DEF LogInv
<1> QED  BY <1>6, <1>7, OfferEffect
-----------------------------------------------------------------------------
(* What the invariant says of calls, routines and channels *)

LEMMA RoutineFacts ==
  ASSUME Types, RoutinesInv, NEW b \in Bs, NEW i \in Rs
  PROVE  /\ entered[b][i] \in Seq(Calls) /\ Len(entered[b][i]) \in Nat
         /\ done[b][i] \in 0..Len(entered[b][i])
         /\ \A n \in 1..Len(entered[b][i]) :
                /\ entered[b][i][n] \in Calls /\ entered[b][i][n] # 0
                /\ Is(entered[b][i][n], "room") /\ Past(entered[b][i][n], b)
                /\ \A j \in Rs : \A m \in 1..Len(entered[b][j]) :
                        entered[b][j][m] = entered[b][i][n] => j = i /\ m = n
         /\ walk[b][i] \in Walks
         /\ walk[b][i].st = "idle" => walk[b][i].x = 0
         /\ walk[b][i].st # "idle" =>
                /\ done[b][i] \in 1..Len(entered[b][i])
                /\ walk[b][i].x = entered[b][i][done[b][i]] /\ walk[b][i].x \in Calls
         /\ \A c \in walk[b][i].rest : c \in Conns /\ BucketOf(c) = b
<1>1. entered[b][i] \in Seq(Calls) /\ walk[b][i] \in Walks
  BY DEF Types
<1>2. Len(entered[b][i]) \in Nat /\ \A n \in 1..Len(entered[b][i]) : entered[b][i][n] \in Calls
  BY <1>1
<1>3. EnteredOK(b, i) /\ WalkOK(b, i)
  BY DEF RoutinesInv, EnteredInv, WalkInv
<1>4. /\ done[b][i] \in 0..Len(entered[b][i])
      /\ walk[b][i].st = "idle" => walk[b][i].x = 0
      /\ walk[b][i].st # "idle" =>
            /\ done[b][i] \in 1..Len(entered[b][i])
            /\ walk[b][i].x = entered[b][i][done[b][i]] /\ walk[b][i].x \in Calls
      /\ \A c \in walk[b][i].rest : c \in Conns /\ BucketOf(c) = b
  BY <1>1, <1>2, <1>3 DEF WalkOK, Walks
<1>5. \A n \in 1..Len(entered[b][i]) :
                /\ entered[b][i][n] \in Calls /\ entered[b][i][n] # 0
                /\ Is(entered[b][i][n], "room") /\ Past(entered[b][i][n], b)
                /\ \A j \in Rs : \A m \in 1..Len(entered[b][j]) :
                        entered[b][j][m] = entered[b][i][n] => j = i /\ m = n
  BY <1>2, <1>3, Constants DEF EnteredOK
<1> QED  BY <1>1, <1>2, <1>4, <1>5

LEMMA Entered ==
  ASSUME Types, RoutinesInv, NEW c \in Conns
  PROVE  /\ \A x \in Calls : Visited(c, x) => Is(x, "room") /\ Past(x, BucketOf(c))
         /\ \A i \in Rs, x, y \in Calls : Before(entered[BucketOf(c)][i], x, y) =>
                x # y /\ Is(x, "room") /\ Is(y, "room")
<1>1. BucketOf(c) \in Bs
  BY Constants
<1>2. ASSUME NEW x \in Calls, Visited(c, x) PROVE Is(x, "room") /\ Past(x, BucketOf(c))
  <2>1. PICK i \in Rs : \E n \in 1..done[BucketOf(c)][i] : entered[BucketOf(c)][i][n] = x
    BY <1>2 DEF Visited, VisitedBy
  <2> QED  BY <1>1, <2>1, RoutineFacts
<1>3. ASSUME NEW i \in Rs, NEW x \in Calls, NEW y \in Calls, Before(entered[BucketOf(c)][i], x, y)
      PROVE  x # y /\ Is(x, "room") /\ Is(y, "room")
  BY <1>1, <1>3, RoutineFacts DEF Before
<1> QED  BY <1>2, <1>3

\* A call that begins has reached nobody.
LEMMA Unreached ==
  ASSUME Types, RoutinesInv, NEW c \in Conns, NEW x \in Calls, Reached(c, x)
  PROVE  pc[x] # "new"
  BY Entered DEF Reached, Through, Past

\* A call moves, and the routines do not.
LEMMA OneMoves ==
  ASSUME Types, RoutinesInv, NEW x \in Calls, UNCHANGED <<entered, done, walk>>,
         \A y \in Calls : y # x => pc'[y] = pc[y] /\ at'[y] = at[y] /\ reg'[y] = reg[y],
         \A b \in Bs : Past(x, b) => Past(x, b)'
  PROVE  /\ RoutinesInv'
         /\ \A c \in Conns, y \in Calls : y # x \/ ~Is(x, "all") => (Reached(c, y)' <=> Reached(c, y))
<1>1. WalkInv' /\ \A c \in Conns, y \in Calls : Visited(c, y)' <=> Visited(c, y)
  BY WalkKept DEF RoutinesInv
<1>2. \A y \in Calls, b \in Bs : Past(y, b) => Past(y, b)'
  BY DEF Past
<1>3. EnteredInv'
  BY <1>2, EnteredKept DEF RoutinesInv
<1>4. \A c \in Conns, y \in Calls : y # x => (Through(c, y)' <=> Through(c, y))
  BY DEF Through
<1>5. \A c \in Conns, y \in Calls : y # x \/ ~Is(x, "all") => (Reached(c, y)' <=> Reached(c, y))
  BY <1>1, <1>4 DEF Reached, Is
<1> QED  BY <1>1, <1>3, <1>5 DEF RoutinesInv

\* The others, while a call moves.
LEMMA OthersKept ==
  ASSUME Inv, NEW x \in Calls,
         \A y \in Calls : y # x => pc'[y] = pc[y] /\ at'[y] = at[y] /\ reg'[y] = reg[y],
         \A y \in Calls : y # x => stayed'[y] \subseteq stayed[y] /\ full'[y] = full[y],
         \A y \in Calls, c \in Conns : y # x => (Got(c, y)' <=> Got(c, y)),
         CallOK(x)', NewOK(x)', KeysOK(x)', StayedInv'
  PROVE  CallsInv'
<1>1. stayed \in [Calls -> SUBSET Conns]
  BY DEF Inv, Types
<1>2. ASSUME NEW y \in Calls, y # x PROVE CallOK(y)' /\ NewOK(y)' /\ KeysOK(y)'
  BY <1>1, <1>2, CallKept DEF Inv
<1> QED  BY <1>2 DEF CallsInv, CallInv, NewInv, KeysInv

-----------------------------------------------------------------------------
(* Init *)

LEMMA InitInv == Init => Inv
<1> SUFFICES ASSUME Init PROVE Inv
  OBVIOUS
<1>0. <<>> \in Seq(Calls)
  OBVIOUS
<1>1. \A b \in Bs, i \in Rs :
        entered[b][i] = <<>> /\ done[b][i] = 0 /\ walk[b][i] = NoWalk /\ Len(entered[b][i]) = 0
  BY DEF Init, Bs, Rs
<1>2. \A c \in Conns : log[c] = <<>> /\ Len(log[c]) = 0
  BY DEF Init
<1>3. Types
  <2>1. NoWalk \in Walks
    BY DEF NoWalk, Walks
  <2>2. TypeOK
    <3>1. \A b \in 1..Buckets, i \in 0..Routines-1 : Queued(b, i) \in 0..RoutineSize
      BY <1>1, Constants DEF Queued, Bs, Rs
    <3>2. 0 \in 0..SvrProto /\ 0 \in 0..Routines-1
      BY Constants
    <3> QED  BY <3>1, <3>2 DEF Init, TypeOK
  <2>3. walk \in [Bs -> [Rs -> Walks]]
    BY <2>1 DEF Init, Bs, Rs
  <2>4. entered \in [Bs -> [Rs -> Seq(Calls)]]
    BY <1>0 DEF Init, Bs, Rs
  <2>5. log \in [Conns -> Seq(Calls)]
    BY <1>0 DEF Init
  <2> QED  BY <2>2, <2>3, <2>4, <2>5 DEF Init, Types, Bs, Rs
<1>4. CallsInv
  <2>1. \A x \in Calls : pc[x] = "new" /\ full[x] = {} /\ stayed[x] = {}
    BY DEF Init
  <2>2. \A c \in Conns, x \in Calls : ~Got(c, x)
    BY <1>2 DEF Got
  <2> QED  BY <2>1, <2>2 DEF CallsInv, CallInv, CallOK, StayedInv, NewInv, NewOK, KeysInv, KeysOK
<1>5. RoutinesInv
  BY <1>1 DEF RoutinesInv, EnteredInv, EnteredOK, WalkInv, WalkOK, NoWalk
<1>6. LogInv
  <2>1. \A c \in Conns, x \in Calls : ~Got(c, x)
    BY <1>2 DEF Got
  <2>2. \A x \in Calls : stayed[x] = {}
    BY DEF Init
  <2> QED  BY <1>2, <2>1, <2>2 DEF LogInv, GotInv, ServedInv, OnceInv, OrderInv
<1> QED  BY <1>3, <1>4, <1>5, <1>6 DEF Inv

-----------------------------------------------------------------------------
(* PushMsg *)

\* The types, when a call moves.
LEMMA CallTypes ==
  ASSUME Types, pc' \in [Calls -> PCs], at' \in [Calls -> Nat], reg' = [y \in Calls |-> reg'[y]],
         UNCHANGED <<clientVars, entered, done, walk>>,
         num' \in [Bs -> Rs], behind' \in [Conns -> 0..SvrProto],
         log' \in [Conns -> Seq(Calls)], full' \in [Calls -> SUBSET Conns],
         stayed' \in [Calls -> SUBSET Conns]
  PROVE  Types'
<1>1. \A b \in 1..Buckets, i \in 0..Routines-1 : Queued(b, i)' \in 0..RoutineSize
  BY DEF Types, TypeOK, Queued
<1>2. TypeOK'
  BY <1>1 DEF Types, TypeOK, clientVars, PCs, Bs, Rs
<1> QED  BY <1>2 DEF Types

LEMMA Typed ==
  ASSUME Types
  PROVE  /\ pc \in [Calls -> PCs] /\ num \in [Bs -> Rs] /\ behind \in [Conns -> 0..SvrProto]
         /\ log \in [Conns -> Seq(Calls)] /\ full \in [Calls -> SUBSET Conns]
         /\ stayed \in [Calls -> SUBSET Conns] /\ at \in [Calls -> Nat]
         /\ up \subseteq Conns /\ listens \in [Conns -> BOOLEAN]
         /\ room \in [Conns -> Objects \cup {None}]
         /\ made \in [Bs -> [Rooms -> Nat]] /\ dropped \subseteq Objects
  BY DEF Types, TypeOK, PCs, Bs, Rs

LEMMA StartInv ==
  ASSUME Inv, NEW x \in Calls, Start(x)
  PROVE  Inv'
<1> DEFINE p == CASE Requests[x].type = "keys" -> "look"
                  [] Requests[x].type = "room" -> "number"
                  [] Requests[x].type = "all" -> "lock"
<1>1. Types
  BY DEF Inv
<1>2. /\ pc[x] = "new" /\ stayed' = [stayed EXCEPT ![x] = {c \in Conns : Addressed(x, c)}]
      /\ Goto(x, p, 1, None)
      /\ UNCHANGED <<up, room, listens, moves, made, dropped, behind, log, full, num, entered, done, walk>>
  BY DEF Start, clientVars, channelVars, routineVars
<1>3. Requests[x].type \in {"keys", "room", "all"}
  BY RequestTypes
<1>4. /\ p \in {"look", "number", "lock"} /\ (p = "look" <=> Is(x, "keys"))
      /\ (p = "number" <=> Is(x, "room")) /\ (p = "lock" <=> Is(x, "all"))
  BY <1>3 DEF Is
<1> HIDE DEF p
<1>5. /\ pc'[x] = p /\ at'[x] = 1
      /\ \A y \in Calls : y # x => pc'[y] = pc[y] /\ at'[y] = at[y] /\ reg'[y] = reg[y]
      /\ pc' \in [Calls -> PCs] /\ at' \in [Calls -> Nat] /\ reg' = [y \in Calls |-> reg'[y]]
  <2>1. p \in PCs /\ 1 \in Nat
    BY <1>4 DEF PCs
  <2> QED  BY <1>1, <1>2, <2>1, GotoEffect
<1>6. /\ stayed' \in [Calls -> SUBSET Conns] /\ stayed'[x] = {c \in Conns : Addressed(x, c)}
      /\ \A y \in Calls : y # x => stayed'[y] = stayed[y]
  BY <1>1, <1>2, Typed
<1>7. Types'
  BY <1>1, <1>2, <1>5, <1>6, Typed, CallTypes DEF clientVars
<1>8. \A y \in Calls, c \in Conns : Got(c, y)' <=> Got(c, y)
  BY <1>2, NothingOffered
<1>9. StayedInv'
  <2>1. \A y \in Calls, c \in Conns : Addressed(y, c)' <=> Addressed(y, c)
    BY <1>2 DEF Addressed, Mapped, BucketOf
  <2> QED  BY <2>1, <1>1, <1>6, Typed DEF StayedInv, Inv, CallsInv
<1>10. CallsInv'
  <2>1. NewOK(x)
    BY DEF Inv, CallsInv, NewInv
  <2>2. CallOK(x)'
    BY <1>4, <1>5, Constants, RequestTypes DEF CallOK
  <2>3. NewOK(x)'
    BY <1>4, <1>5 DEF NewOK
  <2>4. KeysOK(x)'
    BY <1>2, <1>4, <1>5, <1>6, <1>8, <2>1 DEF KeysOK, Behind, NewOK
  <2> QED  BY <1>2, <1>5, <1>6, <1>8, <1>9, <2>2, <2>3, <2>4, OthersKept
<1>11. /\ RoutinesInv'
       /\ \A c \in Conns, y \in Calls : y # x \/ ~Is(x, "all") => (Reached(c, y)' <=> Reached(c, y))
  <2>1. \A b \in Bs : ~Past(x, b)
    BY <1>2 DEF Past
  <2> QED  BY <1>1, <1>2, <1>5, <2>1, OneMoves DEF Inv
<1>12. \A c \in Conns : ~Reached(c, x) /\ ~Reached(c, x)'
  <2>1. \A c \in Conns : ~Reached(c, x)
    BY <1>1, <1>2, Unreached DEF Inv
  <2>2. CASE Is(x, "all")
    <3>1. \A c \in Conns : BucketOf(c) \in Nat \ {0}
      BY Constants
    <3>2. pc'[x] = "lock"
      BY <1>4, <1>5, <2>2
    <3>3. \A c \in Conns : ~Through(c, x)'
      BY <1>5, <3>1, <3>2 DEF Through
    <3> QED  BY <2>1, <2>2, <3>3 DEF Reached, Is
  <2>3. CASE ~Is(x, "all")
    BY <1>11, <2>1, <2>3
  <2> QED  BY <2>2, <2>3
<1>13. LogInv'
  <2>1. \A y \in Calls : \A c \in stayed'[y] :
            Reached(c, y)' => Reached(c, y) /\ c \in stayed[y]
    BY <1>6, <1>11, <1>12
  <2>2. \A y \in Calls, c \in Conns : Reached(c, y) => Reached(c, y)'
    BY <1>11, <1>12
  <2> QED  BY <1>2, <2>1, <2>2, Quiet DEF Inv
<1> QED  BY <1>7, <1>10, <1>11, <1>13 DEF Inv

\* A call has done with a key.
LEMMA NextKeyKept ==
  ASSUME Inv, NEW x \in Calls, pc[x] \in {"look", "offer"}, NextKey(x), UNCHANGED stayed,
         full'[x] = full[x],
         \A c \in stayed[x] : Of(x, at[x]) = Key[c] => Got(c, x)',
         \A c \in Conns : Got(c, x) => Got(c, x)',
         \A c \in Conns : Got(c, x)' => Got(c, x) \/ Of(x, at[x]) = Key[c]
  PROVE  /\ CallOK(x)' /\ NewOK(x)' /\ KeysOK(x)'
         /\ \A y \in Calls : y # x => pc'[y] = pc[y] /\ at'[y] = at[y] /\ reg'[y] = reg[y]
         /\ pc' \in [Calls -> PCs] /\ at' \in [Calls -> Nat] /\ reg' = [y \in Calls |-> reg'[y]]
<1> DEFINE n == Len(Keyed(x))
           p == IF at[x] = n THEN "ok" ELSE "look"
<1>1. Types /\ CallOK(x) /\ KeysOK(x)
  BY DEF Inv, CallsInv, CallInv, KeysInv
<1>2. Is(x, "keys") /\ at[x] \in 1..n /\ n \in Nat
  BY <1>1, RequestTypes DEF CallOK
<1>3. Goto(x, p, at[x] + 1, None)
  BY DEF NextKey, Proceed, Keyed
<1>4. p \in {"ok", "look"} /\ at[x] + 1 \in Nat /\ (p = "look" => at[x] + 1 \in 1..n)
  BY <1>2
<1>5. /\ pc'[x] = p /\ at'[x] = at[x] + 1
      /\ \A y \in Calls : y # x => pc'[y] = pc[y] /\ at'[y] = at[y] /\ reg'[y] = reg[y]
      /\ pc' \in [Calls -> PCs] /\ at' \in [Calls -> Nat] /\ reg' = [y \in Calls |-> reg'[y]]
  <2>1. p \in PCs
    BY <1>4 DEF PCs
  <2> QED  BY <1>1, <1>3, <1>4, <2>1, GotoEffect
<1>6. CallOK(x)' /\ NewOK(x)'
  BY <1>2, <1>4, <1>5 DEF CallOK, NewOK
<1>7. \A c \in Conns : Behind(x, c)' <=> Behind(x, c) \/ Of(x, at[x]) = Key[c]
  BY <1>2, <1>5 DEF Behind
<1>8. stayed[x] \subseteq Conns
  BY <1>1, Typed
<1>9. \A c \in stayed[x] : Behind(x, c) => Got(c, x)
  BY <1>1 DEF KeysOK
<1>10. \A c \in Conns : Got(c, x) => Behind(x, c)
  BY <1>1 DEF KeysOK
<1>11. full'[x] = {}
  BY <1>1 DEF KeysOK
<1>12. \A c \in stayed[x] : Behind(x, c)' => Got(c, x)'
  BY <1>7, <1>8, <1>9
<1>13. \A c \in Conns : Got(c, x)' => Behind(x, c)'
  BY <1>7, <1>10
<1>14. p = "ok" => \A c \in stayed[x] : Got(c, x)'
  <2>1. \A c \in stayed[x] : \E i \in 1..n : Of(x, i) = Key[c]
    BY <1>2 DEF Inv, CallsInv, StayedInv, Addressed, Is, Keyed
  <2>2. p = "ok" => at[x] = n
    OBVIOUS
  <2>3. \A c \in stayed[x] : p = "ok" => Behind(x, c)'
    BY <1>5, <2>1, <2>2, <1>2 DEF Behind
  <2> QED  BY <1>12, <2>3
<1>15. KeysOK(x)'
  <2> HIDE DEF p
  <2> QED  BY <1>4, <1>5, <1>11, <1>12, <1>13, <1>14 DEF KeysOK
<1> QED  BY <1>5, <1>6, <1>15

LEMMA ChannelFacts ==
  ASSUME Types, NEW k
  PROVE  /\ Channel(k) = None => \A c \in up : Key[c] # k
         /\ Channel(k) # None => Channel(k) \in Conns /\ Key[Channel(k)] = k
  BY Typed, Constants DEF Channel

LEMMA LookInv ==
  ASSUME Inv, NEW x \in Calls, Look(x)
  PROVE  Inv'
<1> DEFINE c == Channel(Of(x, at[x]))
<1>1. Types /\ CallOK(x) /\ KeysOK(x)
  BY DEF Inv, CallsInv, CallInv, KeysInv
<1>2. /\ pc[x] = "look"
      /\ UNCHANGED <<up, room, listens, moves, made, dropped, behind, log, full, num, entered, done, walk, stayed>>
  BY DEF Look, clientVars, channelVars, routineVars
<1>3. \A y \in Calls, d \in Conns : Got(d, y)' <=> Got(d, y)
  BY <1>2, NothingOffered
<1>4. Is(x, "keys")
  BY <1>1, <1>2 DEF CallOK
<1>5. /\ CallOK(x)' /\ NewOK(x)' /\ KeysOK(x)'
      /\ \A y \in Calls : y # x => pc'[y] = pc[y] /\ at'[y] = at[y] /\ reg'[y] = reg[y]
      /\ pc' \in [Calls -> PCs] /\ at' \in [Calls -> Nat] /\ reg' = [y \in Calls |-> reg'[y]]
  <2>1. CASE c = None
    <3>1. NextKey(x)
      BY <2>1 DEF Look
    <3>2. \A d \in stayed[x] : d \in up
      BY <1>4 DEF Inv, CallsInv, StayedInv, Addressed, Is
    <3>3. \A d \in stayed[x] : Of(x, at[x]) # Key[d]
      BY <1>1, <2>1, <3>2, ChannelFacts
    <3> QED  BY <1>2, <1>3, <3>1, <3>3, NextKeyKept
  <2>2. CASE c # None
    <3>1. c \in Conns /\ Key[c] = Of(x, at[x])
      BY <1>1, <2>2, ChannelFacts
    <3>2. Goto(x, "offer", at[x], c)
      BY <2>2 DEF Look
    <3> HIDE DEF c
    <3>3. /\ pc'[x] = "offer" /\ at'[x] = at[x] /\ reg'[x] = c
          /\ \A y \in Calls : y # x => pc'[y] = pc[y] /\ at'[y] = at[y] /\ reg'[y] = reg[y]
          /\ pc' \in [Calls -> PCs] /\ at' \in [Calls -> Nat] /\ reg' = [y \in Calls |-> reg'[y]]
      <4>1. at[x] \in Nat /\ "offer" \in PCs
        BY <1>1, Typed DEF PCs
      <4> QED  BY <1>1, <3>2, <4>1, GotoEffect
    <3>4. CallOK(x)' /\ NewOK(x)'
      BY <1>1, <1>2, <3>1, <3>3 DEF CallOK, NewOK, Of
    <3>5. \A d \in Conns : Behind(x, d)' <=> Behind(x, d)
      BY <3>3 DEF Behind, Of
    <3>6. stayed[x] \subseteq Conns
      BY <1>1, Typed
    <3>7. KeysOK(x)'
      BY <1>1, <1>2, <1>3, <3>3, <3>5, <3>6 DEF KeysOK
    <3> QED  BY <3>3, <3>4, <3>7
  <2> QED  BY <2>1, <2>2
<1>6. Types'
  BY <1>1, <1>2, <1>5, Typed, CallTypes DEF clientVars
<1>7. StayedInv'
  BY <1>2, StayedKept DEF Inv, CallsInv, clientVars
<1>8. CallsInv'
  BY <1>2, <1>3, <1>5, <1>7, OthersKept
<1>9. /\ RoutinesInv'
      /\ \A d \in Conns, y \in Calls : Reached(d, y)' <=> Reached(d, y)
  <2>1. \A b \in Bs : ~Past(x, b)
    BY <1>2 DEF Past
  <2>2. ~Is(x, "all")
    BY <1>4 DEF Is
  <2> QED  BY <1>1, <1>2, <1>5, <2>1, <2>2, OneMoves DEF Inv
<1>10. LogInv'
  BY <1>1, <1>2, <1>9, Quiet, Typed DEF Inv
<1> QED  BY <1>6, <1>8, <1>9, <1>10 DEF Inv

LEMMA PushMsgInv ==
  ASSUME Inv, NEW x \in Calls, PushMsg(x)
  PROVE  Inv'
<1>1. Types /\ CallOK(x) /\ KeysOK(x)
  BY DEF Inv, CallsInv, CallInv, KeysInv
<1>2. /\ pc[x] = "offer" /\ UNCHANGED <<up, room, listens, moves, made, dropped, num, entered, done, walk, stayed>>
  BY DEF PushMsg, clientVars, routineVars
<1>3. PICK c \in Conns : c = reg[x] /\ Is(x, "keys") /\ Key[c] = Of(x, at[x]) /\ full[x] = {}
  BY <1>1, <1>2 DEF CallOK, KeysOK
<1>4. \A d \in Conns : Of(x, at[x]) = Key[d] => d = c
  BY <1>3, Constants
<1>5. stayed[x] \subseteq Conns /\ full \in [Calls -> SUBSET Conns]
  BY <1>1, Typed
<1>6. CASE listens[c]
  <2>1. Offer(c, x) /\ IF full'[x] = full[x] THEN NextKey(x) ELSE Refuse(x)
    BY <1>2, <1>3, <1>6 DEF PushMsg
  <2>2. /\ \A d \in Conns, y \in Calls : Got(d, y) => Got(d, y)'
        /\ \A d \in Conns, y \in Calls : Got(d, y)' => Got(d, y) \/ (d = c /\ y = x)
        /\ \A y \in Calls : y # x => full'[y] = full[y]
        /\ full'[x] = full[x] \/ full'[x] = full[x] \cup {c}
        /\ Got(c, x)' \/ c \in full'[x]
        /\ full' # full => full'[x] = full[x] \cup {c} /\ \A y \in Calls : Got(c, y)' => Got(c, y)
    BY <1>1, <1>3, <2>1, OfferGot
  <2>3. /\ CallOK(x)' /\ NewOK(x)' /\ KeysOK(x)'
        /\ \A y \in Calls : y # x => pc'[y] = pc[y] /\ at'[y] = at[y] /\ reg'[y] = reg[y]
        /\ pc' \in [Calls -> PCs] /\ at' \in [Calls -> Nat] /\ reg' = [y \in Calls |-> reg'[y]]
    <3>1. CASE full'[x] = full[x]
      <4>1. Got(c, x)' /\ NextKey(x)
        BY <1>3, <2>1, <2>2, <3>1
      <4> QED  BY <1>2, <1>3, <1>4, <1>5, <2>2, <3>1, <4>1, NextKeyKept
    <3>2. CASE full'[x] # full[x]
      <4>1. Goto(x, "full", at[x], c)
        BY <1>3, <2>1, <3>2 DEF Refuse
      <4>2. /\ pc'[x] = "full" /\ at'[x] = at[x] /\ reg'[x] = c
            /\ \A y \in Calls : y # x => pc'[y] = pc[y] /\ at'[y] = at[y] /\ reg'[y] = reg[y]
            /\ pc' \in [Calls -> PCs] /\ at' \in [Calls -> Nat] /\ reg' = [y \in Calls |-> reg'[y]]
        <5>1. at[x] \in Nat /\ "full" \in PCs
          BY <1>1, Typed DEF PCs
        <5> QED  BY <1>1, <4>1, <5>1, GotoEffect
      <4>3. full'[x] = {c}
        BY <1>3, <2>2, <3>2
      <4>4. \A d \in Conns : Got(d, x)' <=> Got(d, x)
        BY <2>2, <3>2
      <4>5. CallOK(x)' /\ NewOK(x)'
        BY <1>1, <1>2, <1>3, <4>2 DEF CallOK, NewOK, Of
      <4>6. \A d \in Conns : Behind(x, d)' <=> Behind(x, d)
        BY <4>2 DEF Behind, Of
      <4>7. KeysOK(x)'
        BY <1>1, <1>2, <1>5, <4>2, <4>3, <4>4, <4>6 DEF KeysOK
      <4> QED  BY <4>2, <4>5, <4>7
    <3> QED  BY <3>1, <3>2
  <2>4. Types'
    <3>1. /\ log' \in [Conns -> Seq(Calls)] /\ full' \in [Calls -> SUBSET Conns]
          /\ behind' \in [Conns -> 0..SvrProto]
      BY <1>1, <1>3, <2>1, OfferEffect
    <3> QED  BY <1>1, <1>2, <2>3, <3>1, Typed, CallTypes DEF clientVars
  <2>5. StayedInv'
    BY <1>2, StayedKept DEF Inv, CallsInv, clientVars
  <2>6. \A y \in Calls, d \in Conns : y # x => (Got(d, y)' <=> Got(d, y))
    BY <2>2
  <2>7. CallsInv'
    BY <1>2, <2>2, <2>3, <2>5, <2>6, OthersKept
  <2>8. /\ RoutinesInv'
        /\ \A d \in Conns, y \in Calls : Reached(d, y)' <=> Reached(d, y)
    <3>1. \A b \in Bs : ~Past(x, b)
      BY <1>2 DEF Past
    <3>2. ~Is(x, "all")
      BY <1>3 DEF Is
    <3> QED  BY <1>1, <1>2, <2>3, <3>1, <3>2, OneMoves DEF Inv
  <2>9. LogInv'
    <3>1. \A i \in Rs, y \in Calls : ~Before(entered[BucketOf(c)][i], x, y)
      BY <1>1, <1>3, Entered DEF Inv, Is
    <3> QED  BY <1>1, <1>2, <1>3, <2>1, <2>8, <3>1, Offering DEF Inv
  <2> QED  BY <2>4, <2>7, <2>8, <2>9 DEF Inv
<1>7. CASE ~listens[c]
  <2>1. NextKey(x) /\ UNCHANGED <<behind, log, full>>
    BY <1>2, <1>3, <1>7 DEF PushMsg, channelVars
  <2>2. \A y \in Calls, d \in Conns : Got(d, y)' <=> Got(d, y)
    BY <2>1, NothingOffered
  <2>3. c \notin stayed[x]
    BY <1>3, <1>7 DEF Inv, CallsInv, StayedInv, Addressed, Is
  <2>4. /\ CallOK(x)' /\ NewOK(x)' /\ KeysOK(x)'
        /\ \A y \in Calls : y # x => pc'[y] = pc[y] /\ at'[y] = at[y] /\ reg'[y] = reg[y]
        /\ pc' \in [Calls -> PCs] /\ at' \in [Calls -> Nat] /\ reg' = [y \in Calls |-> reg'[y]]
    <3>1. \A d \in stayed[x] : Of(x, at[x]) # Key[d]
      BY <1>4, <1>5, <2>3
    <3> QED  BY <1>2, <2>1, <2>2, <3>1, NextKeyKept
  <2>5. Types'
    BY <1>1, <1>2, <2>1, <2>4, Typed, CallTypes DEF clientVars
  <2>6. StayedInv'
    BY <1>2, StayedKept DEF Inv, CallsInv, clientVars
  <2>7. CallsInv'
    BY <1>2, <2>1, <2>2, <2>4, <2>6, OthersKept
  <2>8. /\ RoutinesInv'
        /\ \A d \in Conns, y \in Calls : Reached(d, y)' <=> Reached(d, y)
    <3>1. \A b \in Bs : ~Past(x, b)
      BY <1>2 DEF Past
    <3>2. ~Is(x, "all")
      BY <1>3 DEF Is
    <3> QED  BY <1>1, <1>2, <2>4, <3>1, <3>2, OneMoves DEF Inv
  <2>9. LogInv'
    BY <1>1, <1>2, <2>1, <2>8, Quiet, Typed DEF Inv
  <2> QED  BY <2>5, <2>7, <2>8, <2>9 DEF Inv
<1> QED  BY <1>6, <1>7

-----------------------------------------------------------------------------
(* BroadcastRoom *)

LEMMA NumberInv ==
  ASSUME Inv, NEW x \in Calls, Number(x)
  PROVE  Inv'
<1>1. Types /\ CallOK(x)
  BY DEF Inv, CallsInv, CallInv
<1>2. /\ pc[x] = "number" /\ num' = [num EXCEPT ![at[x]] = (@ + 1) % Routines]
      /\ Goto(x, "enqueue", at[x], num'[at[x]])
      /\ UNCHANGED <<up, room, listens, moves, made, dropped, behind, log, full, entered, done, walk, stayed>>
  BY DEF Number, clientVars, channelVars
<1>3. Is(x, "room") /\ at[x] \in Bs /\ at[x] \in Nat /\ "enqueue" \in PCs
  BY <1>1, <1>2, Constants DEF CallOK, PCs
<1>4. num' \in [Bs -> Rs] /\ num'[at[x]] \in Rs
  <2>1. num \in [Bs -> Rs] /\ Routines \in Nat \ {0}
    BY <1>1, Typed, Constants
  <2>2. num[at[x]] \in Nat
    BY <1>3, <2>1, Constants
  <2>3. (num[at[x]] + 1) % Routines \in Rs
    BY <2>1, <2>2 DEF Rs
  <2> QED  BY <1>2, <1>3, <2>1, <2>3
<1>5. /\ pc'[x] = "enqueue" /\ at'[x] = at[x] /\ reg'[x] \in Rs
      /\ \A y \in Calls : y # x => pc'[y] = pc[y] /\ at'[y] = at[y] /\ reg'[y] = reg[y]
      /\ pc' \in [Calls -> PCs] /\ at' \in [Calls -> Nat] /\ reg' = [y \in Calls |-> reg'[y]]
  BY <1>1, <1>2, <1>3, <1>4, GotoEffect
<1>6. \A y \in Calls, c \in Conns : Got(c, y)' <=> Got(c, y)
  BY <1>2, NothingOffered
<1>7. Types'
  BY <1>1, <1>2, <1>4, <1>5, Typed, CallTypes DEF clientVars
<1>8. StayedInv'
  BY <1>2, StayedKept DEF Inv, CallsInv, clientVars
<1>9. CallOK(x)' /\ NewOK(x)' /\ KeysOK(x)'
  BY <1>3, <1>5 DEF CallOK, NewOK, KeysOK
<1>10. CallsInv'
  BY <1>2, <1>5, <1>6, <1>8, <1>9, OthersKept
<1>11. /\ RoutinesInv'
       /\ \A c \in Conns, y \in Calls : Reached(c, y)' <=> Reached(c, y)
  <2>1. \A b \in Bs : Past(x, b) => Past(x, b)'
    BY <1>2, <1>5 DEF Past
  <2>2. ~Is(x, "all")
    BY <1>3 DEF Is
  <2> QED  BY <1>1, <1>2, <1>5, <2>1, <2>2, OneMoves DEF Inv
<1>12. LogInv'
  BY <1>1, <1>2, <1>11, Quiet, Typed DEF Inv
<1> QED  BY <1>7, <1>10, <1>11, <1>12 DEF Inv

LEMMA EnqueueInv ==
  ASSUME Inv, NEW x \in Calls, Enqueue(x)
  PROVE  Inv'
<1>1. Types /\ CallOK(x) /\ RoutinesInv /\ LogInv
  BY DEF Inv, CallsInv, CallInv
<1>2. PICK b \in Bs, i \in Rs : b = at[x] /\ i = reg[x]
  BY <1>1 DEF Enqueue, CallOK
<1>3. /\ pc[x] = "enqueue" /\ Queued(b, i) < RoutineSize
      /\ entered' = [entered EXCEPT ![b][i] = Append(@, x)]
      /\ Proceed(x, "number", Buckets)
      /\ UNCHANGED <<up, room, listens, moves, made, dropped, behind, log, full, num, done, walk, stayed>>
  BY <1>2 DEF Enqueue, HasRoom, clientVars, channelVars
<1>4. Is(x, "room") /\ b \in Nat /\ Buckets \in Nat
  BY <1>1, <1>3, Constants DEF CallOK
<1>5. /\ pc'[x] = (IF b = Buckets THEN "ok" ELSE "number") /\ at'[x] = b + 1
      /\ \A y \in Calls : y # x => pc'[y] = pc[y] /\ at'[y] = at[y] /\ reg'[y] = reg[y]
      /\ pc' \in [Calls -> PCs] /\ at' \in [Calls -> Nat] /\ reg' = [y \in Calls |-> reg'[y]]
  <2> DEFINE p == IF b = Buckets THEN "ok" ELSE "number"
  <2>1. p \in PCs /\ b + 1 \in Nat
    BY <1>4 DEF PCs
  <2>2. Goto(x, p, b + 1, None)
    BY <1>2, <1>3 DEF Proceed
  <2> HIDE DEF p
  <2>3. /\ pc'[x] = p /\ at'[x] = b + 1
        /\ \A y \in Calls : y # x => pc'[y] = pc[y] /\ at'[y] = at[y] /\ reg'[y] = reg[y]
        /\ pc' \in [Calls -> PCs] /\ at' \in [Calls -> Nat] /\ reg' = [y \in Calls |-> reg'[y]]
    BY <1>1, <2>1, <2>2, GotoEffect
  <2> QED  BY <2>3 DEF p
\* It has not entered a routine of this bucket yet.
<1>6. \A j \in Rs : \A m \in 1..Len(entered[b][j]) : entered[b][j][m] # x
  <2>1. ~Past(x, b)
    BY <1>2, <1>3, <1>4 DEF Past
  <2> QED  BY <1>1, <2>1, RoutineFacts
<1>7. /\ entered' \in [Bs -> [Rs -> Seq(Calls)]]
      /\ \A c \in Bs, j \in Rs : c # b \/ j # i => entered'[c][j] = entered[c][j]
      /\ Len(entered'[b][i]) = Len(entered[b][i]) + 1
      /\ entered'[b][i][Len(entered[b][i]) + 1] = x
      /\ \A n \in 1..Len(entered[b][i]) : entered'[b][i][n] = entered[b][i][n]
  <2>1. entered \in [Bs -> [Rs -> Seq(Calls)]] /\ entered[b][i] \in Seq(Calls)
    BY <1>1 DEF Types
  <2>2. Append(entered[b][i], x) \in Seq(Calls)
    BY <2>1
  <2>3. entered'[b][i] = Append(entered[b][i], x)
    BY <1>3, <2>1
  <2>4. \A c \in Bs, j \in Rs : c # b \/ j # i => entered'[c][j] = entered[c][j]
    BY <1>3, <2>1
  <2>5. entered' \in [Bs -> [Rs -> Seq(Calls)]]
    BY <1>3, <2>1, <2>2
  <2> QED  BY <2>1, <2>3, <2>4, <2>5
<1>8. /\ Len(entered[b][i]) \in Nat /\ done[b][i] \in 0..Len(entered[b][i])
      /\ RoutineSize \in Nat
  BY <1>1, RoutineFacts, Constants
\* What the routines had before they still have.
<1>9. \A c \in Bs, j \in Rs :
        /\ Len(entered[c][j]) \in Nat /\ done[c][j] \in 0..Len(entered[c][j])
        /\ Len(entered'[c][j]) >= Len(entered[c][j]) /\ Len(entered'[c][j]) \in Nat
        /\ \A n \in 1..Len(entered[c][j]) : entered'[c][j][n] = entered[c][j][n]
  <2>1. \A c \in Bs, j \in Rs : Len(entered[c][j]) \in Nat /\ done[c][j] \in 0..Len(entered[c][j])
    BY <1>1, RoutineFacts
  <2> SUFFICES ASSUME NEW c \in Bs, NEW j \in Rs
               PROVE  /\ Len(entered'[c][j]) >= Len(entered[c][j]) /\ Len(entered'[c][j]) \in Nat
                      /\ \A n \in 1..Len(entered[c][j]) : entered'[c][j][n] = entered[c][j][n]
    BY <2>1
  <2>2. CASE c = b /\ j = i
    BY <1>7, <1>8, <2>2
  <2>3. CASE c # b \/ j # i
    <3>1. entered'[c][j] = entered[c][j]
      BY <1>7, <2>3
    <3> QED  BY <2>1, <3>1
  <2> QED  BY <2>2, <2>3
<1>10. Types'
  <2>1. \A c \in Bs, j \in Rs : Queued(c, j) \in 0..RoutineSize
    BY <1>1 DEF Types, TypeOK, Bs, Rs
  <2>2. \A c \in Bs, j \in Rs : Queued(c, j)' \in 0..RoutineSize
    <3>1. \A c \in Bs, j \in Rs : c # b \/ j # i => Queued(c, j)' = Queued(c, j)
      BY <1>3, <1>7 DEF Queued
    <3>2. Queued(b, i)' = Queued(b, i) + 1 /\ Queued(b, i) \in Nat
      BY <1>3, <1>7, <1>8 DEF Queued
    <3> QED  BY <1>3, <1>8, <2>1, <3>1, <3>2
  <2>3. TypeOK'
    BY <1>1, <1>3, <1>5, <2>2 DEF Types, TypeOK, PCs, Bs, Rs
  <2> QED  BY <1>1, <1>3, <1>5, <1>7, <2>3 DEF Types
<1>11. \A y \in Calls, c \in Conns : Got(c, y)' <=> Got(c, y)
  BY <1>3, NothingOffered
<1>12. StayedInv'
  BY <1>3, StayedKept DEF Inv, CallsInv, clientVars
<1>13. CallOK(x)' /\ NewOK(x)' /\ KeysOK(x)'
  <2>1. b # Buckets => b + 1 \in Bs
    BY <1>4 DEF Bs
  <2>2. pc'[x] \in {"ok", "number"} /\ (pc'[x] = "number" => at'[x] \in Bs)
    BY <1>5, <2>1
  <2> QED  BY <1>4, <2>2 DEF CallOK, NewOK, KeysOK, Is
<1>14. CallsInv'
  BY <1>3, <1>5, <1>11, <1>12, <1>13, OthersKept
<1>15. \A y \in Calls, c \in Bs : Past(y, c) => Past(y, c)'
  <2>1. \A c \in Bs : c \in Nat
    BY Constants
  <2> QED  BY <1>2, <1>3, <1>4, <1>5, <2>1 DEF Past
<1>16. EnteredInv'
  <2> SUFFICES ASSUME NEW c \in Bs, NEW j \in Rs PROVE EnteredOK(c, j)'
    BY DEF EnteredInv
  <2> SUFFICES ASSUME NEW n \in 1..Len(entered'[c][j])
               PROVE  /\ Is(entered'[c][j][n], "room") /\ Past(entered[c][j][n], c)'
                      /\ \A k \in Rs : \A m \in 1..Len(entered'[c][k]) :
                            entered'[c][k][m] = entered'[c][j][n] => k = j /\ m = n
    BY DEF EnteredOK, Is
  <2>1. Past(x, b)'
    BY <1>4, <1>5 DEF Past, Bs
  <2>2. CASE n \in 1..Len(entered[c][j])
    <3>1. entered'[c][j][n] = entered[c][j][n]
      BY <1>9, <2>2
    <3>2. EnteredOK(c, j)
      BY <1>1 DEF RoutinesInv, EnteredInv
    <3>3. /\ Is(entered[c][j][n], "room") /\ Past(entered[c][j][n], c)
          /\ \A k \in Rs : \A m \in 1..Len(entered[c][k]) :
                entered[c][k][m] = entered[c][j][n] => k = j /\ m = n
      BY <2>2, <3>2 DEF EnteredOK
    <3>4. entered[c][j] \in Seq(Calls)
      BY <1>1, RoutineFacts
    <3>5. entered[c][j][n] \in Calls
      BY <2>2, <3>4
    <3>6. ASSUME NEW k \in Rs, NEW m \in 1..Len(entered'[c][k]), entered'[c][k][m] = entered[c][j][n]
          PROVE  k = j /\ m = n
      <4>1. CASE m \in 1..Len(entered[c][k])
        BY <1>9, <3>3, <3>6, <4>1
      <4>2. CASE m \notin 1..Len(entered[c][k])
        <5>1. c = b /\ entered'[c][k][m] = x
          <6>1. c = b /\ k = i
            BY <1>7, <4>2
          <6> QED  BY <1>7, <1>8, <4>2, <6>1
        <5> QED  BY <1>6, <2>2, <3>6, <5>1
      <4> QED  BY <4>1, <4>2
    <3>7. Past(entered[c][j][n], c)'
      BY <1>15, <3>1, <3>3, <3>5 DEF Past
    <3> QED  BY <3>1, <3>3, <3>6, <3>7
  <2>3. CASE n \notin 1..Len(entered[c][j])
    <3>0. c = b /\ j = i
      BY <1>7, <2>3
    <3>1. n = Len(entered[b][i]) + 1 /\ entered'[c][j][n] = x
      BY <1>7, <1>8, <2>3, <3>0
    <3>2. ASSUME NEW k \in Rs, NEW m \in 1..Len(entered'[c][k]), entered'[c][k][m] = x
          PROVE  k = j /\ m = n
      <4>1. m \notin 1..Len(entered[c][k])
        BY <1>6, <1>9, <3>0, <3>2
      <4>2. k = i
        BY <1>7, <4>1, <3>0
      <4> QED  BY <1>7, <1>8, <3>0, <3>1, <4>1, <4>2
    <3>3. Past(entered[c][j][n], c)'
      BY <2>1, <3>0, <3>1 DEF Past
    <3>4. Is(entered'[c][j][n], "room")
      BY <1>4, <3>1
    <3> QED  BY <3>1, <3>2, <3>3, <3>4
  <2> QED  BY <2>2, <2>3
<1>17. WalkInv'
  <2> SUFFICES ASSUME NEW c \in Bs, NEW j \in Rs PROVE WalkOK(c, j)'
    BY DEF WalkInv
  <2>1. WalkOK(c, j)
    BY <1>1 DEF RoutinesInv, WalkInv
  <2>2. walk'[c][j] = walk[c][j] /\ done'[c][j] = done[c][j]
    BY <1>3
  <2>3. done[c][j] # 0 => entered'[c][j][done[c][j]] = entered[c][j][done[c][j]]
    BY <1>9
  <2>4. done'[c][j] \in 0..Len(entered'[c][j])
    BY <1>9, <2>2
  <2> QED  BY <2>1, <2>2, <2>3, <2>4 DEF WalkOK
<1>18. \A c \in Conns, y \in Calls : Reached(c, y)' <=> Reached(c, y)
  <2>1. ASSUME NEW c \in Conns, NEW y \in Calls PROVE Visited(c, y)' <=> Visited(c, y)
    <3>1. BucketOf(c) \in Bs
      BY Constants
    <3>2. \A j \in Rs : \A n \in 1..done[BucketOf(c)][j] :
            entered'[BucketOf(c)][j][n] = entered[BucketOf(c)][j][n]
      BY <1>9, <3>1
    <3>3. walk' = walk /\ done' = done /\ BucketOf(c)' = BucketOf(c)
      BY <1>3 DEF BucketOf
    <3>4. \A j \in Rs : VisitedBy(BucketOf(c), j, c, y)' <=> VisitedBy(BucketOf(c), j, c, y)
      BY <3>2, <3>3 DEF VisitedBy, BucketOf
    <3> QED  BY <3>3, <3>4 DEF Visited, VisitedBy
  <2>2. \A c \in Conns, y \in Calls : y # x => (Through(c, y)' <=> Through(c, y))
    BY <1>5 DEF Through
  <2> QED  BY <1>4, <2>1, <2>2 DEF Reached, Is
<1>19. LogInv'
  <2>1. \A c \in Conns : BucketOf(c) = b => ~Got(c, x)
    <3>1. \A c \in Conns : Got(c, x) => Visited(c, x)
      BY <1>1, <1>4 DEF LogInv, GotInv, Reached, Is
    <3>2. \A c \in Conns : Visited(c, x) => Past(x, BucketOf(c))
      BY <1>1, Entered
    <3>3. ~Past(x, b)
      BY <1>2, <1>3, <1>4 DEF Past
    <3> QED  BY <3>1, <3>2, <3>3
  <2>2. ASSUME NEW c \in Conns, NEW j \in Rs, NEW y \in Calls, NEW z \in Calls,
               Got(c, y), Got(c, z), Before(entered[BucketOf(c)][j], y, z)'
        PROVE  Before(entered[BucketOf(c)][j], y, z)
    <3>1. BucketOf(c) \in Bs
      BY Constants
    <3>2. PICK n, m \in 1..Len(entered'[BucketOf(c)][j]) :
            n < m /\ entered'[BucketOf(c)][j][n] = y /\ entered'[BucketOf(c)][j][m] = z
      BY <2>2 DEF Before
    <3>3. CASE m \in 1..Len(entered[BucketOf(c)][j])
      <4>1. n \in 1..Len(entered[BucketOf(c)][j])
        BY <1>9, <3>1, <3>2, <3>3
      <4> QED  BY <1>9, <3>1, <3>2, <3>3, <4>1 DEF Before
    <3>4. CASE m \notin 1..Len(entered[BucketOf(c)][j])
      <4>1. BucketOf(c) = b /\ z = x
        BY <1>7, <1>8, <3>1, <3>2, <3>4
      <4> QED  BY <2>1, <2>2, <4>1
    <3> QED  BY <3>3, <3>4
  <2>3. stayed \in [Calls -> SUBSET Conns]
    BY <1>1, Typed
  <2>4. \A y \in Calls : \A c \in stayed'[y] :
            Reached(c, y)' => Reached(c, y) /\ c \in stayed[y]
    BY <1>3, <1>18, <2>3
  <2> QED  BY <1>1, <1>3, <1>18, <2>2, <2>4, Quiet
<1> QED  BY <1>10, <1>14, <1>16, <1>17, <1>19 DEF Inv, RoutinesInv

-----------------------------------------------------------------------------
(* Broadcast *)

\* A broadcast has done with a bucket.
LEMMA NextBucket ==
  ASSUME Inv, NEW x \in Calls, pc[x] \in {"lock", "cast"}, Proceed(x, "lock", Buckets)
  PROVE  /\ CallOK(x)' /\ NewOK(x)' /\ KeysOK(x)'
         /\ \A y \in Calls : y # x => pc'[y] = pc[y] /\ at'[y] = at[y] /\ reg'[y] = reg[y]
         /\ pc' \in [Calls -> PCs] /\ at' \in [Calls -> Nat] /\ reg' = [y \in Calls |-> reg'[y]]
         /\ \A c \in Conns : Through(c, x) => Through(c, x)'
         /\ \A c \in Conns : Through(c, x)' => Through(c, x) \/
                (BucketOf(c) = at[x] /\ (pc[x] = "cast" => c \in reg[x]))
         /\ \A c \in Conns : BucketOf(c) = at[x] => Through(c, x)'
<1> DEFINE p == IF at[x] = Buckets THEN "ok" ELSE "lock"
<1>1. Types /\ CallOK(x)
  BY DEF Inv, CallsInv, CallInv
<1>2. Is(x, "all") /\ at[x] \in Bs /\ at[x] \in Nat /\ Buckets \in Nat
  BY <1>1, Constants DEF CallOK
<1>3. /\ Goto(x, p, at[x] + 1, None) /\ at[x] + 1 \in Nat /\ p \in PCs
      /\ p \in {"ok", "lock"} /\ (p = "lock" => at[x] + 1 \in Bs) /\ (p = "ok" => at[x] = Buckets)
  BY <1>2 DEF Proceed, PCs, Bs
<1> HIDE DEF p
<1>4. /\ pc'[x] = p /\ at'[x] = at[x] + 1
      /\ \A y \in Calls : y # x => pc'[y] = pc[y] /\ at'[y] = at[y] /\ reg'[y] = reg[y]
      /\ pc' \in [Calls -> PCs] /\ at' \in [Calls -> Nat] /\ reg' = [y \in Calls |-> reg'[y]]
  BY <1>1, <1>3, GotoEffect
<1>5. CallOK(x)' /\ NewOK(x)' /\ KeysOK(x)'
  BY <1>2, <1>3, <1>4 DEF CallOK, NewOK, KeysOK, Is
<1>6. ASSUME NEW c \in Conns
      PROVE  /\ Through(c, x) => Through(c, x)'
             /\ Through(c, x)' => Through(c, x) \/
                    (BucketOf(c) = at[x] /\ (pc[x] = "cast" => c \in reg[x]))
             /\ BucketOf(c) = at[x] => Through(c, x)'
  <2>1. BucketOf(c) \in Bs /\ BucketOf(c) \in Nat /\ BucketOf(c) =< Buckets
    BY Constants DEF Bs
  <2>2. BucketOf(c) = BucketOf(c)'
    BY DEF BucketOf
  <2>3. Through(c, x) => BucketOf(c) < at[x] \/ BucketOf(c) = at[x]
    BY DEF Through
  <2>4. Through(c, x)' <=> p = "ok" \/ BucketOf(c) < at[x] + 1
    BY <1>2, <1>3, <1>4 DEF Through
  <2>5. Through(c, x)' <=> BucketOf(c) < at[x] \/ BucketOf(c) = at[x]
    BY <1>2, <1>3, <2>1, <2>4
  <2>6. BucketOf(c) < at[x] => Through(c, x)
    BY DEF Through
  <2>7. BucketOf(c) = at[x] /\ pc[x] = "cast" /\ c \notin reg[x] => Through(c, x)
    BY DEF Through
  <2> QED  BY <2>3, <2>5, <2>6, <2>7
<1> QED  BY <1>4, <1>5, <1>6

LEMMA LockInv ==
  ASSUME Inv, NEW x \in Calls, Lock(x)
  PROVE  Inv'
<1> DEFINE there == {c \in up : BucketOf(c) = at[x]}
<1>1. Types /\ CallOK(x)
  BY DEF Inv, CallsInv, CallInv
<1>2. /\ pc[x] = "lock"
      /\ UNCHANGED <<up, room, listens, moves, made, dropped, behind, log, full, num, entered, done, walk, stayed>>
  BY DEF Lock, clientVars, channelVars, routineVars
<1>3. Is(x, "all") /\ at[x] \in Bs /\ at[x] \in Nat
  BY <1>1, <1>2, Constants DEF CallOK
<1>4. \A c \in stayed[x] : c \in up
  BY <1>3 DEF Inv, CallsInv, StayedInv, Addressed, Is
<1>5. /\ CallOK(x)' /\ NewOK(x)' /\ KeysOK(x)'
      /\ \A y \in Calls : y # x => pc'[y] = pc[y] /\ at'[y] = at[y] /\ reg'[y] = reg[y]
      /\ pc' \in [Calls -> PCs] /\ at' \in [Calls -> Nat] /\ reg' = [y \in Calls |-> reg'[y]]
      /\ \A c \in Conns : Through(c, x) => Through(c, x)'
      /\ \A c \in Conns : Through(c, x)' => Through(c, x) \/ (BucketOf(c) = at[x] /\ c \notin there)
  <2>1. CASE there = {}
    <3>1. Proceed(x, "lock", Buckets)
      BY <2>1 DEF Lock
    <3> QED  BY <1>2, <2>1, <3>1, NextBucket
  <2>2. CASE there # {}
    <3>1. Goto(x, "cast", at[x], there) /\ "cast" \in PCs
      BY <2>2 DEF Lock, PCs
    <3>2. /\ pc'[x] = "cast" /\ at'[x] = at[x] /\ reg'[x] = there
          /\ \A y \in Calls : y # x => pc'[y] = pc[y] /\ at'[y] = at[y] /\ reg'[y] = reg[y]
          /\ pc' \in [Calls -> PCs] /\ at' \in [Calls -> Nat] /\ reg' = [y \in Calls |-> reg'[y]]
      <4> HIDE DEF there
      <4> QED  BY <1>1, <1>3, <3>1, GotoEffect
    <3>3. \A c \in there : c \in Conns /\ BucketOf(c) = at[x]
      BY <1>1, Typed
    <3>4. CallOK(x)' /\ NewOK(x)' /\ KeysOK(x)'
      <4> HIDE DEF there
      <4> QED  BY <1>3, <3>2, <3>3 DEF CallOK, NewOK, KeysOK, BucketOf, Is
    <3>5. \A c \in Conns : BucketOf(c)' = BucketOf(c)
      BY DEF BucketOf
    <3>6. \A c \in Conns : /\ Through(c, x) <=> BucketOf(c) < at[x]
                           /\ Through(c, x)' <=> BucketOf(c) < at[x] \/ (BucketOf(c) = at[x] /\ c \notin there)
      <4> HIDE DEF there
      <4> QED  BY <1>2, <3>2, <3>5 DEF Through
    <3> QED  BY <3>2, <3>4, <3>6
  <2> QED  BY <2>1, <2>2
<1>6. \A y \in Calls, c \in Conns : Got(c, y)' <=> Got(c, y)
  BY <1>2, NothingOffered
<1>7. Types'
  BY <1>1, <1>2, <1>5, Typed, CallTypes DEF clientVars
<1>8. StayedInv'
  BY <1>2, StayedKept DEF Inv, CallsInv, clientVars
<1>9. CallsInv'
  BY <1>2, <1>5, <1>6, <1>8, OthersKept
<1>10. /\ RoutinesInv'
       /\ \A c \in Conns, y \in Calls : y # x => (Reached(c, y)' <=> Reached(c, y))
  <2>1. \A b \in Bs : ~Past(x, b)
    BY <1>2 DEF Past
  <2> QED  BY <1>1, <1>2, <1>5, <2>1, OneMoves DEF Inv
<1>11. LogInv'
  <2>1. \A c \in Conns : (Reached(c, x) <=> Through(c, x)) /\ (Reached(c, x)' <=> Through(c, x)')
    BY <1>3 DEF Reached, Is
  <2>2. \A c \in stayed[x] : BucketOf(c) = at[x] => c \in there
    BY <1>4
  <2>3. \A c \in stayed[x] : Reached(c, x)' => Reached(c, x)
    BY <1>1, <1>5, <2>1, <2>2, Typed
  <2>4. \A y \in Calls : \A c \in stayed'[y] :
            Reached(c, y)' => Reached(c, y) /\ c \in stayed[y]
    BY <1>1, <1>2, <1>10, <2>3, Typed
  <2>5. \A y \in Calls, c \in Conns : Reached(c, y) => Reached(c, y)'
    BY <1>5, <1>10, <2>1
  <2> QED  BY <1>2, <2>4, <2>5, Quiet DEF Inv
<1> QED  BY <1>7, <1>9, <1>10, <1>11 DEF Inv

LEMMA CastInv ==
  ASSUME Inv, NEW x \in Calls, Cast(x)
  PROVE  Inv'
<1>1. Types /\ CallOK(x) /\ RoutinesInv /\ LogInv
  BY DEF Inv, CallsInv, CallInv
<1>2. /\ pc[x] = "cast"
      /\ UNCHANGED <<up, room, listens, moves, made, dropped, num, entered, done, walk, stayed>>
  BY DEF Cast, clientVars, routineVars
<1>3. Is(x, "all") /\ at[x] \in Bs /\ at[x] \in Nat /\ \A c \in reg[x] : c \in Conns /\ BucketOf(c) = at[x]
  BY <1>1, <1>2, Constants DEF CallOK
<1>4. PICK c \in reg[x] :
        /\ IF listens[c] THEN Offer(c, x) ELSE UNCHANGED channelVars
        /\ IF reg[x] = {c} THEN Proceed(x, "lock", Buckets)
           ELSE Goto(x, "cast", at[x], reg[x] \ {c})
  BY DEF Cast
<1>5. c \in Conns /\ BucketOf(c) = at[x]
  BY <1>3
<1>6. /\ CallOK(x)' /\ NewOK(x)' /\ KeysOK(x)'
      /\ \A y \in Calls : y # x => pc'[y] = pc[y] /\ at'[y] = at[y] /\ reg'[y] = reg[y]
      /\ pc' \in [Calls -> PCs] /\ at' \in [Calls -> Nat] /\ reg' = [y \in Calls |-> reg'[y]]
      /\ \A d \in Conns : Through(d, x) => Through(d, x)'
      /\ \A d \in Conns : Through(d, x)' => Through(d, x) \/ d = c
      /\ Through(c, x)'
  <2>1. CASE reg[x] = {c}
    <3>1. Proceed(x, "lock", Buckets)
      BY <1>4, <2>1
    <3> QED  BY <1>2, <1>5, <2>1, <3>1, NextBucket
  <2>2. CASE reg[x] # {c}
    <3> DEFINE rest == reg[x] \ {c}
    <3>1. Goto(x, "cast", at[x], rest) /\ "cast" \in PCs
      BY <1>4, <2>2 DEF PCs
    <3>2. /\ pc'[x] = "cast" /\ at'[x] = at[x] /\ reg'[x] = rest
          /\ \A y \in Calls : y # x => pc'[y] = pc[y] /\ at'[y] = at[y] /\ reg'[y] = reg[y]
          /\ pc' \in [Calls -> PCs] /\ at' \in [Calls -> Nat] /\ reg' = [y \in Calls |-> reg'[y]]
      <4> HIDE DEF rest
      <4> QED  BY <1>1, <1>3, <3>1, GotoEffect
    <3>3. CallOK(x)' /\ NewOK(x)' /\ KeysOK(x)'
      BY <1>3, <3>2 DEF CallOK, NewOK, KeysOK, BucketOf, Is
    <3>4. \A d \in Conns : BucketOf(d)' = BucketOf(d)
      BY DEF BucketOf
    <3>5. \A d \in Conns :
            /\ Through(d, x) <=> BucketOf(d) < at[x] \/ (BucketOf(d) = at[x] /\ d \notin reg[x])
            /\ Through(d, x)' <=> BucketOf(d) < at[x] \/ (BucketOf(d) = at[x] /\ d \notin reg'[x])
      BY <1>2, <3>2, <3>4 DEF Through
    <3> QED  BY <1>5, <3>2, <3>3, <3>5
  <2> QED  BY <2>1, <2>2
<1>7. StayedInv'
  BY <1>2, StayedKept DEF Inv, CallsInv, clientVars
<1>8. /\ RoutinesInv'
      /\ \A d \in Conns, y \in Calls : y # x => (Reached(d, y)' <=> Reached(d, y))
  <2>1. \A b \in Bs : ~Past(x, b)
    BY <1>2 DEF Past
  <2> QED  BY <1>1, <1>2, <1>6, <2>1, OneMoves
<1>9. \A d \in Conns : (Reached(d, x) <=> Through(d, x)) /\ (Reached(d, x)' <=> Through(d, x)')
  BY <1>3 DEF Reached, Is
<1>10. \A y \in Calls, d \in Conns : Reached(d, y) => Reached(d, y)'
  BY <1>6, <1>8, <1>9
<1>11. \A y \in Calls, d \in Conns : Reached(d, y)' => Reached(d, y) \/ (d = c /\ y = x)
  BY <1>6, <1>8, <1>9
<1>12. ~Reached(c, x)
  <2>1. ~Through(c, x)
    BY <1>2, <1>3, <1>5 DEF Through
  <2> QED  BY <1>5, <1>9, <2>1
<1>13. CASE listens[c]
  <2>1. Offer(c, x)
    BY <1>4, <1>13
  <2>2. /\ log' \in [Conns -> Seq(Calls)] /\ full' \in [Calls -> SUBSET Conns]
        /\ behind' \in [Conns -> 0..SvrProto]
    BY <1>1, <1>5, <2>1, OfferEffect
  <2>3. Types'
    BY <1>1, <1>2, <1>6, <2>2, Typed, CallTypes DEF clientVars
  <2>4. /\ \A y \in Calls : y # x => full'[y] = full[y]
        /\ \A d \in Conns, y \in Calls : Got(d, y) => Got(d, y)'
        /\ \A d \in Conns, y \in Calls : Got(d, y)' => Got(d, y) \/ (d = c /\ y = x)
    BY <1>1, <1>5, <2>1, OfferGot
  <2>5. \A y \in Calls, d \in Conns : y # x => (Got(d, y)' <=> Got(d, y))
    BY <2>4
  <2>6. CallsInv'
    BY <1>2, <1>6, <1>7, <2>4, <2>5, OthersKept
  <2>7. ~Is(x, "keys") => ~Got(c, x) /\ Reached(c, x)'
    BY <1>1, <1>5, <1>6, <1>9, <1>12 DEF LogInv, GotInv
  <2>8. \A i \in Rs, y \in Calls : ~Before(entered[BucketOf(c)][i], x, y)
    BY <1>1, <1>3, <1>5, Entered DEF Is
  <2>9. LogInv'
    BY <1>1, <1>2, <1>5, <1>10, <1>11, <2>1, <2>7, <2>8, Offering
  <2> QED  BY <1>8, <2>3, <2>6, <2>9 DEF Inv
<1>14. CASE ~listens[c]
  <2>1. UNCHANGED <<behind, log, full>>
    BY <1>4, <1>14 DEF channelVars
  <2>2. Types'
    BY <1>1, <1>2, <1>6, <2>1, Typed, CallTypes DEF clientVars
  <2>3. \A y \in Calls, d \in Conns : Got(d, y)' <=> Got(d, y)
    BY <2>1, NothingOffered
  <2>4. CallsInv'
    BY <1>2, <1>6, <1>7, <2>1, <2>3, OthersKept
  <2>5. c \notin stayed[x]
    BY <1>3, <1>14 DEF Inv, CallsInv, StayedInv, Addressed, Is
  <2>6. \A y \in Calls : \A d \in stayed'[y] :
            Reached(d, y)' => Reached(d, y) /\ d \in stayed[y]
    BY <1>1, <1>2, <1>11, <2>5, Typed
  <2>7. LogInv'
    BY <1>1, <1>2, <1>10, <2>1, <2>6, Quiet
  <2> QED  BY <1>8, <2>2, <2>4, <2>7 DEF Inv
<1> QED  BY <1>13, <1>14

-----------------------------------------------------------------------------
(* roomproc and Room.Push *)

\* The calls, while a routine takes a request or walks over a room.
LEMMA CallsKept ==
  ASSUME Inv, UNCHANGED <<clientVars, callVars, stayed>>,
         \A y \in Calls : Is(y, "keys") \/ pc[y] = "new" =>
            full'[y] = full[y] /\ \A c \in Conns : Got(c, y)' <=> Got(c, y)
  PROVE  CallsInv'
<1>1. pc' = pc /\ at' = at /\ reg' = reg /\ stayed' = stayed
  BY DEF callVars
<1>2. stayed \in [Calls -> SUBSET Conns]
  BY Typed DEF Inv
<1>3. StayedInv'
  BY StayedKept DEF Inv, CallsInv
<1>4. \A y \in Calls : stayed'[y] \subseteq stayed[y] /\ stayed[y] \subseteq Conns
  BY <1>1, <1>2
<1>5. ASSUME NEW y \in Calls PROVE CallOK(y)' /\ NewOK(y)' /\ KeysOK(y)'
  BY <1>1, <1>4, CallKept DEF Inv
<1> QED  BY <1>3, <1>5 DEF CallsInv, CallInv, NewInv, KeysInv

LEMMA EnteredSame ==
  ASSUME Inv, UNCHANGED <<entered, callVars>>
  PROVE  EnteredInv' /\ \A c \in Conns, y \in Calls : Through(c, y)' <=> Through(c, y)
<1>1. pc' = pc /\ at' = at /\ reg' = reg
  BY DEF callVars
<1>2. \A x \in Calls, b \in Bs : Past(x, b) => Past(x, b)'
  BY <1>1 DEF Past
<1>3. EnteredInv'
  BY <1>2, EnteredKept DEF Inv, RoutinesInv
<1> QED  BY <1>1, <1>3 DEF Through

\* The others, while a routine moves.
LEMMA OtherRoutines ==
  ASSUME Types, RoutinesInv, NEW b \in Bs, NEW i \in Rs, UNCHANGED entered,
         \A d \in Bs, j \in Rs : d # b \/ j # i => done'[d][j] = done[d][j] /\ walk'[d][j] = walk[d][j],
         WalkOK(b, i)'
  PROVE  /\ WalkInv'
         /\ \A d \in Bs, j \in Rs, c \in Conns, y \in Calls :
                d # b \/ j # i => (VisitedBy(d, j, c, y)' <=> VisitedBy(d, j, c, y))
<1>1. ASSUME NEW d \in Bs, NEW j \in Rs, d # b \/ j # i PROVE WalkOK(d, j)'
  <2>1. WalkOK(d, j)
    BY DEF RoutinesInv, WalkInv
  <2> QED  BY <1>1, <2>1 DEF WalkOK, BucketOf
<1>2. WalkInv'
  BY <1>1 DEF WalkInv
<1>3. ASSUME NEW d \in Bs, NEW j \in Rs, NEW c \in Conns, NEW y \in Calls, d # b \/ j # i
      PROVE  VisitedBy(d, j, c, y)' <=> VisitedBy(d, j, c, y)
  BY <1>3 DEF VisitedBy
<1> QED  BY <1>2, <1>3

\* What one routine visits, all do.
LEMMA VisitedChange ==
  ASSUME NEW b \in Bs, NEW i \in Rs, NEW c \in Conns, NEW x \in Calls,
         \A d \in Bs, j \in Rs, e \in Conns, y \in Calls :
                d # b \/ j # i => (VisitedBy(d, j, e, y)' <=> VisitedBy(d, j, e, y))
  PROVE  /\ BucketOf(c) # b => (Visited(c, x)' <=> Visited(c, x))
         /\ (VisitedBy(b, i, c, x) => VisitedBy(b, i, c, x)') => (Visited(c, x) => Visited(c, x)')
         /\ Visited(c, x)' => Visited(c, x) \/ (BucketOf(c) = b /\ VisitedBy(b, i, c, x)')
<1>1. BucketOf(c) \in Bs /\ BucketOf(c)' = BucketOf(c)
  BY Constants DEF BucketOf
<1>2. Visited(c, x)' <=> \E j \in Rs : VisitedBy(BucketOf(c), j, c, x)'
  BY <1>1 DEF Visited, VisitedBy
<1>3. Visited(c, x) <=> \E j \in Rs : VisitedBy(BucketOf(c), j, c, x)
  BY DEF Visited
<1> QED  BY <1>1, <1>2, <1>3

LEMMA TakeInv ==
  ASSUME Inv, NEW b \in Bs, NEW i \in Rs, Take(b, i)
  PROVE  Inv'
<1> DEFINE n == done[b][i] + 1
           x == entered[b][i][n]
           o == Mapped(b, Requests[x].room)
           found(m) == [st |-> "found", x |-> x, of |-> m, rest |-> {}]
<1>1. Types /\ RoutinesInv /\ LogInv
  BY DEF Inv
<1>2. /\ walk[b][i].st = "idle" /\ Queued(b, i) > 0
      /\ done' = [done EXCEPT ![b][i] = @ + 1]
      /\ \E m \in Room(b, Requests[x].room) :
              walk' = [walk EXCEPT ![b][i] = IF m = None THEN NoWalk ELSE found(m)]
      /\ UNCHANGED <<up, room, listens, moves, made, dropped, behind, log, full, num, entered, pc, at, reg, stayed>>
  BY DEF Take, clientVars, channelVars, callVars
<1>3. /\ Len(entered[b][i]) \in Nat /\ done[b][i] \in 0..Len(entered[b][i])
      /\ walk[b][i].x = 0 /\ walk \in [Bs -> [Rs -> Walks]] /\ done \in [Bs -> [Rs -> Nat]]
  BY <1>1, <1>2, RoutineFacts DEF Types
<1>4. n \in 1..Len(entered[b][i])
  BY <1>2, <1>3 DEF Queued
<1>5. x \in Calls /\ x # 0 /\ Is(x, "room") /\ Requests[x].room \in Rooms
  <2>1. x \in Calls /\ x # 0 /\ Is(x, "room")
    BY <1>1, <1>4, RoutineFacts
  <2> HIDE DEF x
  <2> QED  BY <2>1, RequestTypes
<1>6. /\ done'[b][i] = n /\ done' \in [Bs -> [Rs -> Nat]]
      /\ \A d \in Bs, j \in Rs : d # b \/ j # i => done'[d][j] = done[d][j]
  BY <1>2, <1>3
<1>7. NoWalk \in Walks /\ found(o) \in Walks /\ o \in Objects /\ o # None
  <2>1. o \in Objects
    <3>1. made[b] \in [Rooms -> Nat]
      BY <1>1, Typed
    <3> HIDE DEF x
    <3>2. made[b][Requests[x].room] \in Nat
      BY <1>5, <3>1
    <3> QED  BY <1>5, <3>2 DEF Mapped, Objects, Bs
  <2> HIDE DEF x, o
  <2> QED  BY <1>5, <2>1, Constants DEF NoWalk, Walks
<1>8. /\ walk' \in [Bs -> [Rs -> Walks]]
      /\ \A d \in Bs, j \in Rs : d # b \/ j # i => walk'[d][j] = walk[d][j]
      /\ walk'[b][i].rest = {}
      /\ \/ walk'[b][i].st = "found" /\ walk'[b][i].x = x
         \/ /\ walk'[b][i].st = "idle" /\ walk'[b][i].x = 0
            /\ Members(o) = {}
  <2>0. /\ found(o).st = "found" /\ found(o).x = x /\ found(o).rest = {}
        /\ NoWalk.st = "idle" /\ NoWalk.x = 0 /\ NoWalk.rest = {}
    BY DEF NoWalk
  <2>1. PICK m \in Room(b, Requests[x].room) :
              walk' = [walk EXCEPT ![b][i] = IF m = None THEN NoWalk ELSE found(m)]
    BY <1>2
  <2>2. (m = None => Members(o) = {}) /\ (m # None => m = o)
    BY <1>7, <2>1 DEF Room
  <2> HIDE DEF x, found, o
  <2>3. /\ walk' \in [Bs -> [Rs -> Walks]]
        /\ \A d \in Bs, j \in Rs : d # b \/ j # i => walk'[d][j] = walk[d][j]
        /\ walk'[b][i] = IF m = None THEN NoWalk ELSE found(o)
    BY <1>3, <1>7, <2>1, <2>2
  <2>4. CASE m = None
    BY <2>0, <2>2, <2>3, <2>4
  <2>5. CASE m # None
    BY <2>0, <2>3, <2>5
  <2> QED  BY <2>3, <2>4, <2>5
<1>9. Types'
  <2>1. \A d \in Bs, j \in Rs : Queued(d, j)' \in 0..RoutineSize
    <3>1. \A d \in Bs, j \in Rs : Queued(d, j) \in 0..RoutineSize
      BY <1>1 DEF Types, TypeOK, Bs, Rs
    <3>2. \A d \in Bs, j \in Rs : d # b \/ j # i => Queued(d, j)' = Queued(d, j)
      BY <1>2, <1>6 DEF Queued
    <3>3. Queued(b, i)' = Queued(b, i) - 1 /\ Queued(b, i) \in Nat
      BY <1>2, <1>3, <1>6 DEF Queued
    <3>4. Queued(b, i)' \in 0..RoutineSize
      BY <1>2, <3>1, <3>3, Constants
    <3> QED  BY <3>1, <3>2, <3>4
  <2>2. TypeOK'
    BY <1>1, <1>2, <2>1 DEF Types, TypeOK, Bs, Rs
  <2> QED  BY <1>1, <1>2, <1>6, <1>8, <2>2 DEF Types
<1>10. CallsInv'
  <2>1. \A y \in Calls, c \in Conns : Got(c, y)' <=> Got(c, y)
    BY <1>2, NothingOffered
  <2> QED  BY <1>2, <2>1, CallsKept DEF clientVars, callVars
<1>11. EnteredInv' /\ \A c \in Conns, y \in Calls : Through(c, y)' <=> Through(c, y)
  BY <1>2, EnteredSame DEF callVars
<1>12. WalkOK(b, i)'
  <2>1. done'[b][i] \in 0..Len(entered'[b][i]) /\ done'[b][i] # 0
    BY <1>2, <1>3, <1>4, <1>6
  <2>2. entered'[b][i][done'[b][i]] = x
    BY <1>2, <1>6
  <2> HIDE DEF x, n, found
  <2>3. /\ walk'[b][i].rest = {}
        /\ walk'[b][i].st = "idle" => walk'[b][i].x = 0
        /\ walk'[b][i].st # "idle" => walk'[b][i].x = x
    BY <1>5, <1>8
  <2> QED  BY <2>1, <2>2, <2>3 DEF WalkOK
<1>13. /\ WalkInv'
       /\ \A d \in Bs, j \in Rs, c \in Conns, y \in Calls :
                d # b \/ j # i => (VisitedBy(d, j, c, y)' <=> VisitedBy(d, j, c, y))
  <2>1. \A d \in Bs, j \in Rs : d # b \/ j # i =>
            done'[d][j] = done[d][j] /\ walk'[d][j] = walk[d][j]
    BY <1>6, <1>8
  <2>2. UNCHANGED entered
    BY <1>2
  <2> QED  BY <1>1, <1>12, <2>1, <2>2, OtherRoutines
<1>14. ASSUME NEW c \in Conns, NEW y \in Calls
       PROVE  /\ VisitedBy(b, i, c, y) => VisitedBy(b, i, c, y)'
              /\ VisitedBy(b, i, c, y)' => VisitedBy(b, i, c, y) \/
                    (y = x /\ walk'[b][i].x = 0)
  <2>1. (\E m \in 1..done'[b][i] : entered'[b][i][m] = y)
        <=> (\E m \in 1..done[b][i] : entered[b][i][m] = y) \/ y = x
    <3>1. entered' = entered /\ done'[b][i] = n /\ done[b][i] \in Nat /\ entered[b][i][n] = x
      BY <1>2, <1>3, <1>6
    <3>2. n = done[b][i] + 1
      OBVIOUS
    <3>3. 1..n = 1..done[b][i] \cup {n}
      <4> HIDE DEF x
      <4> QED  BY <3>1, <3>2
    <3> HIDE DEF x, n
    <3> QED  BY <3>1, <3>3
  <2>2. ~(\E m \in 1..done[b][i] : entered[b][i][m] = x)
    BY <1>1, <1>3, <1>4, RoutineFacts
  <2>3. y # 0
    BY Constants
  <2> HIDE DEF x, n, found
  <2>4. walk'[b][i].x \in {0, x} /\ (walk'[b][i].x = x => walk'[b][i].st = "found")
    BY <1>5, <1>8
  <2>5. walk'[b][i].x = x \/ walk'[b][i].x = 0
    BY <1>8
  <2>6. CASE y = x
    <3>1. ~VisitedBy(b, i, c, y)
      BY <2>2, <2>6 DEF VisitedBy
    <3>2. VisitedBy(b, i, c, y)' => walk'[b][i].x # x
      BY <2>4, <2>6 DEF VisitedBy
    <3> QED  BY <2>5, <2>6, <3>1, <3>2
  <2>7. CASE y # x
    <3>1. walk[b][i].x # y /\ walk'[b][i].x # y
      BY <1>3, <2>3, <2>4, <2>7
    <3> QED  BY <2>1, <2>7, <3>1 DEF VisitedBy
  <2> QED  BY <2>6, <2>7
<1>15. \A c \in Conns, y \in Calls : Reached(c, y) => Reached(c, y)'
  <2>1. \A c \in Conns, y \in Calls : Visited(c, y) => Visited(c, y)'
    BY <1>13, <1>14, VisitedChange
  <2> QED  BY <1>11, <2>1 DEF Reached, Is
<1>16. ASSUME NEW y \in Calls, NEW c \in stayed[y], Reached(c, y)'
       PROVE  Reached(c, y)
  <2>1. c \in Conns
    BY <1>1, Typed
  <2>2. CASE Is(y, "all")
    BY <1>11, <1>16, <2>1, <2>2 DEF Reached, Is
  <2>3. CASE ~Is(y, "all")
    <3>1. Is(y, "room") /\ Visited(c, y)'
      BY <1>16, <2>3 DEF Reached, Is
    <3>2. CASE Visited(c, y)
      BY <3>1, <3>2 DEF Reached
    <3>3. CASE ~Visited(c, y)
      <4>1. BucketOf(c) = b /\ VisitedBy(b, i, c, y)' /\ ~VisitedBy(b, i, c, y)
        <5>1. BucketOf(c) = b /\ VisitedBy(b, i, c, y)'
          BY <1>13, <2>1, <3>1, <3>3, VisitedChange
        <5> QED  BY <3>3, <5>1 DEF Visited
      <4>2. y = x /\ walk'[b][i].x = 0
        BY <1>14, <2>1, <4>1
      <4>3. Members(o) = {}
        <5> HIDE DEF x, n, found, o
        <5> QED  BY <1>5, <1>8, <4>2
      <4>4. room[c] = o
        BY <1>5, <4>1, <4>2 DEF Inv, CallsInv, StayedInv, Addressed, Is
      <4> QED  BY <2>1, <4>1, <4>3, <4>4 DEF Members
    <3> QED  BY <3>2, <3>3
  <2> QED  BY <2>2, <2>3
<1>17. LogInv'
  BY <1>1, <1>2, <1>15, <1>16, Quiet
<1> QED  BY <1>9, <1>10, <1>11, <1>13, <1>17 DEF Inv, RoutinesInv

\* A routine begins or ends its walk, and nobody who stayed is passed over.
LEMMA WalkerMoves ==
  ASSUME Types, RoutinesInv, NEW b \in Bs, NEW i \in Rs, NEW cs \in SUBSET Conns,
         \A c \in cs : BucketOf(c) = b,
         walk[b][i].st # "idle", UNCHANGED <<entered, done>>,
         walk' = [walk EXCEPT ![b][i] = WalkOver(@, cs)]
  PROVE  /\ walk' \in [Bs -> [Rs -> Walks]] /\ WalkInv'
         /\ \A d \in Bs, j \in Rs, c \in Conns, y \in Calls :
                d # b \/ j # i => (VisitedBy(d, j, c, y)' <=> VisitedBy(d, j, c, y))
         /\ \A c \in Conns, y \in Calls :
                /\ y # walk[b][i].x => (VisitedBy(b, i, c, y)' <=> VisitedBy(b, i, c, y))
                /\ y = walk[b][i].x => (VisitedBy(b, i, c, y)' <=> c \notin cs)
<1> DEFINE x == walk[b][i].x
<1>1. /\ walk \in [Bs -> [Rs -> Walks]] /\ walk[b][i] \in Walks
      /\ done[b][i] \in 1..Len(entered[b][i]) /\ x = entered[b][i][done[b][i]]
      /\ x \in Calls /\ x # 0
  BY RoutineFacts, Constants DEF Types
<1>2. walk'[b][i] = WalkOver(walk[b][i], cs) /\ WalkOver(walk[b][i], cs) \in Walks
  BY <1>1 DEF WalkOver, NoWalk, Walks
<1>3. /\ walk' \in [Bs -> [Rs -> Walks]]
      /\ \A d \in Bs, j \in Rs : d # b \/ j # i => walk'[d][j] = walk[d][j]
  BY <1>1, <1>2
<1>4. /\ cs = {} => walk'[b][i].st = "idle" /\ walk'[b][i].x = 0
      /\ cs # {} => walk'[b][i].st = "push" /\ walk'[b][i].x = x
      /\ walk'[b][i].rest = cs
  BY <1>1, <1>2 DEF WalkOver, NoWalk, Walks
<1>5. WalkOK(b, i)'
  <2>1. done'[b][i] \in 0..Len(entered'[b][i]) /\ done'[b][i] # 0 /\ entered'[b][i][done'[b][i]] = x
    BY <1>1
  <2> HIDE DEF x
  <2>2. \A c \in walk'[b][i].rest : BucketOf(c)' = b
    BY <1>4 DEF BucketOf
  <2> QED  BY <1>4, <2>1, <2>2 DEF WalkOK
<1>6. /\ WalkInv'
      /\ \A d \in Bs, j \in Rs, c \in Conns, y \in Calls :
                d # b \/ j # i => (VisitedBy(d, j, c, y)' <=> VisitedBy(d, j, c, y))
  BY <1>3, <1>5, OtherRoutines
<1>7. ASSUME NEW c \in Conns, NEW y \in Calls
      PROVE  /\ y # x => (VisitedBy(b, i, c, y)' <=> VisitedBy(b, i, c, y))
             /\ y = x => (VisitedBy(b, i, c, y)' <=> c \notin cs)
  <2>1. y # 0
    BY Constants
  <2>2. \E m \in 1..done'[b][i] : entered'[b][i][m] = x
    <3>1. done[b][i] \in 1..done[b][i]
      BY <1>1
    <3> QED  BY <1>1, <3>1
  <2> HIDE DEF x
  <2>3. y # x => (VisitedBy(b, i, c, y)' <=> VisitedBy(b, i, c, y))
    <3>1. y # x => walk'[b][i].x # y /\ walk[b][i].x # y
      BY <1>4, <2>1 DEF x
    <3> QED  BY <3>1 DEF VisitedBy
  <2>4. y = x => (VisitedBy(b, i, c, y)' <=> c \notin cs)
    BY <1>1, <1>4, <2>2 DEF VisitedBy
  <2> QED  BY <2>3, <2>4
<1> QED  BY <1>3, <1>6, <1>7

LEMMA BeginWalkInv ==
  ASSUME Inv, PlaceInv, FoundInv, NEW b \in Bs, NEW i \in Rs, BeginWalk(b, i)
  PROVE  Inv'
<1>1. Types /\ RoutinesInv /\ LogInv
  BY DEF Inv
<1>2. PICK x \in Calls : x = walk[b][i].x /\ walk[b][i].st = "found"
  BY <1>1, RoutineFacts DEF BeginWalk
<1> DEFINE cs == Members(walk[b][i].of)
<1>3. /\ walk' = [walk EXCEPT ![b][i] = WalkOver(@, cs)]
      /\ UNCHANGED <<up, room, listens, moves, made, dropped, behind, log, full, num, entered, done, pc, at, reg, stayed>>
  BY <1>1, <1>2 DEF BeginWalk, clientVars, channelVars, callVars, Types
<1>4. cs \in SUBSET Conns /\ \A c \in cs : BucketOf(c) = b
  BY <1>2 DEF Members, PlaceInv, PlaceOK, FoundInv, FoundOK
<1>5. Is(x, "room")
  BY <1>1, <1>2, RoutineFacts
<1>6. /\ walk' \in [Bs -> [Rs -> Walks]] /\ WalkInv'
      /\ \A d \in Bs, j \in Rs, c \in Conns, y \in Calls :
                d # b \/ j # i => (VisitedBy(d, j, c, y)' <=> VisitedBy(d, j, c, y))
      /\ \A c \in Conns, y \in Calls :
                /\ y # x => (VisitedBy(b, i, c, y)' <=> VisitedBy(b, i, c, y))
                /\ y = x => (VisitedBy(b, i, c, y)' <=> c \notin cs)
  <2> HIDE DEF cs
  <2> QED  BY <1>1, <1>2, <1>3, <1>4, WalkerMoves
<1>7. Types'
  <2>1. \A d \in 1..Buckets, j \in 0..Routines-1 : Queued(d, j)' \in 0..RoutineSize
    BY <1>1, <1>3 DEF Types, TypeOK, Queued
  <2>2. TypeOK'
    BY <1>1, <1>3, <2>1 DEF Types, TypeOK
  <2> QED  BY <1>1, <1>3, <1>6, <2>2 DEF Types
<1>8. CallsInv'
  <2>1. \A y \in Calls, c \in Conns : Got(c, y)' <=> Got(c, y)
    BY <1>3, NothingOffered
  <2> QED  BY <1>3, <2>1, CallsKept DEF clientVars, callVars
<1>9. EnteredInv' /\ \A c \in Conns, y \in Calls : Through(c, y)' <=> Through(c, y)
  BY <1>3, EnteredSame DEF callVars
<1>10. \A c \in Conns : ~VisitedBy(b, i, c, x)
  BY <1>2 DEF VisitedBy
<1>11. \A c \in Conns, y \in Calls : Reached(c, y) => Reached(c, y)'
  <2>1. \A c \in Conns, y \in Calls : VisitedBy(b, i, c, y) => VisitedBy(b, i, c, y)'
    BY <1>6, <1>10
  <2>2. \A c \in Conns, y \in Calls : Visited(c, y) => Visited(c, y)'
    BY <1>6, <2>1, VisitedChange
  <2> QED  BY <1>9, <2>2 DEF Reached, Is
<1>12. ASSUME NEW y \in Calls, NEW c \in stayed[y], Reached(c, y)'
       PROVE  Reached(c, y)
  <2>1. c \in Conns
    BY <1>1, Typed
  <2>2. CASE Is(y, "all")
    BY <1>9, <1>12, <2>1, <2>2 DEF Reached, Is
  <2>3. CASE ~Is(y, "all")
    <3>1. Is(y, "room") /\ Visited(c, y)'
      BY <1>12, <2>3 DEF Reached, Is
    <3>2. CASE Visited(c, y)
      BY <3>1, <3>2 DEF Reached
    <3>3. CASE ~Visited(c, y)
      <4>1. BucketOf(c) = b /\ VisitedBy(b, i, c, y)' /\ ~VisitedBy(b, i, c, y)
        <5>1. BucketOf(c) = b /\ VisitedBy(b, i, c, y)'
          BY <1>6, <2>1, <3>1, <3>3, VisitedChange
        <5> QED  BY <3>3, <5>1 DEF Visited
      <4>2. y = x /\ c \notin cs
        BY <1>6, <2>1, <4>1
      <4>3. room[c] = walk[b][i].of
        BY <1>2, <4>1, <4>2 DEF FoundInv, FoundOK
      <4> QED  BY <2>1, <4>2, <4>3 DEF Members
    <3> QED  BY <3>2, <3>3
  <2> QED  BY <2>2, <2>3
<1>13. LogInv'
  BY <1>1, <1>3, <1>11, <1>12, Quiet
<1> QED  BY <1>6, <1>7, <1>8, <1>9, <1>13 DEF Inv, RoutinesInv

LEMMA WalkStepInv ==
  ASSUME Inv, NEW b \in Bs, NEW i \in Rs, WalkStep(b, i)
  PROVE  Inv'
<1>1. Types /\ RoutinesInv /\ LogInv /\ CallInv
  BY DEF Inv, CallsInv
<1>2. PICK x \in Calls : x = walk[b][i].x /\ walk[b][i].st = "push"
  BY <1>1, RoutineFacts DEF WalkStep
<1>3. PICK c \in walk[b][i].rest :
        /\ Offer(c, x)
        /\ walk' = [walk EXCEPT ![b][i] = WalkOver(@, walk[b][i].rest \ {c})]
  BY <1>1, <1>2 DEF WalkStep, AfterOffer, Types
<1>4. UNCHANGED <<up, room, listens, moves, made, dropped, num, entered, done, pc, at, reg, stayed>>
  BY DEF WalkStep, clientVars, callVars
<1> DEFINE cs == walk[b][i].rest \ {c}
<1>5. /\ c \in Conns /\ BucketOf(c) = b /\ cs \in SUBSET Conns /\ \A d \in cs : BucketOf(d) = b
      /\ Is(x, "room") /\ Past(x, b)
      /\ done[b][i] \in 1..Len(entered[b][i]) /\ x = entered[b][i][done[b][i]]
      /\ done[b][i] \in 1..done[b][i]
  <2>1. /\ \A d \in walk[b][i].rest : d \in Conns /\ BucketOf(d) = b
        /\ done[b][i] \in 1..Len(entered[b][i]) /\ x = entered[b][i][done[b][i]]
    BY <1>1, <1>2, RoutineFacts
  <2>2. Is(x, "room") /\ Past(x, b)
    BY <1>1, <2>1, RoutineFacts
  <2> QED  BY <1>3, <2>1, <2>2
<1>6. /\ walk' \in [Bs -> [Rs -> Walks]] /\ WalkInv'
      /\ \A d \in Bs, j \in Rs, e \in Conns, y \in Calls :
                d # b \/ j # i => (VisitedBy(d, j, e, y)' <=> VisitedBy(d, j, e, y))
      /\ \A e \in Conns, y \in Calls :
                /\ y # x => (VisitedBy(b, i, e, y)' <=> VisitedBy(b, i, e, y))
                /\ y = x => (VisitedBy(b, i, e, y)' <=> e \notin cs)
  <2>1. walk' = [walk EXCEPT ![b][i] = WalkOver(@, cs)]
    BY <1>3
  <2>2. cs \in SUBSET Conns /\ \A d \in cs : BucketOf(d) = b
    BY <1>5
  <2>3. walk[b][i].st # "idle" /\ UNCHANGED <<entered, done>>
    BY <1>2, <1>4
  <2> HIDE DEF cs
  <2>4. Types /\ RoutinesInv
    BY <1>1
  <2> QED  BY <1>2, <2>1, <2>2, <2>3, <2>4, WalkerMoves
<1>7. /\ log' \in [Conns -> Seq(Calls)] /\ full' \in [Calls -> SUBSET Conns]
      /\ behind' \in [Conns -> 0..SvrProto]
  BY <1>1, <1>3, <1>5, OfferEffect
<1>8. Types'
  <2>1. \A d \in 1..Buckets, j \in 0..Routines-1 : Queued(d, j)' \in 0..RoutineSize
    BY <1>1, <1>4 DEF Types, TypeOK, Queued
  <2>2. TypeOK'
    BY <1>1, <1>4, <1>7, <2>1 DEF Types, TypeOK
  <2> QED  BY <1>1, <1>4, <1>6, <1>7, <2>2 DEF Types
<1>9. /\ \A y \in Calls : y # x => full'[y] = full[y]
      /\ \A d \in Conns, y \in Calls : Got(d, y) => Got(d, y)'
      /\ \A d \in Conns, y \in Calls : Got(d, y)' => Got(d, y) \/ (d = c /\ y = x)
  BY <1>1, <1>3, <1>5, OfferGot
<1>10. CallsInv'
  <2>1. ~Is(x, "keys") /\ pc[x] # "new"
    BY <1>5 DEF Is, Past
  <2>2. \A y \in Calls : Is(y, "keys") \/ pc[y] = "new" =>
            full'[y] = full[y] /\ \A d \in Conns : Got(d, y)' <=> Got(d, y)
    BY <1>9, <2>1
  <2> QED  BY <1>4, <2>2, CallsKept DEF clientVars, callVars
<1>11. EnteredInv' /\ \A d \in Conns, y \in Calls : Through(d, y)' <=> Through(d, y)
  BY <1>4, EnteredSame DEF callVars
<1>12. \A d \in Conns : VisitedBy(b, i, d, x) <=> d \notin walk[b][i].rest
  BY <1>2, <1>5 DEF VisitedBy
<1>13. \A d \in Conns, y \in Calls : VisitedBy(b, i, d, y)' =>
            VisitedBy(b, i, d, y) \/ (d = c /\ y = x)
  BY <1>6, <1>12
<1>14. \A d \in Conns, y \in Calls : Reached(d, y) => Reached(d, y)'
  <2>1. \A d \in Conns, y \in Calls : VisitedBy(b, i, d, y) => VisitedBy(b, i, d, y)'
    BY <1>6, <1>12
  <2>2. \A d \in Conns, y \in Calls : Visited(d, y) => Visited(d, y)'
    BY <1>6, <2>1, VisitedChange
  <2> QED  BY <1>11, <2>2 DEF Reached, Is
<1>15. ASSUME NEW y \in Calls, NEW d \in Conns, Reached(d, y)'
       PROVE  Reached(d, y) \/ (d = c /\ y = x)
  <2>1. CASE Is(y, "all")
    BY <1>11, <1>15, <2>1 DEF Reached, Is
  <2>2. CASE ~Is(y, "all")
    <3>1. Is(y, "room") /\ Visited(d, y)'
      BY <1>15, <2>2 DEF Reached, Is
    <3>2. Visited(d, y) \/ (BucketOf(d) = b /\ VisitedBy(b, i, d, y)')
      BY <1>6, <3>1, VisitedChange
    <3>3. Visited(d, y) \/ (d = c /\ y = x)
      BY <1>13, <3>2 DEF Visited
    <3> QED  BY <3>1, <3>3 DEF Reached
  <2> QED  BY <2>1, <2>2
\* It is nowhere else, and those behind it have not been taken.
<1>16. ~Visited(c, x)
  <2> SUFFICES ASSUME Visited(c, x) PROVE FALSE
    OBVIOUS
  <2>1. PICK j \in Rs : VisitedBy(b, j, c, x)
    BY <1>5 DEF Visited
  <2>2. PICK m \in 1..done[b][j] : entered[b][j][m] = x
    BY <2>1 DEF VisitedBy
  <2>3. m \in 1..Len(entered[b][j])
    BY <1>1, <2>2, RoutineFacts
  <2>4. j = i
    BY <1>1, <1>5, <2>2, <2>3, RoutineFacts
  <2> QED  BY <1>3, <1>5, <1>12, <2>1, <2>4
<1>17. Reached(c, x)' /\ ~Reached(c, x)
  <2>1. VisitedBy(b, i, c, x)'
    BY <1>5, <1>6
  <2>2. Visited(c, x)'
    <3>1. BucketOf(c)' = b
      BY <1>5 DEF BucketOf
    <3> QED  BY <2>1, <3>1 DEF Visited, VisitedBy
  <2> QED  BY <1>5, <1>16, <2>2 DEF Reached, Is
<1>18. ~Got(c, x)
  BY <1>1, <1>5, <1>17 DEF LogInv, GotInv, Is
<1>19. ASSUME NEW j \in Rs, NEW y \in Calls, Before(entered[BucketOf(c)][j], x, y)
       PROVE  ~Got(c, y) /\ y # x
  <2>1. y # x /\ Is(y, "room")
    BY <1>1, <1>5, <1>19, Entered
  <2>2. PICK n, m \in 1..Len(entered[b][j]) :
            n < m /\ entered[b][j][n] = x /\ entered[b][j][m] = y
    BY <1>5, <1>19 DEF Before
  <2>3. j = i /\ n = done[b][i]
    BY <1>1, <1>5, <2>2, RoutineFacts
  <2>4. ~Visited(c, y)
    <3> SUFFICES ASSUME Visited(c, y) PROVE FALSE
      OBVIOUS
    <3>1. PICK k \in Rs : VisitedBy(b, k, c, y)
      BY <1>5 DEF Visited
    <3>2. PICK l \in 1..done[b][k] : entered[b][k][l] = y
      BY <3>1 DEF VisitedBy
    <3>3. l \in 1..Len(entered[b][k]) /\ done[b][k] \in Nat
      BY <1>1, <3>2, RoutineFacts
    <3>4. k = j /\ l = m
      BY <1>1, <2>2, <3>2, <3>3, RoutineFacts
    <3> QED  BY <1>5, <2>2, <2>3, <3>2, <3>3, <3>4
  <2>5. ~Got(c, y)
    BY <1>1, <1>5, <2>1, <2>4 DEF LogInv, GotInv, Reached, Is
  <2> QED  BY <2>1, <2>5
<1>20. LogInv'
  BY <1>1, <1>3, <1>4, <1>5, <1>14, <1>15, <1>17, <1>18, <1>19, Offering
<1> QED  BY <1>6, <1>8, <1>10, <1>11, <1>20 DEF Inv, RoutinesInv

-----------------------------------------------------------------------------
(* Clients *)

\* Those a call stays for, after a client has moved.
LEMMA Staying ==
  ASSUME Types, Stay
  PROVE  /\ StayedInv' /\ stayed' \in [Calls -> SUBSET Conns]
         /\ \A x \in Calls : stayed'[x] \subseteq stayed[x]
<1>1. /\ stayed \in [Calls -> SUBSET Conns]
      /\ \A x \in Calls : stayed'[x] = {c \in stayed[x] : Addressed(x, c)'}
      /\ stayed' = [x \in Calls |-> {c \in stayed[x] : Addressed(x, c)'}]
  BY Typed DEF Stay
<1>2. \A x \in Calls : \A c \in stayed'[x] : Addressed(x, c)'
  BY <1>1
<1>3. StayedInv'
  BY <1>2 DEF StayedInv
<1> QED  BY <1>1, <1>3

\* What a client does is of no concern to the calls but for who stays.
LEMMA ClientMoves ==
  ASSUME Inv, UNCHANGED <<log, full, routineVars, callVars>>,
         StayedInv', stayed' \in [Calls -> SUBSET Conns],
         \A x \in Calls : stayed'[x] \subseteq stayed[x],
         up' \subseteq Conns, room' \in [Conns -> Objects \cup {None}],
         listens' \in [Conns -> BOOLEAN], behind' \in [Conns -> 0..SvrProto],
         made' \in [Bs -> [Rooms -> Nat]], dropped' \subseteq Objects
  PROVE  Inv'
<1>1. Types /\ CallsInv /\ RoutinesInv /\ LogInv
  BY DEF Inv
<1>2. UNCHANGED <<num, entered, done, walk, pc, at, reg>>
  BY DEF routineVars, callVars
<1>3. Types'
  <2>1. \A d \in 1..Buckets, j \in 0..Routines-1 : Queued(d, j)' \in 0..RoutineSize
    BY <1>1, <1>2 DEF Types, TypeOK, Queued
  <2>2. TypeOK'
    BY <1>1, <1>2, <2>1 DEF Types, TypeOK, Bs
  <2> QED  BY <1>1, <1>2, <2>2 DEF Types
<1>4. \A y \in Calls, c \in Conns : Got(c, y)' <=> Got(c, y)
  BY NothingOffered
<1>5. CallsInv'
  <2>1. stayed \in [Calls -> SUBSET Conns]
    BY <1>1, Typed
  <2>2. ASSUME NEW y \in Calls PROVE CallOK(y)' /\ NewOK(y)' /\ KeysOK(y)'
    BY <1>1, <1>2, <1>4, <2>1, CallKept
  <2> QED  BY <2>2 DEF CallsInv, CallInv, NewInv, KeysInv
<1>6. EnteredInv' /\ \A c \in Conns, y \in Calls : Through(c, y)' <=> Through(c, y)
  BY <1>2, EnteredSame
<1>7. WalkInv' /\ \A c \in Conns, y \in Calls : Visited(c, y)' <=> Visited(c, y)
  BY <1>1, <1>2, WalkKept DEF RoutinesInv
<1>8. \A c \in Conns, y \in Calls : Reached(c, y)' <=> Reached(c, y)
  BY <1>6, <1>7 DEF Reached, Is
<1>9. LogInv'
  BY <1>1, <1>2, <1>8, Quiet
<1> QED  BY <1>3, <1>5, <1>6, <1>7, <1>9 DEF Inv, RoutinesInv

LEMMA EnterMoves ==
  ASSUME Inv, PlaceInv, NEW c \in Conns, NEW r \in Rooms, Enter(c, r)
  PROVE  room' \in [Conns -> Objects \cup {None}] /\ PlaceInv'
<1>1. Types /\ BucketOf(c) \in Bs
  BY Constants DEF Inv
<1>2. PICK n \in 0..made[BucketOf(c)][r] : room' = [room EXCEPT ![c] = <<BucketOf(c), r, n>>]
  BY DEF Enter
<1>3. made[BucketOf(c)][r] \in Nat /\ room \in [Conns -> Objects \cup {None}]
  BY <1>1, Typed
<1>4. <<BucketOf(c), r, n>> \in Objects
  BY <1>1, <1>2, <1>3 DEF Objects, Bs
<1>5. room' \in [Conns -> Objects \cup {None}]
  BY <1>2, <1>3, <1>4
<1>6. ASSUME NEW d \in Conns PROVE PlaceOK(d)'
  <2>1. BucketOf(d)' = BucketOf(d)
    BY DEF BucketOf
  <2>2. CASE d = c
    BY <1>2, <1>3, <2>1, <2>2 DEF PlaceOK
  <2>3. CASE d # c
    BY <1>2, <1>3, <2>1, <2>3 DEF PlaceInv, PlaceOK
  <2> QED  BY <2>2, <2>3
<1> QED  BY <1>5, <1>6 DEF PlaceInv

LEMMA ClientInv ==
  ASSUME Inv, PlaceInv, NEW c \in Conns, Client(c)
  PROVE  Inv' /\ PlaceInv'
<1>1. Types
  BY DEF Inv
<1>2. CASE \E r \in Rooms : Enter(c, r)
  <2>1. PICK r \in Rooms : Enter(c, r)
    BY <1>2
  <2>2. Stay /\ UNCHANGED <<up, listens, behind, log, full, routineVars, callVars, made, dropped>>
    BY <2>1 DEF Enter, channelVars
  <2>3. room' \in [Conns -> Objects \cup {None}] /\ PlaceInv'
    BY <2>1, EnterMoves
  <2> QED  BY <1>1, <2>2, <2>3, Typed, Staying, ClientMoves
<1>3. CASE Listen(c)
  <2>1. /\ listens' = [listens EXCEPT ![c] = ~@] /\ Stay
        /\ UNCHANGED <<up, room, behind, log, full, routineVars, callVars, made, dropped>>
    BY <1>3 DEF Listen, channelVars
  <2>2. listens' \in [Conns -> BOOLEAN]
    BY <1>1, <2>1, Typed
  <2>3. PlaceInv'
    BY <2>1 DEF PlaceInv, PlaceOK, BucketOf
  <2> QED  BY <1>1, <2>1, <2>2, <2>3, Typed, Staying, ClientMoves
<1>4. CASE Del(c)
  <2>1. /\ up' = up \ {c} /\ Stay
        /\ UNCHANGED <<room, listens, behind, log, full, routineVars, callVars, made, dropped>>
    BY <1>4 DEF Del, channelVars
  <2>2. PlaceInv'
    BY <2>1 DEF PlaceInv, PlaceOK, BucketOf
  <2> QED  BY <1>1, <2>1, <2>2, Typed, Staying, ClientMoves
<1>5. CASE Ready(c)
  <2>1. /\ behind' = [behind EXCEPT ![c] = @ - 1] /\ behind[c] > 0
        /\ UNCHANGED <<up, room, listens, log, full, routineVars, callVars, stayed, made, dropped>>
    BY <1>5 DEF Ready
  <2>2. behind' \in [Conns -> 0..SvrProto]
    <3>1. behind \in [Conns -> 0..SvrProto] /\ behind[c] - 1 \in 0..SvrProto
      BY <1>1, <2>1, Typed, Constants
    <3> QED  BY <2>1, <3>1
  <2>3. StayedInv' /\ PlaceInv'
    BY <2>1 DEF Inv, CallsInv, StayedInv, Addressed, Mapped, PlaceInv, PlaceOK, BucketOf
  <2> QED  BY <1>1, <2>1, <2>2, <2>3, Typed, ClientMoves
<1>6. CASE Leave(c)
  <2>1. /\ room' = [room EXCEPT ![c] = None] /\ room[c] # None /\ Stay
        /\ dropped' = dropped \/ dropped' = dropped \cup {room[c]}
        /\ UNCHANGED <<up, listens, behind, log, full, routineVars, callVars, made>>
    BY <1>6 DEF Leave, channelVars
  <2>2. room' \in [Conns -> Objects \cup {None}] /\ dropped' \subseteq Objects
    BY <1>1, <2>1, Typed
  <2>3. \A d \in Conns : room'[d] = None \/ room'[d] = room[d]
    BY <1>1, <2>1, Typed
  <2>4. PlaceInv'
    BY <2>3 DEF PlaceInv, PlaceOK, BucketOf
  <2> QED  BY <1>1, <2>1, <2>2, <2>4, Typed, Staying, ClientMoves
<1> QED  BY <1>2, <1>3, <1>4, <1>5, <1>6 DEF Client

\* Whoever is in a room that is removed does not stay.
LEMMA DelRoomInv ==
  ASSUME Inv, PlaceInv, NEW b \in Bs, NEW r \in Rooms, DelRoom(b, r)
  PROVE  Inv' /\ PlaceInv'
<1>1. Types
  BY DEF Inv
<1>2. /\ made' = [made EXCEPT ![b][r] = @ + 1] /\ Stay
      /\ UNCHANGED <<up, room, listens, dropped, behind, log, full, routineVars, callVars>>
  BY DEF DelRoom, channelVars
<1>3. made' \in [Bs -> [Rooms -> Nat]]
  <2>1. made \in [Bs -> [Rooms -> Nat]] /\ made[b][r] + 1 \in Nat
    BY <1>1, Typed
  <2> QED  BY <1>2, <2>1
<1>4. PlaceInv'
  BY <1>2 DEF PlaceInv, PlaceOK, BucketOf
<1> QED  BY <1>1, <1>2, <1>3, <1>4, Typed, Staying, ClientMoves

-----------------------------------------------------------------------------
(* The room a routine found *)

\* A routine that does not move, while no more stay for its message.
LEMMA FoundKept ==
  ASSUME Types, RoutinesInv, StayedInv, StayedInv', NEW b \in Bs, NEW i \in Rs, FoundOK(b, i),
         walk'[b][i] = walk[b][i], UNCHANGED room \/ UNCHANGED made,
         walk[b][i].st = "found" => stayed'[walk[b][i].x] \subseteq stayed[walk[b][i].x]
  PROVE  FoundOK(b, i)'
<1> SUFFICES ASSUME walk[b][i].st = "found" PROVE FoundOK(b, i)'
  BY DEF FoundOK
<1>1. PICK x \in Calls : x = walk[b][i].x /\ Is(x, "room")
  BY RoutineFacts
<1>2. /\ walk[b][i].of # None /\ walk[b][i].of[1] = b
      /\ \A c \in stayed[x] : BucketOf(c) = b => room[c] = walk[b][i].of
  BY <1>1 DEF FoundOK
<1>3. \A c \in stayed'[x] : c \in stayed[x] /\ room'[c] = room[c]
  BY <1>1 DEF StayedInv, Addressed, Is, Mapped, BucketOf
<1>4. \A c \in stayed'[x] : BucketOf(c)' = b => room'[c] = walk[b][i].of
  BY <1>2, <1>3 DEF BucketOf
<1> QED  BY <1>1, <1>2, <1>4 DEF FoundOK

\* The routine that takes a request finds the room that the id leads to.
LEMMA TakeFound ==
  ASSUME Inv, NEW b \in Bs, NEW i \in Rs, Take(b, i)
  PROVE  FoundOK(b, i)' /\ \A d \in Bs, j \in Rs : d # b \/ j # i => walk'[d][j] = walk[d][j]
<1> DEFINE x == entered[b][i][done[b][i] + 1]
           o == Mapped(b, Requests[x].room)
<1>1. Types /\ RoutinesInv /\ StayedInv
  BY DEF Inv, CallsInv
<1>2. PICK m \in Room(b, Requests[x].room) :
        walk' = [walk EXCEPT ![b][i] = IF m = None THEN NoWalk
                                       ELSE [st |-> "found", x |-> x, of |-> m, rest |-> {}]]
  BY DEF Take
<1>3. UNCHANGED <<up, room, listens, moves, made, dropped, stayed>> /\ walk[b][i].st = "idle" /\ Queued(b, i) > 0
  BY DEF Take, clientVars
<1>4. x \in Calls /\ Is(x, "room")
  <2>1. done[b][i] + 1 \in 1..Len(entered[b][i])
    BY <1>1, <1>3, RoutineFacts DEF Queued
  <2> QED  BY <1>1, <2>1, RoutineFacts
<1>5. walk \in [Bs -> [Rs -> Walks]]
  BY <1>1 DEF Types
<1>6. /\ \A d \in Bs, j \in Rs : d # b \/ j # i => walk'[d][j] = walk[d][j]
      /\ walk'[b][i] = IF m = None THEN NoWalk ELSE [st |-> "found", x |-> x, of |-> m, rest |-> {}]
  <2> DEFINE w == IF m = None THEN NoWalk ELSE [st |-> "found", x |-> x, of |-> m, rest |-> {}]
  <2>1. walk' = [walk EXCEPT ![b][i] = w]
    BY <1>2
  <2> HIDE DEF w
  <2>2. (\A d \in Bs, j \in Rs : d # b \/ j # i => walk'[d][j] = walk[d][j]) /\ walk'[b][i] = w
    BY <1>5, <2>1
  <2> QED  BY <2>2 DEF w
<1>7. m # None => m = o /\ m[1] = b
  <2>1. o[1] = b
    BY DEF Mapped
  <2> HIDE DEF x
  <2>2. m # None => m = o
    BY <1>2 DEF Room
  <2> HIDE DEF o
  <2> QED  BY <2>1, <2>2
<1>8. \A c \in stayed[x] : BucketOf(c) = b => room[c] = o
  BY <1>1, <1>4 DEF StayedInv, Addressed, Is
<1>9. FoundOK(b, i)'
  <2> HIDE DEF x, o
  <2>1. CASE m = None
    BY <1>6, <2>1 DEF FoundOK, NoWalk
  <2>2. CASE m # None
    <3>1. walk'[b][i].of = m /\ walk'[b][i].x = x
      BY <1>6, <2>2
    <3>2. \A c \in stayed'[x] : BucketOf(c)' = b => room'[c] = m
      BY <1>3, <1>7, <1>8, <2>2 DEF BucketOf
    <3> QED  BY <1>7, <2>2, <3>1, <3>2 DEF FoundOK
  <2> QED  BY <2>1, <2>2
<1> QED  BY <1>6, <1>9

\* A routine that walks has found its room already.
LEMMA WalkFound ==
  ASSUME Types, NEW b \in Bs, NEW i \in Rs, NEW cs, walk[b][i] \in Walks,
         walk' = [walk EXCEPT ![b][i] = WalkOver(walk[b][i], cs)]
  PROVE  FoundOK(b, i)' /\ \A d \in Bs, j \in Rs : d # b \/ j # i => walk'[d][j] = walk[d][j]
<1>1. walk \in [Bs -> [Rs -> Walks]]
  BY DEF Types
<1>2. /\ walk'[b][i] = WalkOver(walk[b][i], cs)
      /\ \A d \in Bs, j \in Rs : d # b \/ j # i => walk'[d][j] = walk[d][j]
  BY <1>1
<1>3. WalkOver(walk[b][i], cs).st # "found"
  BY DEF WalkOver, NoWalk, Walks
<1> QED  BY <1>2, <1>3 DEF FoundOK

LEMMA FoundNext ==
  ASSUME Inv, FoundInv, [Next]_vars, Inv'
  PROVE  FoundInv'
<1>0. Types /\ RoutinesInv /\ StayedInv /\ StayedInv' /\ stayed \in [Calls -> SUBSET Conns]
  BY Typed DEF Inv, CallsInv
<1> DEFINE Same(b, i) == walk'[b][i] = walk[b][i]
           Fewer(x) == stayed'[x] \subseteq stayed[x]
           Still == UNCHANGED room \/ UNCHANGED made
<1>1. ASSUME NEW b \in Bs, NEW i \in Rs, Same(b, i), Still, \A x \in Calls : Fewer(x)
      PROVE  FoundOK(b, i)'
  <2>1. walk[b][i].st = "found" => walk[b][i].x \in Calls
    BY <1>0, RoutineFacts
  <2> QED  BY <1>0, <1>1, <2>1, FoundKept DEF FoundInv
<1>2. ASSUME UNCHANGED walk, Still, \A x \in Calls : Fewer(x) PROVE FoundInv'
  BY <1>1, <1>2 DEF FoundInv
<1>3. Stay => \A x \in Calls : Fewer(x)
  BY <1>0, Staying
<1>4. UNCHANGED stayed => \A x \in Calls : Fewer(x)
  OBVIOUS
<1>5. CASE UNCHANGED vars
  <2>1. UNCHANGED walk /\ UNCHANGED room /\ UNCHANGED stayed
    BY <1>5 DEF vars, routineVars, clientVars
  <2> QED  BY <1>2, <1>4, <2>1
<1>6. ASSUME NEW c \in Conns, Client(c) PROVE FoundInv'
  <2>1. UNCHANGED walk /\ UNCHANGED made /\ (Stay \/ UNCHANGED stayed)
    BY <1>6 DEF Client, Enter, Leave, Listen, Del, Ready, routineVars
  <2> QED  BY <1>2, <1>3, <1>4, <2>1
<1>7. ASSUME NEW b \in Bs, NEW r \in Rooms, DelRoom(b, r) PROVE FoundInv'
  <2>1. UNCHANGED walk /\ UNCHANGED room /\ Stay
    BY <1>7 DEF DelRoom, routineVars
  <2> QED  BY <1>2, <1>3, <2>1
<1>8. ASSUME NEW x \in Calls, Serve(x) PROVE FoundInv'
  <2>1. UNCHANGED walk /\ UNCHANGED room /\ UNCHANGED stayed
    BY <1>8 DEF Serve, Look, PushMsg, Number, Enqueue, Lock, Cast, routineVars, clientVars
  <2> QED  BY <1>2, <1>4, <2>1
<1>9. ASSUME NEW x \in Calls, Start(x) PROVE FoundInv'
  <2>1. /\ pc[x] = "new" /\ UNCHANGED <<walk, room>>
        /\ \A y \in Calls : y # x => stayed'[y] = stayed[y]
    BY <1>0, <1>9 DEF Start, routineVars, clientVars
  <2>2. ASSUME NEW b \in Bs, NEW i \in Rs PROVE FoundOK(b, i)'
    <3>1. walk[b][i].st = "found" => walk[b][i].x \in Calls /\ walk[b][i].x # x
      BY <1>0, <2>1, RoutineFacts DEF Past
    <3> QED  BY <1>0, <2>1, <3>1, FoundKept DEF FoundInv
  <2> QED  BY <2>2 DEF FoundInv
<1>10. ASSUME NEW b \in Bs, NEW i \in Rs, Roomproc(b, i) PROVE FoundInv'
  <2>1. UNCHANGED room /\ UNCHANGED stayed
    BY <1>10 DEF Roomproc, Take, BeginWalk, WalkStep, clientVars
  <2>2. FoundOK(b, i)' /\ \A d \in Bs, j \in Rs : d # b \/ j # i => walk'[d][j] = walk[d][j]
    <3>1. walk[b][i] \in Walks
      BY <1>0 DEF Types
    <3>2. CASE Take(b, i)
      BY <3>2, TakeFound
    <3>3. CASE BeginWalk(b, i)
      <4>1. walk' = [walk EXCEPT ![b][i] = WalkOver(walk[b][i], Members(walk[b][i].of))]
        BY <3>3 DEF BeginWalk
      <4> QED  BY <1>0, <3>1, <4>1, WalkFound
    <3>4. CASE WalkStep(b, i)
      <4>1. PICK c : walk' = [walk EXCEPT ![b][i] = WalkOver(@, AfterOffer(b, i, c))]
        BY <3>4 DEF WalkStep
      <4>2. walk' = [walk EXCEPT ![b][i] = WalkOver(walk[b][i], AfterOffer(b, i, c))]
        BY <1>0, <4>1 DEF Types
      <4> QED  BY <1>0, <3>1, <4>2, WalkFound
    <3> QED  BY <1>10, <3>2, <3>3, <3>4 DEF Roomproc
  <2>3. ASSUME NEW d \in Bs, NEW j \in Rs PROVE FoundOK(d, j)'
    BY <1>1, <1>4, <2>1, <2>2
  <2> QED  BY <2>3 DEF FoundInv
<1> QED  BY <1>5, <1>6, <1>7, <1>8, <1>9, <1>10 DEF Next, Call, Bs, Rs

-----------------------------------------------------------------------------

FullInv == Inv /\ PlaceInv /\ FoundInv

LEMMA InitFull == Init => FullInv
<1> SUFFICES ASSUME Init PROVE FullInv
  OBVIOUS
<1>1. Inv
  BY InitInv
<1>2. PlaceInv
  BY DEF Init, PlaceInv, PlaceOK
<1>3. FoundInv
  BY DEF Init, FoundInv, FoundOK, NoWalk, Bs, Rs
<1> QED  BY <1>1, <1>2, <1>3 DEF FullInv

LEMMA NextInv == FullInv /\ [Next]_vars => FullInv'
<1> SUFFICES ASSUME FullInv, [Next]_vars PROVE FullInv'
  OBVIOUS
<1>0. Inv /\ PlaceInv /\ FoundInv
  BY DEF FullInv
<1>1. ASSUME UNCHANGED vars PROVE Inv' /\ PlaceInv'
  <2>1. /\ UNCHANGED <<log, full, routineVars, callVars, stayed>>
        /\ UNCHANGED <<up, room, listens, behind, made, dropped>>
    BY <1>1 DEF vars, clientVars, channelVars
  <2>2. StayedInv' /\ PlaceInv'
    BY <1>0, <2>1 DEF Inv, CallsInv, StayedInv, Addressed, Mapped, PlaceInv, PlaceOK, BucketOf
  <2>3. Types
    BY <1>0 DEF Inv
  <2>4. Inv'
    BY <1>0, <2>1, <2>2, <2>3, Typed, ClientMoves
  <2> QED  BY <2>2, <2>4
<1>2. ASSUME NEW c \in Conns, Client(c) PROVE Inv' /\ PlaceInv'
  BY <1>0, <1>2, ClientInv
<1>3. ASSUME NEW b \in Bs, NEW r \in Rooms, DelRoom(b, r) PROVE Inv' /\ PlaceInv'
  BY <1>0, <1>3, DelRoomInv
<1>4. ASSUME UNCHANGED room PROVE PlaceInv'
  BY <1>0, <1>4 DEF PlaceInv, PlaceOK, BucketOf
<1>5. ASSUME NEW x \in Calls, Call(x) PROVE Inv' /\ PlaceInv'
  <2>1. UNCHANGED room
    BY <1>5 DEF Call, Serve, Start, Look, PushMsg, Number, Enqueue, Lock, Cast, clientVars
  <2>2. Inv'
    BY <1>0, <1>5, StartInv, LookInv, PushMsgInv, NumberInv, EnqueueInv, LockInv, CastInv DEF Call, Serve
  <2> QED  BY <1>4, <2>1, <2>2
<1>6. ASSUME NEW b \in Bs, NEW i \in Rs, Roomproc(b, i) PROVE Inv' /\ PlaceInv'
  <2>1. UNCHANGED room
    BY <1>6 DEF Roomproc, Take, BeginWalk, WalkStep, clientVars
  <2>2. Inv'
    BY <1>0, <1>6, TakeInv, BeginWalkInv, WalkStepInv DEF Roomproc
  <2> QED  BY <1>4, <2>1, <2>2
<1>7. Inv' /\ PlaceInv'
  <2>1. CASE \E c \in Conns : Client(c)
    BY <1>2, <2>1
  <2>2. CASE \E b \in Bs, r \in Rooms : DelRoom(b, r)
    BY <1>3, <2>2
  <2>3. CASE \E x \in Calls : Call(x)
    BY <1>5, <2>3
  <2>4. CASE \E b \in Bs, i \in Rs : Roomproc(b, i)
    BY <1>6, <2>4
  <2> QED  BY <1>1, <2>1, <2>2, <2>3, <2>4 DEF Next, Bs, Rs
<1>8. FoundInv'
  BY <1>0, <1>7, FoundNext
<1> QED  BY <1>7, <1>8 DEF FullInv

THEOREM Invariance == Spec => []Inv
<1>1. FullInv => Inv
  BY DEF FullInv
<1> QED  BY <1>1, InitFull, NextInv, PTL DEF Spec

\* The buffers of the channels and of the routines keep to their sizes
\* (channel.go:31, bucket.go:33).
THEOREM TypeCorrect == Spec => []TypeOK
<1>1. Inv => TypeOK
  BY DEF Inv, Types
<1> QED  BY <1>1, Invariance, PTL

\* The answer of PushMsg is true: whom it names and who stayed has the message,
\* or comes after the one that was full (server.go:59).
THEOREM AnswersAreTrue == Spec => []PushMsgAnswers
<1>1. Inv => PushMsgAnswers
  <2> SUFFICES ASSUME Inv, NEW x \in Calls, Requests[x].type = "keys"
               PROVE  /\ pc[x] = "ok" => \A c \in stayed[x] : Got(c, x)
                      /\ pc[x] = "full" =>
                            /\ full[x] = {reg[x]} /\ Key[reg[x]] = Of(x, at[x])
                            /\ \A c \in stayed[x], i \in 1..at[x]-1 : Of(x, i) = Key[c] => Got(c, x)
                            /\ \A c \in Conns : Got(c, x) => \E i \in 1..at[x]-1 : Of(x, i) = Key[c]
    BY DEF PushMsgAnswers
  <2>1. CallOK(x) /\ KeysOK(x)
    BY DEF Inv, CallsInv, CallInv, KeysInv
  <2> QED  BY <2>1 DEF CallOK, KeysOK, Behind, Is
<1> QED  BY <1>1, Invariance, PTL

\* A message to a room or to all comes to everyone who is there from the call on,
\* in a room that is not removed under them, once, and in the order of its
\* routine, or their channel was full (bucket.go:198, 205, 255, room.go:73).
THEOREM EveryoneIsServed == Spec => []EveryoneOnce
<1>1. Inv => EveryoneOnce
  <2> SUFFICES ASSUME Inv, NEW c \in Conns
               PROVE  /\ \A i, j \in 1..Len(log[c]) :
                            log[c][i] = log[c][j] /\ Requests[log[c][i]].type # "keys" => i = j
                      /\ \A x \in Calls :
                            /\ c \in stayed[x]
                            /\ \/ Requests[x].type = "room" /\ RoutineIsDone(x, BucketOf(c))
                               \/ Requests[x].type = "all" /\ pc[x] = "ok"
                            => Got(c, x) \/ c \in full[x]
                      /\ \A i \in 0..Routines-1, x, y \in Calls :
                            /\ Before(entered[BucketOf(c)][i], x, y)
                            /\ Got(c, x) /\ Got(c, y)
                            => Before(log[c], x, y)
    BY DEF EveryoneOnce
  <2>1. OnceInv /\ ServedInv /\ OrderInv
    BY DEF Inv, LogInv
  <2>2. \A i, j \in 1..Len(log[c]) :
            log[c][i] = log[c][j] /\ Requests[log[c][i]].type # "keys" => i = j
    BY <2>1 DEF OnceInv, Is
  <2>3. ASSUME NEW x \in Calls, c \in stayed[x],
               \/ Requests[x].type = "room" /\ RoutineIsDone(x, BucketOf(c))
               \/ Requests[x].type = "all" /\ pc[x] = "ok"
        PROVE  Got(c, x) \/ c \in full[x]
    <3>1. RoutineIsDone(x, BucketOf(c)) => Visited(c, x)
      BY DEF RoutineIsDone, Visited, VisitedBy, Rs
    <3>2. pc[x] = "ok" => Through(c, x)
      BY DEF Through
    <3> QED  BY <2>1, <2>3, <3>1, <3>2 DEF ServedInv, Reached, Is
  <2>4. \A i \in 0..Routines-1, x, y \in Calls :
            Before(entered[BucketOf(c)][i], x, y) /\ Got(c, x) /\ Got(c, y) => Before(log[c], x, y)
    BY <2>1 DEF OrderInv, Rs
  <2> QED  BY <2>2, <2>3, <2>4
<1> QED  BY <1>1, Invariance, PTL
=============================================================================
