--------------------------- MODULE Mapping_proofs ---------------------------
(***************************************************************************)
(* Invariants of Mapping, proved for any connections and tokens.           *)
(***************************************************************************)
EXTENDS Mapping, TLAPS

-----------------------------------------------------------------------------
(* The inductive invariant *)

\* What is left of a pipeline.
AddRest ==
    {<<"HSET", "EXPIRE_MID", "SET", "EXPIRE_KEY">>,
     <<"EXPIRE_MID", "SET", "EXPIRE_KEY">>, <<"SET", "EXPIRE_KEY">>,
     <<"EXPIRE_KEY">>, <<>>}

ExpireRest == {<<"EXPIRE_MID", "EXPIRE_KEY">>, <<"EXPIRE_KEY">>, <<>>}

DelRest == {<<"HDEL", "DEL">>, <<"DEL">>, <<>>}

\* The call of a connection: when it is made, and what is left of it.
CallInv ==
    \A c \in Conns :
        /\ doing[c]["call"] # "rest"
        /\ doing[c]["call"] = "connect" => conn[c] = "waiting"
        /\ doing[c]["call"] \in {"expire", "add", "disconnect"} => conn[c] = "up"
        /\ doing[c]["call"] \in {"connect", "add"} => pipe[c]["call"] \in AddRest
        /\ doing[c]["call"] = "expire" => pipe[c]["call"] \in ExpireRest
        /\ doing[c]["call"] = "disconnect" => pipe[c]["call"] \in DelRest

\* Only a failed call strays.
StrayInv == \A c \in Conns : doing[c]["stray"] # "idle" => c \in broken

\* A connection that has deleted its entries, and had no failed call.
KeyDone(c) ==
    /\ c \notin broken
    /\ conn[c] = "gone" \/ (doing[c]["call"] = "disconnect" /\ pipe[c]["call"] = <<>>)

MidDone(c) ==
    /\ c \notin broken
    /\ conn[c] = "gone"
          \/ (doing[c]["call"] = "disconnect" /\ pipe[c]["call"] # <<"HDEL", "DEL">>)

KeyOwner(c, k) == Key(c) = k /\ Server[c] = keys[k] /\ ~KeyDone(c)

MidOwner(c, m, k) ==
    Mid(c) = m /\ Key(c) = k /\ Server[c] = mids[m][k] /\ ~MidDone(c)

KeysOwned == \A k \in Keys : keys[k] # None => \E c \in Conns : KeyOwner(c, k)

MidsOwned ==
    \A m \in Mids, k \in Keys :
        mids[m][k] # None => \E c \in Conns : MidOwner(c, m, k)

Inv == TypeOK /\ CallInv /\ StrayInv /\ KeysOwned /\ MidsOwned /\ EntriesExpire

-----------------------------------------------------------------------------
(* Pipelines *)

LEMMA AddTails ==
    ASSUME NEW p \in AddRest, p # <<>>
    PROVE  /\ Tail(p) \in AddRest
           /\ Head(p) \in {"HSET", "EXPIRE_MID", "SET", "EXPIRE_KEY"}
           /\ Head(p) = "HSET" => \E i \in 1..Len(Tail(p)) : Tail(p)[i] = "EXPIRE_MID"
           /\ Head(p) = "SET" => \E i \in 1..Len(Tail(p)) : Tail(p)[i] = "EXPIRE_KEY"
<1>1. CASE p = <<"HSET", "EXPIRE_MID", "SET", "EXPIRE_KEY">>
  <2>1. Tail(p) = <<"EXPIRE_MID", "SET", "EXPIRE_KEY">> /\ Head(p) = "HSET"
    BY <1>1
  <2>2. /\ <<"EXPIRE_MID", "SET", "EXPIRE_KEY">>[1] = "EXPIRE_MID"
        /\ 1 \in 1..Len(<<"EXPIRE_MID", "SET", "EXPIRE_KEY">>)
    OBVIOUS
  <2>3. \E i \in 1..Len(Tail(p)) : Tail(p)[i] = "EXPIRE_MID"
    BY <2>1, <2>2, Zenon
  <2> QED BY <2>1, <2>3 DEF AddRest
<1>2. CASE p = <<"EXPIRE_MID", "SET", "EXPIRE_KEY">>
  <2>1. Tail(p) = <<"SET", "EXPIRE_KEY">> /\ Head(p) = "EXPIRE_MID"
    BY <1>2
  <2> QED BY <2>1 DEF AddRest
<1>3. CASE p = <<"SET", "EXPIRE_KEY">>
  <2>1. Tail(p) = <<"EXPIRE_KEY">> /\ Head(p) = "SET"
    BY <1>3
  <2>2. /\ <<"EXPIRE_KEY">>[1] = "EXPIRE_KEY"
        /\ 1 \in 1..Len(<<"EXPIRE_KEY">>)
    OBVIOUS
  <2>3. \E i \in 1..Len(Tail(p)) : Tail(p)[i] = "EXPIRE_KEY"
    BY <2>1, <2>2, Zenon
  <2> QED BY <2>1, <2>3 DEF AddRest
<1>4. CASE p = <<"EXPIRE_KEY">>
  <2>1. Tail(p) = <<>> /\ Head(p) = "EXPIRE_KEY"
    BY <1>4
  <2> QED BY <2>1 DEF AddRest
<1> QED BY <1>1, <1>2, <1>3, <1>4 DEF AddRest

LEMMA ExpireTails ==
    ASSUME NEW p \in ExpireRest, p # <<>>
    PROVE  Tail(p) \in ExpireRest /\ Head(p) \in {"EXPIRE_MID", "EXPIRE_KEY"}
<1>1. CASE p = <<"EXPIRE_MID", "EXPIRE_KEY">>
  <2>1. Tail(p) = <<"EXPIRE_KEY">> /\ Head(p) = "EXPIRE_MID"
    BY <1>1
  <2> QED BY <2>1 DEF ExpireRest
<1>2. CASE p = <<"EXPIRE_KEY">>
  <2>1. Tail(p) = <<>> /\ Head(p) = "EXPIRE_KEY"
    BY <1>2
  <2> QED BY <2>1 DEF ExpireRest
<1> QED BY <1>1, <1>2 DEF ExpireRest

LEMMA DelTails ==
    ASSUME NEW p \in DelRest, p # <<>>
    PROVE  /\ Tail(p) \in DelRest /\ Head(p) \in {"HDEL", "DEL"}
           /\ Head(p) = "HDEL" => p = <<"HDEL", "DEL">>
           /\ Head(p) = "DEL" => p # <<"HDEL", "DEL">> /\ Tail(p) = <<>>
           /\ Tail(p) # <<"HDEL", "DEL">>
           /\ Head(p) = "HDEL" => Tail(p) # <<>>
<1>1. CASE p = <<"HDEL", "DEL">>
  <2>1. Tail(p) = <<"DEL">> /\ Head(p) = "HDEL"
    BY <1>1
  <2>2. <<"DEL">> # <<"HDEL", "DEL">> /\ <<"DEL">> # <<>>
    OBVIOUS
  <2> QED BY <1>1, <2>1, <2>2 DEF DelRest
<1>2. CASE p = <<"DEL">>
  <2>1. Tail(p) = <<>> /\ Head(p) = "DEL"
    BY <1>2
  <2>2. <<"DEL">> # <<"HDEL", "DEL">> /\ <<>> # <<"HDEL", "DEL">>
    OBVIOUS
  <2> QED BY <1>2, <2>1, <2>2 DEF DelRest
<1> QED BY <1>1, <1>2 DEF DelRest

\* A command that was not the first is still to come.
LEMMA StillComing ==
    ASSUME NEW S, NEW p \in Seq(S), p # <<>>, NEW x, Head(p) # x,
           \E i \in 1..Len(p) : p[i] = x
    PROVE  \E i \in 1..Len(Tail(p)) : Tail(p)[i] = x
<1>1. PICK i \in 1..Len(p) : p[i] = x
  OBVIOUS
<1>2. Len(p) \in Nat /\ p[1] # x
  OBVIOUS
<1>3. i # 1
  BY <1>1, <1>2
<1>4. i - 1 \in 1..Len(Tail(p)) /\ Tail(p)[i - 1] = p[i]
  BY <1>1, <1>2, <1>3
<1> QED BY <1>1, <1>4

LEMMA RestsAreCommands ==
    AddRest \cup ExpireRest \cup DelRest \subseteq Seq(Commands)
<1>1. AddRest \subseteq Seq(Commands)
  BY DEF AddRest, Commands
<1>2. ExpireRest \subseteq Seq(Commands)
  BY DEF ExpireRest, Commands
<1>3. DelRest \subseteq Seq(Commands)
  BY DEF DelRest, Commands
<1> QED BY <1>1, <1>2, <1>3

LEMMA PipesAreRests ==
    ASSUME NEW c
    PROVE  /\ AddMapping(c) \in AddRest /\ AddMapping(c) # <<>>
           /\ ExpireMapping(c) \in ExpireRest
           /\ DelMapping(c) \in DelRest /\ DelMapping(c) # <<>>
           /\ Mid(c) # None => DelMapping(c) = <<"HDEL", "DEL">>
<1>1. AddMapping(c) \in AddRest /\ AddMapping(c) # <<>>
  BY DEF AddMapping, AddRest
<1>2. ExpireMapping(c) \in ExpireRest
  BY DEF ExpireMapping, ExpireRest
<1>3. DelMapping(c) \in DelRest /\ DelMapping(c) # <<>>
  BY DEF DelMapping, DelRest
<1>4. Mid(c) # None => DelMapping(c) = <<"HDEL", "DEL">>
  BY DEF DelMapping
<1> QED BY <1>1, <1>2, <1>3, <1>4

-----------------------------------------------------------------------------
(* What the actions have in common *)

Doings == {"idle", "connect", "expire", "add", "disconnect", "rest"}

Phases == {"new", "waiting", "up", "lost", "gone"}

\* A call begins or ends: no other lane changes.
LEMMA BeginFacts ==
    ASSUME TypeOK, NEW c \in Conns, NEW l \in Lanes, NEW what \in Doings,
           NEW commands \in Seq(Commands), what = "idle" => commands = <<>>,
           Begin(c, l, what, commands), conn' \in [Conns -> Phases]
    PROVE  /\ TypeOK'
           /\ doing[c][l]' = what /\ pipe[c][l]' = commands
           /\ \A d \in Conns, k \in Lanes :
                d # c \/ k # l => doing[d][k]' = doing[d][k] /\ pipe[d][k]' = pipe[d][k]
<1>0. \A d \in Conns, k \in Lanes : doing[d][k] = "idle" => pipe[d][k] = <<>>
  BY DEF TypeOK
<1>1. /\ doing \in [Conns -> [Lanes -> Doings]] /\ pipe \in [Conns -> [Lanes -> Seq(Commands)]]
      /\ has \in [Conns -> [Lanes -> BOOLEAN]]
  BY DEF TypeOK, Doings
<1>2. /\ doing' = [doing EXCEPT ![c][l] = what]
      /\ pipe' = [pipe EXCEPT ![c][l] = commands]
      /\ has' = [has EXCEPT ![c][l] = FALSE]
      /\ UNCHANGED <<token, keys, keyTtl, mids, midTtl, broken>>
  BY DEF Begin, redisVars
<1>3. /\ doing' \in [Conns -> [Lanes -> Doings]] /\ pipe' \in [Conns -> [Lanes -> Seq(Commands)]]
      /\ has' \in [Conns -> [Lanes -> BOOLEAN]]
  BY <1>1, <1>2
<1>4. doing[c][l]' = what /\ pipe[c][l]' = commands
  BY <1>1, <1>2
<1>5. \A d \in Conns, k \in Lanes :
        d # c \/ k # l => doing[d][k]' = doing[d][k] /\ pipe[d][k]' = pipe[d][k]
  BY <1>1, <1>2
<1>6. ASSUME NEW d \in Conns, NEW k \in Lanes, doing[d][k]' = "idle"
      PROVE  pipe[d][k]' = <<>>
  <2>1. CASE d = c /\ k = l
    <3>1. what = "idle"
      BY <1>4, <1>6, <2>1
    <3> QED BY <1>4, <2>1, <3>1
  <2>2. CASE d # c \/ k # l
    <3>1. doing[d][k] = "idle" /\ pipe[d][k]' = pipe[d][k]
      BY <1>5, <1>6, <2>2
    <3>2. pipe[d][k] = <<>>
      BY <1>0, <3>1
    <3> QED BY <3>1, <3>2
  <2> QED BY <2>1, <2>2
<1>7. TypeOK'
  BY <1>2, <1>3, <1>6 DEF TypeOK, Doings, Phases
<1> QED BY <1>4, <1>5, <1>7

\* Nothing is deleted and no connection becomes done: what was owned, is.
LEMMA OwnersStay ==
    ASSUME KeysOwned, MidsOwned, UNCHANGED <<token, keys, mids>>,
           \A d \in Conns : (KeyDone(d)' => KeyDone(d)) /\ (MidDone(d)' => MidDone(d) \/ Mid(d) = None)
    PROVE  KeysOwned' /\ MidsOwned'
<1>1. \A d \in Conns, k \in Keys : KeyOwner(d, k) => KeyOwner(d, k)'
  BY DEF KeyOwner, Key
<1>2. \A d \in Conns, m \in Mids, k \in Keys : MidOwner(d, m, k) => MidOwner(d, m, k)'
  BY MappingAssumption DEF MidOwner, Key, Mid
<1>3. KeysOwned'
  BY <1>1 DEF KeysOwned
<1>4. MidsOwned'
  BY <1>2 DEF MidsOwned
<1> QED BY <1>3, <1>4

\* No command that was to come is forgotten, unless the connection is broken.
LEMMA ExpiryStays ==
    ASSUME EntriesExpire, UNCHANGED <<token, redisVars>>,
           \A d \in Conns : d \in broken => d \in broken',
           \A d \in Conns, l \in Lanes, x \in Commands :
               Coming(d, l, x) => Coming(d, l, x)' \/ d \in broken'
    PROVE  EntriesExpire'
<1>1. UNCHANGED <<keys, keyTtl, mids, midTtl, token>>
  BY DEF redisVars
<1>2. "EXPIRE_KEY" \in Commands /\ "EXPIRE_MID" \in Commands
  BY DEF Commands
<1>3. \A m \in Mids : MidExists(m)' <=> MidExists(m)
  BY <1>1 DEF MidExists
<1>4. \A d \in Conns : Key(d)' = Key(d) /\ Mid(d)' = Mid(d)
  BY <1>1 DEF Key, Mid
<1>5. ASSUME NEW k \in Keys, keys'[k] # None, ~keyTtl'[k]
      PROVE  \E d \in Conns, l \in Lanes :
                Key(d)' = k /\ (Coming(d, l, "EXPIRE_KEY")' \/ d \in broken')
  <2>1. PICK d \in Conns, l \in Lanes :
            Key(d) = k /\ (Coming(d, l, "EXPIRE_KEY") \/ d \in broken)
    BY <1>1, <1>5 DEF EntriesExpire
  <2> QED BY <2>1, <1>2, <1>4
<1>6. ASSUME NEW m \in Mids, MidExists(m)', ~midTtl'[m]
      PROVE  \E d \in Conns, l \in Lanes :
                Mid(d)' = m /\ (Coming(d, l, "EXPIRE_MID")' \/ d \in broken')
  <2>1. PICK d \in Conns, l \in Lanes :
            Mid(d) = m /\ (Coming(d, l, "EXPIRE_MID") \/ d \in broken)
    BY <1>1, <1>3, <1>6 DEF EntriesExpire
  <2> QED BY <2>1, <1>2, <1>4
<1> QED BY <1>5, <1>6 DEF EntriesExpire

-----------------------------------------------------------------------------
(* Commands *)

\* A command leaves its lane; the rest of the call is as before.
LEMMA ExecFacts ==
    ASSUME TypeOK, NEW c \in Conns, NEW l \in Lanes, Exec(c, l)
    PROVE  /\ pipe' \in [Conns -> [Lanes -> Seq(Commands)]]
           /\ pipe[c][l] # <<>> /\ pipe[c][l]' = Tail(pipe[c][l])
           /\ \A d \in Conns, k \in Lanes : d # c \/ k # l => pipe[d][k]' = pipe[d][k]
           /\ \A d \in Conns, k \in Lanes : doing[d][k] = "idle" => pipe[d][k]' = <<>>
           /\ UNCHANGED <<token, conn, doing, broken>>
           /\ \A d \in Conns, k \in Lanes, x \in Commands :
                Coming(d, k, x) => \/ Coming(d, k, x)'
                                   \/ d = c /\ k = l /\ Head(pipe[c][l]) = x
<1>1. pipe \in [Conns -> [Lanes -> Seq(Commands)]]
  BY DEF TypeOK
<1>2. /\ pipe[c][l] # <<>> /\ pipe' = [pipe EXCEPT ![c][l] = Tail(@)]
      /\ UNCHANGED <<conn, doing, broken>>
  BY DEF Exec
<1>3. UNCHANGED token
  BY DEF Exec, HSet, ExpireMid, Set, ExpireKey, HDel, DelKey
<1>4. pipe[c][l] \in Seq(Commands) /\ Tail(pipe[c][l]) \in Seq(Commands)
  BY <1>1, <1>2
<1>5. pipe' \in [Conns -> [Lanes -> Seq(Commands)]] /\ pipe[c][l]' = Tail(pipe[c][l])
  BY <1>1, <1>2, <1>4
<1>6. \A d \in Conns, k \in Lanes : d # c \/ k # l => pipe[d][k]' = pipe[d][k]
  BY <1>1, <1>2
<1>7. \A d \in Conns, k \in Lanes : doing[d][k] = "idle" => pipe[d][k]' = <<>>
  BY <1>2, <1>6 DEF TypeOK
<1>8. ASSUME NEW d \in Conns, NEW k \in Lanes, NEW x \in Commands, Coming(d, k, x)
      PROVE  Coming(d, k, x)' \/ (d = c /\ k = l /\ Head(pipe[c][l]) = x)
  <2>1. CASE d # c \/ k # l
    BY <2>1, <1>6, <1>8 DEF Coming
  <2>2. CASE d = c /\ k = l /\ Head(pipe[c][l]) # x
    <3>1. \E i \in 1..Len(pipe[c][l]) : pipe[c][l][i] = x
      BY <1>8, <2>2 DEF Coming
    <3>2. \E i \in 1..Len(Tail(pipe[c][l])) : Tail(pipe[c][l])[i] = x
      BY <1>2, <1>4, <2>2, <3>1, StillComing
    <3> QED BY <1>5, <2>2, <3>2 DEF Coming
  <2> QED BY <2>1, <2>2
<1> QED BY <1>2, <1>3, <1>5, <1>6, <1>7, <1>8

LEMMA ExecCalls ==
    ASSUME Inv, NEW c \in Conns, NEW l \in Lanes, Exec(c, l)
    PROVE  CallInv' /\ StrayInv'
<1>1. /\ pipe[c][l] # <<>> /\ pipe[c][l]' = Tail(pipe[c][l])
      /\ \A d \in Conns, k \in Lanes : d # c \/ k # l => pipe[d][k]' = pipe[d][k]
      /\ UNCHANGED <<conn, doing, broken>>
  BY ExecFacts DEF Inv
<1>2. StrayInv'
  BY <1>1 DEF Inv, StrayInv
<1>3. "call" \in Lanes
  BY DEF Lanes
<1>4. \A d \in Conns : pipe[d]["call"]' = pipe[d]["call"]
        \/ (d = c /\ l = "call" /\ pipe[d]["call"] # <<>> /\ pipe[d]["call"]' = Tail(pipe[d]["call"]))
  BY <1>1, <1>3
<1>5. ASSUME NEW d \in Conns
      PROVE  /\ doing[d]["call"] \in {"connect", "add"} => pipe[d]["call"]' \in AddRest
             /\ doing[d]["call"] = "expire" => pipe[d]["call"]' \in ExpireRest
             /\ doing[d]["call"] = "disconnect" => pipe[d]["call"]' \in DelRest
  <2>1. /\ doing[d]["call"] \in {"connect", "add"} => pipe[d]["call"] \in AddRest
        /\ doing[d]["call"] = "expire" => pipe[d]["call"] \in ExpireRest
        /\ doing[d]["call"] = "disconnect" => pipe[d]["call"] \in DelRest
    BY DEF Inv, CallInv
  <2>2. pipe[d]["call"] # <<>> /\ pipe[d]["call"] \in AddRest => Tail(pipe[d]["call"]) \in AddRest
    BY AddTails
  <2>3. pipe[d]["call"] # <<>> /\ pipe[d]["call"] \in ExpireRest => Tail(pipe[d]["call"]) \in ExpireRest
    BY ExpireTails
  <2>4. pipe[d]["call"] # <<>> /\ pipe[d]["call"] \in DelRest => Tail(pipe[d]["call"]) \in DelRest
    BY DelTails
  <2> QED BY <1>4, <2>1, <2>2, <2>3, <2>4
<1> QED BY <1>1, <1>2, <1>5 DEF Inv, CallInv

\* What a call is, by the command it is about to run.
LEMMA ExecKinds ==
    ASSUME Inv, NEW c \in Conns, NEW l \in Lanes, Exec(c, l)
    PROVE  /\ Head(pipe[c][l]) \in {"SET", "HSET"} =>
                c \in broken \/ (~KeyDone(c)' /\ ~MidDone(c)')
           /\ Head(pipe[c][l]) = "SET" => c \in broken \/ Coming(c, l, "EXPIRE_KEY")'
           /\ Head(pipe[c][l]) = "HSET" => c \in broken \/ Coming(c, l, "EXPIRE_MID")'
           /\ \A d \in Conns :
                /\ KeyDone(d)' => KeyDone(d) \/ (d = c /\ Head(pipe[c][l]) = "DEL")
                /\ MidDone(d)' => MidDone(d) \/ (d = c /\ Head(pipe[c][l]) = "HDEL")
<1>1. /\ pipe[c][l] # <<>> /\ pipe[c][l]' = Tail(pipe[c][l])
      /\ \A d \in Conns, k \in Lanes : d # c \/ k # l => pipe[d][k]' = pipe[d][k]
      /\ UNCHANGED <<token, conn, doing, broken>>
  BY ExecFacts DEF Inv
<1>2. l \in {"call", "stray"} /\ "call" \in Lanes /\ "stray" \in Lanes
  BY DEF Lanes
<1>3. doing[c][l] # "idle"
  BY <1>1 DEF Inv, TypeOK
<1>4. l = "stray" => c \in broken
  BY <1>3 DEF Inv, StrayInv
<1>5. ASSUME NEW d \in Conns, d # c \/ l = "stray"
      PROVE  (KeyDone(d)' => KeyDone(d)) /\ (MidDone(d)' => MidDone(d))
  <2>1. pipe[d]["call"]' = pipe[d]["call"]
    BY <1>1, <1>2, <1>5
  <2> QED BY <1>1, <2>1 DEF KeyDone, MidDone
<1>6. CASE l = "stray"
  BY <1>4, <1>5, <1>6 DEF KeyDone, MidDone
<1>7. CASE l = "call"
  <2>1. doing[c]["call"] \in {"connect", "add", "expire", "disconnect"}
    BY <1>3, <1>7 DEF Inv, TypeOK, CallInv, Lanes
  <2>2. CASE doing[c]["call"] \in {"connect", "add"}
    <3>1. pipe[c]["call"] \in AddRest /\ conn[c] \in {"waiting", "up"}
      BY <2>2 DEF Inv, CallInv
    <3>2. /\ Head(pipe[c][l]) \in {"HSET", "EXPIRE_MID", "SET", "EXPIRE_KEY"}
          /\ Head(pipe[c][l]) = "HSET" => Coming(c, l, "EXPIRE_MID")'
          /\ Head(pipe[c][l]) = "SET" => Coming(c, l, "EXPIRE_KEY")'
      BY <1>1, <1>7, <3>1, AddTails DEF Coming
    <3>3. ~KeyDone(c)' /\ ~MidDone(c)'
      BY <1>1, <2>2, <3>1 DEF KeyDone, MidDone
    <3> QED BY <1>5, <3>2, <3>3
  <2>3. CASE doing[c]["call"] = "expire"
    <3>1. pipe[c]["call"] \in ExpireRest /\ conn[c] = "up"
      BY <2>3 DEF Inv, CallInv
    <3>2. Head(pipe[c][l]) \in {"EXPIRE_MID", "EXPIRE_KEY"}
      BY <1>1, <1>7, <3>1, ExpireTails
    <3>3. ~KeyDone(c)' /\ ~MidDone(c)'
      BY <1>1, <2>3, <3>1 DEF KeyDone, MidDone
    <3> QED BY <1>5, <3>2, <3>3
  <2>4. CASE doing[c]["call"] = "disconnect"
    <3>1. pipe[c]["call"] \in DelRest /\ pipe[c]["call"] # <<>> /\ conn[c] = "up"
      BY <1>1, <1>7, <2>4 DEF Inv, CallInv
    <3>2. /\ Head(pipe[c]["call"]) \in {"HDEL", "DEL"}
          /\ Head(pipe[c]["call"]) = "HDEL" => Tail(pipe[c]["call"]) # <<>>
          /\ Head(pipe[c]["call"]) = "DEL" => pipe[c]["call"] # <<"HDEL", "DEL">>
      BY <3>1, DelTails
    <3>3. KeyDone(c)' => Head(pipe[c][l]) = "DEL"
      BY <1>1, <1>7, <3>1, <3>2 DEF KeyDone
    <3>4. MidDone(c)' => MidDone(c) \/ Head(pipe[c][l]) = "HDEL"
      BY <1>1, <1>7, <2>4, <3>1, <3>2 DEF MidDone
    <3> QED BY <1>5, <1>7, <3>2, <3>3, <3>4
  <2> QED BY <2>1, <2>2, <2>3, <2>4
<1> QED BY <1>2, <1>6, <1>7

LEMMA ExecType ==
    ASSUME TypeOK, NEW c \in Conns, NEW l \in Lanes, Exec(c, l)
    PROVE  TypeOK'
<1>1. /\ pipe' \in [Conns -> [Lanes -> Seq(Commands)]]
      /\ \A d \in Conns, k \in Lanes : doing[d][k] = "idle" => pipe[d][k]' = <<>>
      /\ UNCHANGED <<token, conn, doing, broken>>
  BY ExecFacts
<1>2. Server[c] \in Servers
  BY MappingAssumption
<1>3. /\ has' \in [Conns -> [Lanes -> BOOLEAN]]
      /\ keys' \in [Keys -> Servers \cup {None}]
      /\ keyTtl' \in [Keys -> BOOLEAN]
      /\ mids' \in [Mids -> [Keys -> Servers \cup {None}]]
      /\ midTtl' \in [Mids -> BOOLEAN]
  <2> /\ has \in [Conns -> [Lanes -> BOOLEAN]]
      /\ keys \in [Keys -> Servers \cup {None}]
      /\ keyTtl \in [Keys -> BOOLEAN]
      /\ mids \in [Mids -> [Keys -> Servers \cup {None}]]
      /\ midTtl \in [Mids -> BOOLEAN]
    BY DEF TypeOK
  <2>1. CASE HSet(c)
    BY <1>2, <2>1 DEF HSet
  <2>2. CASE ExpireMid(c, l)
    <3>1. MidExists(Mid(c)) \in BOOLEAN
      BY DEF MidExists
    <3> QED BY <2>2, <3>1 DEF ExpireMid
  <2>3. CASE Set(c)
    BY <1>2, <2>3 DEF Set
  <2>4. CASE ExpireKey(c, l)
    BY <2>4 DEF ExpireKey
  <2>5. CASE HDel(c)
    BY <2>5 DEF HDel
  <2>6. CASE DelKey(c)
    BY <2>6 DEF DelKey
  <2> QED BY <2>1, <2>2, <2>3, <2>4, <2>5, <2>6 DEF Exec
<1> QED BY <1>1, <1>3 DEF TypeOK

LEMMA ExecOwned ==
    ASSUME Inv, NEW c \in Conns, NEW l \in Lanes, Exec(c, l)
    PROVE  KeysOwned' /\ MidsOwned'
<1>1. UNCHANGED token
  BY ExecFacts DEF Inv
<1>2. /\ Head(pipe[c][l]) \in {"SET", "HSET"} =>
            c \in broken \/ (~KeyDone(c)' /\ ~MidDone(c)')
      /\ \A d \in Conns :
            /\ KeyDone(d)' => KeyDone(d) \/ (d = c /\ Head(pipe[c][l]) = "DEL")
            /\ MidDone(d)' => MidDone(d) \/ (d = c /\ Head(pipe[c][l]) = "HDEL")
  BY ExecKinds
<1>3. c \in broken => ~KeyDone(c)' /\ ~MidDone(c)'
  BY ExecFacts DEF KeyDone, MidDone, Inv
<1>4. \A d \in Conns : Key(d)' = Key(d) /\ Mid(d)' = Mid(d)
  BY <1>1 DEF Key, Mid
<1>5. keys \in [Keys -> Servers \cup {None}] /\ mids \in [Mids -> [Keys -> Servers \cup {None}]]
  BY DEF Inv, TypeOK
<1>6. ASSUME NEW k \in Keys, keys'[k] # None
      PROVE  \E d \in Conns : KeyOwner(d, k)'
  <2>1. CASE Head(pipe[c][l]) = "SET" /\ k = Key(c)
    <3>1. keys'[k] = Server[c]
      BY <1>5, <2>1 DEF Exec, Set
    <3>2. KeyOwner(c, k)'
      BY <1>2, <1>3, <1>4, <2>1, <3>1 DEF KeyOwner
    <3> QED BY <3>2
  <2>2. CASE ~(Head(pipe[c][l]) = "SET" /\ k = Key(c))
    <3>1. keys'[k] = keys[k] /\ (Head(pipe[c][l]) = "DEL" => k # Key(c))
      BY <1>5, <1>6, <2>2 DEF Exec, HSet, ExpireMid, Set, ExpireKey, HDel, DelKey
    <3>2. PICK d \in Conns : KeyOwner(d, k)
      BY <1>6, <3>1 DEF Inv, KeysOwned
    <3>3. KeyOwner(d, k)'
      BY <1>2, <1>4, <3>1, <3>2 DEF KeyOwner
    <3> QED BY <3>3
  <2> QED BY <2>1, <2>2
<1>7. ASSUME NEW m \in Mids, NEW k \in Keys, mids'[m][k] # None
      PROVE  \E d \in Conns : MidOwner(d, m, k)'
  <2>1. CASE Head(pipe[c][l]) = "HSET" /\ m = Mid(c) /\ k = Key(c)
    <3>1. mids'[m][k] = Server[c]
      BY <1>5, <2>1 DEF Exec, HSet
    <3>2. MidOwner(c, m, k)'
      BY <1>2, <1>3, <1>4, <2>1, <3>1 DEF MidOwner
    <3> QED BY <3>2
  <2>2. CASE ~(Head(pipe[c][l]) = "HSET" /\ m = Mid(c) /\ k = Key(c))
    <3>1. /\ mids'[m][k] = mids[m][k]
          /\ Head(pipe[c][l]) = "HDEL" => ~(m = Mid(c) /\ k = Key(c))
      BY <1>5, <1>7, <2>2 DEF Exec, HSet, ExpireMid, Set, ExpireKey, HDel, DelKey
    <3>2. PICK d \in Conns : MidOwner(d, m, k)
      BY <1>7, <3>1 DEF Inv, MidsOwned
    <3>3. MidOwner(d, m, k)'
      BY <1>2, <1>4, <3>1, <3>2 DEF MidOwner
    <3> QED BY <3>3
  <2> QED BY <2>1, <2>2
<1>8. KeysOwned'
  BY <1>6 DEF KeysOwned
<1>9. MidsOwned'
  BY <1>7 DEF MidsOwned
<1> QED BY <1>8, <1>9

LEMMA ExecExpire ==
    ASSUME Inv, NEW c \in Conns, NEW l \in Lanes, Exec(c, l)
    PROVE  EntriesExpire'
<1>1. /\ UNCHANGED <<token, broken>>
      /\ \A d \in Conns, k \in Lanes, x \in Commands :
            Coming(d, k, x) => Coming(d, k, x)' \/ (d = c /\ k = l /\ Head(pipe[c][l]) = x)
  BY ExecFacts DEF Inv
<1>2. /\ Head(pipe[c][l]) = "SET" => c \in broken \/ Coming(c, l, "EXPIRE_KEY")'
      /\ Head(pipe[c][l]) = "HSET" => c \in broken \/ Coming(c, l, "EXPIRE_MID")'
  BY ExecKinds
<1>3. \A d \in Conns : Key(d)' = Key(d) /\ Mid(d)' = Mid(d)
  BY <1>1 DEF Key, Mid
<1>4. /\ keys \in [Keys -> Servers \cup {None}] /\ keyTtl \in [Keys -> BOOLEAN]
      /\ mids \in [Mids -> [Keys -> Servers \cup {None}]] /\ midTtl \in [Mids -> BOOLEAN]
  BY DEF Inv, TypeOK
<1>5. "EXPIRE_KEY" \in Commands /\ "EXPIRE_MID" \in Commands
  BY DEF Commands
<1>6. ASSUME NEW k \in Keys, keys'[k] # None, ~keyTtl'[k]
      PROVE  \E d \in Conns, j \in Lanes :
                Key(d)' = k /\ (Coming(d, j, "EXPIRE_KEY")' \/ d \in broken')
  <2>1. CASE Head(pipe[c][l]) = "SET" /\ k = Key(c)
    BY <1>1, <1>2, <1>3, <2>1
  <2>2. CASE ~(Head(pipe[c][l]) = "SET" /\ k = Key(c))
    <3>1. /\ keys[k] # None /\ ~keyTtl[k]
          /\ ~(Head(pipe[c][l]) = "EXPIRE_KEY" /\ k = Key(c))
      BY <1>4, <1>6, <2>2 DEF Exec, HSet, ExpireMid, Set, ExpireKey, HDel, DelKey
    <3>2. PICK d \in Conns, j \in Lanes :
              Key(d) = k /\ (Coming(d, j, "EXPIRE_KEY") \/ d \in broken)
      BY <3>1 DEF Inv, EntriesExpire
    <3> QED BY <1>1, <1>3, <1>5, <3>1, <3>2
  <2> QED BY <2>1, <2>2
<1>7. ASSUME NEW m \in Mids, MidExists(m)', ~midTtl'[m]
      PROVE  \E d \in Conns, j \in Lanes :
                Mid(d)' = m /\ (Coming(d, j, "EXPIRE_MID")' \/ d \in broken')
  <2>1. CASE Head(pipe[c][l]) = "HSET" /\ m = Mid(c)
    BY <1>1, <1>2, <1>3, <2>1
  <2>2. CASE ~(Head(pipe[c][l]) = "HSET" /\ m = Mid(c))
    <3>0. PICK k \in Keys : mids'[m][k] # None
      BY <1>7 DEF MidExists
    <3>1. mids[m][k] # None /\ (Head(pipe[c][l]) = "HDEL" /\ m = Mid(c) => k # Key(c))
      BY <1>4, <2>2, <3>0 DEF Exec, HSet, ExpireMid, Set, ExpireKey, HDel, DelKey
    <3>2. MidExists(m)
      BY <3>1 DEF MidExists
    <3>3. ~midTtl[m] /\ ~(Head(pipe[c][l]) = "EXPIRE_MID" /\ m = Mid(c))
      <4>1. CASE Head(pipe[c][l]) = "HDEL" /\ m = Mid(c)
        <5>1. midTtl'[m] = (midTtl[m] /\ \E j \in Keys \ {Key(c)} : mids[m][j] # None)
          BY <1>4, <4>1 DEF Exec, HDel
        <5>2. \E j \in Keys \ {Key(c)} : mids[m][j] # None
          BY <3>1, <4>1
        <5> QED BY <1>7, <4>1, <5>1, <5>2
      <4>2. CASE Head(pipe[c][l]) = "EXPIRE_MID" /\ m = Mid(c)
        <5>1. midTtl'[m] = MidExists(m)
          BY <1>4, <4>2 DEF Exec, ExpireMid
        <5> QED BY <1>7, <3>2, <5>1
      <4>3. CASE m # Mid(c) \/ Head(pipe[c][l]) \notin {"HDEL", "EXPIRE_MID"}
        <5>1. midTtl'[m] = midTtl[m]
          BY <1>4, <4>3 DEF Exec, HSet, ExpireMid, Set, ExpireKey, HDel, DelKey
        <5> QED BY <1>7, <4>3, <5>1
      <4> QED BY <4>1, <4>2, <4>3
    <3>4. PICK d \in Conns, j \in Lanes :
              Mid(d) = m /\ (Coming(d, j, "EXPIRE_MID") \/ d \in broken)
      BY <3>2, <3>3 DEF Inv, EntriesExpire
    <3> QED BY <1>1, <1>3, <1>5, <3>3, <3>4
  <2> QED BY <2>1, <2>2
<1> QED BY <1>6, <1>7 DEF EntriesExpire

LEMMA ExecInv ==
    ASSUME Inv, NEW c \in Conns, NEW l \in Lanes, Exec(c, l)
    PROVE  Inv'
BY ExecType, ExecCalls, ExecOwned, ExecExpire DEF Inv

-----------------------------------------------------------------------------
(* The connection *)

\* Owners and expiry need only this of a call that begins or ends.
LEMMA BeginInv ==
    ASSUME Inv, NEW c \in Conns, NEW l \in Lanes, NEW what \in Doings,
           NEW commands \in Seq(Commands), what = "idle" => commands = <<>>,
           Begin(c, l, what, commands), conn' \in [Conns -> Phases],
           pipe[c][l] = <<>> \/ c \in broken,
           \A d \in Conns \ {c} : conn'[d] = conn[d],
           CallInv', StrayInv',
           KeyDone(c)' => KeyDone(c), MidDone(c)' => MidDone(c) \/ Mid(c) = None
    PROVE  Inv'
<1>1. /\ TypeOK'
      /\ \A d \in Conns, k \in Lanes :
            d # c \/ k # l => doing[d][k]' = doing[d][k] /\ pipe[d][k]' = pipe[d][k]
  BY BeginFacts DEF Inv
<1>2. UNCHANGED <<token, redisVars, broken>>
  BY DEF Begin
<1>3. "call" \in Lanes
  BY DEF Lanes
<1>4. \A d \in Conns \ {c} : (KeyDone(d)' => KeyDone(d)) /\ (MidDone(d)' => MidDone(d))
  BY <1>1, <1>2, <1>3 DEF KeyDone, MidDone
<1>5. KeysOwned' /\ MidsOwned'
  <2>1. UNCHANGED <<token, keys, mids>>
    BY <1>2 DEF redisVars
  <2>2. \A d \in Conns : (KeyDone(d)' => KeyDone(d)) /\ (MidDone(d)' => MidDone(d) \/ Mid(d) = None)
    BY <1>4
  <2> QED BY <2>1, <2>2, OwnersStay DEF Inv
<1>6. \A d \in Conns, k \in Lanes, x \in Commands :
        Coming(d, k, x) => Coming(d, k, x)' \/ d \in broken'
  <2> TAKE d \in Conns, k \in Lanes, x \in Commands
  <2>1. CASE d # c \/ k # l
    BY <1>1, <2>1 DEF Coming
  <2>2. CASE d = c /\ k = l
    BY <1>2, <2>2 DEF Coming
  <2> QED BY <2>1, <2>2
<1>7. EntriesExpire'
  BY <1>2, <1>6, ExpiryStays DEF Inv
<1> QED BY <1>1, <1>5, <1>7 DEF Inv

LEMMA ConnectionInv ==
    ASSUME Inv, NEW c \in Conns,
           \/ Connect(c) \/ ConnectReply(c) \/ Heartbeat(c) \/ ExpireReply(c, "call")
           \/ AddReply(c, "call") \/ Disconnect(c) \/ DisconnectReply(c)
    PROVE  Inv'
<1> DEFINE Step(what, commands, phase) ==
      /\ Begin(c, "call", what, commands)
      /\ conn' = [conn EXCEPT ![c] = phase]
<1>1. "call" \in Lanes /\ "stray" \in Lanes
  BY DEF Lanes
<1>2. /\ conn \in [Conns -> Phases]
      /\ doing[c]["call"] = "idle" => pipe[c]["call"] = <<>>
  BY <1>1 DEF Inv, TypeOK, Phases
<1>3. /\ AddMapping(c) \in AddRest /\ ExpireMapping(c) \in ExpireRest /\ DelMapping(c) \in DelRest
      /\ DelMapping(c) # <<>> /\ (Mid(c) # None => DelMapping(c) = <<"HDEL", "DEL">>)
  BY PipesAreRests
<1>4. /\ AddMapping(c) \in Seq(Commands) /\ ExpireMapping(c) \in Seq(Commands)
      /\ DelMapping(c) \in Seq(Commands) /\ <<>> \in Seq(Commands)
  BY <1>3, RestsAreCommands
\* The facts that differ: the phase goes with the call, and is done as before.
<1>5. ASSUME NEW what \in Doings, NEW commands \in Seq(Commands), NEW phase \in Phases,
             Step(what, commands, phase), pipe[c]["call"] = <<>>,
             what = "idle" => commands = <<>>, what # "rest",
             what = "connect" => phase = "waiting",
             what \in {"expire", "add", "disconnect"} => phase = "up",
             what \in {"connect", "add"} => commands \in AddRest,
             what = "expire" => commands \in ExpireRest,
             what = "disconnect" => commands = DelMapping(c),
             phase = "gone" => doing[c]["call"] = "disconnect"
      PROVE  Inv'
  <2>1. conn' \in [Conns -> Phases] /\ conn'[c] = phase /\ \A d \in Conns \ {c} : conn'[d] = conn[d]
    BY <1>2, <1>5
  <2>2. /\ doing[c]["call"]' = what /\ pipe[c]["call"]' = commands
        /\ \A d \in Conns, k \in Lanes :
              d # c \/ k # "call" => doing[d][k]' = doing[d][k] /\ pipe[d][k]' = pipe[d][k]
    BY <1>1, <1>5, <2>1, BeginFacts DEF Inv
  <2>3. UNCHANGED <<token, broken>>
    BY <1>5 DEF Begin
  <2>4. CallInv'
    BY <1>1, <1>3, <1>5, <2>1, <2>2 DEF Inv, CallInv
  <2>5. StrayInv'
    BY <1>1, <2>2, <2>3 DEF Inv, StrayInv
  <2>6. KeyDone(c)' => KeyDone(c)
    BY <1>3, <1>5, <2>1, <2>2, <2>3 DEF KeyDone
  <2>7. MidDone(c)' => MidDone(c) \/ Mid(c) = None
    <3>1. <<>> # <<"HDEL", "DEL">>
      OBVIOUS
    <3> QED BY <1>3, <1>5, <2>1, <2>2, <2>3, <3>1 DEF MidDone
  <2> QED BY <1>1, <1>5, <2>1, <2>4, <2>5, <2>6, <2>7, BeginInv
<1>6. conn' = conn => conn' = [conn EXCEPT ![c] = conn[c]]
  BY <1>2
<1> HIDE DEF Step
<1>7. CASE Connect(c)
  <2>1. Step("connect", AddMapping(c), "waiting") /\ conn[c] = "new"
    BY <1>7 DEF Step, Connect
  <2>2. doing[c]["call"] \in Doings
    BY <1>1 DEF Inv, TypeOK, Doings
  <2>3. doing[c]["call"] = "idle"
    BY <2>1, <2>2 DEF Doings, Inv, CallInv
  <2>4. pipe[c]["call"] = <<>>
    BY <1>2, <2>3
  <2> QED BY <1>3, <1>4, <1>5, <2>1, <2>4 DEF Doings, Phases
<1>8. CASE ConnectReply(c)
  <2>1. PICK outcome \in {"up", "lost"} : Step("idle", <<>>, outcome)
    BY <1>8 DEF Step, ConnectReply
  <2>2. pipe[c]["call"] = <<>>
    BY <1>8 DEF ConnectReply, Ended
  <2> QED BY <1>4, <1>5, <2>1, <2>2 DEF Doings, Phases
<1>9. CASE Heartbeat(c)
  <2>1. Step("expire", ExpireMapping(c), conn[c]) /\ conn[c] = "up" /\ pipe[c]["call"] = <<>>
    BY <1>2, <1>6, <1>9 DEF Step, Heartbeat, Up
  <2> QED BY <1>3, <1>4, <1>5, <2>1 DEF Doings, Phases
<1>10. CASE ExpireReply(c, "call")
  <2>1. conn[c] = "up" /\ pipe[c]["call"] = <<>>
    BY <1>10 DEF ExpireReply, Ended, Inv, CallInv
  <2>2. Step("idle", <<>>, conn[c]) \/ Step("add", AddMapping(c), conn[c])
    BY <1>6, <1>10 DEF Step, ExpireReply
  <2> QED BY <1>3, <1>4, <1>5, <2>1, <2>2 DEF Doings, Phases
<1>11. CASE AddReply(c, "call")
  <2>1. conn[c] = "up" /\ pipe[c]["call"] = <<>> /\ Step("idle", <<>>, conn[c])
    BY <1>6, <1>11 DEF Step, AddReply, Ended, Inv, CallInv
  <2> QED BY <1>4, <1>5, <2>1 DEF Doings, Phases
<1>12. CASE Disconnect(c)
  <2>1. /\ Step("disconnect", DelMapping(c), conn[c]) /\ conn[c] = "up"
        /\ pipe[c]["call"] = <<>>
    BY <1>2, <1>6, <1>12 DEF Step, Disconnect, Up
  <2> QED BY <1>4, <1>5, <2>1 DEF Doings, Phases
<1>13. CASE DisconnectReply(c)
  <2>1. /\ Step("idle", <<>>, "gone") /\ doing[c]["call"] = "disconnect"
        /\ pipe[c]["call"] = <<>>
    BY <1>13 DEF Step, DisconnectReply, Ended
  <2> QED BY <1>4, <1>5, <2>1 DEF Doings, Phases
<1> QED BY <1>7, <1>8, <1>9, <1>10, <1>11, <1>12, <1>13

-----------------------------------------------------------------------------
(* Failures and expiry *)

LEMMA StrayCallInv ==
    ASSUME Inv, NEW c \in Conns, ExpireReply(c, "stray") \/ StrayEnds(c)
    PROVE  Inv'
<1>1. "call" \in Lanes /\ "stray" \in Lanes /\ "call" # "stray"
  BY DEF Lanes
<1>2. PICK what \in {"idle", "add"}, commands \in {<<>>, AddMapping(c)} :
        /\ Begin(c, "stray", what, commands)
        /\ what = "idle" => commands = <<>>
        /\ UNCHANGED conn /\ c \in broken
  BY DEF ExpireReply, StrayEnds, Inv, StrayInv
<1>3. commands \in Seq(Commands) /\ what \in Doings
  <2>1. <<>> \in Seq(Commands) /\ AddMapping(c) \in Seq(Commands)
    BY PipesAreRests, RestsAreCommands
  <2> QED BY <2>1 DEF Doings
<1>4. conn' \in [Conns -> Phases]
  BY <1>2 DEF Inv, TypeOK, Phases
<1>5. \A d \in Conns, k \in Lanes :
        d # c \/ k # "stray" => doing[d][k]' = doing[d][k] /\ pipe[d][k]' = pipe[d][k]
  BY <1>1, <1>2, <1>3, <1>4, BeginFacts DEF Inv
<1>6. UNCHANGED broken
  BY <1>2 DEF Begin
<1>7. CallInv'
  BY <1>1, <1>2, <1>5 DEF Inv, CallInv
<1>8. StrayInv'
  BY <1>1, <1>2, <1>5, <1>6 DEF Inv, StrayInv
<1>9. ~KeyDone(c)' /\ ~MidDone(c)'
  BY <1>2, <1>6 DEF KeyDone, MidDone
<1> QED BY <1>1, <1>2, <1>3, <1>4, <1>7, <1>8, <1>9, BeginInv

LEMMA FailInv ==
    ASSUME Inv, NEW c \in Conns, Fail(c)
    PROVE  Inv'
<1>1. "call" \in Lanes /\ "stray" \in Lanes /\ Lanes = {"call", "stray"}
  BY DEF Lanes
<1>2. /\ conn \in [Conns -> Phases] /\ doing \in [Conns -> [Lanes -> Doings]]
      /\ pipe \in [Conns -> [Lanes -> Seq(Commands)]] /\ has \in [Conns -> [Lanes -> BOOLEAN]]
  BY DEF Inv, TypeOK, Phases, Doings
<1>3. PICK left \in {doing[c]["call"], "rest"} :
        doing' = [doing EXCEPT ![c]["call"] = "idle", ![c]["stray"] = left]
  BY DEF Fail
<1>4. /\ pipe' = [pipe EXCEPT ![c]["call"] = <<>>, ![c]["stray"] = pipe[c]["call"]]
      /\ has' = [has EXCEPT ![c]["call"] = FALSE, ![c]["stray"] = has[c]["call"]]
      /\ broken' = broken \cup {c} /\ c \in Breakable
      /\ doing[c]["call"] # "idle"
      /\ UNCHANGED <<token, keys, keyTtl, mids, midTtl>>
  BY DEF Fail, redisVars
<1>5. PICK phase \in {"lost", "gone", conn[c]} : conn' = [conn EXCEPT ![c] = phase]
  BY DEF Fail
<1>6. left \in Doings /\ left # "idle"
  <2>1. doing[c]["call"] \in Doings
    BY <1>1, <1>2
  <2> QED BY <1>4, <2>1 DEF Doings
<1>7. /\ doing[c]["call"]' = "idle" /\ doing[c]["stray"]' = left
      /\ \A d \in Conns \ {c}, k \in Lanes : doing[d][k]' = doing[d][k]
      /\ doing' \in [Conns -> [Lanes -> Doings]]
  BY <1>1, <1>2, <1>3, <1>6 DEF Doings
<1>8. /\ pipe[c]["call"]' = <<>> /\ pipe[c]["stray"]' = pipe[c]["call"]
      /\ \A d \in Conns \ {c}, k \in Lanes : pipe[d][k]' = pipe[d][k]
      /\ pipe' \in [Conns -> [Lanes -> Seq(Commands)]]
  <2>1. <<>> \in Seq(Commands) /\ pipe[c]["call"] \in Seq(Commands)
    BY <1>1, <1>2
  <2> QED BY <1>1, <1>2, <1>4, <2>1
<1>9. has' \in [Conns -> [Lanes -> BOOLEAN]]
  BY <1>1, <1>2, <1>4
<1>10. conn' \in [Conns -> Phases] /\ \A d \in Conns \ {c} : conn'[d] = conn[d]
  BY <1>2, <1>5 DEF Phases
<1>11. \A d \in Conns, k \in Lanes : doing[d][k]' = "idle" => pipe[d][k]' = <<>>
  <2>1. \A d \in Conns, k \in Lanes : doing[d][k] = "idle" => pipe[d][k] = <<>>
    BY DEF Inv, TypeOK
  <2>2. ASSUME NEW d \in Conns \ {c}, NEW k \in Lanes, doing[d][k]' = "idle"
        PROVE  pipe[d][k]' = <<>>
    <3>1. doing[d][k] = "idle" /\ pipe[d][k]' = pipe[d][k]
      BY <1>7, <1>8, <2>2, Zenon
    <3> QED BY <2>1, <3>1
  <2>3. ASSUME NEW k \in Lanes, doing[c][k]' = "idle" PROVE pipe[c][k]' = <<>>
    <3>1. k = "call"
      BY <1>1, <1>6, <1>7, <2>3
    <3> QED BY <1>8, <3>1
  <2>4. ASSUME NEW d \in Conns, NEW k \in Lanes, doing[d][k]' = "idle"
        PROVE  pipe[d][k]' = <<>>
    <3>1. CASE d = c
      BY <2>3, <2>4, <3>1
    <3>2. CASE d # c
      BY <2>2, <2>4, <3>2
    <3> QED BY <3>1, <3>2
  <2> QED BY <2>4
<1>12. TypeOK'
  <2>1. broken' \subseteq Breakable
    BY <1>4 DEF Inv, TypeOK
  <2> QED BY <1>4, <1>7, <1>8, <1>9, <1>10, <1>11, <2>1 DEF Inv, TypeOK, Phases, Doings
<1>13. CallInv'
  <2>1. ASSUME NEW d \in Conns \ {c}
        PROVE  /\ doing[d]["call"]' = doing[d]["call"] /\ pipe[d]["call"]' = pipe[d]["call"]
               /\ conn'[d] = conn[d]
    BY <1>1, <1>7, <1>8, <1>10
  <2>2. CallInv
    BY DEF Inv
  <2> QED BY <1>7, <2>1, <2>2 DEF CallInv
<1>14. StrayInv'
  BY <1>1, <1>4, <1>7 DEF Inv, StrayInv
<1>15. \A d \in Conns : (KeyDone(d)' => KeyDone(d)) /\ (MidDone(d)' => MidDone(d))
  BY <1>1, <1>4, <1>7, <1>8, <1>10 DEF KeyDone, MidDone
<1>16. KeysOwned' /\ MidsOwned'
  BY <1>4, <1>15, OwnersStay DEF Inv
<1>17. \A d \in Conns, k \in Lanes, x \in Commands :
        Coming(d, k, x) => Coming(d, k, x)' \/ d \in broken'
  BY <1>4, <1>8 DEF Coming
<1>18. EntriesExpire'
  BY <1>4, <1>17, ExpiryStays DEF Inv, redisVars
<1> QED BY <1>12, <1>13, <1>14, <1>16, <1>18 DEF Inv

LEMMA CrashInv ==
    ASSUME Inv, NEW c \in Conns, Crash(c)
    PROVE  Inv'
<1>1. /\ conn' = [conn EXCEPT ![c] = "lost"] /\ doing[c]["call"] = "idle"
      /\ UNCHANGED <<token, doing, pipe, has, keys, keyTtl, mids, midTtl, broken>>
  BY DEF Crash, callVars, redisVars
<1>2. conn \in [Conns -> Phases]
  BY DEF Inv, TypeOK, Phases
<1>3. TypeOK'
  BY <1>1 DEF Inv, TypeOK
<1>4. CallInv' /\ StrayInv'
  BY <1>1, <1>2 DEF Inv, CallInv, StrayInv
<1>5. \A d \in Conns : (KeyDone(d)' => KeyDone(d)) /\ (MidDone(d)' => MidDone(d))
  BY <1>1, <1>2 DEF KeyDone, MidDone
<1>6. KeysOwned' /\ MidsOwned'
  BY <1>1, <1>5, OwnersStay DEF Inv
<1>7. EntriesExpire'
  BY <1>1, ExpiryStays DEF Inv, redisVars, Coming
<1> QED BY <1>3, <1>4, <1>6, <1>7 DEF Inv

\* What expires is not there any more, and nothing else changes.
LEMMA LapseInv ==
    ASSUME Inv, (\E k \in Keys : LapseKey(k)) \/ (\E m \in Mids : LapseMid(m))
    PROVE  Inv'
<1>1. UNCHANGED <<token, conn, doing, pipe, has, broken>>
  BY DEF LapseKey, LapseMid, callVars
<1>2. /\ keys \in [Keys -> Servers \cup {None}] /\ keyTtl \in [Keys -> BOOLEAN]
      /\ mids \in [Mids -> [Keys -> Servers \cup {None}]] /\ midTtl \in [Mids -> BOOLEAN]
  BY DEF Inv, TypeOK
<1>3. \A k \in Keys : keys'[k] # None => keys'[k] = keys[k] /\ keyTtl'[k] = keyTtl[k]
  BY <1>2 DEF LapseKey, LapseMid
<1>4. \A m \in Mids, k \in Keys :
        mids'[m][k] # None => mids'[m][k] = mids[m][k] /\ midTtl'[m] = midTtl[m]
  BY <1>2 DEF LapseKey, LapseMid
<1>5. /\ keys' \in [Keys -> Servers \cup {None}] /\ keyTtl' \in [Keys -> BOOLEAN]
      /\ mids' \in [Mids -> [Keys -> Servers \cup {None}]] /\ midTtl' \in [Mids -> BOOLEAN]
  <2>1. CASE \E k \in Keys : LapseKey(k)
    BY <1>2, <2>1 DEF LapseKey
  <2>2. CASE \E m \in Mids : LapseMid(m)
    BY <1>2, <2>2 DEF LapseMid
  <2> QED BY <2>1, <2>2
<1>6. TypeOK'
  BY <1>1, <1>5 DEF Inv, TypeOK
<1>7. CallInv' /\ StrayInv'
  BY <1>1 DEF Inv, CallInv, StrayInv
<1>8. \A d \in Conns : /\ (KeyDone(d)' <=> KeyDone(d)) /\ (MidDone(d)' <=> MidDone(d))
                       /\ Key(d)' = Key(d) /\ Mid(d)' = Mid(d)
  BY <1>1 DEF KeyDone, MidDone, Key, Mid
<1>9. KeysOwned'
  BY <1>3, <1>8 DEF Inv, KeysOwned, KeyOwner
<1>10. MidsOwned'
  BY <1>4, <1>8 DEF Inv, MidsOwned, MidOwner
<1>11. \A d \in Conns, l \in Lanes : \A x \in Commands : Coming(d, l, x)' <=> Coming(d, l, x)
  BY <1>1 DEF Coming
<1>12. EntriesExpire'
  <2>1. "EXPIRE_KEY" \in Commands /\ "EXPIRE_MID" \in Commands
    BY DEF Commands
  <2>2. \A k \in Keys : keys'[k] # None /\ ~keyTtl'[k] => keys[k] # None /\ ~keyTtl[k]
    BY <1>3
  <2>3. \A m \in Mids : MidExists(m)' /\ ~midTtl'[m] => MidExists(m) /\ ~midTtl[m]
    BY <1>4 DEF MidExists
  <2> QED BY <1>1, <1>8, <1>11, <2>1, <2>2, <2>3 DEF Inv, EntriesExpire
<1> QED BY <1>6, <1>7, <1>9, <1>10, <1>12 DEF Inv

-----------------------------------------------------------------------------
(* Theorems *)

LEMMA InitInv == Init => Inv
<1> SUFFICES ASSUME Init PROVE Inv
  OBVIOUS
<1>1. TypeOK
  BY DEF Init, TypeOK, Lanes
<1>2. \A c \in Conns : doing[c]["call"] = "idle" /\ doing[c]["stray"] = "idle" /\ conn[c] = "new"
  BY DEF Init, Lanes
<1>3. CallInv /\ StrayInv
  BY <1>2 DEF CallInv, StrayInv
<1>4. KeysOwned /\ MidsOwned
  BY DEF Init, KeysOwned, MidsOwned
<1>5. EntriesExpire
  BY DEF Init, EntriesExpire, MidExists
<1> QED BY <1>1, <1>3, <1>4, <1>5 DEF Inv

LEMMA StutterInv == Inv /\ UNCHANGED vars => Inv'
<1> SUFFICES ASSUME Inv, UNCHANGED vars PROVE Inv'
  OBVIOUS
<1>1. UNCHANGED <<token, conn, doing, pipe, has, keys, keyTtl, mids, midTtl, broken>>
  BY DEF vars, callVars, redisVars
<1>2. TypeOK'
  BY <1>1 DEF Inv, TypeOK
<1>3. CallInv' /\ StrayInv'
  BY <1>1 DEF Inv, CallInv, StrayInv
<1>4. KeysOwned' /\ MidsOwned'
  <2>1. \A d \in Conns : (KeyDone(d)' => KeyDone(d)) /\ (MidDone(d)' => MidDone(d))
    BY <1>1 DEF KeyDone, MidDone
  <2> QED BY <1>1, <2>1, OwnersStay DEF Inv
<1>5. EntriesExpire'
  BY <1>1 DEF Inv, EntriesExpire, MidExists, Coming, Key, Mid
<1> QED BY <1>2, <1>3, <1>4, <1>5 DEF Inv

LEMMA NextInv == Inv /\ [Next]_vars => Inv'
<1> SUFFICES ASSUME Inv, [Next]_vars PROVE Inv'
  OBVIOUS
<1>1. "call" \in Lanes /\ "stray" \in Lanes
  BY DEF Lanes
<1>2. ASSUME NEW c \in Conns,
             Connect(c) \/ Heartbeat(c) \/ Disconnect(c) \/ Call(c) \/ Fail(c) \/ Crash(c) \/ Stray(c)
      PROVE  Inv'
  BY <1>1, <1>2, ExecInv, ConnectionInv, FailInv, CrashInv, StrayCallInv DEF Call, Stray
<1>3. CASE (\E k \in Keys : LapseKey(k)) \/ (\E m \in Mids : LapseMid(m))
  BY <1>3, LapseInv
<1>4. CASE UNCHANGED vars
  BY <1>4, StutterInv
<1> QED BY <1>2, <1>3, <1>4 DEF Next, Done

THEOREM Invariance == Spec => []Inv
<1>1. Init => Inv
  BY InitInv
<1>2. Inv /\ [Next]_vars => Inv'
  BY NextInv
<1> QED BY <1>1, <1>2, PTL DEF Spec

\* The variables keep their types.
THEOREM TypeCorrect == Spec => []TypeOK
<1>1. Inv => TypeOK
  BY DEF Inv
<1> QED BY <1>1, Invariance, PTL

\* Disconnect leaves nothing behind (Logic.Disconnect, DelMapping): every entry
\* has a login that did not end with it.
THEOREM EntriesHaveOwners == Spec => []EntriesAreOwned
<1>1. ASSUME Inv PROVE EntriesAreOwned
  <2>1. \A c \in Conns : (Cleared(c) => KeyDone(c) /\ MidDone(c))
    BY DEF Cleared, KeyDone, MidDone
  <2> QED BY <1>1, <2>1 DEF Inv, KeysOwned, MidsOwned, KeyOwner, MidOwner, EntriesAreOwned
<1>2. Inv => EntriesAreOwned
  BY <1>1
<1> QED BY <1>2, Invariance, PTL

\* Entries expire (AddMapping): one without expiry waits for its EXPIRE, or a
\* call was cut off.
THEOREM NothingStaysForEver == Spec => []EntriesExpire
<1>1. Inv => EntriesExpire
  BY DEF Inv
<1> QED BY <1>1, Invariance, PTL

=============================================================================
