------------------------------ MODULE Mapping ------------------------------
(***************************************************************************)
(* Which comet has a client: what logic keeps in redis for the connections *)
(* of all comets (logic/conn.go, logic/dao/redis.go).  key_<key> names the *)
(* server; the hash mid_<mid> has a field for each key of the user.        *)
(*                                                                         *)
(* A call of logic is a pipeline of commands.  Redis runs them one by one, *)
(* with those of other calls in between.  A call may fail for its caller   *)
(* at any point: what was sent still runs, or is lost, and if only the rpc *)
(* failed the handler goes on.  Such a call is in the lane "stray".        *)
(***************************************************************************)
EXTENDS Naturals, Sequences

CONSTANTS
    Conns,              \* connections; each logs in once
    Servers, Keys, Mids,
    None,               \* no server; mid 0
    Server,             \* the comet of a connection
    Tokens,             \* what it may log in with
    Breakable           \* bound: connections whose calls may fail

ASSUME MappingAssumption ==
    /\ None \notin Servers /\ None \notin Mids
    /\ Server \in [Conns -> Servers]
    /\ Tokens \in [Conns -> SUBSET [key : Keys, mid : Mids \cup {None}]]
    /\ Breakable \subseteq Conns

VARIABLES
    token,              \* key and mid in the token of a connection
    conn,               \* the connection, as its comet sees it
    doing, pipe, has,   \* its calls: where the handler is, commands to run
    keys, keyTtl,       \* key_<key>: the server, and whether it expires
    mids, midTtl,       \* mid_<mid>: its fields, and whether it expires
    broken              \* connections with a failed call

callVars == <<doing, pipe, has>>
redisVars == <<keys, keyTtl, mids, midTtl>>
vars == <<token, conn, callVars, redisVars, broken>>

Key(c) == token[c].key
Mid(c) == token[c].mid

Lanes == {"call", "stray"}

Commands == {"HSET", "EXPIRE_MID", "SET", "EXPIRE_KEY", "HDEL", "DEL"}

Init ==
    /\ token \in [Conns -> [key : Keys, mid : Mids \cup {None}]]
    /\ \A c \in Conns : token[c] \in Tokens[c]
    /\ conn = [c \in Conns |-> "new"]
    /\ doing = [c \in Conns |-> [l \in Lanes |-> "idle"]]
    /\ pipe = [c \in Conns |-> [l \in Lanes |-> <<>>]]
    /\ has = [c \in Conns |-> [l \in Lanes |-> FALSE]]
    /\ keys = [k \in Keys |-> None]
    /\ keyTtl = [k \in Keys |-> FALSE]
    /\ mids = [m \in Mids |-> [k \in Keys |-> None]]
    /\ midTtl = [m \in Mids |-> FALSE]
    /\ broken = {}

-----------------------------------------------------------------------------
(* The pipelines *)

\* Fault: the expiry of the key is set before the key.
AddMappingExpireFirst(c) ==
    IF Mid(c) = None THEN <<"EXPIRE_KEY", "SET">>
    ELSE <<"HSET", "EXPIRE_MID", "EXPIRE_KEY", "SET">>

AddMapping(c) ==
    IF Mid(c) = None THEN <<"SET", "EXPIRE_KEY">>
    ELSE <<"HSET", "EXPIRE_MID", "SET", "EXPIRE_KEY">>

ExpireMapping(c) ==
    IF Mid(c) = None THEN <<"EXPIRE_KEY">> ELSE <<"EXPIRE_MID", "EXPIRE_KEY">>

\* Fault: the field of the user's hash is forgotten.
DelMappingKeyOnly(c) == <<"DEL">>

DelMapping(c) ==
    IF Mid(c) = None THEN <<"DEL">> ELSE <<"HDEL", "DEL">>

-----------------------------------------------------------------------------
(* Redis *)

\* A hash without a field does not exist.
MidExists(m) == \E k \in Keys : mids[m][k] # None

HSet(c) ==
    /\ mids' = [mids EXCEPT ![Mid(c)][Key(c)] = Server[c]]
    /\ UNCHANGED <<keys, keyTtl, midTtl, has>>

ExpireMid(c, l) ==
    /\ midTtl' = [midTtl EXCEPT ![Mid(c)] = MidExists(Mid(c))]
    /\ has' = [has EXCEPT ![c][l] = MidExists(Mid(c))]
    /\ UNCHANGED <<keys, keyTtl, mids>>

\* SET takes the expiry away that the key had.
Set(c) ==
    /\ keys' = [keys EXCEPT ![Key(c)] = Server[c]]
    /\ keyTtl' = [keyTtl EXCEPT ![Key(c)] = FALSE]
    /\ UNCHANGED <<mids, midTtl, has>>

ExpireKey(c, l) ==
    /\ keyTtl' = [keyTtl EXCEPT ![Key(c)] = keys[Key(c)] # None]
    /\ has' = [has EXCEPT ![c][l] = keys[Key(c)] # None]
    /\ UNCHANGED <<keys, mids, midTtl>>

HDel(c) ==
    /\ mids' = [mids EXCEPT ![Mid(c)][Key(c)] = None]
    /\ midTtl' =
        [midTtl EXCEPT ![Mid(c)] =
            @ /\ \E k \in Keys \ {Key(c)} : mids[Mid(c)][k] # None]
    /\ UNCHANGED <<keys, keyTtl, has>>

DelKey(c) ==
    /\ keys' = [keys EXCEPT ![Key(c)] = None]
    /\ keyTtl' = [keyTtl EXCEPT ![Key(c)] = FALSE]
    /\ UNCHANGED <<mids, midTtl, has>>

\* The next command of a call.
Exec(c, l) ==
    /\ pipe[c][l] # <<>>
    /\ \/ Head(pipe[c][l]) = "HSET" /\ HSet(c)
       \/ Head(pipe[c][l]) = "EXPIRE_MID" /\ ExpireMid(c, l)
       \/ Head(pipe[c][l]) = "SET" /\ Set(c)
       \/ Head(pipe[c][l]) = "EXPIRE_KEY" /\ ExpireKey(c, l)
       \/ Head(pipe[c][l]) = "HDEL" /\ HDel(c)
       \/ Head(pipe[c][l]) = "DEL" /\ DelKey(c)
    /\ pipe' = [pipe EXCEPT ![c][l] = Tail(@)]
    /\ UNCHANGED <<token, conn, doing, broken>>

\* The time set by EXPIRE is over; here that may be any time.
LapseKey(k) ==
    /\ keyTtl[k]
    /\ keys' = [keys EXCEPT ![k] = None]
    /\ keyTtl' = [keyTtl EXCEPT ![k] = FALSE]
    /\ UNCHANGED <<token, conn, callVars, mids, midTtl, broken>>

LapseMid(m) ==
    /\ midTtl[m]
    /\ mids' = [mids EXCEPT ![m] = [k \in Keys |-> None]]
    /\ midTtl' = [midTtl EXCEPT ![m] = FALSE]
    /\ UNCHANGED <<token, conn, callVars, keys, keyTtl, broken>>

-----------------------------------------------------------------------------
(* A connection and the calls its comet makes *)

Begin(c, l, what, commands) ==
    /\ doing' = [doing EXCEPT ![c][l] = what]
    /\ pipe' = [pipe EXCEPT ![c][l] = commands]
    /\ has' = [has EXCEPT ![c][l] = FALSE]
    /\ UNCHANGED <<token, redisVars, broken>>

Ended(c, l) == pipe[c][l] = <<>>

Connect(c) ==
    /\ conn[c] = "new"
    /\ conn' = [conn EXCEPT ![c] = "waiting"]
    /\ Begin(c, "call", "connect", AddMapping(c))

\* The handshake may still fail after it, and then nobody calls Disconnect.
ConnectReply(c) ==
    /\ doing[c]["call"] = "connect"
    /\ Ended(c, "call")
    /\ \E outcome \in {"up", "lost"} : conn' = [conn EXCEPT ![c] = outcome]
    /\ Begin(c, "call", "idle", <<>>)

Up(c) == conn[c] = "up"

Heartbeat(c) ==
    /\ Up(c)
    /\ doing[c]["call"] = "idle"
    /\ Begin(c, "call", "expire", ExpireMapping(c))
    /\ UNCHANGED conn

\* Fault: a mapping that is not there is not added again.
ExpireReplyOnly(c, l) ==
    /\ doing[c][l] = "expire"
    /\ Ended(c, l)
    /\ Begin(c, l, "idle", <<>>)
    /\ UNCHANGED conn

\* Heartbeat adds what it did not find; has is the answer for the key.
ExpireReply(c, l) ==
    /\ doing[c][l] = "expire"
    /\ Ended(c, l)
    /\ IF has[c][l] THEN Begin(c, l, "idle", <<>>)
                    ELSE Begin(c, l, "add", AddMapping(c))
    /\ UNCHANGED conn

AddReply(c, l) ==
    /\ doing[c][l] = "add"
    /\ Ended(c, l)
    /\ Begin(c, l, "idle", <<>>)
    /\ UNCHANGED conn

Disconnect(c) ==
    /\ Up(c)
    /\ doing[c]["call"] = "idle"
    /\ Begin(c, "call", "disconnect", DelMapping(c))
    /\ UNCHANGED conn

DisconnectReply(c) ==
    /\ doing[c]["call"] = "disconnect"
    /\ Ended(c, "call")
    /\ conn' = [conn EXCEPT ![c] = "gone"]
    /\ Begin(c, "call", "idle", <<>>)

-----------------------------------------------------------------------------
(* Failures *)

\* The caller gets an error: from redis, and then the handler ends ("rest"), or
\* instead of the reply.  A failed Connect ends the handshake, a failed
\* Heartbeat is repeated, a failed Disconnect is logged.
Fail(c) ==
    /\ doing[c]["call"] # "idle"
    /\ doing[c]["stray"] = "idle"
    /\ c \in Breakable
    /\ broken' = broken \cup {c}
    /\ \E rest \in {doing[c]["call"], "rest"} :
        doing' = [doing EXCEPT ![c]["call"] = "idle", ![c]["stray"] = rest]
    /\ pipe' = [pipe EXCEPT ![c]["call"] = <<>>, ![c]["stray"] = pipe[c]["call"]]
    /\ has' = [has EXCEPT ![c]["call"] = FALSE, ![c]["stray"] = has[c]["call"]]
    /\ conn' =
        [conn EXCEPT ![c] =
            IF doing[c]["call"] = "connect" THEN "lost"
            ELSE IF doing[c]["call"] = "disconnect" THEN "gone" ELSE @]
    /\ UNCHANGED <<token, redisVars>>

\* The comet dies, between two calls or after the failure of one.
Crash(c) ==
    /\ Up(c)
    /\ doing[c]["call"] = "idle"
    /\ conn' = [conn EXCEPT ![c] = "lost"]
    /\ UNCHANGED <<token, callVars, redisVars, broken>>

\* A stray call is over, or its connection to redis breaks before that.
StrayEnds(c) ==
    /\ doing[c]["stray"] # "idle"
    /\ Begin(c, "stray", "idle", <<>>)
    /\ UNCHANGED conn

Call(c) ==
    \/ Exec(c, "call") \/ ConnectReply(c) \/ ExpireReply(c, "call")
    \/ AddReply(c, "call") \/ DisconnectReply(c)

Stray(c) ==
    Exec(c, "stray") \/ ExpireReply(c, "stray") \/ StrayEnds(c)

Done ==
    /\ \A c \in Conns : conn[c] \in {"lost", "gone"} /\ doing[c]["stray"] = "idle"
    /\ UNCHANGED vars

Next ==
    \/ \E c \in Conns :
        Connect(c) \/ Heartbeat(c) \/ Disconnect(c) \/ Call(c)
            \/ Fail(c) \/ Crash(c) \/ Stray(c)
    \/ \E k \in Keys : LapseKey(k)
    \/ \E m \in Mids : LapseMid(m)
    \/ Done

Spec == Init /\ [][Next]_vars

\* Calls are served, and a client that stays sends heartbeats.
FairSpec ==
    /\ Spec
    /\ \A c \in Conns : WF_vars(Call(c)) /\ WF_vars(Stray(c)) /\ WF_vars(Heartbeat(c))

-----------------------------------------------------------------------------
(* Properties *)

\* Types; a lane without a call has no commands.
TypeOK ==
    /\ token \in [Conns -> [key : Keys, mid : Mids \cup {None}]]
    /\ conn \in [Conns -> {"new", "waiting", "up", "lost", "gone"}]
    /\ doing \in [Conns ->
        [Lanes -> {"idle", "connect", "expire", "add", "disconnect", "rest"}]]
    /\ pipe \in [Conns -> [Lanes -> Seq(Commands)]]
    /\ has \in [Conns -> [Lanes -> BOOLEAN]]
    /\ keys \in [Keys -> Servers \cup {None}]
    /\ keyTtl \in [Keys -> BOOLEAN]
    /\ mids \in [Mids -> [Keys -> Servers \cup {None}]]
    /\ midTtl \in [Mids -> BOOLEAN]
    /\ broken \subseteq Breakable
    /\ \A c \in Conns, l \in Lanes : doing[c][l] = "idle" => pipe[c][l] = <<>>

\* Its Disconnect succeeded, and so did all its other calls.
Cleared(c) == conn[c] = "gone" /\ c \notin broken

\* Disconnect leaves nothing behind: what redis knows of a key names the server
\* of a login with that key, and user, whose Disconnect is still to come, failed,
\* or never comes.  The calls of connections that share the key may overlap in
\* any way.
EntriesAreOwned ==
    /\ \A k \in Keys :
        keys[k] # None =>
            \E c \in Conns : Key(c) = k /\ Server[c] = keys[k] /\ ~Cleared(c)
    /\ \A m \in Mids, k \in Keys :
        mids[m][k] # None =>
            \E c \in Conns :
                Mid(c) = m /\ Key(c) = k /\ Server[c] = mids[m][k] /\ ~Cleared(c)

Coming(c, l, command) == \E i \in 1..Len(pipe[c][l]) : pipe[c][l][i] = command

\* No entry stays for ever unless a call was cut off between SET (or HSET) and
\* EXPIRE: the two are not one command, and SET takes away an expiry that
\* another call has set.
EntriesExpire ==
    /\ \A k \in Keys :
        keys[k] # None /\ ~keyTtl[k] =>
            \E c \in Conns, l \in Lanes :
                Key(c) = k /\ (Coming(c, l, "EXPIRE_KEY") \/ c \in broken)
    /\ \A m \in Mids :
        MidExists(m) /\ ~midTtl[m] =>
            \E c \in Conns, l \in Lanes :
                Mid(c) = m /\ (Coming(c, l, "EXPIRE_MID") \/ c \in broken)

FoundByKey(c) == keys[Key(c)] = Server[c]

Alone(c) ==
    \A d \in Conns \ {c} : Key(d) = Key(c) => conn[d] \notin {"waiting", "up"}

\* A login with the key ended without Disconnect, or one of its calls failed.
Spoiled(k) == \E c \in Conns : Key(c) = k /\ (c \in broken \/ conn[c] = "lost")

\* A client that stays is found by PushKeys again and again, also after another
\* login with its key, on another comet, has overwritten and then deleted its
\* entry.  Only a login that ended without Disconnect, or a failed call, can
\* prevent it: then the client's own heartbeats keep the wrong entry alive.
KeyFound ==
    \A c \in Conns :
        Up(c) ~> (~Up(c) \/ ~Alone(c) \/ Spoiled(Key(c)) \/ FoundByKey(c))
=============================================================================
