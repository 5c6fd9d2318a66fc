------------------------------ MODULE Resolver ------------------------------
(***************************************************************************)
(* The resolver of a process (pkg/discovery/etcd-resolver.go, builder.go,  *)
(* resolver.go) and the registry it follows.  Two goroutines keep the map  *)
(* serviceNodes of one target: the poll, every second, adds what etcd has  *)
(* to it, and hands it to the connection; the watch adds and removes with  *)
(* the events of etcd, until it sees that no key is left.                  *)
(*                                                                         *)
(* DetTargetNodes has no caller, so no target is ever given up; what the   *)
(* watch ticker does with one that was is left out.                        *)
(***************************************************************************)
EXTENDS Registry

CONSTANTS
    Target,     \* the name looked for
    Paths,      \* what the keys may be: for every node the parts of its key, its
                \* name, cut at the dots, and its address
    NoName

ASSUME ResolverAssumption ==
    /\ \A p \in Paths : DOMAIN p = Nodes /\ \A n \in Nodes : p[n] # <<>>
    /\ NoName # Target

VARIABLES
    path,       \* the keys of the nodes, one of Paths
    view,       \* serviceNodes[Target], every node of the prefix
    conn,       \* the addresses the connection has
    poll, found,    \* where resolverAll is; the rest of the answer it got
    ticking,    \* start is done, the two tickers run
    monitored,  \* monitoredNodes[Target]
    watch, event,   \* where watchNode is; the event it handles
    missed      \* nodes deleted where the watch could not tell the view

resolverVars == <<path, view, conn, poll, found, ticking, monitored, watch, event>>
allVars == <<registryVars, resolverVars, missed>>

Event == [type : {"put", "delete"}, node : Nodes]
NoEvent == [type |-> "none", node |-> NoName]

Watched == watch \in {"wait", "put", "delete", "get"}

ResolverInit ==
    /\ RegistryInit
    /\ path \in Paths
    /\ view = {}
    /\ conn = {}
    /\ poll = "none"
    /\ found = {}
    /\ ticking = FALSE
    /\ monitored = FALSE
    /\ watch = "none"
    /\ event = NoEvent
    /\ missed = {}

-----------------------------------------------------------------------------
(* Setting up, and the poll *)

\* Build sets the target, and the first resolverAll runs before the tickers.
SetTargetNode ==
    /\ poll = "none"
    /\ poll' = "get"
    /\ UNCHANGED <<registryVars, path, view, conn, found, ticking, monitored, watch, event, missed>>

TickPoll ==
    /\ poll = "idle"
    /\ poll' = "get"
    /\ UNCHANGED <<registryVars, path, view, conn, found, ticking, monitored, watch, event, missed>>

\* Get with the prefix.
GetAll ==
    /\ poll = "get"
    /\ found' = {n \in Nodes : Registered(n)}
    /\ poll' = "add"
    /\ UNCHANGED <<registryVars, path, view, conn, ticking, monitored, watch, event, missed>>

GetFails ==
    /\ poll = "get"
    /\ poll' = "push"
    /\ UNCHANGED <<registryVars, path, view, conn, found, ticking, monitored, watch, event, missed>>

\* Fault: the answer takes the place of what was known.
AddOver(n) ==
    /\ n \in found
    /\ view' = {n}
    /\ found' = found \ {n}

\* setServiceNodes, one node of the answer at a time.
AddNode(n) ==
    /\ n \in found
    /\ view' = view \cup {n}
    /\ found' = found \ {n}

AddFound ==
    /\ poll = "add"
    /\ IF found = {}
       THEN poll' = "push" /\ UNCHANGED <<view, found>>
       ELSE (\E n \in found : AddNode(n)) /\ UNCHANGED poll
    /\ UNCHANGED <<registryVars, path, conn, ticking, monitored, watch, event, missed>>

\* All nodes of the target.
GetServiceNodes == view

\* ResolveNow of the manual resolver, at the end of a poll.
Push ==
    /\ poll = "push"
    /\ conn' = GetServiceNodes
    /\ poll' = "idle"
    /\ ticking' = TRUE
    /\ UNCHANGED <<registryVars, path, view, found, monitored, watch, event, missed>>

\* grpc asks for it too, when a connection fails.
ResolveNow ==
    /\ ticking
    /\ conn' = GetServiceNodes
    /\ UNCHANGED <<registryVars, path, view, poll, found, ticking, monitored, watch, event, missed>>

-----------------------------------------------------------------------------
(* The watch *)

\* The target is new to the ticker once; its watch is made then.
TickWatch ==
    /\ ticking /\ ~monitored
    /\ monitored' = TRUE
    /\ watch' = "start"
    /\ UNCHANGED <<registryVars, path, view, conn, poll, found, ticking, event, missed>>

\* etcd takes the watch: it tells what comes after.
StartWatch ==
    /\ watch = "start"
    /\ watch' = "wait"
    /\ UNCHANGED <<registryVars, path, view, conn, poll, found, ticking, monitored, event, missed>>

Receive ==
    /\ watch = "wait"
    /\ events # <<>>
    /\ event' = Head(events)
    /\ events' = Tail(events)
    /\ watch' = Head(events).type
    /\ UNCHANGED <<path, life, reg, putting, leases, store, view, conn, poll, found,
                   ticking, monitored, missed>>

HandlePut ==
    /\ watch = "put"
    /\ view' = view \cup {event.node}
    /\ event' = NoEvent
    /\ watch' = "wait"
    /\ UNCHANGED <<registryVars, path, conn, poll, found, ticking, monitored, missed>>

\* Fault: the watch goes on as if the node had been removed.
RemoveNothing(n) == view' = view

\* The name in a key of two parts; for any other there is an error.
SplitPath(n) == IF Len(path[n]) = 2 THEN path[n][1] ELSE NoName

\* removeServiceNode, under the name that is in the key.
Remove(n) == view' = IF SplitPath(n) = Target THEN view \ {n} ELSE view

\* The error of SplitPath is a panic.
HandleDelete ==
    /\ watch = "delete"
    /\ IF SplitPath(event.node) = NoName
       THEN watch' = "panic" /\ UNCHANGED <<view, event>>
       ELSE /\ Remove(event.node)
            /\ event' = NoEvent
            /\ watch' = "get"
    /\ UNCHANGED <<registryVars, path, conn, poll, found, ticking, monitored, missed>>

\* Get fails or keys are left; or with no key left watchNode ends, and with it
\* what it was not told yet. Nothing starts it again.
CheckLeft ==
    /\ watch = "get"
    /\ \/ watch' = "wait" /\ UNCHANGED <<events, missed>>
       \/ /\ \A n \in Nodes : ~Registered(n)
          /\ watch' = "gone"
          /\ events' = <<>>
          /\ missed' = missed \cup {events[i].node : i \in 1..Len(events)}
    /\ UNCHANGED <<path, life, reg, putting, leases, store, view, conn, poll, found,
                   ticking, monitored, event>>

-----------------------------------------------------------------------------

\* A step of the registry; a node is missed when it goes while nobody watches,
\* or while the poll holds an answer that has it.
RegistrySteps ==
    /\ \E n \in Nodes : RegistryStep(n, Watched)
    /\ missed' = {n \in Nodes :
                    /\ store'[n] = 0
                    /\ IF store[n] # 0 THEN ~Watched \/ n \in found ELSE n \in missed}
    /\ UNCHANGED resolverVars

Poll == SetTargetNode \/ TickPoll \/ GetAll \/ GetFails \/ AddFound \/ Push \/ ResolveNow

Watch == TickWatch \/ StartWatch \/ Receive \/ HandlePut \/ HandleDelete \/ CheckLeft

\* A panic ends both goroutines.
Running == watch # "panic"

ResolverNext == RegistrySteps \/ (Running /\ (Poll \/ Watch))

\* Goroutines run and tickers tick, until one panics; some Gets succeed; requests come to an end,
\* and etcd ends the leases nobody keeps alive.
Fairness ==
    /\ WF_allVars(Running /\ TickPoll) /\ WF_allVars(Running /\ AddFound)
    /\ WF_allVars(Running /\ Push) /\ WF_allVars(Running /\ (GetAll \/ GetFails))
    /\ SF_allVars(Running /\ GetAll)
    /\ WF_allVars(Receive) /\ WF_allVars(HandlePut)
    /\ WF_allVars(HandleDelete) /\ WF_allVars(CheckLeft)
    /\ \A n \in Nodes, l \in Lives \ {0} :
        /\ WF_registryVars(PutLost(n, l) \/ (Room /\ Put(n, l, Watched)))
        /\ WF_registryVars(/\ n \in Failing /\ ~(reg[n] = "up" /\ l = life[n])
                           /\ Expire(n, l, Watched))

ResolverSpec == ResolverInit /\ [][ResolverNext]_allVars /\ Fairness

-----------------------------------------------------------------------------

ResolverTypeOK ==
    /\ life \in [Nodes -> Lives]
    /\ reg \in [Nodes -> {"off", "up", "lost", "stopping"}]
    /\ putting \in [Nodes -> SUBSET Lives]
    /\ leases \in [Nodes -> SUBSET Lives]
    /\ store \in [Nodes -> Lives]
    /\ events \in Seq(Event)
    /\ event \in Event \cup {NoEvent}
    /\ path \in Paths
    /\ {ticking, monitored} \subseteq BOOLEAN
    /\ {view, conn, found, missed} \subseteq SUBSET Nodes
    /\ poll \in {"none", "get", "add", "push", "idle"}
    /\ watch \in {"none", "start", "wait", "put", "delete", "get", "gone", "panic"}

\* What the watch will still tell the view of a node.
Deleting(n) ==
    \/ watch = "delete" /\ event.node = n
    \/ \E i \in 1..Len(events) : events[i] = [type |-> "delete", node |-> n]

\* While the process runs, a node that is in the view and not in etcd is on its
\* way out of it, unless its end was missed: the poll only adds, the watch starts
\* late and ends when all nodes are gone (etcd-resolver.go:166, 296).  A key of
\* more than two parts, of a name with a dot, has its deletion on the way until
\* that ends the process (283).  Of a node under another name of two parts, which
\* is removed where it is not (286), nothing is said.
StaleWasMissed ==
    Running =>
        \A n \in view : ~Registered(n) /\ SplitPath(n) \in {Target, NoName} =>
            Deleting(n) \/ n \in missed

\* A node that stays registered while the process runs on gets into the addresses
\* of the connection and stays there, whatever was deleted before and however the
\* two goroutines meet.  A process that follows a name with a dot, as goim.logic,
\* does not run on after the first deletion its watch is told (etcd-resolver.go:283).
RegisteredIsUsed ==
    \A n \in Nodes : <>[](ticking /\ Running /\ Registered(n)) => <>[](n \in conn)

\* A process that ended, and is not started again, leaves etcd, even when its
\* last Put comes after its Delete (etcd-register.go:122).
EndedIsUnregistered == \A n \in Nodes : <>[](reg[n] = "off") => <>[]~Registered(n)

=============================================================================
