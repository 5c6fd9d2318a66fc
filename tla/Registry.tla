------------------------------ MODULE Registry ------------------------------
(***************************************************************************)
(* Processes that register themselves in etcd                              *)
(* (pkg/discovery/etcd-register.go).  Each has one node, whose key it      *)
(* writes again on every answer to a keepalive of its lease.  etcd drops   *)
(* the keys of a lease that is not kept alive, and tells those that watch. *)
(*                                                                         *)
(* A process stops, crashes, is cut off from etcd, and is started again    *)
(* under the same name and address.                                        *)
(***************************************************************************)
EXTENDS Integers, Sequences

CONSTANTS
    Nodes,      \* what processes register: a name and an address
    Failing,    \* bound: the processes that end, or are cut off
    MaxLives,   \* bound: how often a process is started
    MaxEvents   \* bound: what the watch is behind when a key is put

ASSUME RegistryAssumption ==
    /\ Failing \subseteq Nodes
    /\ {MaxLives, MaxEvents} \subseteq Nat \ {0}

VARIABLES
    life,       \* which run of the process this is
    reg,        \* what its register goroutine does
    putting,    \* the runs that have a Put under way
    leases,     \* the runs whose lease exists
    store,      \* etcd: the run whose lease holds the key of a node, or 0
    events      \* what the watch was not told yet

registryVars == <<life, reg, putting, leases, store, events>>

Lives == 0..MaxLives

\* In etcd.
Registered(n) == store[n] # 0

RegistryInit ==
    /\ life = [n \in Nodes |-> 0]
    /\ reg = [n \in Nodes |-> "off"]
    /\ putting = [n \in Nodes |-> {}]
    /\ leases = [n \in Nodes |-> {}]
    /\ store = [n \in Nodes |-> 0]
    /\ events = <<>>

\* A change of a key, told to the watch if there is one.
Change(n, l, watched) ==
    /\ store' = [store EXCEPT ![n] = l]
    /\ events' = IF watched
                 THEN Append(events, [type |-> IF l = 0 THEN "delete" ELSE "put", node |-> n])
                 ELSE events

\* Grant, and the goroutine starts; if KeepAlive fails it waits for nothing.
Start(n) ==
    /\ reg[n] = "off" /\ life[n] < MaxLives
    /\ life' = [life EXCEPT ![n] = @ + 1]
    /\ leases' = [leases EXCEPT ![n] = @ \cup {life[n] + 1}]
    /\ \E r \in {"up"} \cup (IF n \in Failing THEN {"lost"} ELSE {}) : reg' = [reg EXCEPT ![n] = r]
    /\ UNCHANGED <<putting, store, events>>

\* An answer to a keepalive: register writes the key.
KeepAlive(n) ==
    /\ reg[n] = "up" /\ life[n] \in leases[n]
    /\ life[n] \notin putting[n]
    /\ putting' = [putting EXCEPT ![n] = @ \cup {life[n]}]
    /\ UNCHANGED <<life, reg, leases, store, events>>

\* Fault: the key is written without a lease.
PutAnyway(n, l, watched) ==
    /\ l \in putting[n]
    /\ putting' = [putting EXCEPT ![n] = @ \ {l}]
    /\ Change(n, MaxLives + 1, watched)
    /\ UNCHANGED <<life, reg, leases>>

\* etcd takes the Put, even after the goroutine was cancelled or its process
\* ended; one with a lease that is gone it refuses.
Put(n, l, watched) ==
    /\ l \in putting[n]
    /\ putting' = [putting EXCEPT ![n] = @ \ {l}]
    /\ IF l \in leases[n] THEN Change(n, l, watched) ELSE UNCHANGED <<store, events>>
    /\ UNCHANGED <<life, reg, leases>>

\* The request is lost, or cancelled in time.
PutLost(n, l) ==
    /\ l \in putting[n]
    /\ putting' = [putting EXCEPT ![n] = @ \ {l}]
    /\ UNCHANGED <<life, reg, leases, store, events>>

\* Stop cancels the goroutine, and then deletes the key.
Stop(n) ==
    /\ reg[n] \in {"up", "lost"}
    /\ reg' = [reg EXCEPT ![n] = "stopping"]
    /\ UNCHANGED <<life, putting, leases, store, events>>

Deregister(n, watched) ==
    /\ reg[n] = "stopping"
    /\ reg' = [reg EXCEPT ![n] = "off"]
    /\ IF Registered(n) THEN Change(n, 0, watched) ELSE UNCHANGED <<store, events>>
    /\ UNCHANGED <<life, putting, leases>>

\* The process ends without Stop, or its Delete fails.
Crash(n) ==
    /\ reg[n] # "off"
    /\ reg' = [reg EXCEPT ![n] = "off"]
    /\ UNCHANGED <<life, putting, leases, store, events>>

\* A lease ends when nobody keeps it alive, or its process is cut off; the
\* goroutine ends with its channel and asks for no other.
Expire(n, l, watched) ==
    /\ l \in leases[n]
    /\ leases' = [leases EXCEPT ![n] = @ \ {l}]
    /\ reg' = IF reg[n] = "up" /\ l = life[n] THEN [reg EXCEPT ![n] = "lost"] ELSE reg
    /\ IF store[n] = l THEN Change(n, 0, watched) ELSE UNCHANGED <<store, events>>
    /\ UNCHANGED <<life, putting>>

\* Bound on the puts the watch is behind; deletes are bounded by MaxLives.
Room == Len(events) < MaxEvents

RegistryStep(n, watched) ==
    \/ Start(n) \/ KeepAlive(n)
    \/ \E l \in Lives : PutLost(n, l) \/ (Room /\ Put(n, l, watched))
    \/ n \in Failing /\ (Stop(n) \/ Crash(n) \/ Deregister(n, watched))
    \/ n \in Failing /\ \E l \in Lives : Expire(n, l, watched)
=============================================================================
