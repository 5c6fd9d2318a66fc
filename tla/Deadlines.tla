----------------------------- MODULE Deadlines -----------------------------
(***************************************************************************)
(* What the round timer promises the connections that use it: a callback   *)
(* runs for a deadline that was set and has passed, once, and not for one  *)
(* that was moved or deleted before it passed.  A callback that is already *)
(* on its way when its deadline is moved or deleted still runs.            *)
(***************************************************************************)
EXTENDS Integers

CONSTANTS
    Owners,     \* the connections
    Delays,     \* what Add and Set may ask for
    Never,      \* no deadline
    None        \* no owner

VARIABLES
    now,        \* the clock
    deadline,   \* of every owner
    calling,    \* the owner whose callback is on its way
    calls       \* how often the callback of each owner ran

vars == <<now, deadline, calling, calls>>

Init ==
    /\ now = 0
    /\ deadline = [o \in Owners |-> Never]
    /\ calling = None
    /\ calls = [o \in Owners |-> 0]

Tick ==
    /\ now' = now + 1
    /\ UNCHANGED <<deadline, calling, calls>>

Arm(o) ==
    /\ \E d \in Delays : deadline' = [deadline EXCEPT ![o] = now + d]
    /\ UNCHANGED <<now, calling, calls>>

Drop(o) ==
    /\ deadline' = [deadline EXCEPT ![o] = Never]
    /\ UNCHANGED <<now, calling, calls>>

Expire(o) ==
    /\ calling = None
    /\ deadline[o] # Never
    /\ deadline[o] <= now
    /\ deadline' = [deadline EXCEPT ![o] = Never]
    /\ calling' = o
    /\ UNCHANGED <<now, calls>>

Call(o) ==
    /\ calling = o
    /\ calling' = None
    /\ calls' = [calls EXCEPT ![o] = @ + 1]
    /\ UNCHANGED <<now, deadline>>

Next == Tick \/ \E o \in Owners : Arm(o) \/ Drop(o) \/ Expire(o) \/ Call(o)

Spec == Init /\ [][Next]_vars
=============================================================================
