------------------------------- MODULE Timer -------------------------------
(***************************************************************************)
(* The round timer of comet (pkg/time/timer.go): entries with deadlines in *)
(* a heap, a list of free entries that are used again, one time.Timer      *)
(* armed for the earliest deadline, and one goroutine that takes what is   *)
(* due and runs its callback outside of the lock.  Connections Add an      *)
(* entry when they are accepted, Set it on heartbeats and Del it once at   *)
(* their end, while that goroutine runs.                                   *)
(*                                                                         *)
(* An action is one region under t.lock; time passes between regions.  The *)
(* heap is the set of its entries: that an earliest one is at index 0, and *)
(* that add ends at index 0 exactly for an entry earlier than all others,  *)
(* is what module Heap shows.                                              *)
(***************************************************************************)
EXTENDS Integers, Sequences

CONSTANTS
    Owners,     \* connections; each uses the timer once
    Delays,     \* what they ask for
    None,       \* nil
    Num,        \* entries that grow allocates
    MaxTDs,     \* bound: entries ever allocated
    MaxSets,    \* bound: calls of Set
    MaxTime     \* bound: the clock

ASSUME TimerAssumption ==
    /\ None \notin Owners
    /\ Delays \subseteq Nat
    /\ Num \in Nat \ {0}
    /\ MaxTDs \in Nat
    /\ MaxSets \in Nat
    /\ MaxTime \in Nat

VARIABLES
    now,                    \* the clock
    queue, expire, fn,      \* t.timers; td.expire, td.fn
    free, allocated,        \* t.free, first entry first; entries made by grow
    alarm, token,           \* t.signal: when it goes off; a value waits in C
    runner, running,        \* the goroutine: where, its local fn
    held,                   \* the TimerData of a connection
    sets, calls             \* Set calls; callbacks run for each owner

queueVars == <<queue, expire, fn>>
freeVars == <<free, allocated>>
signal == <<alarm, token>>
runnerVars == <<runner, running, calls>>
ownerVars == <<held, sets>>
vars == <<now, queueVars, freeVars, signal, runnerVars, ownerVars>>

TDs == 1..MaxTDs
Nil == 0        \* no TimerData yet
Gone == -1      \* after Del
Never == -1     \* infiniteDuration

\* init: the first entries are allocated, the signal is set to never, the
\* goroutine starts.
Init ==
    /\ now = 0
    /\ queue = {}
    /\ expire = [td \in TDs |-> 0]
    /\ fn = [td \in TDs |-> None]
    /\ free = [i \in 1..Num |-> i]
    /\ allocated = Num
    /\ alarm = Never
    /\ token = FALSE
    /\ runner = "look"
    /\ running = None
    /\ held = [o \in Owners |-> Nil]
    /\ sets = 0
    /\ calls = [o \in Owners |-> 0]

-----------------------------------------------------------------------------
\* t.signal.Reset: since Go 1.23 no value of an earlier setting stays in C.
Reset(t) == alarm' = t /\ token' = FALSE

\* td.index = 0 at the end of add.
BecomesFirst(td, t) == \A other \in queue \ {td} : t < expire[other]

\* Fault: only an empty heap arms the signal.
ScheduleIfEmpty(td, t) ==
    /\ queue' = queue \cup {td}
    /\ expire' = [expire EXCEPT ![td] = t]
    /\ IF queue = {} THEN Reset(t) ELSE UNCHANGED signal

\* add, also for an entry that del just took out.
Schedule(td, t) ==
    /\ queue' = queue \cup {td}
    /\ expire' = [expire EXCEPT ![td] = t]
    /\ IF BecomesFirst(td, t) THEN Reset(t) ELSE UNCHANGED signal

\* grow: a block of fresh entries.
Grow == [i \in 1..Num |-> allocated + i]

\* get
Get(td) ==
    IF free # <<>>
    THEN /\ td = Head(free)
         /\ free' = Tail(free)
         /\ UNCHANGED allocated
    ELSE /\ allocated + Num <= MaxTDs
         /\ td = Head(Grow)
         /\ free' = Tail(Grow)
         /\ allocated' = allocated + Num

Add(o) ==
    /\ held[o] = Nil
    /\ \E td \in TDs, d \in Delays :
        /\ Get(td)
        /\ Schedule(td, now + d)
        /\ fn' = [fn EXCEPT ![td] = o]
        /\ held' = [held EXCEPT ![o] = td]
    /\ UNCHANGED <<now, runnerVars, sets>>

\* Set, also of an entry that expired meanwhile.
Set(o) ==
    /\ held[o] \in TDs
    /\ sets < MaxSets
    /\ sets' = sets + 1
    /\ \E d \in Delays : Schedule(held[o], now + d)
    /\ UNCHANGED <<now, fn, freeVars, runnerVars, held>>

\* Fault: Del only returns the entry to the free list.
DelKeepsEntry(o) ==
    /\ held[o] \in TDs
    /\ free' = <<held[o]>> \o free
    /\ fn' = [fn EXCEPT ![held[o]] = None]
    /\ held' = [held EXCEPT ![o] = Gone]
    /\ UNCHANGED <<now, queue, expire, allocated, signal, runnerVars, sets>>

\* Del: del and put; the signal stays as it is.
Del(o) ==
    /\ held[o] \in TDs
    /\ queue' = queue \ {held[o]}
    /\ free' = <<held[o]>> \o free
    /\ fn' = [fn EXCEPT ![held[o]] = None]
    /\ held' = [held EXCEPT ![o] = Gone]
    /\ UNCHANGED <<now, expire, allocated, signal, runnerVars, sets>>

-----------------------------------------------------------------------------
(* expire, and the loop of start around it *)

\* timers[0]: an entry no other one precedes.
Earliest == {td \in queue : \A other \in queue : expire[td] <= expire[other]}

\* Fault: an entry is due one tick early.
DueEarly(td) == expire[td] <= now + 1

\* td.Delay() <= 0
Due(td) == expire[td] <= now

\* The first entry is due: it leaves the heap, its fn is kept, the lock goes.
Pop ==
    /\ runner = "look"
    /\ \E td \in Earliest :
        /\ Due(td)
        /\ queue' = queue \ {td}
        /\ running' = fn[td]
    /\ runner' = "call"
    /\ UNCHANGED <<now, expire, fn, freeVars, signal, calls, ownerVars>>

\* fn(), without the lock; a nil fn is only logged.
Call ==
    /\ runner = "call"
    /\ calls' = IF running = None THEN calls ELSE [calls EXCEPT ![running] = @ + 1]
    /\ running' = None
    /\ runner' = "look"
    /\ UNCHANGED <<now, queueVars, freeVars, signal, ownerVars>>

\* Fault: the signal is left as the last call of add set it.
SleepUnarmed ==
    /\ runner = "look"
    /\ \A td \in Earliest : ~Due(td)
    /\ runner' = "wait"
    /\ UNCHANGED <<now, queueVars, freeVars, signal, running, calls, ownerVars>>

\* Nothing is due: the signal is set to the first deadline, or to never.
Sleep ==
    /\ runner = "look"
    /\ \/ queue = {} /\ Reset(Never)
       \/ \E td \in Earliest : ~Due(td) /\ Reset(expire[td])
    /\ runner' = "wait"
    /\ UNCHANGED <<now, queueVars, freeVars, running, calls, ownerVars>>

\* <-t.signal.C
Wake ==
    /\ runner = "wait"
    /\ token
    /\ token' = FALSE
    /\ runner' = "look"
    /\ UNCHANGED <<now, queueVars, freeVars, alarm, running, calls, ownerVars>>

-----------------------------------------------------------------------------
\* The runtime sends the signal; until it does so time may pass.
Ring ==
    /\ alarm # Never
    /\ alarm <= now
    /\ alarm' = Never
    /\ token' = TRUE
    /\ UNCHANGED <<now, queueVars, freeVars, runnerVars, ownerVars>>

Tick ==
    /\ now < MaxTime
    /\ now' = now + 1
    /\ UNCHANGED <<queueVars, freeVars, signal, runnerVars, ownerVars>>

Owner(o) == Add(o) \/ Set(o) \/ Del(o)
Runner == Pop \/ Call \/ Sleep \/ Wake

\* Every connection is gone and the goroutine waits for a signal that was set
\* to never, or past the bound of the clock.
Idle ==
    /\ \A o \in Owners : held[o] = Gone
    /\ runner = "wait"
    /\ UNCHANGED vars

Next == (\E o \in Owners : Owner(o)) \/ Runner \/ Ring \/ Tick \/ Idle

Spec == Init /\ [][Next]_vars

\* The goroutine runs, the runtime rings, the clock goes on; connections may
\* do nothing for ever.
FairSpec == Spec /\ WF_vars(Runner) /\ WF_vars(Ring) /\ WF_vars(Tick)

-----------------------------------------------------------------------------
(* Properties *)

TypeOK ==
    /\ now \in 0..MaxTime
    /\ queue \subseteq TDs
    /\ expire \in [TDs -> Nat]
    /\ fn \in [TDs -> Owners \cup {None}]
    /\ allocated \in Nat
    /\ free \in Seq(1..allocated)
    /\ alarm \in Nat \cup {Never}
    /\ token \in BOOLEAN
    /\ runner \in {"look", "call", "wait"}
    /\ running \in Owners \cup {None}
    /\ held \in [Owners -> TDs \cup {Nil, Gone}]
    /\ sets \in 0..MaxSets
    /\ calls \in [Owners -> Nat]

\* The heap holds no entry whose connection is gone or has another one: every
\* entry in it belongs to the connection its callback closes, and no two
\* connections have the same entry.
ScheduledIsHeld ==
    /\ \A td \in queue : fn[td] # None /\ held[fn[td]] = td
    /\ \A o, p \in Owners : held[o] \in TDs /\ held[o] = held[p] => o = p

\* The free list never holds an entry twice, nor one that is in the heap or
\* that a connection still has, although expire takes entries out of the heap
\* behind the back of the connection that will Del them.
FreeIsFree ==
    /\ \A i, j \in 1..Len(free) : free[i] = free[j] => i = j
    /\ \A i \in 1..Len(free) :
        free[i] \notin queue /\ \A o \in Owners : held[o] # free[i]

\* No wakeup is lost: when the goroutine waits and the heap is not empty, the
\* signal is there or goes off no later than the first deadline.
ArmedInTime ==
    runner = "wait" /\ queue # {} =>
        \/ token
        \/ alarm # Never /\ \A td \in queue : alarm <= expire[td]

\* The deadline of every connection, as it sees it.
DeadlineOf ==
    [o \in Owners |-> IF held[o] \in queue THEN expire[held[o]] ELSE Never]

Promise == INSTANCE Deadlines WITH deadline <- DeadlineOf, calling <- running

\* Reuse of entries, callbacks outside of the lock and entries that expire
\* while they are moved or deleted do not show: the timer keeps the promise of
\* module Deadlines.
KeepsDeadlines == Promise!Spec

\* What is due is taken: an entry does not stay in the heap past its deadline.
DueIsTaken ==
    \A td \in TDs : (td \in queue /\ Due(td)) ~> (td \notin queue \/ ~Due(td))
=============================================================================
