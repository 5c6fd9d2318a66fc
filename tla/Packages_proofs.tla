-------------------------- MODULE Packages_proofs ---------------------------
(***************************************************************************)
(* Proofs about two packages of pkg: the timer, for any number of          *)
(* connections and entries, and discovery, for any processes and names,    *)
(* and any number of runs and events.  They share nothing; each theorem is *)
(* about the specification of one.                                         *)
(*                                                                         *)
(* Of the timer what matters is who has an entry: a connection that has    *)
(* one is the owner its callback names, so an entry in the heap, one a     *)
(* connection holds after it expired, and one on the free list are told    *)
(* apart.  Of discovery it is what the resolver knows against what etcd    *)
(* has.                                                                    *)
(***************************************************************************)
EXTENDS Timer, Resolver, SequenceTheorems, TLAPS

-----------------------------------------------------------------------------
(* The timer: the inductive invariant *)

\* A connection that has an entry is the one its fn closes.
HeldInv ==
    \A o \in Owners : held[o] \in TDs => fn[held[o]] = o /\ held[o] <= allocated

QueueInv == \A td \in queue : fn[td] # None /\ held[fn[td]] = td

\* Entries on the free list are there once and nobody has them.
FreeInv ==
    /\ \A i, j \in 1..Len(free) : free[i] = free[j] => i = j
    /\ \A i \in 1..Len(free), o \in Owners : held[o] # free[i]

RunningInv == runner # "call" => running = None

Inv == TypeOK /\ HeldInv /\ QueueInv /\ FreeInv /\ RunningInv /\ ArmedInTime

-----------------------------------------------------------------------------
(* The free list *)

\* A block of consecutive entries.
LEMMA Block ==
    ASSUME NEW n \in Nat \ {0}, NEW a \in Nat
    PROVE  LET b == [i \in 1..n |-> a + i] IN
           /\ b \in Seq(1..a + n) /\ Len(b) = n /\ b # <<>>
           /\ \A i \in 1..n : b[i] = a + i
<1> DEFINE b == [i \in 1..n |-> a + i]
<1>1. b \in [1..n -> 1..a + n]
  OBVIOUS
<1>2. b \in Seq(1..a + n) /\ Len(b) = n
  BY <1>1
<1>3. \A i \in 1..n : b[i] = a + i
  OBVIOUS
<1>4. b # <<>>
  BY <1>2
<1> QED BY <1>2, <1>3, <1>4

\* The first entry leaves the list.
LEMMA FirstLeaves ==
    ASSUME NEW S, NEW s \in Seq(S), s # <<>>,
           \A i, j \in 1..Len(s) : s[i] = s[j] => i = j
    PROVE  /\ Tail(s) \in Seq(S) /\ Head(s) = s[1] /\ Head(s) \in S
           /\ 1 \in 1..Len(s)
           /\ \A i \in 1..Len(Tail(s)) : i + 1 \in 1..Len(s) /\ Tail(s)[i] = s[i + 1]
           /\ \A i, j \in 1..Len(Tail(s)) : Tail(s)[i] = Tail(s)[j] => i = j
           /\ \A i \in 1..Len(Tail(s)) : Tail(s)[i] # Head(s)
<1>1. /\ Tail(s) \in Seq(S) /\ Len(Tail(s)) = Len(s) - 1 /\ Head(s) = s[1]
      /\ Len(s) \in Nat \ {0} /\ \A i \in 1..Len(s) : s[i] \in S
      /\ \A i \in 1..Len(Tail(s)) : Tail(s)[i] = s[i + 1]
  OBVIOUS
<1>2. /\ 1 \in 1..Len(s)
      /\ \A i \in 1..Len(Tail(s)) : i + 1 \in 1..Len(s) /\ i + 1 # 1
  BY <1>1
<1> QED BY <1>1, <1>2

\* An entry that is not in the list is put before it.
LEMMA PutBefore ==
    ASSUME NEW S, NEW s \in Seq(S), NEW x \in S,
           \A i, j \in 1..Len(s) : s[i] = s[j] => i = j,
           \A i \in 1..Len(s) : s[i] # x
    PROVE  /\ <<x>> \o s \in Seq(S)
           /\ \A i, j \in 1..Len(<<x>> \o s) : (<<x>> \o s)[i] = (<<x>> \o s)[j] => i = j
           /\ \A i \in 1..Len(<<x>> \o s) :
                (<<x>> \o s)[i] = x \/ \E j \in 1..Len(s) : (<<x>> \o s)[i] = s[j]
<1> DEFINE t == <<x>> \o s
<1>1. <<x>> \in Seq(S) /\ Len(<<x>>) = 1 /\ <<x>>[1] = x
  OBVIOUS
<1>2. t \in Seq(S)
  BY <1>1, ConcatProperties
<1>3. Len(t) = 1 + Len(s) /\ Len(s) \in Nat
  BY <1>1, ConcatProperties
<1>4. \A i \in 1..Len(t) : t[i] = IF i <= 1 THEN <<x>>[i] ELSE s[i - 1]
  BY <1>1, ConcatProperties
<1> HIDE DEF t
<1>5. t[1] = x
  BY <1>1, <1>3, <1>4
<1>6. \A i \in 1..Len(t) : i = 1 \/ (i - 1 \in 1..Len(s) /\ t[i] = s[i - 1])
  BY <1>3, <1>4
<1>7. ASSUME NEW i \in 1..Len(t), NEW j \in 1..Len(t), t[i] = t[j] PROVE i = j
  BY <1>3, <1>5, <1>6, <1>7
<1>8. \A i \in 1..Len(t) : t[i] = x \/ \E j \in 1..Len(s) : t[i] = s[j]
  BY <1>5, <1>6
<1> QED BY <1>2, <1>7, <1>8 DEF t

-----------------------------------------------------------------------------
(* Operations of the timer *)

\* What get returns: an entry that nobody has.
LEMMA GetFresh ==
    ASSUME TypeOK, HeldInv, FreeInv, NEW td \in TDs, Get(td)
    PROVE  /\ allocated' \in Nat /\ allocated <= allocated' /\ td <= allocated'
           /\ free' \in Seq(1..allocated')
           /\ \A i, j \in 1..Len(free') : free'[i] = free'[j] => i = j
           /\ \A i \in 1..Len(free') :
                free'[i] # td /\ \A o \in Owners : held[o] # free'[i]
           /\ \A o \in Owners : held[o] # td
<1> USE DEF TypeOK
<1>1. allocated \in Nat /\ free \in Seq(1..allocated)
  OBVIOUS
<1>2. \A i, j \in 1..Len(free) : free[i] = free[j] => i = j
  BY DEF FreeInv
<1>3. \A o \in Owners : held[o] \in Int /\ held[o] <= allocated
  <2> TAKE o \in Owners
  <2>1. held[o] \in TDs \/ held[o] = 0 \/ held[o] = -1
    BY DEF Nil, Gone
  <2>2. CASE held[o] \in TDs
    BY <2>2 DEF HeldInv, TDs
  <2>3. CASE held[o] \notin TDs
    BY <1>1, <2>1, <2>3
  <2> QED BY <2>2, <2>3
<1> HIDE DEF TypeOK
<1>4. CASE free # <<>>
  <2>1. td = Head(free) /\ free' = Tail(free) /\ allocated' = allocated
    BY <1>4 DEF Get
  <2> DEFINE tl == Tail(free)
             hd == Head(free)
  <2>2. /\ tl \in Seq(1..allocated) /\ hd = free[1] /\ hd \in 1..allocated
        /\ 1 \in 1..Len(free)
        /\ \A i \in 1..Len(tl) : i + 1 \in 1..Len(free) /\ tl[i] = free[i + 1]
        /\ \A i, j \in 1..Len(tl) : tl[i] = tl[j] => i = j
        /\ \A i \in 1..Len(tl) : tl[i] # hd
    BY <1>1, <1>2, <1>4, FirstLeaves
  <2>3. \A o \in Owners : held[o] # hd
    BY <2>2 DEF FreeInv
  <2>4. \A i \in 1..Len(tl), o \in Owners : held[o] # tl[i]
    BY <2>2 DEF FreeInv
  <2>5. td = hd /\ free' = tl
    BY <2>1
  <2>6. hd <= allocated /\ allocated <= allocated
    BY <1>1, <2>2
  <2> HIDE DEF tl, hd
  <2> QED BY <1>1, <2>1, <2>2, <2>3, <2>4, <2>5, <2>6
<1>5. CASE free = <<>>
  <2> DEFINE b == Grow
             tl == Tail(b)
             hd == Head(b)
  <2>1. hd = td /\ free' = tl /\ allocated' = allocated + Num
    BY <1>5 DEF Get
  <2>2. /\ b \in Seq(1..allocated + Num) /\ Len(b) = Num /\ b # <<>>
        /\ \A i \in 1..Num : b[i] = allocated + i
    BY <1>1, Block, TimerAssumption DEF Grow
  <2> HIDE DEF b
  <2>3. \A i, j \in 1..Len(b) : b[i] = b[j] => i = j
    BY <1>1, <2>2, TimerAssumption
  <2>4. /\ tl \in Seq(1..allocated + Num) /\ hd = b[1] /\ hd \in 1..allocated + Num
        /\ 1 \in 1..Len(b)
        /\ \A i \in 1..Len(tl) : i + 1 \in 1..Len(b) /\ tl[i] = b[i + 1]
        /\ \A i, j \in 1..Len(tl) : tl[i] = tl[j] => i = j
        /\ \A i \in 1..Len(tl) : tl[i] # hd
    BY <2>2, <2>3, FirstLeaves
  <2> HIDE DEF tl, hd
  <2>5. hd = allocated + 1 /\ \A i \in 1..Len(tl) : tl[i] = allocated + (i + 1)
    BY <2>2, <2>4
  <2>6. \A o \in Owners : held[o] # hd
    <3>1. hd \in Int /\ allocated < hd
      BY <1>1, <2>5
    <3>2. ASSUME NEW o \in Owners, held[o] = hd PROVE FALSE
      <4>1. hd <= allocated
        BY <1>3, <3>2
      <4> QED BY <1>1, <3>1, <4>1
    <3> QED BY <3>2
  <2>7. \A i \in 1..Len(tl), o \in Owners : held[o] # tl[i]
    <3> SUFFICES ASSUME NEW i \in 1..Len(tl), NEW o \in Owners
                 PROVE  held[o] # tl[i]
      OBVIOUS
    <3>1. i \in Nat
      BY <2>4
    <3>2. tl[i] > allocated
      BY <1>1, <2>5, <3>1
    <3> QED BY <1>1, <1>3, <3>2
  <2>8. allocated + Num \in Nat /\ allocated <= allocated + Num
    BY <1>1, TimerAssumption
  <2>9. hd <= allocated + Num
    BY <2>4
  <2> QED BY <2>1, <2>4, <2>6, <2>7, <2>8, <2>9
<1> QED BY <1>4, <1>5

\* add sets the signal exactly when it has to.
LEMMA ScheduleArms ==
    ASSUME TypeOK, ArmedInTime, runner' = runner,
           NEW td \in TDs, NEW t \in Nat, Schedule(td, t)
    PROVE  /\ queue' \subseteq TDs /\ expire' \in [TDs -> Nat]
           /\ alarm' \in Nat \cup {Never} /\ token' \in BOOLEAN
           /\ ArmedInTime'
<1> USE DEF TypeOK
<1>1. /\ queue' = queue \cup {td} /\ expire' = [expire EXCEPT ![td] = t]
      /\ expire' \in [TDs -> Nat] /\ expire'[td] = t
      /\ \A other \in queue \ {td} : expire'[other] = expire[other]
  BY DEF Schedule
<1>2. CASE BecomesFirst(td, t)
  <2>1. alarm' = t /\ token' = FALSE
    BY <1>2 DEF Schedule, Reset
  <2>2. \A other \in queue' : t <= expire'[other]
    BY <1>1, <1>2 DEF BecomesFirst
  <2>3. t # Never
    BY DEF Never
  <2> QED BY <1>1, <2>1, <2>2, <2>3 DEF ArmedInTime
<1>3. CASE ~BecomesFirst(td, t)
  <2>1. alarm' = alarm /\ token' = token
    BY <1>3 DEF Schedule, signal
  <2>2. PICK first \in queue \ {td} : ~(t < expire[first])
    BY <1>3 DEF BecomesFirst
  <2>3. expire[first] \in Nat /\ expire[first] <= t
    BY <2>2
  <2>4. ASSUME runner = "wait", ~token
        PROVE  alarm # Never /\ \A other \in queue' : alarm <= expire'[other]
    <3>1. alarm \in Nat /\ \A other \in queue : alarm <= expire[other]
      BY <2>2, <2>4 DEF ArmedInTime
    <3>2. alarm <= t
      BY <2>2, <2>3, <3>1
    <3> QED BY <1>1, <3>1, <3>2 DEF Never
  <2> QED BY <1>1, <2>1, <2>4 DEF ArmedInTime
<1> QED BY <1>2, <1>3

-----------------------------------------------------------------------------
(* Every action keeps the invariant *)

LEMMA InitInv == Init => Inv
<1> SUFFICES ASSUME Init PROVE Inv
  OBVIOUS
<1>1. free \in Seq(1..Num) /\ Len(free) = Num /\ \A i \in 1..Num : free[i] = i
  <2>1. free \in [1..Num -> 1..Num]
    BY DEF Init
  <2>2. free \in Seq(1..Num) /\ Len(free) = Num
    BY <2>1, TimerAssumption
  <2> QED BY <2>2 DEF Init
<1>2. TypeOK
  <2>1. free \in Seq(1..allocated) /\ allocated \in Nat
    BY <1>1, TimerAssumption DEF Init
  <2>2. /\ now \in 0..MaxTime /\ sets \in 0..MaxSets /\ queue \subseteq TDs
        /\ alarm \in Nat \cup {Never} /\ token \in BOOLEAN
        /\ runner \in {"look", "call", "wait"} /\ running \in Owners \cup {None}
    <3>1. now = 0 /\ sets = 0 /\ 0 \in 0..MaxTime /\ 0 \in 0..MaxSets
      BY TimerAssumption DEF Init
    <3>2. /\ alarm = Never /\ token = FALSE
          /\ queue = {} /\ runner = "look" /\ running = None
      BY DEF Init
    <3> QED BY <3>1, <3>2
  <2>3. /\ expire \in [TDs -> Nat] /\ fn \in [TDs -> Owners \cup {None}]
        /\ held \in [Owners -> TDs \cup {Nil, Gone}] /\ calls \in [Owners -> Nat]
    BY DEF Init
  <2> QED BY <2>1, <2>2, <2>3 DEF TypeOK
<1>3. HeldInv
  BY TimerAssumption DEF Init, HeldInv, TDs, Nil
<1>4. QueueInv /\ RunningInv /\ ArmedInTime
  BY DEF Init, QueueInv, RunningInv, ArmedInTime
<1>5. FreeInv
  BY <1>1, TimerAssumption DEF Init, FreeInv, Nil
<1> QED BY <1>2, <1>3, <1>4, <1>5 DEF Inv

LEMMA AddInv ==
    ASSUME Inv, NEW o \in Owners, Add(o)
    PROVE  Inv'
<1> USE DEF Inv
<1>1. PICK td \in TDs, d \in Delays :
        /\ Get(td) /\ Schedule(td, now + d)
        /\ fn' = [fn EXCEPT ![td] = o] /\ held' = [held EXCEPT ![o] = td]
  BY DEF Add
<1>2. held[o] = Nil /\ UNCHANGED <<now, runner, running, calls, sets>>
  BY DEF Add, runnerVars
<1>3. /\ allocated' \in Nat /\ allocated <= allocated' /\ td <= allocated'
      /\ free' \in Seq(1..allocated')
      /\ \A i, j \in 1..Len(free') : free'[i] = free'[j] => i = j
      /\ \A i \in 1..Len(free') : free'[i] # td /\ \A p \in Owners : held[p] # free'[i]
      /\ \A p \in Owners : held[p] # td
  BY <1>1, GetFresh
<1>4. now + d \in Nat
  BY TimerAssumption DEF TypeOK
<1>5. /\ queue' \subseteq TDs /\ expire' \in [TDs -> Nat]
      /\ alarm' \in Nat \cup {Never} /\ token' \in BOOLEAN
      /\ ArmedInTime'
  BY <1>1, <1>2, <1>4, ScheduleArms
<1>6. fn' \in [TDs -> Owners \cup {None}] /\ held' \in [Owners -> TDs \cup {Nil, Gone}]
  BY <1>1 DEF TypeOK
<1>7. TypeOK'
  BY <1>2, <1>3, <1>5, <1>6 DEF TypeOK
<1>8. /\ held'[o] = td /\ \A p \in Owners \ {o} : held'[p] = held[p]
      /\ fn'[td] = o /\ \A other \in TDs \ {td} : fn'[other] = fn[other]
  BY <1>1 DEF TypeOK
<1>9. HeldInv'
  <2> SUFFICES ASSUME NEW p \in Owners, held'[p] \in TDs
               PROVE  fn'[held'[p]] = p /\ held'[p] <= allocated'
    BY DEF HeldInv, TDs
  <2>1. CASE p = o
    BY <2>1, <1>3, <1>8
  <2>2. CASE p # o
    <3>1. held'[p] = held[p] /\ held[p] # td /\ held[p] \in TDs
      BY <2>2, <1>3, <1>8
    <3>2. fn[held[p]] = p /\ held[p] <= allocated
      BY <3>1 DEF HeldInv
    <3>3. held[p] <= allocated'
      BY <3>1, <3>2, <1>3 DEF TypeOK, TDs
    <3> QED BY <3>1, <3>2, <3>3, <1>8
  <2> QED BY <2>1, <2>2
<1>10. QueueInv'
  <2>1. queue' = queue \cup {td} /\ queue \subseteq TDs
    BY <1>1 DEF Schedule, TypeOK
  <2>2. ASSUME NEW q \in queue PROVE fn'[q] # None /\ held'[fn'[q]] = q
    <3>1. q \in TDs /\ fn[q] \in Owners /\ held[fn[q]] = q
      BY <2>1 DEF QueueInv, TypeOK
    <3>2. q # td /\ fn[q] # o
      BY <3>1, <1>2, <1>3 DEF TDs, Nil
    <3> QED BY <3>1, <3>2, <1>8, TimerAssumption
  <2> QED BY <2>1, <2>2, <1>8, TimerAssumption DEF QueueInv
<1>11. FreeInv'
  BY <1>3, <1>8 DEF FreeInv
<1>12. RunningInv'
  BY <1>2 DEF RunningInv
<1> QED BY <1>5, <1>7, <1>9, <1>10, <1>11, <1>12

LEMMA SetInv ==
    ASSUME Inv, NEW o \in Owners, Set(o)
    PROVE  Inv'
<1> USE DEF Inv
<1>1. PICK d \in Delays : Schedule(held[o], now + d)
  BY DEF Set
<1>2. /\ held[o] \in TDs /\ sets' = sets + 1 /\ sets < MaxSets
      /\ UNCHANGED <<now, fn, free, allocated, runner, running, calls, held>>
  BY DEF Set, freeVars, runnerVars
<1>3. now + d \in Nat
  BY TimerAssumption DEF TypeOK
<1>4. /\ queue' \subseteq TDs /\ expire' \in [TDs -> Nat]
      /\ alarm' \in Nat \cup {Never} /\ token' \in BOOLEAN
      /\ ArmedInTime'
  BY <1>1, <1>2, <1>3, ScheduleArms
<1>5. sets' \in 0..MaxSets
  BY <1>2, TimerAssumption DEF TypeOK
<1>6. TypeOK'
  BY <1>2, <1>4, <1>5 DEF TypeOK
<1>7. HeldInv'
  BY <1>2 DEF HeldInv, TDs
<1>8. QueueInv'
  <2>1. queue' = queue \cup {held[o]}
    BY <1>1 DEF Schedule
  <2>2. fn[held[o]] = o
    BY <1>2 DEF HeldInv
  <2>3. fn[held[o]] # None /\ held[fn[held[o]]] = held[o]
    BY <2>2, TimerAssumption
  <2> QED BY <1>2, <2>1, <2>3 DEF QueueInv
<1>9. FreeInv'
  BY <1>2 DEF FreeInv
<1>10. RunningInv'
  BY <1>2 DEF RunningInv
<1> QED BY <1>4, <1>6, <1>7, <1>8, <1>9, <1>10

LEMMA DelInv ==
    ASSUME Inv, NEW o \in Owners, Del(o)
    PROVE  Inv'
<1> USE DEF Inv
<1> DEFINE td == held[o]
<1>1. /\ td \in TDs /\ queue' = queue \ {td} /\ free' = <<td>> \o free
      /\ fn' = [fn EXCEPT ![td] = None] /\ held' = [held EXCEPT ![o] = Gone]
      /\ UNCHANGED <<now, expire, allocated, alarm, token, runner, running, calls, sets>>
  BY DEF Del, signal, runnerVars
<1>2. td \in 1..allocated /\ fn[td] = o
  BY <1>1 DEF HeldInv, TypeOK, TDs
<1>3. /\ free \in Seq(1..allocated)
      /\ \A i, j \in 1..Len(free) : free[i] = free[j] => i = j
      /\ \A i \in 1..Len(free) : free[i] # td
  BY DEF FreeInv, TypeOK
<1> HIDE DEF td
<1>4. /\ free' \in Seq(1..allocated')
      /\ \A i, j \in 1..Len(free') : free'[i] = free'[j] => i = j
      /\ \A i \in 1..Len(free') :
            free'[i] = td \/ \E j \in 1..Len(free) : free'[i] = free[j]
  <2> DEFINE t == <<td>> \o free
  <2>1. /\ t \in Seq(1..allocated)
        /\ \A i, j \in 1..Len(t) : t[i] = t[j] => i = j
        /\ \A i \in 1..Len(t) : t[i] = td \/ \E j \in 1..Len(free) : t[i] = free[j]
    BY <1>2, <1>3, PutBefore
  <2>2. free' = t /\ allocated' = allocated
    BY <1>1
  <2> HIDE DEF t
  <2> QED BY <2>1, <2>2
<1>5. /\ held'[o] = Gone /\ \A p \in Owners \ {o} : held'[p] = held[p]
      /\ \A other \in TDs \ {td} : fn'[other] = fn[other]
      /\ fn' \in [TDs -> Owners \cup {None}] /\ held' \in [Owners -> TDs \cup {Nil, Gone}]
  BY <1>1 DEF TypeOK
<1>6. \A p \in Owners \ {o} : held'[p] # td
  <2> SUFFICES ASSUME NEW p \in Owners \ {o}, held[p] = td PROVE FALSE
    BY <1>5
  <2>1. fn[held[p]] = p
    BY <1>1 DEF HeldInv
  <2> QED BY <2>1, <1>2
<1>7. TypeOK'
  BY <1>1, <1>4, <1>5 DEF TypeOK
<1>8. HeldInv'
  <2> SUFFICES ASSUME NEW p \in Owners, held'[p] \in TDs
               PROVE  fn'[held'[p]] = p /\ held'[p] <= allocated'
    BY DEF HeldInv, TDs
  <2>1. p # o
    BY <1>5 DEF TDs, Gone
  <2> QED BY <2>1, <1>1, <1>5, <1>6 DEF HeldInv
<1>9. QueueInv'
  <2> SUFFICES ASSUME NEW q \in queue, q # td
               PROVE  fn'[q] # None /\ held'[fn'[q]] = q
    BY <1>1 DEF QueueInv
  <2>1. q \in TDs /\ fn[q] \in Owners /\ fn[q] # None /\ held[fn[q]] = q
    BY DEF QueueInv, TypeOK
  <2>2. fn[q] # o
    BY <2>1 DEF td
  <2> QED BY <2>1, <2>2, <1>5
<1>10. FreeInv'
  <2> SUFFICES ASSUME NEW i \in 1..Len(free'), NEW p \in Owners
               PROVE  held'[p] # free'[i]
    BY <1>4 DEF FreeInv
  <2>1. CASE free'[i] = td
    BY <2>1, <1>1, <1>5, <1>6 DEF TDs, Gone
  <2>2. CASE \E j \in 1..Len(free) : free'[i] = free[j]
    <3>1. PICK j \in 1..Len(free) : free'[i] = free[j]
      BY <2>2
    <3>2. held[p] # free[j]
      BY DEF FreeInv
    <3>4. free[j] \in 1..allocated
      BY <1>3, ElementOfSeq
    <3>3. held'[p] = held[p] \/ held'[p] = -1
      BY <1>5 DEF Gone
    <3> QED BY <3>1, <3>2, <3>3, <3>4
  <2> QED BY <2>1, <2>2, <1>4
<1>11. RunningInv'
  BY <1>1 DEF RunningInv
<1>12. ArmedInTime'
  BY <1>1 DEF ArmedInTime
<1> QED BY <1>7, <1>8, <1>9, <1>10, <1>11, <1>12

\* The entry that Pop takes keeps its connection.
LEMMA PopInv ==
    ASSUME Inv, Pop
    PROVE  Inv'
<1> USE DEF Inv
<1>1. PICK td \in Earliest : Due(td) /\ queue' = queue \ {td} /\ running' = fn[td]
  BY DEF Pop
<1>2. /\ runner = "look" /\ runner' = "call"
      /\ UNCHANGED <<now, expire, fn, free, allocated, alarm, token, calls, held, sets>>
  BY DEF Pop, freeVars, signal, ownerVars
<1>3. td \in TDs /\ fn[td] \in Owners \cup {None}
  BY DEF Earliest, TypeOK
<1>4. TypeOK'
  BY <1>1, <1>2, <1>3 DEF TypeOK
<1>5. HeldInv' /\ QueueInv'
  BY <1>1, <1>2 DEF HeldInv, QueueInv, TDs
<1>6. FreeInv' /\ RunningInv' /\ ArmedInTime'
  BY <1>2 DEF FreeInv, RunningInv, ArmedInTime
<1> QED BY <1>4, <1>5, <1>6

LEMMA CallInv ==
    ASSUME Inv, Call
    PROVE  Inv'
<1> USE DEF Inv
<1>1. /\ runner' = "look" /\ running' = None
      /\ UNCHANGED <<now, queue, expire, fn, free, allocated, alarm, token, held, sets>>
  BY DEF Call, queueVars, freeVars, signal, ownerVars
<1>2. calls' \in [Owners -> Nat]
  <2>1. CASE running = None
    BY <2>1 DEF Call, TypeOK
  <2>2. CASE running # None
    BY <2>2 DEF Call, TypeOK
  <2> QED BY <2>1, <2>2
<1>3. TypeOK'
  BY <1>1, <1>2 DEF TypeOK
<1>4. HeldInv' /\ QueueInv' /\ FreeInv'
  BY <1>1 DEF HeldInv, QueueInv, FreeInv, TDs
<1>5. RunningInv' /\ ArmedInTime'
  BY <1>1 DEF RunningInv, ArmedInTime
<1> QED BY <1>3, <1>4, <1>5

\* The goroutine only goes to sleep with the signal set to the first deadline.
LEMMA SleepInv ==
    ASSUME Inv, Sleep
    PROVE  Inv'
<1> USE DEF Inv
<1>1. /\ runner = "look" /\ runner' = "wait"
      /\ UNCHANGED <<now, queue, expire, fn, free, allocated, running, calls, held, sets>>
  BY DEF Sleep, queueVars, freeVars, ownerVars
<1>2. \/ queue = {} /\ alarm' = Never /\ token' = FALSE
      \/ \E td \in Earliest : alarm' = expire[td] /\ token' = FALSE
  BY DEF Sleep, Reset
<1>3. CASE queue = {} /\ alarm' = Never /\ token' = FALSE
  BY <1>1, <1>3 DEF TypeOK, HeldInv, QueueInv, FreeInv, RunningInv, ArmedInTime, TDs
<1>4. CASE \E td \in Earliest : alarm' = expire[td] /\ token' = FALSE
  <2>1. PICK td \in Earliest : alarm' = expire[td] /\ token' = FALSE
    BY <1>4
  <2>2. expire[td] \in Nat /\ expire[td] # Never
        /\ \A other \in queue : expire[td] <= expire[other]
    BY DEF Earliest, TypeOK, Never
  <2>3. TypeOK'
    BY <1>1, <2>1, <2>2 DEF TypeOK
  <2>4. HeldInv' /\ QueueInv' /\ FreeInv' /\ RunningInv'
    BY <1>1 DEF HeldInv, QueueInv, FreeInv, RunningInv, TDs
  <2>5. ArmedInTime'
    BY <1>1, <2>1, <2>2 DEF ArmedInTime
  <2> QED BY <2>3, <2>4, <2>5
<1> QED BY <1>2, <1>3, <1>4

LEMMA WakeInv ==
    ASSUME Inv, Wake
    PROVE  Inv'
<1> USE DEF Inv
<1>1. /\ runner = "wait" /\ runner' = "look" /\ token' = FALSE
      /\ UNCHANGED <<now, queue, expire, fn, free, allocated, alarm, running, calls, held, sets>>
  BY DEF Wake, queueVars, freeVars, ownerVars
<1>2. TypeOK'
  BY <1>1 DEF TypeOK
<1>3. HeldInv' /\ QueueInv' /\ FreeInv'
  BY <1>1 DEF HeldInv, QueueInv, FreeInv, TDs
<1>4. RunningInv' /\ ArmedInTime'
  BY <1>1 DEF RunningInv, ArmedInTime
<1> QED BY <1>2, <1>3, <1>4

LEMMA RingInv ==
    ASSUME Inv, Ring
    PROVE  Inv'
<1> USE DEF Inv
<1>1. /\ alarm' = Never /\ token' = TRUE
      /\ UNCHANGED <<now, queue, expire, fn, free, allocated, runner, running, calls, held, sets>>
  BY DEF Ring, queueVars, freeVars, runnerVars, ownerVars
<1>2. TypeOK'
  BY <1>1 DEF TypeOK
<1>3. HeldInv' /\ QueueInv' /\ FreeInv'
  BY <1>1 DEF HeldInv, QueueInv, FreeInv, TDs
<1>4. RunningInv' /\ ArmedInTime'
  BY <1>1 DEF RunningInv, ArmedInTime
<1> QED BY <1>2, <1>3, <1>4

LEMMA TickInv ==
    ASSUME Inv, Tick
    PROVE  Inv'
<1> USE DEF Inv
<1>1. /\ now' = now + 1 /\ now < MaxTime
      /\ UNCHANGED <<queue, expire, fn, free, allocated, alarm, token, runner, running, calls,
                     held, sets>>
  BY DEF Tick, queueVars, freeVars, signal, runnerVars, ownerVars
<1>2. now' \in 0..MaxTime
  BY <1>1, TimerAssumption DEF TypeOK
<1>3. TypeOK'
  BY <1>1, <1>2 DEF TypeOK
<1>4. HeldInv' /\ QueueInv' /\ FreeInv'
  BY <1>1 DEF HeldInv, QueueInv, FreeInv, TDs
<1>5. RunningInv' /\ ArmedInTime'
  BY <1>1 DEF RunningInv, ArmedInTime
<1> QED BY <1>3, <1>4, <1>5

LEMMA StutterInv ==
    ASSUME Inv, UNCHANGED vars
    PROVE  Inv'
  BY DEF vars, queueVars, freeVars, signal, runnerVars, ownerVars, Inv, TypeOK,
         HeldInv, QueueInv, FreeInv, RunningInv, ArmedInTime, TDs

LEMMA NextInv == Inv /\ [Next]_vars => Inv'
<1> SUFFICES ASSUME Inv, [Next]_vars PROVE Inv'
  OBVIOUS
<1>1. ASSUME NEW o \in Owners, Owner(o) PROVE Inv'
  BY <1>1, AddInv, SetInv, DelInv DEF Owner
<1>2. CASE Runner
  BY <1>2, PopInv, CallInv, SleepInv, WakeInv DEF Runner
<1>3. CASE Ring
  BY <1>3, RingInv
<1>4. CASE Tick
  BY <1>4, TickInv
<1>5. CASE Idle
  BY <1>5, StutterInv DEF Idle
<1>6. CASE UNCHANGED vars
  BY <1>6, StutterInv
<1> QED BY <1>1, <1>2, <1>3, <1>4, <1>5, <1>6 DEF Next

-----------------------------------------------------------------------------
(* The timer: theorems *)

\* The whole inductive invariant holds: who has an entry is never in doubt.
THEOREM Invariance == Spec => []Inv
  BY InitInv, NextInv, PTL DEF Spec

\* Every variable keeps its type, whatever the connections do.
THEOREM TypeCorrect == Spec => []TypeOK
<1>1. Inv => TypeOK
  BY DEF Inv
<1> QED BY <1>1, Invariance, PTL

\* The heap holds no entry of a connection that is gone, and no entry has two
\* connections.
THEOREM EntriesAreHeld == Spec => []ScheduledIsHeld
<1>1. Inv => ScheduledIsHeld
  BY DEF Inv, QueueInv, HeldInv, ScheduledIsHeld
<1> QED BY <1>1, Invariance, PTL

\* What is on the free list is there once, not in the heap, not with a connection.
THEOREM FreeListIsFree == Spec => []FreeIsFree
<1>1. Inv => FreeIsFree
  <2> SUFFICES ASSUME Inv, NEW i \in 1..Len(free)
               PROVE  free[i] \notin queue
    BY DEF Inv, FreeInv, FreeIsFree
  <2>1. ASSUME free[i] \in queue PROVE FALSE
    <3>1. fn[free[i]] \in Owners /\ held[fn[free[i]]] = free[i]
      BY <2>1 DEF Inv, QueueInv, TypeOK
    <3> QED BY <3>1 DEF Inv, FreeInv
  <2> QED BY <2>1
<1> QED BY <1>1, Invariance, PTL

\* No wakeup is lost: a goroutine that waits while there are entries has its
\* signal, or will have it by the first deadline.
THEOREM SignalIsArmed == Spec => []ArmedInTime
<1>1. Inv => ArmedInTime
  BY DEF Inv
<1> QED BY <1>1, Invariance, PTL

-----------------------------------------------------------------------------
(* The timer keeps the promise of module Deadlines *)

\* A step that only touches the entry of one connection changes its deadline.
LEMMA OneDeadline ==
    ASSUME NEW o \in Owners, NEW t,
           t = IF held'[o] \in queue' THEN expire'[held'[o]] ELSE Never,
           \A p \in Owners \ {o} :
              /\ held'[p] = held[p]
              /\ held[p] \in queue' <=> held[p] \in queue
              /\ held[p] \in queue => expire'[held[p]] = expire[held[p]]
    PROVE  DeadlineOf' = [DeadlineOf EXCEPT ![o] = t]
<1>1. \A p \in Owners : DeadlineOf'[p] = [DeadlineOf EXCEPT ![o] = t][p]
  BY DEF DeadlineOf
<1> QED BY <1>1 DEF DeadlineOf

LEMMA SameDeadlines ==
    ASSUME UNCHANGED <<held, queue, expire>>
    PROVE  DeadlineOf' = DeadlineOf
  BY DEF DeadlineOf

LEMMA AddArms ==
    ASSUME Inv, NEW o \in Owners, Add(o)
    PROVE  Promise!Arm(o)
<1>1. PICK td \in TDs, d \in Delays :
        /\ Get(td) /\ Schedule(td, now + d) /\ held' = [held EXCEPT ![o] = td]
  BY DEF Add
<1>2. \A p \in Owners : held[p] # td
  BY <1>1, GetFresh DEF Inv
<1>3. queue' = queue \cup {td} /\ expire' = [expire EXCEPT ![td] = now + d]
  BY <1>1 DEF Schedule
<1>4. held'[o] = td /\ \A p \in Owners \ {o} : held'[p] = held[p]
  BY <1>1 DEF Inv, TypeOK
<1>5. expire'[td] = now + d /\ \A other \in TDs \ {td} : expire'[other] = expire[other]
  BY <1>3 DEF Inv, TypeOK
<1>6. queue \subseteq TDs
  BY DEF Inv, TypeOK
<1>7. DeadlineOf' = [DeadlineOf EXCEPT ![o] = now + d]
  BY <1>2, <1>3, <1>4, <1>5, <1>6, OneDeadline
<1> QED BY <1>7 DEF Promise!Arm, Add, runnerVars

\* No other connection has the entry of o.
LEMMA OthersDiffer ==
    ASSUME Inv, NEW o \in Owners, held[o] \in TDs
    PROVE  \A p \in Owners \ {o} : held[p] # held[o]
  BY DEF Inv, HeldInv

LEMMA SetArms ==
    ASSUME Inv, NEW o \in Owners, Set(o)
    PROVE  Promise!Arm(o)
<1>1. PICK d \in Delays : Schedule(held[o], now + d)
  BY DEF Set
<1>2. held[o] \in TDs /\ held' = held
  BY DEF Set
<1>3. queue' = queue \cup {held[o]} /\ expire' = [expire EXCEPT ![held[o]] = now + d]
  BY <1>1 DEF Schedule
<1>4. /\ expire'[held[o]] = now + d
      /\ \A other \in TDs \ {held[o]} : expire'[other] = expire[other]
  BY <1>2, <1>3 DEF Inv, TypeOK
<1>5. queue \subseteq TDs
  BY DEF Inv, TypeOK
<1>6. \A p \in Owners \ {o} : held[p] # held[o]
  BY <1>2, OthersDiffer
<1>7. DeadlineOf' = [DeadlineOf EXCEPT ![o] = now + d]
  BY <1>2, <1>3, <1>4, <1>5, <1>6, OneDeadline
<1> QED BY <1>7 DEF Promise!Arm, Set, runnerVars

LEMMA DelDrops ==
    ASSUME Inv, NEW o \in Owners, Del(o)
    PROVE  Promise!Drop(o)
<1>1. /\ held[o] \in TDs /\ queue' = queue \ {held[o]} /\ expire' = expire
      /\ held' = [held EXCEPT ![o] = Gone]
  BY DEF Del
<1>2. held'[o] = Gone /\ \A p \in Owners \ {o} : held'[p] = held[p]
  BY <1>1 DEF Inv, TypeOK
<1>3. queue \subseteq TDs /\ Gone \notin TDs
  BY DEF Inv, TypeOK, TDs, Gone
<1>4. \A p \in Owners \ {o} : held[p] # held[o]
  BY <1>1, OthersDiffer
<1>5. DeadlineOf' = [DeadlineOf EXCEPT ![o] = Never]
  BY <1>1, <1>2, <1>3, <1>4, OneDeadline
<1> QED BY <1>5 DEF Promise!Drop, Del, runnerVars

LEMMA PopExpires ==
    ASSUME Inv, Pop
    PROVE  \E o \in Owners : Promise!Expire(o)
<1>1. PICK td \in Earliest : Due(td) /\ queue' = queue \ {td} /\ running' = fn[td]
  BY DEF Pop
<1> DEFINE o == fn[td]
<1>2. td \in queue /\ td \in TDs /\ o \in Owners /\ held[o] = td
  BY DEF Earliest, Inv, TypeOK, QueueInv
<1>3. running = None /\ UNCHANGED <<now, expire, held, calls>>
  BY DEF Pop, ownerVars, Inv, RunningInv
<1>4. DeadlineOf[o] = expire[td]
  BY <1>2 DEF DeadlineOf
<1>5. expire[td] # Never /\ expire[td] <= now
  BY <1>1, <1>2 DEF Due, Never, Inv, TypeOK
<1> HIDE DEF o
<1>6. \A p \in Owners \ {o} : held[p] # td
  BY <1>2, OthersDiffer
<1>7. DeadlineOf' = [DeadlineOf EXCEPT ![o] = Never]
  BY <1>1, <1>2, <1>3, <1>6, OneDeadline
<1>8. Promise!Expire(o)
  BY <1>1, <1>3, <1>4, <1>5, <1>7 DEF Promise!Expire, o
<1> QED BY <1>2, <1>8

LEMMA CallCalls ==
    ASSUME Inv, Call
    PROVE  [\E o \in Owners : Promise!Call(o)]_Promise!vars
<1>1. UNCHANGED <<now, held, queue, expire>> /\ running' = None
  BY DEF Call, queueVars, ownerVars
<1>2. DeadlineOf' = DeadlineOf
  BY <1>1, SameDeadlines
<1>3. CASE running = None
  BY <1>1, <1>2, <1>3 DEF Call, Promise!vars
<1>4. CASE running # None
  <2>1. running \in Owners /\ calls' = [calls EXCEPT ![running] = @ + 1]
    BY <1>4 DEF Call, Inv, TypeOK
  <2>2. Promise!Call(running)
    BY <1>1, <1>2, <2>1 DEF Promise!Call
  <2> QED BY <2>1, <2>2
<1> QED BY <1>3, <1>4

LEMMA StepKeeps == Inv /\ [Next]_vars => [Promise!Next]_Promise!vars
<1> SUFFICES ASSUME Inv, [Next]_vars PROVE [Promise!Next]_Promise!vars
  OBVIOUS
<1>1. ASSUME NEW o \in Owners, Owner(o) PROVE Promise!Next
  BY <1>1, AddArms, SetArms, DelDrops DEF Owner, Promise!Next
<1>2. CASE Pop
  BY <1>2, PopExpires DEF Promise!Next
<1>3. CASE Call
  BY <1>3, CallCalls DEF Promise!Next
<1>4. CASE Sleep \/ Wake \/ Ring
  <2>1. UNCHANGED <<now, held, queue, expire, running, calls>>
    BY <1>4 DEF Sleep, Wake, Ring, queueVars, runnerVars, ownerVars
  <2> QED BY <2>1, SameDeadlines DEF Promise!vars
<1>5. CASE Tick
  <2>1. now' = now + 1 /\ UNCHANGED <<held, queue, expire, running, calls>>
    BY <1>5 DEF Tick, queueVars, runnerVars, ownerVars
  <2> QED BY <2>1, SameDeadlines DEF Promise!Tick, Promise!Next
<1>6. CASE Idle \/ UNCHANGED vars
  <2>1. UNCHANGED <<now, held, queue, expire, running, calls>>
    BY <1>6 DEF Idle, vars, queueVars, runnerVars, ownerVars
  <2> QED BY <2>1, SameDeadlines DEF Promise!vars
<1> QED BY <1>1, <1>2, <1>3, <1>4, <1>5, <1>6 DEF Next, Runner

\* A callback runs once for a deadline that was set and has passed, and never
\* for one that was moved or deleted before: reuse of entries does not show.
THEOREM TimerKeepsDeadlines == Spec => KeepsDeadlines
<1>1. Init => Promise!Init
  <2> SUFFICES ASSUME Init PROVE Promise!Init
    OBVIOUS
  <2>1. DeadlineOf = [o \in Owners |-> Never]
    BY DEF Init, DeadlineOf
  <2> QED BY <2>1 DEF Init, Promise!Init
<1> QED BY <1>1, StepKeeps, Invariance, PTL DEF Spec, KeepsDeadlines, Promise!Spec

-----------------------------------------------------------------------------
(* Discovery: what the resolver and the watch have *)

DeleteOf(n) == [type |-> "delete", node |-> n]

EventsInv ==
    /\ watch \in {"put", "delete"} => event \in Event
    /\ watch = "put" => event.type = "put"

\* The watch is made once, and until then and after its end it has no events.
WatchInv ==
    /\ ~monitored => watch = "none"
    /\ watch \in {"none", "start", "gone"} => events = <<>>

Typed == ResolverTypeOK /\ EventsInv /\ WatchInv

\* A node of the poll's answer that is not in etcd any more was missed.
FoundInv == \A n \in found : ~Registered(n) => n \in missed

\* Behind the put of a node that is not in etcd any more comes its delete.
PutInv ==
    /\ watch = "put" /\ ~Registered(event.node) =>
            \E j \in 1..Len(events) : events[j] = DeleteOf(event.node)
    /\ Watched => \A i \in 1..Len(events) :
            events[i].type = "put" /\ ~Registered(events[i].node) =>
                \E j \in i+1..Len(events) : events[j] = DeleteOf(events[i].node)

ResolverInv == Typed /\ FoundInv /\ PutInv /\ StaleWasMissed

LEMMA Bounds == MaxLives \in Nat \ {0} /\ MaxEvents \in Nat \ {0} /\ 0 \in Lives /\ Lives \subseteq Nat
  BY RegistryAssumption DEF Lives

LEMMA SplitKept ==
  ASSUME UNCHANGED path, NEW n \in Nodes
  PROVE  SplitPath(n)' = SplitPath(n)
  BY DEF SplitPath

LEMMA EventNodes ==
  ASSUME NEW s \in Seq(Event)
  PROVE  \A i \in 1..Len(s) : s[i].node \in Nodes
<1>1. \A i \in 1..Len(s) : s[i] \in Event
  OBVIOUS
<1>2. \A e \in Event : e.node \in Nodes
  BY DEF Event
<1> QED  BY <1>1, <1>2

LEMMA ResolverInitInv == ASSUME ResolverInit PROVE ResolverInv
<1>1. events \in Seq(Event) /\ event \in Event \cup {NoEvent} /\ path \in Paths
  <2>1. <<>> \in Seq(Event)
    OBVIOUS
  <2> QED  BY <2>1 DEF ResolverInit, RegistryInit
<1>2. ResolverTypeOK
  BY <1>1, Bounds DEF ResolverInit, RegistryInit, ResolverTypeOK
<1>3. EventsInv /\ WatchInv /\ FoundInv /\ PutInv /\ StaleWasMissed
  BY DEF ResolverInit, RegistryInit, EventsInv, WatchInv, FoundInv, PutInv, Watched, StaleWasMissed
<1> QED  BY <1>2, <1>3 DEF ResolverInv, Typed

-----------------------------------------------------------------------------
(* Steps of the registry *)

\* A step changes one key, or none, and the watch is told.
LEMMA RegistryChange ==
  ASSUME Typed, NEW n \in Nodes, RegistryStep(n, Watched)
  PROVE  \/ UNCHANGED <<store, events>>
         \/ \E l \in Lives : Change(n, l, Watched)
<1>1. CASE Start(n) \/ KeepAlive(n) \/ Stop(n) \/ Crash(n)
  BY <1>1 DEF Start, KeepAlive, Stop, Crash
<1>2. CASE \E l \in Lives : PutLost(n, l) \/ (Room /\ Put(n, l, Watched))
  BY <1>2 DEF PutLost, Put
<1>3. CASE Deregister(n, Watched)
  BY <1>3, Bounds DEF Deregister
<1>4. CASE \E l \in Lives : Expire(n, l, Watched)
  BY <1>4, Bounds DEF Expire
<1> QED  BY <1>1, <1>2, <1>3, <1>4 DEF RegistryStep

LEMMA RegistryTypes ==
  ASSUME Typed, NEW n \in Nodes, RegistryStep(n, Watched)
  PROVE  /\ life' \in [Nodes -> Lives]
         /\ reg' \in [Nodes -> {"off", "up", "lost", "stopping"}]
         /\ putting' \in [Nodes -> SUBSET Lives]
         /\ leases' \in [Nodes -> SUBSET Lives]
<1> USE DEF Typed, ResolverTypeOK
<1>1. CASE Start(n)
  BY <1>1, Bounds DEF Start, Lives
<1>2. CASE KeepAlive(n)
  BY <1>2 DEF KeepAlive
<1>3. CASE Stop(n) \/ Crash(n)
  BY <1>3 DEF Stop, Crash
<1>4. CASE \E l \in Lives : PutLost(n, l) \/ Put(n, l, Watched)
  BY <1>4 DEF PutLost, Put
<1>5. CASE Deregister(n, Watched)
  BY <1>5 DEF Deregister
<1>6. CASE \E l \in Lives : Expire(n, l, Watched)
  BY <1>6 DEF Expire
<1> QED  BY <1>1, <1>2, <1>3, <1>4, <1>5, <1>6 DEF RegistryStep

\* What a change of a key does to the events.
LEMMA ChangeEvents ==
  ASSUME Typed, NEW n \in Nodes, NEW l \in Lives, Change(n, l, Watched)
  PROVE  /\ store' \in [Nodes -> Lives]
         /\ store'[n] = l /\ \A m \in Nodes \ {n} : store'[m] = store[m]
         /\ events' \in Seq(Event)
         /\ ~Watched => events' = events
         /\ Watched => /\ Len(events') = Len(events) + 1
                       /\ \A i \in 1..Len(events) : events'[i] = events[i]
                       /\ l = 0 => events'[Len(events)+1] = DeleteOf(n)
                       /\ l # 0 => events'[Len(events)+1] = [type |-> "put", node |-> n]
<1>1. store \in [Nodes -> Lives] /\ events \in Seq(Event)
  BY DEF Typed, ResolverTypeOK, EventsInv
<1> DEFINE e == [type |-> IF l = 0 THEN "delete" ELSE "put", node |-> n]
<1>2. e \in Event
  BY DEF Event
<1>3. store' = [store EXCEPT ![n] = l] /\ events' = IF Watched THEN Append(events, e) ELSE events
  BY DEF Change
<1>4. l = 0 => e = DeleteOf(n)
  BY DEF DeleteOf
<1>5. l # 0 => e = [type |-> "put", node |-> n]
  OBVIOUS
<1> HIDE DEF e
<1> QED  BY <1>1, <1>2, <1>3, <1>4, <1>5

LEMMA RegistryInv == ASSUME ResolverInv, RegistrySteps PROVE ResolverInv'
<1>1. PICK n \in Nodes : RegistryStep(n, Watched)
  BY DEF RegistrySteps
<1>2. missed' = {m \in Nodes :
                    /\ store'[m] = 0
                    /\ IF store[m] # 0 THEN ~Watched \/ m \in found ELSE m \in missed}
  BY DEF RegistrySteps
<1>3. UNCHANGED <<path, view, conn, poll, found, ticking, monitored, watch, event>> /\ Watched' = Watched
  BY DEF RegistrySteps, resolverVars, Watched
<1>4. \/ UNCHANGED <<store, events>>
      \/ \E l \in Lives : Change(n, l, Watched)
  BY <1>1, RegistryChange DEF ResolverInv
<1>5. store' \in [Nodes -> Lives] /\ events' \in Seq(Event)
  BY <1>4, ChangeEvents DEF ResolverInv, Typed, ResolverTypeOK, EventsInv
<1>6. ResolverTypeOK'
  <2>1. missed' \subseteq Nodes
    BY <1>2
  <2> QED  BY <1>1, <1>3, <1>5, <2>1, RegistryTypes DEF ResolverInv, Typed, ResolverTypeOK
<1>7. EventsInv'
  BY <1>3, <1>5 DEF ResolverInv, Typed, EventsInv
<1>8. WatchInv'
  BY <1>3, <1>4, ChangeEvents DEF ResolverInv, Typed, WatchInv, Watched
<1>9. FoundInv'
  BY <1>2, <1>3 DEF ResolverInv, Typed, ResolverTypeOK, FoundInv, Registered
<1>10. ASSUME UNCHANGED <<store, events>> PROVE PutInv' /\ StaleWasMissed'
  BY <1>2, <1>3, <1>10 DEF ResolverInv, Typed, ResolverTypeOK, PutInv, StaleWasMissed,
         Running, SplitPath, Registered, Deleting
<1>11. ASSUME NEW l \in Lives, Change(n, l, Watched) PROVE PutInv' /\ StaleWasMissed'
  <2> DEFINE k == Len(events)
  <2>1. k \in Nat /\ store \in [Nodes -> Lives] /\ view \subseteq Nodes
    BY DEF ResolverInv, Typed, ResolverTypeOK
  <2>2. CASE ~Watched
    <3>1. watch # "put" /\ watch # "delete" /\ events' = events
      BY <1>11, <2>2, ChangeEvents DEF ResolverInv, Watched
    <3>2. PutInv'
      BY <1>3, <2>2, <3>1 DEF PutInv
    <3>3. ASSUME Running, NEW m \in view, ~Registered(m)', SplitPath(m) \in {Target, NoName}
          PROVE  Deleting(m)' \/ m \in missed'
      BY <1>2, <1>3, <2>1, <2>2, <3>1, <3>3 DEF ResolverInv, StaleWasMissed, Running, SplitPath, Registered, Deleting
    <3> QED  BY <1>3, <3>2, <3>3 DEF StaleWasMissed, SplitPath, Running
  <2>3. CASE Watched
    <3>1. /\ store'[n] = l /\ \A m \in Nodes \ {n} : store'[m] = store[m]
          /\ Len(events') = k + 1
          /\ \A i \in 1..k : events'[i] = events[i]
          /\ l = 0 => events'[k+1] = DeleteOf(n)
          /\ l # 0 => events'[k+1] = [type |-> "put", node |-> n]
      BY <1>11, <2>3, ChangeEvents DEF ResolverInv
    <3>2. ASSUME watch' = "put", ~Registered(event.node)'
          PROVE  \E j \in 1..Len(events') : events'[j] = DeleteOf(event'.node)
      <4>1. event' = event /\ event.node \in Nodes /\ watch = "put"
        BY <1>3, <3>2 DEF ResolverInv, Typed, EventsInv, Event
      <4>2. CASE event.node = n /\ l = 0
        BY <2>1, <3>1, <4>1, <4>2
      <4>3. CASE ~(event.node = n /\ l = 0)
        <5>1. ~Registered(event.node)
          BY <3>1, <3>2, <4>1, <4>3 DEF Registered
        <5>2. PICK j \in 1..k : events[j] = DeleteOf(event.node)
          BY <4>1, <5>1 DEF ResolverInv, PutInv
        <5> QED  BY <2>1, <3>1, <4>1, <5>2
      <4> QED  BY <4>2, <4>3
    <3>3. ASSUME NEW i \in 1..Len(events'), events'[i].type = "put", ~Registered(events[i].node)'
          PROVE  \E j \in i+1..Len(events') : events'[j] = DeleteOf(events'[i].node)
      <4> DEFINE m == events'[i].node
      <4>1. m \in Nodes
        BY <1>5, EventNodes
      <4>2. store'[m] = 0
        BY <3>3 DEF Registered
      <4>3. CASE i = k + 1
        <5>1. l # 0
          BY <3>1, <3>3, <4>3 DEF DeleteOf
        <5>2. m = n
          BY <3>1, <4>3, <5>1
        <5> QED  BY <3>1, <4>2, <5>1, <5>2
      <4>4. CASE i \in 1..k
        <5>1. events[i].type = "put" /\ events[i].node = m
          BY <3>1, <3>3, <4>4
        <5>2. CASE m = n /\ l = 0
          BY <2>1, <3>1, <4>4, <5>2
        <5>3. CASE ~(m = n /\ l = 0)
          <6>1. store[m] = 0
            BY <3>1, <4>1, <4>2, <5>3
          <6>2. PICK j \in i+1..k : events[j] = DeleteOf(m)
            BY <2>3, <4>4, <5>1, <6>1 DEF ResolverInv, PutInv, Registered
          <6>3. j \in 1..k /\ j \in i+1..k+1
            BY <2>1, <4>4
          <6> QED  BY <3>1, <6>2, <6>3
        <5> QED  BY <5>2, <5>3
      <4> QED  BY <2>1, <3>1, <4>3, <4>4
    <3>4. PutInv'
      BY <3>2, <3>3 DEF PutInv
    <3>5. ASSUME Running, NEW m \in view, ~Registered(m)', SplitPath(m) \in {Target, NoName}
          PROVE  Deleting(m)' \/ m \in missed'
      <4>1. m \in Nodes /\ store'[m] = 0
        BY <2>1, <3>5 DEF Registered
      <4>2. CASE store[m] # 0
        <5>1. m = n /\ l = 0
          BY <3>1, <4>1, <4>2
        <5>2. events'[k+1] = [type |-> "delete", node |-> m] /\ k+1 \in 1..Len(events')
          BY <2>1, <3>1, <5>1 DEF DeleteOf
        <5> QED  BY <5>2 DEF Deleting
      <4>3. CASE store[m] = 0
        <5>1. Deleting(m) \/ m \in missed
          BY <3>5, <4>3 DEF ResolverInv, StaleWasMissed, Running, SplitPath, Registered
        <5>2. m \in missed => m \in missed'
          BY <1>2, <4>1, <4>3
        <5>3. ASSUME NEW i \in 1..k, events[i] = [type |-> "delete", node |-> m] PROVE Deleting(m)'
          <6>1. i \in 1..Len(events') /\ events'[i] = [type |-> "delete", node |-> m]
            BY <2>1, <3>1, <5>3
          <6> QED  BY <6>1 DEF Deleting
        <5>4. watch = "delete" /\ event.node = m => Deleting(m)'
          BY <1>3 DEF Deleting
        <5> QED  BY <5>1, <5>2, <5>3, <5>4 DEF Deleting
      <4> QED  BY <4>2, <4>3
    <3> QED  BY <1>3, <3>4, <3>5 DEF StaleWasMissed, SplitPath, Running
  <2> QED  BY <2>2, <2>3
<1> QED  BY <1>4, <1>6, <1>7, <1>8, <1>9, <1>10, <1>11 DEF ResolverInv, Typed

-----------------------------------------------------------------------------
(* Steps of the poll *)

LEMMA PollInv == ASSUME ResolverInv, Poll PROVE ResolverInv'
<1>1. UNCHANGED <<registryVars, path, monitored, watch, event, missed>>
  BY DEF Poll, SetTargetNode, TickPoll, GetAll, GetFails, AddFound, Push, ResolveNow
<1>2. /\ life' = life /\ reg' = reg /\ putting' = putting /\ leases' = leases
      /\ store' = store /\ events' = events
  BY <1>1 DEF registryVars
<1>3. EventsInv' /\ WatchInv' /\ PutInv'
  BY <1>1, <1>2 DEF ResolverInv, Typed, EventsInv, WatchInv, PutInv, Watched, Registered
<1>4. /\ view' \subseteq Nodes /\ conn' \subseteq Nodes /\ found' \subseteq Nodes
      /\ ticking' \in BOOLEAN /\ poll' \in {"none", "get", "add", "push", "idle"}
  <2>1. /\ view \subseteq Nodes /\ conn \subseteq Nodes /\ found \subseteq Nodes
        /\ ticking \in BOOLEAN /\ poll \in {"none", "get", "add", "push", "idle"}
    BY DEF ResolverInv, Typed, ResolverTypeOK
  <2>2. CASE SetTargetNode \/ TickPoll \/ GetAll \/ GetFails
    BY <2>1, <2>2 DEF SetTargetNode, TickPoll, GetAll, GetFails
  <2>3. CASE AddFound
    BY <2>1, <2>3 DEF AddFound, AddNode
  <2>4. CASE Push \/ ResolveNow
    BY <2>1, <2>4 DEF Push, ResolveNow, GetServiceNodes
  <2> QED  BY <2>2, <2>3, <2>4 DEF Poll
<1>5. ResolverTypeOK'
  BY <1>1, <1>2, <1>4 DEF ResolverInv, Typed, ResolverTypeOK
<1>6. FoundInv'
  <2>1. found' \subseteq found \/ found' = {n \in Nodes : Registered(n)}
    BY DEF Poll, SetTargetNode, TickPoll, GetAll, GetFails, AddFound, AddNode, Push, ResolveNow
  <2> QED  BY <1>1, <1>2, <2>1 DEF ResolverInv, FoundInv, Registered
<1>7. StaleWasMissed'
  <2>1. view' \subseteq view \cup found
    BY DEF Poll, SetTargetNode, TickPoll, GetAll, GetFails, AddFound, AddNode, Push, ResolveNow
  <2>2. ASSUME Running', NEW n \in view', ~Registered(n)', SplitPath(n)' \in {Target, NoName}
        PROVE  Deleting(n)' \/ n \in missed'
    <3>1. ~Registered(n)
      BY <1>2, <2>2 DEF Registered
    <3>2. Deleting(n) \/ n \in missed
      BY <1>1, <2>1, <2>2, <3>1 DEF ResolverInv, FoundInv, StaleWasMissed, Running, SplitPath
    <3> QED  BY <1>1, <1>2, <3>2 DEF Deleting
  <2> QED  BY <2>2 DEF StaleWasMissed, SplitPath, Running
<1> QED  BY <1>3, <1>5, <1>6, <1>7 DEF ResolverInv, Typed

-----------------------------------------------------------------------------
(* Steps of the watch *)

LEMMA ReceiveInv == ASSUME ResolverInv, Receive PROVE ResolverInv'
<1>1. /\ watch = "wait" /\ events # <<>> /\ event' = Head(events) /\ events' = Tail(events)
      /\ watch' = Head(events).type
      /\ UNCHANGED <<path, life, reg, putting, leases, store, view, conn, poll, found,
                     ticking, monitored, missed>>
  BY DEF Receive
<1>2. events \in Seq(Event)
  BY DEF ResolverInv, Typed, ResolverTypeOK
<1>3. /\ events' \in Seq(Event) /\ event' = events[1] /\ event' \in Event
      /\ Len(events') = Len(events) - 1 /\ Len(events) \in Nat \ {0}
      /\ \A i \in 1..Len(events') : events'[i] = events[i+1]
  BY <1>1, <1>2
<1>4. watch' = event'.type /\ watch' \in {"put", "delete"}
  BY <1>1, <1>3 DEF Event
<1>5. ResolverTypeOK'
  BY <1>1, <1>3, <1>4 DEF ResolverInv, Typed, ResolverTypeOK
<1>6. EventsInv' /\ WatchInv' /\ FoundInv'
  BY <1>1, <1>3, <1>4 DEF ResolverInv, Typed, EventsInv, WatchInv, FoundInv, Registered
<1>7. PutInv'
  <2>1. ASSUME NEW i \in 1..Len(events), events[i].type = "put", store[events[i].node] = 0
        PROVE  \E j \in i+1..Len(events) : events[j] = DeleteOf(events[i].node)
    BY <1>1, <2>1 DEF ResolverInv, PutInv, Watched, Registered
  <2>2. ASSUME watch' = "put", ~Registered(event.node)'
        PROVE  \E j \in 1..Len(events') : events'[j] = DeleteOf(event'.node)
    <3>1. PICK j \in 2..Len(events) : events[j] = DeleteOf(events[1].node)
      BY <1>1, <1>3, <1>4, <2>1, <2>2 DEF Registered
    <3>2. j-1 \in 1..Len(events') /\ events'[j-1] = events[j]
      BY <1>3
    <3> QED  BY <1>3, <3>1, <3>2
  <2>3. ASSUME NEW i \in 1..Len(events'), events'[i].type = "put", ~Registered(events[i].node)'
        PROVE  \E j \in i+1..Len(events') : events'[j] = DeleteOf(events'[i].node)
    <3>1. events'[i] = events[i+1] /\ i+1 \in 1..Len(events)
      BY <1>3
    <3>2. PICK j \in i+2..Len(events) : events[j] = DeleteOf(events[i+1].node)
      BY <1>1, <1>3, <2>1, <2>3, <3>1 DEF Registered
    <3>3. j-1 \in i+1..Len(events') /\ j-1 \in 1..Len(events') /\ events'[j-1] = events[j]
      BY <1>3, <3>2
    <3> QED  BY <3>1, <3>2, <3>3
  <2> QED  BY <2>2, <2>3 DEF PutInv
<1>8. StaleWasMissed'
  <2>1. ASSUME Running', NEW n \in view', ~Registered(n)', SplitPath(n)' \in {Target, NoName}
        PROVE  Deleting(n)' \/ n \in missed'
    <3>1. Deleting(n) \/ n \in missed
      BY <1>1, <2>1 DEF ResolverInv, StaleWasMissed, Running, SplitPath, Registered
    <3>2. ASSUME NEW i \in 1..Len(events), events[i] = [type |-> "delete", node |-> n]
          PROVE  Deleting(n)'
      <4>1. CASE i = 1
        BY <1>3, <1>4, <3>2, <4>1 DEF Deleting
      <4>2. CASE i # 1
        <5>1. i-1 \in 1..Len(events') /\ events'[i-1] = [type |-> "delete", node |-> n]
          BY <1>3, <3>2, <4>2
        <5> QED  BY <5>1 DEF Deleting
      <4> QED  BY <4>1, <4>2
    <3> QED  BY <1>1, <3>1, <3>2 DEF Deleting
  <2> QED  BY <2>1 DEF StaleWasMissed, SplitPath, Running
<1> QED  BY <1>5, <1>6, <1>7, <1>8 DEF ResolverInv, Typed

LEMMA WatchStepInv == ASSUME ResolverInv, Watch, watch # "panic" PROVE ResolverInv'
<1>1. CASE TickWatch
  <2>1. /\ watch = "none" /\ watch' = "start" /\ monitored' = TRUE
        /\ UNCHANGED <<registryVars, path, view, conn, poll, found, ticking, event, missed>>
    BY <1>1 DEF TickWatch, ResolverInv, Typed, WatchInv
  <2>2. UNCHANGED <<life, reg, putting, leases, store, events>>
    BY <2>1 DEF registryVars
  <2>3. Typed'
    BY <2>1, <2>2 DEF ResolverInv, Typed, ResolverTypeOK, EventsInv, WatchInv
  <2>4. FoundInv' /\ PutInv' /\ StaleWasMissed'
    BY <2>1, <2>2 DEF ResolverInv, FoundInv, PutInv, StaleWasMissed, Running, SplitPath, Deleting, Registered,
           Watched
  <2> QED  BY <2>3, <2>4 DEF ResolverInv
<1>2. CASE StartWatch
  <2>1. /\ watch = "start" /\ watch' = "wait" /\ events = <<>>
        /\ UNCHANGED <<registryVars, path, view, conn, poll, found, ticking, monitored, event, missed>>
    BY <1>2 DEF StartWatch, ResolverInv, Typed, WatchInv
  <2>2. UNCHANGED <<life, reg, putting, leases, store, events>>
    BY <2>1 DEF registryVars
  <2>3. Typed'
    BY <2>1, <2>2 DEF ResolverInv, Typed, ResolverTypeOK, EventsInv, WatchInv
  <2>4. FoundInv' /\ PutInv' /\ StaleWasMissed'
    BY <2>1, <2>2 DEF ResolverInv, FoundInv, PutInv, StaleWasMissed, Running, SplitPath, Deleting, Registered,
           Watched
  <2> QED  BY <2>3, <2>4 DEF ResolverInv
<1>3. CASE Receive
  BY <1>3, ReceiveInv
<1>4. CASE HandlePut
  <2>1. /\ watch = "put" /\ watch' = "wait" /\ view' = view \cup {event.node} /\ event.node \in Nodes
        /\ event' = NoEvent
        /\ UNCHANGED <<registryVars, path, conn, poll, found, ticking, monitored, missed>>
    BY <1>4 DEF HandlePut, ResolverInv, Typed, EventsInv, Event
  <2>2. UNCHANGED <<life, reg, putting, leases, store, events>>
    BY <2>1 DEF registryVars
  <2>3. Typed'
    BY <2>1, <2>2 DEF ResolverInv, Typed, ResolverTypeOK, EventsInv, WatchInv
  <2>4. FoundInv' /\ PutInv'
    BY <2>1, <2>2 DEF ResolverInv, FoundInv, PutInv, Registered, Watched
  <2>5. ASSUME Running', NEW n \in view', ~Registered(n)', SplitPath(n)' \in {Target, NoName}
        PROVE  Deleting(n)' \/ n \in missed'
    <3>1. CASE n = event.node
      BY <2>1, <2>2, <2>5, <3>1 DEF ResolverInv, PutInv, Registered, Deleting, DeleteOf
    <3>2. CASE n \in view
      BY <2>1, <2>2, <2>5, <3>2 DEF ResolverInv, StaleWasMissed, Running, SplitPath, Registered, Deleting
    <3> QED  BY <2>1, <3>1, <3>2
  <2> QED  BY <2>3, <2>4, <2>5 DEF ResolverInv, StaleWasMissed
<1>5. CASE HandleDelete
  <2>1. /\ watch = "delete" /\ watch' \in {"panic", "get"}
        /\ IF SplitPath(event.node) = NoName THEN view' = view ELSE Remove(event.node)
        /\ watch' = "panic" <=> SplitPath(event.node) = NoName
        /\ event' \in {event, NoEvent}
        /\ UNCHANGED <<registryVars, path, conn, poll, found, ticking, monitored, missed>>
    BY <1>5 DEF HandleDelete
  <2>2. UNCHANGED <<life, reg, putting, leases, store, events>> /\ view' \subseteq view
    BY <2>1 DEF registryVars, Remove
  <2>3. Typed'
    BY <2>1, <2>2 DEF ResolverInv, Typed, ResolverTypeOK, EventsInv, WatchInv
  <2>4. FoundInv' /\ PutInv'
    BY <2>1, <2>2 DEF ResolverInv, FoundInv, PutInv, Registered, Watched
  <2>5. ASSUME Running', NEW n \in view', ~Registered(n)', SplitPath(n)' \in {Target, NoName}
        PROVE  Deleting(n)' \/ n \in missed'
    <3>0. SplitPath(n) \in {Target, NoName}
      BY <2>1, <2>5 DEF SplitPath
    <3>1. n # event.node
      BY <2>1, <2>5, <3>0 DEF Remove, Running
    <3> QED  BY <2>1, <2>2, <2>5, <3>1 DEF ResolverInv, StaleWasMissed, Running, SplitPath, Registered, Deleting
  <2> QED  BY <2>3, <2>4, <2>5 DEF ResolverInv, StaleWasMissed
<1>6. CASE CheckLeft
  <2>1. /\ watch = "get"
        /\ UNCHANGED <<path, life, reg, putting, leases, store, view, conn, poll, found,
                       ticking, monitored, event>>
        /\ \/ watch' = "wait" /\ UNCHANGED <<events, missed>>
           \/ /\ watch' = "gone" /\ events' = <<>>
              /\ missed' = missed \cup {events[i].node : i \in 1..Len(events)}
    BY <1>6 DEF CheckLeft
  <2>2. \A i \in 1..Len(events) : events[i].node \in Nodes
    BY EventNodes DEF ResolverInv, Typed, ResolverTypeOK
  <2>3. Typed'
    <3>1. missed' \subseteq Nodes
      BY <2>1, <2>2 DEF ResolverInv, Typed, ResolverTypeOK
    <3>2. events' \in Seq(Event)
      <4>1. <<>> \in Seq(Event)
        OBVIOUS
      <4> QED  BY <2>1, <4>1 DEF ResolverInv, Typed, ResolverTypeOK
    <3>3. ResolverTypeOK'
      BY <2>1, <3>1, <3>2 DEF ResolverInv, Typed, ResolverTypeOK
    <3>4. WatchInv'
      BY <2>1 DEF ResolverInv, Typed, WatchInv
    <3>5. EventsInv'
      <4>1. watch' # "put" /\ watch' # "delete"
        BY <2>1
      <4> QED  BY <4>1 DEF EventsInv
    <3> QED  BY <3>3, <3>4, <3>5 DEF Typed
  <2>4. FoundInv' /\ PutInv'
    BY <2>1 DEF ResolverInv, FoundInv, PutInv, Registered, Watched
  <2>5. ASSUME Running', NEW n \in view', ~Registered(n)', SplitPath(n)' \in {Target, NoName}
        PROVE  Deleting(n)' \/ n \in missed'
    <3>1. Deleting(n) \/ n \in missed
      BY <2>1, <2>5 DEF ResolverInv, StaleWasMissed, Running, SplitPath, Registered
    <3>2. Deleting(n) => \E i \in 1..Len(events) : events[i] = [type |-> "delete", node |-> n]
      BY <2>1 DEF Deleting
    <3> QED  BY <2>1, <3>1, <3>2 DEF Deleting
  <2> QED  BY <2>3, <2>4, <2>5 DEF ResolverInv, StaleWasMissed
<1> QED  BY <1>1, <1>2, <1>3, <1>4, <1>5, <1>6 DEF Watch

-----------------------------------------------------------------------------

LEMMA ResolverInvariance == ResolverSpec => []ResolverInv
<1>1. ResolverInit => ResolverInv
  BY ResolverInitInv
<1>2. ResolverInv /\ [ResolverNext]_allVars => ResolverInv'
  <2> SUFFICES ASSUME ResolverInv, [ResolverNext]_allVars PROVE ResolverInv'
    OBVIOUS
  <2>1. CASE RegistrySteps
    BY <2>1, RegistryInv
  <2>2. CASE Poll
    BY <2>2, PollInv
  <2>3. CASE Running /\ Watch
    BY <2>3, WatchStepInv DEF Running
  <2>4. CASE UNCHANGED allVars
    BY <2>4 DEF allVars, registryVars, resolverVars, ResolverInv, Typed, ResolverTypeOK,
           EventsInv, WatchInv, FoundInv,
           PutInv, StaleWasMissed, Deleting, Registered, Watched, SplitPath, Running
  <2> QED  BY <2>1, <2>2, <2>3, <2>4 DEF ResolverNext
<1> QED  BY <1>1, <1>2, PTL DEF ResolverSpec

\* Every variable of a registry and a resolver keeps its type, the events that
\* wait and the event in hand included, whatever processes do, etcd answers and
\* the names are (etcd-register.go:17, etcd-resolver.go:30).
THEOREM ResolverTypeCorrect == ResolverSpec => []ResolverTypeOK
<1>1. ResolverInv => ResolverTypeOK
  BY DEF ResolverInv, Typed
<1> QED  BY <1>1, ResolverInvariance, PTL

\* While the process runs, a node that is known and not in etcd is on its way
\* out, or went where the watch could not tell: while there was none, or under an
\* answer of the poll (etcd-resolver.go:166, 296).  So for names of any number of
\* parts; those of two parts that are not the target's are left out (286).
THEOREM StaleNodesWereMissed == ResolverSpec => []StaleWasMissed
<1>1. ResolverInv => StaleWasMissed
  BY DEF ResolverInv
<1> QED  BY <1>1, ResolverInvariance, PTL
=============================================================================
