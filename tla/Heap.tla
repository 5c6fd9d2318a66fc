-------------------------------- MODULE Heap --------------------------------
(***************************************************************************)
(* The binary heap of pkg/time/timer.go: timers is the array, and every    *)
(* entry knows its index in it.  The operations are those of the code on a *)
(* record [timers, index]; the array is a sequence, so that index i of the *)
(* code is position i + 1.  Module Timer uses the heap through what module *)
(* Queue says of it.                                                       *)
(***************************************************************************)
EXTENDS Integers, Sequences

CONSTANTS
    TDs,        \* the entries
    Times,      \* deadlines
    None        \* no entry

ASSUME HeapAssumption == Times \subseteq Int /\ None \notin TDs

VARIABLES
    heap,       \* [timers, index]
    expire      \* deadline of every entry

vars == <<heap, expire>>

Heaps == [timers : Seq(TDs), index : [TDs -> Int]]

At(h, i) == h.timers[i + 1]
Size(h) == Len(h.timers)

Less(h, e, i, j) == e[At(h, i)] < e[At(h, j)]

Swap(h, i, j) ==
    [timers |-> [h.timers EXCEPT ![i + 1] = At(h, j), ![j + 1] = At(h, i)],
     index |-> [h.index EXCEPT ![At(h, j)] = i, ![At(h, i)] = j]]

\* Fault: an entry passes its equals.
UpPastEquals(heap0, e, j0) ==
    LET up[h \in Heaps, j \in Nat] ==
            LET i == (j - 1) \div 2 IN
            IF j = 0 \/ Less(h, e, i, j) THEN h ELSE up[Swap(h, i, j), i]
    IN up[heap0, j0]

\* up: the entry at j rises past later parents.
Up(heap0, e, j0) ==
    LET up[h \in Heaps, j \in Nat] ==
            LET i == (j - 1) \div 2 IN
            IF j = 0 \/ ~Less(h, e, j, i) THEN h ELSE up[Swap(h, i, j), i]
    IN up[heap0, j0]

\* down: the entry at i sinks past earlier children among the first n, past
\* the right one of two that are equal.
Down(heap0, e, i0, n) ==
    LET down[h \in Heaps, i \in Nat] ==
            LET left == 2 * i + 1
                right == left + 1
                j == IF right < n /\ ~Less(h, e, left, right) THEN right ELSE left
            IN IF left >= n \/ ~Less(h, e, j, i) THEN h ELSE down[Swap(h, i, j), j]
    IN down[heap0, i0]

\* add: at the end, then up.
Add(h, e, td) ==
    Up([timers |-> Append(h.timers, td), index |-> [h.index EXCEPT ![td] = Size(h)]],
       e, Size(h))

Found(h, td) ==
    /\ h.index[td] \in 0..Size(h)-1
    /\ At(h, h.index[td]) = td

\* The last entry leaves the array.
Cut(h) ==
    [timers |-> SubSeq(h.timers, 1, Size(h) - 1),
     index |-> [h.index EXCEPT ![At(h, Size(h) - 1)] = -1]]

\* del: swaps with the last, which then sinks or rises; an entry that is not
\* in the array is left alone.
Del(h, e, td) ==
    LET i == h.index[td]
        last == Size(h) - 1
    IN IF ~Found(h, td) THEN h
       ELSE IF i = last THEN Cut(h)
       ELSE Cut(Up(Down(Swap(h, i, last), e, i, last), e, i))

-----------------------------------------------------------------------------
(* The heap under the calls of Timer: Add of an entry from the free list,  *)
(* Set and Del of one that may have expired, the pop of the front.         *)

Entries == {heap.timers[i] : i \in 1..Len(heap.timers)}

\* A fresh TimerData has index 0 and no deadline.
Init ==
    /\ heap = [timers |-> <<>>, index |-> [td \in TDs |-> 0]]
    /\ expire = [td \in TDs |-> CHOOSE t \in Times : \A u \in Times : t <= u]

AddEntry(td, t) ==
    /\ td \notin Entries
    /\ expire' = [expire EXCEPT ![td] = t]
    /\ heap' = Add(heap, expire', td)

\* Set: del with the old deadline, add with the new one.
SetEntry(td, t) ==
    /\ expire' = [expire EXCEPT ![td] = t]
    /\ heap' = Add(Del(heap, expire, td), expire', td)

DelEntry(td) ==
    /\ heap' = Del(heap, expire, td)
    /\ UNCHANGED expire

Next ==
    \E td \in TDs :
        \/ DelEntry(td)
        \/ \E t \in Times : AddEntry(td, t) \/ SetEntry(td, t)

Spec == Init /\ [][Next]_vars

-----------------------------------------------------------------------------
(* Properties *)

First == IF heap.timers = <<>> THEN None ELSE At(heap, 0)

\* The array implements the queue: an operation adds or removes the one entry
\* it is called for, an earliest entry is at index 0, and add ends there (and
\* so arms the signal) exactly when the new entry is earlier than all others.
AbstractQueue == INSTANCE Queue WITH entries <- Entries, first <- First
ImplementsQueue == AbstractQueue!Spec
=============================================================================
