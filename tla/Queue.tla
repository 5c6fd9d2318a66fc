------------------------------- MODULE Queue -------------------------------
(***************************************************************************)
(* What the round timer needs of its heap: a set of entries with deadlines *)
(* and one earliest entry at the front.  A new entry takes the front only  *)
(* from a later one.                                                       *)
(***************************************************************************)
EXTENDS Integers

CONSTANTS
    TDs,        \* entries
    Times,      \* deadlines
    None        \* no entry

VARIABLES
    entries,    \* the entries in the queue
    expire,     \* the deadline of every entry, kept when it leaves
    first       \* the entry at the front

vars == <<entries, expire, first>>

\* Those of S that no other one of S precedes.
Earliest(S, e) == {td \in S : \A other \in S : e[td] <= e[other]}

\* The front after td joined S, which had f at its front.
Front(S, e, f, td) == IF \A other \in S : e[td] < e[other] THEN td ELSE f

Init ==
    /\ entries = {}
    /\ expire \in [TDs -> Times]
    /\ first = None

Add(td, t) ==
    /\ td \notin entries
    /\ entries' = entries \cup {td}
    /\ expire' = [expire EXCEPT ![td] = t]
    /\ first' = Front(entries, expire', first, td)

\* f is at the front of the entries without td.
Without(td, f) ==
    LET rest == entries \ {td} IN
    IF td # first THEN f = first
    ELSE IF rest = {} THEN f = None ELSE f \in Earliest(rest, expire)

Remove(td) ==
    /\ td \in entries
    /\ entries' = entries \ {td}
    /\ Without(td, first')
    /\ UNCHANGED expire

\* A removal and an addition in one step, of an entry that may have left.
Move(td, t) ==
    /\ entries' = entries \cup {td}
    /\ expire' = [expire EXCEPT ![td] = t]
    /\ \E f \in TDs \cup {None} :
        /\ Without(td, f)
        /\ first' = Front(entries \ {td}, expire', f, td)

Next ==
    \E td \in TDs :
        \/ Remove(td)
        \/ \E t \in Times : Add(td, t) \/ Move(td, t)

Spec == Init /\ [][Next]_vars
=============================================================================
