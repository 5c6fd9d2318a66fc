------------------------------- MODULE Writer -------------------------------
(***************************************************************************)
(* The buffered writer of a connection (pkg/bufio/bufio.go, Writer).  Its  *)
(* state is a record: buf, what is buffered; err, whether a write failed;  *)
(* to, what reached the connection.  Every operator gives the set of       *)
(* states a call can end in: the connection takes all it is given, or      *)
(* fails after a part of it, and a closed one fails at once.               *)
(***************************************************************************)
EXTENDS Integers, Sequences

CONSTANT WSize      \* len(b.buf); every header that is written fits in it

ASSUME WriterAssumption == WSize \in Nat \ {0}

NewWriter == [buf |-> <<>>, err |-> FALSE, to |-> <<>>]

Available(s) == WSize - Len(s.buf)

First(p, n) == SubSeq(p, 1, n)
After(p, n) == SubSeq(p, n + 1, Len(p))

\* How much of n cells arrives when the write fails.
Cuts(n, closed) == IF closed THEN {0} ELSE 0..n-1

\* Past the buffer, which is empty.
Direct(s, p, closed) ==
    {[s EXCEPT !.to = @ \o First(p, n), !.err = TRUE] : n \in Cuts(Len(p), closed)}
        \cup IF closed THEN {} ELSE {[s EXCEPT !.to = @ \o p]}

\* What did not arrive stays in the buffer.
Flushed(s, closed) ==
    IF s.err \/ s.buf = <<>> THEN {s}
    ELSE {[buf |-> After(s.buf, n), err |-> TRUE, to |-> s.to \o First(s.buf, n)]
              : n \in Cuts(Len(s.buf), closed)}
         \cup IF closed THEN {} ELSE {[s EXCEPT !.buf = <<>>, !.to = @ \o s.buf]}

Stored(s, p) == IF s.err THEN s ELSE [s EXCEPT !.buf = @ \o p]

\* Fault: an earlier error is forgotten.
PeekedAnyway(s, p, closed) ==
    {[t EXCEPT !.buf = IF t.err THEN p ELSE @ \o p] :
        t \in IF s.err \/ Len(p) <= Available(s) THEN {s} ELSE Flushed(s, closed)}

\* Room for p is made and p put there.
Peeked(s, p, closed) ==
    {Stored(t, p) : t \in IF s.err \/ Len(p) <= Available(s) THEN {s} ELSE Flushed(s, closed)}

\* The loop of Write with nothing buffered.
Rest(s, p, closed) ==
    IF s.err \/ Len(p) <= WSize THEN {Stored(s, p)} ELSE Direct(s, p, closed)

\* Fault: what does not fit overtakes what is buffered.
WrittenPast(s, p, closed) ==
    IF s.err \/ Len(p) <= Available(s) THEN {Stored(s, p)} ELSE Direct(s, p, closed)

\* The buffer is filled up and flushed, and the rest handled as a write of its own.
Written(s, p, closed) ==
    IF s.err \/ Len(p) <= Available(s) THEN {Stored(s, p)}
    ELSE IF s.buf = <<>> THEN Direct(s, p, closed)
    ELSE UNION {Rest(t, After(p, Available(s)), closed) :
                    t \in Flushed(Stored(s, First(p, Available(s))), closed)}

WrittenRaw(s, p, closed) ==
    IF s.err THEN {s}
    ELSE IF s.buf = <<>> THEN Direct(s, p, closed) ELSE Written(s, p, closed)

\* WriteString: every full buffer is flushed, however long the string is.
Strung(s, p, closed) ==
    LET all == s.buf \o p
        full == IF Len(all) <= WSize THEN 0 ELSE ((Len(all) - 1) \div WSize) * WSize
    IN  IF s.err THEN {s}
        ELSE {[buf |-> SubSeq(all, n + 1, (n \div WSize + 1) * WSize), err |-> TRUE,
               to |-> s.to \o First(all, n)] : n \in IF full = 0 THEN {} ELSE Cuts(full, closed)}
             \cup IF closed /\ full > 0 THEN {}
                  ELSE {[s EXCEPT !.buf = After(all, full), !.to = @ \o First(all, full)]}
=============================================================================
