------------------------------- MODULE Reader -------------------------------
(***************************************************************************)
(* The buffered reader of a connection (pkg/bufio/bufio.go, Reader): the   *)
(* cells r..w-1 of a buffer are what came from the connection and was not  *)
(* yet given to the caller.  The buffer itself is lent by a pool           *)
(* (pkg/bytes/buffer.go) and what Pop returns is a part of it, not a copy. *)
(*                                                                         *)
(* A cell is a byte, or a field that one call reads.  What the peer sends  *)
(* is a sequence fixed at the start; sent of it is on its way.             *)
(***************************************************************************)
EXTENDS Integers, Sequences

CONSTANTS
    Cells,      \* what can be in a buffer
    Junk,       \* a cell of another connection
    Size,       \* len(b.buf)
    None        \* nil

ASSUME ReaderAssumption ==
    /\ Size \in Nat \ {0}
    /\ Junk \in Cells
    /\ None \notin {"error", "panic"}

VARIABLES
    stream, sent,   \* all the peer will send; how much of it is sent
    next,           \* how much the reader took from the connection
    buf, r, w,      \* b.buf, b.r, b.w
    rerr,           \* b.err
    held            \* the buffer is out of its pool

windowVars == <<next, r, w, rerr>>
readerVars == <<stream, sent, windowVars, buf, held>>

\* ResetBuffer with a buffer of the pool: an earlier user's cells are in it.
ReaderInit ==
    /\ next = 0
    /\ buf = [i \in 0..Size-1 |-> Junk]
    /\ r = 0
    /\ w = 0
    /\ rerr = None
    /\ held = TRUE

Buffered == w - r

\* Fault: the window is not moved down before more is read behind it.
NotMoved(n) ==
    [i \in 0..Size-1 |->
        IF i \in Buffered..Buffered+n-1 THEN stream[next + i - Buffered + 1] ELSE buf[i]]

\* The copy to the front and n cells read behind it.
Moved(n) ==
    [i \in 0..Size-1 |->
        CASE i < Buffered -> buf[i + r]
          [] i \in Buffered..Buffered+n-1 -> stream[next + i - Buffered + 1]
          [] OTHER -> buf[i]]

\* One fill: a read of the connection gives any part of what is on its way
\* and has room, or fails, perhaps with cells (the io.Reader contract).
Fill(fails) ==
    /\ held
    /\ IF Buffered >= Size
       THEN rerr' = "panic" /\ UNCHANGED <<next, r, w, buf>>
       ELSE \E n \in 0..(IF sent - next < Size - Buffered
                         THEN sent - next ELSE Size - Buffered) :
            /\ n = 0 => fails
            /\ buf' = Moved(n)
            /\ r' = 0
            /\ w' = Buffered + n
            /\ next' = next + n
            /\ rerr' = IF fails THEN "error" ELSE rerr
    /\ UNCHANGED <<stream, sent, held>>

-----------------------------------------------------------------------------
(* The calls, each a loop of fills that ends in one of these ways *)

\* Fault: a request for exactly the whole buffer is refused.
FitsLess(n) == n < Size

\* The test at the head of Peek.
Fits(n) == n <= Size

PeekFills(n) == Fits(n) /\ Buffered < n /\ rerr = None
PeekFails(n) == ~Fits(n) \/ (Buffered < n /\ rerr # None)

\* b.r += n, when Peek found n cells.
Pop(n) ==
    /\ Fits(n) /\ Buffered >= n
    /\ r' = r + n
    /\ UNCHANGED <<stream, sent, next, buf, w, rerr, held>>

\* The next byte, as soon as there is one.
ReadByte == Pop(1)

\* A call that fails takes the error along; a request too large finds none.
PopFails(n) ==
    /\ PeekFails(n)
    /\ rerr' = IF Fits(n) THEN None ELSE rerr
    /\ UNCHANGED <<stream, sent, next, buf, r, w, held>>

Discard(n) ==
    /\ Buffered > 0 \/ rerr # None
    /\ r' = IF Buffered > n THEN r + n ELSE w
    /\ rerr' = IF Buffered < n THEN None ELSE rerr
    /\ UNCHANGED <<stream, sent, next, buf, w, held>>

\* Read with a slice of n cells: what is in the window, or past the buffer.
Read(n) ==
    \/ /\ Buffered > 0
       /\ r' = IF Buffered > n THEN r + n ELSE w
       /\ UNCHANGED <<stream, sent, next, buf, w, rerr, held>>
    \/ /\ Buffered = 0 /\ rerr = None /\ n >= Size
       /\ \E m \in 0..n : m <= sent - next /\ next' = next + m
       /\ UNCHANGED <<stream, sent, buf, r, w, rerr, held>>

\* The first line feed of the window, if any.
LineFeeds == {i \in r..w-1 : buf[i].t = "lf"}

EndOfLine == CHOOSE i \in LineFeeds : \A j \in LineFeeds : i <= j

Chars(from, to) == [i \in 1..(to - from) |-> buf[from + i - 1]]

\* Without a carriage return at the end.
Chomp(from, to) ==
    Chars(from, IF to > from /\ buf[to - 1].t = "cr" THEN to - 1 ELSE to)

LineFills == LineFeeds = {} /\ rerr = None /\ Buffered < Size

\* Of a full buffer a last carriage return is left for the next call.
LineTo == IF buf[w - 1].t = "cr" THEN w - 1 ELSE w

\* What ReadLine returns, and whether the line goes on: up to a line feed, else
\* what an error left, else a full buffer.
Line ==
    IF LineFeeds # {} THEN Chomp(r, EndOfLine)
    ELSE Chars(r, IF rerr # None THEN w ELSE LineTo)

More == LineFeeds = {} /\ rerr = None

ReadLine ==
    /\ LineFeeds # {} \/ (rerr # None /\ Buffered > 0) \/ Buffered >= Size
    /\ r' = IF LineFeeds # {} THEN EndOfLine + 1 ELSE IF rerr # None THEN w ELSE LineTo
    /\ rerr' = IF LineFeeds # {} THEN rerr ELSE None
    /\ UNCHANGED <<stream, sent, next, buf, w, held>>

LineFails ==
    /\ LineFeeds = {} /\ rerr # None /\ Buffered = 0
    /\ rerr' = None
    /\ UNCHANGED <<stream, sent, next, buf, r, w, held>>

-----------------------------------------------------------------------------
(* What others do to the buffer *)

\* The caller writes to what it was given: cells below the window.
Scribble(from, n, new) ==
    /\ from + n <= r
    /\ buf' = [i \in 0..Size-1 |-> IF i \in from..from+n-1 THEN new[i] ELSE buf[i]]
    /\ UNCHANGED <<stream, sent, windowVars, held>>

\* Pool.Put of the buffer.
PutBuffer ==
    /\ held
    /\ held' = FALSE
    /\ UNCHANGED <<stream, sent, windowVars, buf>>

\* The next user got it and filled it.
Reuse ==
    /\ ~held
    /\ buf # [i \in 0..Size-1 |-> Junk]
    /\ buf' = [i \in 0..Size-1 |-> Junk]
    /\ UNCHANGED <<stream, sent, windowVars, held>>

-----------------------------------------------------------------------------
(* The calls in any order, for the proofs *)

Filling ==
    \/ \E n \in Nat \ {0} : PeekFills(n)
    \/ Buffered = 0
    \/ LineFills

Call ==
    \/ Filling /\ \E fails \in BOOLEAN : Fill(fails)
    \/ \E n \in Nat : Pop(n) \/ PopFails(n) \/ Discard(n) \/ Read(n)
    \/ ReadLine \/ LineFails

Others ==
    \/ \E from, n \in Nat, new \in [0..Size-1 -> Cells] : Scribble(from, n, new)
    \/ PutBuffer \/ Reuse
    \/ /\ \E n \in sent..Len(stream) : sent' = n
       /\ UNCHANGED <<stream, windowVars, buf, held>>

ReaderNext == (held /\ Call) \/ Others

ReaderSpec ==
    /\ stream \in Seq(Cells) /\ sent = 0 /\ ReaderInit
    /\ [][ReaderNext]_readerVars

-----------------------------------------------------------------------------

ReaderTypeOK ==
    /\ stream \in Seq(Cells)
    /\ sent \in 0..Len(stream)
    /\ next \in 0..sent
    /\ buf \in [0..Size-1 -> Cells]
    /\ r \in 0..w /\ w \in 0..Size
    /\ rerr \in {None, "error", "panic"}
    /\ held \in BOOLEAN

\* What waits in the buffer is what the peer sent, in order and without a gap,
\* next to what the caller got and what is still to come; and fill is never
\* called with a full buffer (bufio.go:70).
WindowIsStream ==
    /\ rerr # "panic"
    /\ Buffered <= next
    /\ held => \A i \in r..w-1 : buf[i] = stream[next - w + i + 1]
=============================================================================
