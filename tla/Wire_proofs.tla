----------------------------- MODULE Wire_proofs -----------------------------
(***************************************************************************)
(* The bytes of a connection, for buffers of any size, any clients and any *)
(* way the network cuts what they send: first the buffered reader with its *)
(* calls in any order, then the connection that uses it, then the writer.  *)
(***************************************************************************)
EXTENDS Wire, WellFoundedInduction, SequenceTheorems, TLAPS

LEMMA SizeIsPositive == Size \in Nat /\ Size >= 1 /\ Junk \in Cells
  BY ReaderAssumption

-----------------------------------------------------------------------------
(* Natural numbers: the least of a set, and what holds for all of them *)

LEMMA LeastNumber ==
  ASSUME NEW T, T \subseteq Nat, T # {}
  PROVE  \E i \in T : \A j \in T : i <= j
<1> DEFINE Less == OpToRel(<, Nat)
<1>1. PICK i \in T : \A j \in T : ~(<<j, i>> \in Less)
  <2>1. IsWellFoundedOn(Less, Nat)
    BY NatLessThanWellFounded
  <2> HIDE DEF Less
  <2> QED  BY <2>1, WFMin
<1>2. \A j \in T : i <= j
  <2> SUFFICES ASSUME NEW j \in T PROVE i <= j
    OBVIOUS
  <2>1. i \in Nat /\ j \in Nat
    OBVIOUS
  <2>2. ~(j < i)
    BY <1>1, <2>1 DEF OpToRel
  <2> QED  BY <2>1, <2>2
<1> QED  BY <1>2

LEMMA EveryNumber ==
  ASSUME NEW T, 0 \in T, \A n \in Nat : n \in T => n + 1 \in T
  PROVE  \A n \in Nat : n \in T
<1> SUFFICES ASSUME Nat \ T # {} PROVE FALSE
  OBVIOUS
<1>1. PICK i \in Nat \ T : \A j \in Nat \ T : i <= j
  BY LeastNumber
<1>2. i # 0 /\ i - 1 \in Nat /\ ~(i <= i - 1)
  BY <1>1
<1>3. i - 1 \in T
  BY <1>1, <1>2
<1>4. (i - 1) + 1 = i
  BY <1>1
<1> QED  BY <1>1, <1>2, <1>3, <1>4

-----------------------------------------------------------------------------
(* The window of the reader *)

\* The first line feed of the window is one of them.
LEMMA FirstLineFeed ==
  ASSUME ReaderTypeOK, LineFeeds # {}
  PROVE  EndOfLine \in LineFeeds
<1>1. LineFeeds \subseteq Nat
  BY SizeIsPositive DEF LineFeeds, ReaderTypeOK
<1>2. \E i \in LineFeeds : \A j \in LineFeeds : i <= j
  BY <1>1, LeastNumber
<1> QED  BY <1>2 DEF EndOfLine

\* What a fill leaves in the buffer: the window at the front, n cells behind it.
LEMMA MovedCells ==
  ASSUME ReaderTypeOK, NEW n \in Nat, Buffered + n <= Size, next + n <= sent
  PROVE  /\ Moved(n) \in [0..Size-1 -> Cells]
         /\ \A i \in 0..Buffered-1 : Moved(n)[i] = buf[i + r]
         /\ \A i \in Buffered..Buffered+n-1 : Moved(n)[i] = stream[next + i - Buffered + 1]
<1>1. Buffered \in Nat /\ Buffered = w - r
  BY SizeIsPositive DEF ReaderTypeOK, Buffered
<1>2. ASSUME NEW i \in 0..Size-1
      PROVE  /\ i < Buffered => i + r \in 0..Size-1
             /\ i \in Buffered..Buffered+n-1 => next + i - Buffered + 1 \in 1..Len(stream)
  BY <1>1, SizeIsPositive DEF ReaderTypeOK
<1>3. \A j \in 1..Len(stream) : stream[j] \in Cells
  BY DEF ReaderTypeOK
<1>4. Moved(n) \in [0..Size-1 -> Cells]
  BY <1>2, <1>3 DEF Moved, ReaderTypeOK
<1>5. \A i \in 0..Buffered-1 : Moved(n)[i] = buf[i + r]
  BY <1>1, SizeIsPositive DEF Moved
<1>6. \A i \in Buffered..Buffered+n-1 : Moved(n)[i] = stream[next + i - Buffered + 1]
  BY <1>1, SizeIsPositive DEF Moved
<1> QED  BY <1>4, <1>5, <1>6

WindowInv == ReaderTypeOK /\ WindowIsStream

LEMMA WindowInit ==
  ASSUME stream \in Seq(Cells), sent = 0, ReaderInit
  PROVE  WindowInv
<1>1. ReaderTypeOK
  BY SizeIsPositive, ReaderAssumption DEF ReaderInit, ReaderTypeOK
<1>2. WindowIsStream
  BY ReaderAssumption DEF ReaderInit, WindowIsStream, Buffered
<1> QED  BY <1>1, <1>2 DEF WindowInv

\* A fill is made only when the window leaves room.
LEMMA FillingHasRoom ==
  ASSUME ReaderTypeOK, Filling
  PROVE  Buffered < Size
  BY SizeIsPositive DEF Filling, PeekFills, Fits, LineFills, Buffered, ReaderTypeOK

LEMMA FillInv ==
  ASSUME WindowInv, held, Filling, NEW fails \in BOOLEAN, Fill(fails)
  PROVE  WindowInv'
<1>1. ReaderTypeOK /\ WindowIsStream
  BY DEF WindowInv
<1>2. Buffered < Size /\ Buffered \in Nat /\ Buffered = w - r
  BY <1>1, FillingHasRoom, SizeIsPositive DEF ReaderTypeOK, Buffered
<1>3. PICK n \in 0..(IF sent - next < Size - Buffered THEN sent - next ELSE Size - Buffered) :
        /\ buf' = Moved(n)
        /\ r' = 0
        /\ w' = Buffered + n
        /\ next' = next + n
        /\ rerr' = IF fails THEN "error" ELSE rerr
  <2>1. ~(Buffered >= Size)
    BY <1>1, <1>2, SizeIsPositive
  <2> QED  BY <2>1 DEF Fill
<1>4. n \in Nat /\ Buffered + n <= Size /\ next + n <= sent
  BY <1>1, <1>2, <1>3, SizeIsPositive DEF ReaderTypeOK
<1>5. UNCHANGED <<stream, sent, held>>
  BY DEF Fill
<1>6. ReaderTypeOK'
  <2>1. buf' \in [0..Size-1 -> Cells]
    BY <1>1, <1>3, <1>4, MovedCells
  <2>2. stream' \in Seq(Cells) /\ sent' \in 0..Len(stream') /\ held' \in BOOLEAN
    BY <1>1, <1>5 DEF ReaderTypeOK
  <2>3. next' \in 0..sent'
    BY <1>1, <1>3, <1>4, <1>5 DEF ReaderTypeOK
  <2>4. r' \in 0..w' /\ w' \in 0..Size
    BY <1>2, <1>3, <1>4, SizeIsPositive
  <2>5. rerr' \in {None, "error", "panic"}
    BY <1>1, <1>3 DEF ReaderTypeOK
  <2> QED  BY <2>1, <2>2, <2>3, <2>4, <2>5 DEF ReaderTypeOK
<1>7. rerr' # "panic"
  BY <1>1, <1>3 DEF WindowIsStream
<1>8. Buffered' = Buffered + n /\ Buffered' <= next'
  BY <1>1, <1>2, <1>3, <1>4 DEF WindowIsStream, Buffered, ReaderTypeOK
<1>9. ASSUME NEW i \in r'..w'-1
      PROVE  buf'[i] = stream'[next' - w' + i + 1]
  <2>1. i \in 0..Buffered+n-1 /\ next' - w' = next - Buffered
    BY <1>1, <1>2, <1>3, <1>4 DEF ReaderTypeOK
  <2>2. CASE i < Buffered
    <3>1. i + r \in r..w-1 /\ i \in 0..Buffered-1
      BY <1>1, <1>2, <2>1, <2>2, SizeIsPositive DEF ReaderTypeOK
    <3>2. buf[i + r] = stream[next - w + (i + r) + 1]
      BY <1>1, <3>1 DEF WindowIsStream
    <3>3. next - w + (i + r) + 1 = next' - w' + i + 1
      BY <1>1, <1>2, <2>1, SizeIsPositive DEF ReaderTypeOK
    <3>4. buf'[i] = buf[i + r]
      BY <1>1, <1>3, <1>4, <3>1, MovedCells
    <3> QED  BY <1>5, <3>2, <3>3, <3>4
  <2>3. CASE i >= Buffered
    <3>1. i \in Buffered..Buffered+n-1
      BY <1>2, <1>4, <2>1, <2>3
    <3>2. buf'[i] = stream[next + i - Buffered + 1]
      BY <1>1, <1>3, <1>4, <3>1, MovedCells
    <3>3. next + i - Buffered + 1 = next' - w' + i + 1
      BY <1>1, <1>2, <2>1, SizeIsPositive DEF ReaderTypeOK
    <3> QED  BY <1>5, <3>2, <3>3
  <2> QED  BY <1>2, <2>1, <2>2, <2>3
<1>10. WindowIsStream'
  BY <1>7, <1>8, <1>9 DEF WindowIsStream
<1> QED  BY <1>6, <1>10 DEF WindowInv

LEMMA TakeLess ==
  ASSUME NEW a \in Int, NEW b \in Int, NEW c \in Int, NEW d \in Int, a - b <= d, c >= b
  PROVE  a - c <= d
  OBVIOUS

\* A step that takes from the front of the window only.
LEMMA TakeInv ==
  ASSUME WindowInv, r' \in r..w, UNCHANGED <<stream, sent, next, buf, w, held>>,
         rerr' \in {None, "error"}
  PROVE  WindowInv'
<1>1. ReaderTypeOK /\ WindowIsStream
  BY DEF WindowInv
<1>2. r' \in 0..w /\ r' >= r /\ w \in Nat /\ r \in Nat
  BY <1>1, SizeIsPositive DEF ReaderTypeOK
<1>3. ReaderTypeOK'
  BY <1>1, <1>2 DEF ReaderTypeOK
<1>4. rerr' # "panic"
  BY ReaderAssumption
<1>5. Buffered' <= next'
  <2>1. w - r <= next /\ next \in Int
    BY <1>1, SizeIsPositive DEF WindowIsStream, Buffered, ReaderTypeOK
  <2>2. r' \in Int /\ w \in Int /\ r \in Int /\ r' >= r
    BY <1>2, SizeIsPositive
  <2>3. w - r' <= next
    BY <2>1, <2>2, TakeLess
  <2>4. w' = w /\ next' = next
    OBVIOUS
  <2> QED  BY <2>3, <2>4 DEF Buffered
<1>6. ASSUME held', NEW i \in r'..w'-1
      PROVE  buf'[i] = stream'[next' - w' + i + 1]
  <2>1. i \in r..w-1
    BY <1>2, <1>6
  <2> QED  BY <1>1, <1>6, <2>1 DEF WindowIsStream
<1>7. WindowIsStream'
  BY <1>4, <1>5, <1>6 DEF WindowIsStream
<1> QED  BY <1>3, <1>7 DEF WindowInv

\* Pop, Discard, ReadLine and their failures move r inside the window.
LEMMA CallsTake ==
  ASSUME WindowInv, NEW n \in Nat,
         Pop(n) \/ PopFails(n) \/ Discard(n) \/ ReadLine \/ LineFails
  PROVE  /\ r' \in r..w
         /\ UNCHANGED <<stream, sent, next, buf, w, held>>
         /\ rerr' \in {None, "error"}
<1>1. r \in Nat /\ w \in Nat /\ r <= w /\ Buffered = w - r
  BY SizeIsPositive DEF WindowInv, ReaderTypeOK, Buffered
<1>2. rerr \in {None, "error"}
  BY DEF WindowInv, ReaderTypeOK, WindowIsStream
<1>3. CASE Pop(n)
  BY <1>1, <1>2, <1>3 DEF Pop
<1>4. CASE PopFails(n)
  BY <1>1, <1>2, <1>4 DEF PopFails
<1>5. CASE Discard(n)
  BY <1>1, <1>2, <1>5 DEF Discard
<1>6. CASE ReadLine
  <2>1. LineFeeds # {} => EndOfLine \in r..w-1
    BY FirstLineFeed DEF WindowInv, LineFeeds
  <2>2. Buffered >= Size => LineTo \in r..w
    BY <1>1, SizeIsPositive DEF LineTo
  <2>3. r' \in r..w
    BY <1>1, <1>6, <2>1, <2>2 DEF ReadLine
  <2> QED  BY <1>2, <1>6, <2>3 DEF ReadLine
<1>7. CASE LineFails
  BY <1>1, <1>2, <1>7 DEF LineFails
<1> QED  BY <1>3, <1>4, <1>5, <1>6, <1>7

LEMMA ReadInv ==
  ASSUME WindowInv, NEW n \in Nat, Read(n)
  PROVE  WindowInv'
<1>1. r \in Nat /\ w \in Nat /\ r <= w /\ Buffered = w - r
  BY SizeIsPositive DEF WindowInv, ReaderTypeOK, Buffered
<1>2. rerr \in {None, "error"}
  BY DEF WindowInv, ReaderTypeOK, WindowIsStream
<1>3. CASE Buffered > 0
  <2>1. /\ r' \in r..w
        /\ UNCHANGED <<stream, sent, next, buf, w, rerr, held>>
    BY <1>1, <1>3 DEF Read
  <2> QED  BY <1>2, <2>1, TakeInv
<1>4. CASE Buffered = 0
  <2>1. PICK m \in 0..n : m <= sent - next /\ next' = next + m
    BY <1>4 DEF Read
  <2>2. UNCHANGED <<stream, sent, buf, r, w, rerr, held>>
    BY <1>4 DEF Read
  <2>3. ReaderTypeOK'
    BY <1>1, <2>1, <2>2 DEF WindowInv, ReaderTypeOK
  <2>4. WindowIsStream'
    BY <1>1, <1>2, <1>4, <2>1, <2>2, ReaderAssumption DEF WindowInv, ReaderTypeOK, WindowIsStream, Buffered
  <2> QED  BY <2>3, <2>4 DEF WindowInv
<1> QED  BY <1>1, <1>3, <1>4

\* A caller that writes to what it was given does not reach the window.
LEMMA ScribbleInv ==
  ASSUME WindowInv, NEW from \in Nat, NEW n \in Nat, NEW new \in [0..Size-1 -> Cells],
         Scribble(from, n, new)
  PROVE  WindowInv'
<1>1. /\ from + n <= r
      /\ buf' = [i \in 0..Size-1 |-> IF i \in from..from+n-1 THEN new[i] ELSE buf[i]]
      /\ UNCHANGED <<stream, sent, next, r, w, rerr, held>>
  BY DEF Scribble, windowVars
<1>2. ReaderTypeOK /\ WindowIsStream
  BY DEF WindowInv
<1>3. buf' \in [0..Size-1 -> Cells]
  BY <1>1, <1>2 DEF ReaderTypeOK
<1>4. ReaderTypeOK'
  BY <1>1, <1>2, <1>3 DEF ReaderTypeOK
<1>5. \A i \in r..w-1 : buf'[i] = buf[i]
  BY <1>1, <1>2, SizeIsPositive DEF ReaderTypeOK
<1>6. WindowIsStream'
  BY <1>1, <1>2, <1>5 DEF WindowIsStream, Buffered
<1> QED  BY <1>4, <1>6 DEF WindowInv

LEMMA WindowStep ==
  ASSUME WindowInv, [ReaderNext]_readerVars
  PROVE  WindowInv'
<1>1. CASE UNCHANGED readerVars
  BY <1>1 DEF WindowInv, ReaderTypeOK, WindowIsStream, Buffered, readerVars, windowVars
<1>2. CASE held /\ Filling /\ \E fails \in BOOLEAN : Fill(fails)
  BY <1>2, FillInv
<1>3. ASSUME NEW n \in Nat, Pop(n) \/ PopFails(n) \/ Discard(n) \/ ReadLine \/ LineFails
      PROVE  WindowInv'
  BY <1>3, CallsTake, TakeInv
<1>4. ASSUME NEW n \in Nat, Read(n)
      PROVE  WindowInv'
  BY <1>4, ReadInv
<1>5. CASE \E from, n \in Nat, new \in [0..Size-1 -> Cells] : Scribble(from, n, new)
  BY <1>5, ScribbleInv
<1>6. CASE PutBuffer
  BY <1>6 DEF PutBuffer, WindowInv, ReaderTypeOK, WindowIsStream, Buffered, windowVars
<1>7. CASE Reuse
  BY <1>7, SizeIsPositive DEF Reuse, WindowInv, ReaderTypeOK, WindowIsStream, Buffered, windowVars
<1>8. CASE /\ \E n \in sent..Len(stream) : sent' = n
           /\ UNCHANGED <<stream, windowVars, buf, held>>
  BY <1>8 DEF WindowInv, ReaderTypeOK, WindowIsStream, Buffered, windowVars
<1>9. CASE held /\ Call
  <2>1. CASE ReadLine \/ LineFails
    BY <1>3, <2>1
  <2>2. CASE \E n \in Nat : Pop(n) \/ PopFails(n) \/ Discard(n) \/ Read(n)
    BY <1>3, <1>4, <2>2
  <2> QED  BY <1>2, <1>9, <2>1, <2>2 DEF Call
<1> QED  BY <1>1, <1>5, <1>6, <1>7, <1>8, <1>9 DEF ReaderNext, Others

LEMMA WindowInvariance == ReaderSpec => []WindowInv
<1>1. (stream \in Seq(Cells) /\ sent = 0 /\ ReaderInit) => WindowInv
  BY WindowInit
<1>2. WindowInv /\ [ReaderNext]_readerVars => WindowInv'
  BY WindowStep
<1> QED  BY <1>1, <1>2, PTL DEF ReaderSpec

\* Every variable of the reader keeps its type, whatever the calls, the sizes
\* of the reads and the errors of the connection (bufio.go:25).
THEOREM TypeCorrect == ReaderSpec => []ReaderTypeOK
<1>1. WindowInv => ReaderTypeOK
  BY DEF WindowInv
<1> QED  BY <1>1, WindowInvariance, PTL

\* The window of a buffer of any size holds the stream without a gap, and fill
\* is never called with a full one (bufio.go:62).
THEOREM WindowsAreStream == ReaderSpec => []WindowIsStream
<1>1. WindowInv => WindowIsStream
  BY DEF WindowInv
<1> QED  BY <1>1, WindowInvariance, PTL

-----------------------------------------------------------------------------
(* Sequences put one behind the other *)

\* The defining equation of FlattenSeq has a solution, of which it is the last.
Flattening(seqs, f) ==
    f = [i \in 1..Len(seqs) |-> IF i = 1 THEN seqs[i] ELSE f[i - 1] \o seqs[i]]

LEMMA FlatteningUpTo ==
  ASSUME NEW seqs, NEW n \in Nat
  PROVE  \E f : f = [i \in 1..n |-> IF i = 1 THEN seqs[i] ELSE f[i - 1] \o seqs[i]]
<1> DEFINE Is(f, m) == f = [i \in 1..m |-> IF i = 1 THEN seqs[i] ELSE f[i - 1] \o seqs[i]]
           T == {m \in Nat : \E f : Is(f, m)}
<1>1. 0 \in T
  <2>1. Is([i \in 1..0 |-> 0], 0)
    OBVIOUS
  <2> QED  BY <2>1
<1>2. ASSUME NEW m \in Nat, m \in T PROVE m + 1 \in T
  <2>1. PICK f : Is(f, m)
    BY <1>2
  <2> DEFINE g == [i \in 1..m+1 |->
                     IF i = m + 1 THEN IF i = 1 THEN seqs[i] ELSE f[m] \o seqs[i] ELSE f[i]]
  <2>2. \A i \in 1..m+1 : g[i] = IF i = 1 THEN seqs[i] ELSE g[i - 1] \o seqs[i]
    <3> SUFFICES ASSUME NEW i \in 1..m+1
                 PROVE  g[i] = IF i = 1 THEN seqs[i] ELSE g[i - 1] \o seqs[i]
      OBVIOUS
    <3>1. CASE i = m + 1
      <4>1. i # 1 => i - 1 = m /\ m \in 1..m+1 /\ m # m + 1
        BY <3>1
      <4> QED  BY <3>1, <4>1
    <3>2. CASE i # m + 1
      <4>1. i \in 1..m /\ (i # 1 => i - 1 \in 1..m+1 /\ i - 1 # m + 1)
        BY <3>2
      <4>2. f[i] = IF i = 1 THEN seqs[i] ELSE f[i - 1] \o seqs[i]
        BY <2>1, <4>1
      <4> QED  BY <3>2, <4>1, <4>2
    <3> QED  BY <3>1, <3>2
  <2>3. g = [i \in 1..m+1 |-> g[i]]
    OBVIOUS
  <2> HIDE DEF g
  <2>4. [i \in 1..m+1 |-> g[i]]
           = [i \in 1..m+1 |-> IF i = 1 THEN seqs[i] ELSE g[i - 1] \o seqs[i]]
    BY <2>2
  <2>5. Is(g, m + 1)
    BY <2>3, <2>4
  <2> HIDE DEF Is
  <2>6. \E h : Is(h, m + 1)
    BY <2>5
  <2> QED  BY <2>6
<1> HIDE DEF T
<1>3. n \in T
  BY <1>1, <1>2, EveryNumber
<1> QED  BY <1>3 DEF T

LEMMA FlattenIsLast ==
  ASSUME NEW seqs, Len(seqs) \in Nat \ {0}
  PROVE  \E f : Flattening(seqs, f) /\ FlattenSeq(seqs) = f[Len(seqs)]
<1>1. \E f : Flattening(seqs, f)
  BY FlatteningUpTo DEF Flattening
<1>2. FlattenSeq(seqs) = (CHOOSE f : Flattening(seqs, f))[Len(seqs)]
  BY DEF FlattenSeq, Flattening
<1> QED  BY <1>1, <1>2

\* What it computes on the way: f[n] is the first n sequences put together.
LEMMA FlattenStep ==
  ASSUME NEW S, NEW seqs, Len(seqs) \in Nat, \A i \in 1..Len(seqs) : seqs[i] \in Seq(S),
         NEW f, Flattening(seqs, f)
  PROVE  /\ \A n \in 1..Len(seqs) : f[n] \in Seq(S)
         /\ 1 \in 1..Len(seqs) => f[1] = seqs[1]
         /\ \A n \in 2..Len(seqs) : f[n] = f[n - 1] \o seqs[n]
<1>1. \A n \in 1..Len(seqs) : f[n] = IF n = 1 THEN seqs[n] ELSE f[n - 1] \o seqs[n]
  BY DEF Flattening
<1> DEFINE T == {n \in Nat : n \in 1..Len(seqs) => f[n] \in Seq(S)}
<1>2. 0 \in T
  OBVIOUS
<1>3. ASSUME NEW n \in Nat, n \in T PROVE n + 1 \in T
  <2> SUFFICES ASSUME n + 1 \in 1..Len(seqs) PROVE f[n + 1] \in Seq(S)
    OBVIOUS
  <2>1. CASE n = 0
    BY <1>1, <2>1
  <2>2. CASE n # 0
    <3>1. n \in 1..Len(seqs) /\ n + 1 # 1 /\ (n + 1) - 1 = n
      BY <2>2
    <3>2. f[n] \in Seq(S) /\ seqs[n + 1] \in Seq(S)
      BY <1>3, <3>1
    <3>3. f[n + 1] = f[n] \o seqs[n + 1]
      BY <1>1, <3>1
    <3> QED  BY <3>2, <3>3
  <2> QED  BY <2>1, <2>2
<1> HIDE DEF T
<1>4. \A n \in Nat : n \in T
  BY <1>2, <1>3, EveryNumber
<1>5. \A n \in 1..Len(seqs) : f[n] \in Seq(S)
  BY <1>4 DEF T
<1>6. 1 \in 1..Len(seqs) => f[1] = seqs[1]
  BY <1>1
<1>7. \A n \in 2..Len(seqs) : n \in 1..Len(seqs) /\ n # 1
  OBVIOUS
<1>8. \A n \in 2..Len(seqs) : f[n] = f[n - 1] \o seqs[n]
  BY <1>1, <1>7
<1> QED  BY <1>5, <1>6, <1>8

LEMMA FlattenGrows ==
  ASSUME NEW S, NEW seqs, Len(seqs) \in Nat, \A i \in 1..Len(seqs) : seqs[i] \in Seq(S),
         NEW f, Flattening(seqs, f), NEW m \in 1..Len(seqs), NEW n \in m..Len(seqs)
  PROVE  Len(f[m]) <= Len(f[n]) /\ \A j \in 1..Len(f[m]) : f[n][j] = f[m][j]
<1> DEFINE T == {d \in Nat : m + d <= Len(seqs) =>
                   /\ Len(f[m]) <= Len(f[m + d])
                   /\ \A j \in 1..Len(f[m]) : f[m + d][j] = f[m][j]}
<1>0. /\ \A i \in 1..Len(seqs) : f[i] \in Seq(S)
      /\ \A i \in 2..Len(seqs) : f[i] = f[i - 1] \o seqs[i]
  BY FlattenStep, ZenonT(40)
<1>1. 0 \in T
  <2>1. f[m] \in Seq(S)
    BY <1>0
  <2> QED  BY <2>1
<1>2. ASSUME NEW d \in Nat, d \in T PROVE d + 1 \in T
  <2> SUFFICES ASSUME m + (d + 1) <= Len(seqs)
               PROVE  /\ Len(f[m]) <= Len(f[m + (d + 1)])
                      /\ \A j \in 1..Len(f[m]) : f[m + (d + 1)][j] = f[m][j]
    OBVIOUS
  <2>1. m + d \in 1..Len(seqs) /\ m + (d + 1) \in 2..Len(seqs) /\ (m + (d + 1)) - 1 = m + d
    OBVIOUS
  <2>2. f[m + (d + 1)] = f[m + d] \o seqs[m + (d + 1)]
    BY <1>0, <2>1
  <2>3. f[m] \in Seq(S) /\ f[m + d] \in Seq(S) /\ seqs[m + (d + 1)] \in Seq(S)
    BY <1>0, <2>1
  <2>4. /\ Len(f[m]) <= Len(f[m + d])
        /\ \A j \in 1..Len(f[m]) : f[m + d][j] = f[m][j]
    BY <1>2, <2>1
  <2> DEFINE x == f[m + d]
             y == seqs[m + (d + 1)]
  <2>5. x \in Seq(S) /\ y \in Seq(S) /\ f[m + (d + 1)] = x \o y /\ f[m] \in Seq(S)
    BY <2>2, <2>3
  <2>6. Len(f[m]) <= Len(x) /\ \A j \in 1..Len(f[m]) : x[j] = f[m][j]
    BY <2>4
  <2> HIDE DEF x, y
  <2>7. Len(x \o y) >= Len(x) /\ \A j \in 1..Len(x) : (x \o y)[j] = x[j]
    BY <2>5
  <2>8. Len(x) \in Nat /\ Len(x \o y) \in Nat /\ Len(f[m]) \in Nat
    BY <2>5
  <2> QED  BY <2>5, <2>6, <2>7, <2>8
<1> HIDE DEF T
<1>3. n - m \in Nat /\ m + (n - m) = n /\ n <= Len(seqs)
  OBVIOUS
<1>4. n - m \in T
  BY <1>1, <1>2, <1>3, EveryNumber
<1> QED  BY <1>3, <1>4 DEF T

\* The first n of the sequences give the n-th of these.
LEMMA FlattenPrefix ==
  ASSUME NEW S, NEW seqs \in Seq(Seq(S)), NEW f, Flattening(seqs, f), NEW n \in 1..Len(seqs)
  PROVE  FlattenSeq(SubSeq(seqs, 1, n)) = f[n]
<1> DEFINE sub == SubSeq(seqs, 1, n)
<1>1. Len(sub) = n /\ Len(sub) \in Nat \ {0} /\ \A i \in 1..n : sub[i] = seqs[i]
  OBVIOUS
<1> HIDE DEF sub
<1>2. PICK g : Flattening(sub, g) /\ FlattenSeq(sub) = g[n]
  BY <1>1, FlattenIsLast
<1>3. \A i \in 1..n : i \in 1..Len(seqs) /\ i \in 1..Len(sub)
  BY <1>1
<1>a. \A i \in 1..Len(sub) : g[i] = IF i = 1 THEN sub[i] ELSE g[i - 1] \o sub[i]
  BY <1>2 DEF Flattening
<1>b. \A i \in 1..Len(seqs) : f[i] = IF i = 1 THEN seqs[i] ELSE f[i - 1] \o seqs[i]
  BY DEF Flattening
<1> DEFINE T == {i \in Nat : i \in 1..n => g[i] = f[i]}
<1>4. 0 \in T
  OBVIOUS
<1>5. ASSUME NEW i \in Nat, i \in T PROVE i + 1 \in T
  <2> SUFFICES ASSUME i + 1 \in 1..n PROVE g[i + 1] = f[i + 1]
    OBVIOUS
  <2>1. i # 0 => i \in 1..n /\ (i + 1) - 1 = i /\ i + 1 # 1
    OBVIOUS
  <2>2. i # 0 => g[i] = f[i]
    BY <1>5, <2>1
  <2> QED  BY <1>1, <1>3, <1>a, <1>b, <2>1, <2>2
<1> HIDE DEF T
<1>6. \A i \in Nat : i \in T
  BY <1>4, <1>5, EveryNumber
<1>7. g[n] = f[n]
  BY <1>6 DEF T
<1> QED  BY <1>2, <1>7 DEF sub

LEMMA FlattenTyped ==
  ASSUME NEW S, NEW seqs \in Seq(Seq(S))
  PROVE  FlattenSeq(seqs) \in Seq(S)
<1>1. CASE Len(seqs) = 0
  <2>1. FlattenSeq(seqs) = seqs /\ seqs = <<>>
    BY <1>1 DEF FlattenSeq
  <2> QED  BY <2>1
<1>2. CASE Len(seqs) # 0
  <2>1. Len(seqs) \in Nat \ {0} /\ \A i \in 1..Len(seqs) : seqs[i] \in Seq(S)
    BY <1>2
  <2>2. PICK f : Flattening(seqs, f) /\ FlattenSeq(seqs) = f[Len(seqs)]
    BY <2>1, FlattenIsLast
  <2>3. \A n \in 1..Len(seqs) : f[n] \in Seq(S)
    BY <2>1, <2>2, FlattenStep
  <2> QED  BY <2>1, <2>2, <2>3
<1> QED  BY <1>1, <1>2

-----------------------------------------------------------------------------
(* What a client sends *)

\* Cells that name a packet or a frame of the script when they say so.
SaneCells(s) ==
    {c \in [t : Kinds, k : Nat, i : Nat, x : Int] :
        /\ c.t = "head" => c.k \in 1..Len(s.packets)
        /\ c.t = "first" => c.k \in 1..Len(s.frames)}

LEMMA ScriptFacts ==
  ASSUME NEW s \in Scripts
  PROVE  /\ s \in ScriptType
         /\ StreamOf(s) \in Seq(Cells)
         /\ s.packets \in Seq([op : Ops, pack : Int, head : Int, body : Nat])
         /\ s.frames \in Seq([op : FrameOps, fin : BOOLEAN, masked : BOOLEAN, packet : Nat,
                              from : Nat, n : Nat])
         /\ \A j \in 1..Len(s.frames) : s.frames[j].packet \in 0..Len(s.packets)
<1>1. s \in ScriptType /\ StreamOf(s) \in Seq(Cells)
  BY ScriptAssumption
<1>2. /\ s.packets \in Seq([op : Ops, pack : Int, head : Int, body : Nat])
      /\ s.frames \in Seq([op : FrameOps, fin : BOOLEAN, masked : BOOLEAN, packet : Nat,
                           from : Nat, n : Nat])
  BY <1>1 DEF ScriptType
<1>3. DOMAIN s.frames = 1..Len(s.frames)
  BY <1>2
<1>4. \A j \in DOMAIN s.frames : s.frames[j].packet \in 0..Len(s.packets)
  BY ScriptAssumption
<1> QED  BY <1>1, <1>2, <1>3, <1>4

LEMMA ElementOf ==
  ASSUME NEW S, NEW q \in Seq(S), NEW j \in 1..Len(q)
  PROVE  q[j] \in S
  OBVIOUS

LEMMA PacketFacts ==
  ASSUME NEW s \in Scripts, NEW k \in 1..Len(s.packets)
  PROVE  /\ s.packets[k].op \in Ops /\ s.packets[k].pack \in Int
         /\ s.packets[k].head \in Int /\ s.packets[k].body \in Nat /\ k \in Nat
<1>1. s.packets[k] \in [op : Ops, pack : Int, head : Int, body : Nat]
  <2> DEFINE T == [op : Ops, pack : Int, head : Int, body : Nat]
  <2>1. s.packets \in Seq(T)
    BY ScriptFacts
  <2> HIDE DEF T
  <2>2. s.packets[k] \in T
    BY <2>1, ElementOf
  <2> QED  BY <2>2 DEF T
<1> QED  BY <1>1

LEMMA FrameFacts ==
  ASSUME NEW s \in Scripts, NEW k \in 1..Len(s.frames)
  PROVE  /\ s.frames[k].op \in FrameOps /\ s.frames[k].fin \in BOOLEAN
         /\ s.frames[k].masked \in BOOLEAN /\ s.frames[k].packet \in Nat
         /\ s.frames[k].packet # 0 => s.frames[k].packet \in 1..Len(s.packets)
         /\ s.frames[k].from \in Nat /\ s.frames[k].n \in Nat /\ k \in Nat
<1>1. s.frames[k] \in [op : FrameOps, fin : BOOLEAN, masked : BOOLEAN, packet : Nat, from : Nat,
                       n : Nat]
  <2> DEFINE T == [op : FrameOps, fin : BOOLEAN, masked : BOOLEAN, packet : Nat, from : Nat, n : Nat]
  <2>1. s.frames \in Seq(T)
    BY ScriptFacts
  <2> HIDE DEF T
  <2>2. s.frames[k] \in T
    BY <2>1, ElementOf
  <2> QED  BY <2>2 DEF T
<1>2. s.frames[k].packet \in 0..Len(s.packets)
  BY ScriptFacts
<1> QED  BY <1>1, <1>2

LEMMA SaneCell ==
  ASSUME NEW s, NEW k \in Nat, NEW i \in Nat, NEW x \in Int
  PROVE  /\ \A t \in Kinds \ {"head", "first"} : Cell(t, k, i, x) \in SaneCells(s)
         /\ k \in 1..Len(s.packets) => Cell("head", k, i, x) \in SaneCells(s)
         /\ k \in 1..Len(s.frames) => Cell("first", k, i, x) \in SaneCells(s)
<1>1. "head" \in Kinds /\ "first" \in Kinds
  BY DEF Kinds
<1> QED  BY <1>1 DEF Cell, SaneCells

LEMMA SomeKinds ==
  /\ {"second", "ext", "key", "body"} \subseteq Kinds \ {"head", "first"}
  /\ Letters \subseteq Kinds \ {"head", "first"}
  BY DEF Kinds, Letters

LEMMA PacketCellIsSane ==
  ASSUME NEW s, NEW k \in Nat, k \in 1..Len(s.packets), NEW i \in Nat, NEW x \in Int
  PROVE  PacketCell(k, i, x) \in SaneCells(s)
<1>1. H \in Nat /\ (i > H => i - H \in Nat)
  BY WireAssumption
<1>2. CASE i <= H
  BY <1>1, <1>2, SaneCell, SomeKinds DEF PacketCell
<1>3. CASE ~(i <= H)
  BY <1>1, <1>3, SaneCell, SomeKinds DEF PacketCell
<1> QED  BY <1>2, <1>3

LEMMA PacketIsSane ==
  ASSUME NEW s \in Scripts, NEW k \in 1..Len(s.packets)
  PROVE  /\ Packet(s, k) \in Seq(SaneCells(s))
         /\ s.packets[k].body \in Nat
         /\ Len(Packet(s, k)) = H + s.packets[k].body
         /\ \A i \in 1..H + s.packets[k].body : Packet(s, k)[i] = PacketCell(k, i, 0)
<1>1. s.packets[k].body \in Nat /\ H \in Nat /\ k \in Nat
  BY PacketFacts, WireAssumption
<1> DEFINE n == H + s.packets[k].body
<1>2. Packet(s, k) = [i \in 1..n |-> PacketCell(k, i, 0)] /\ n \in Nat
  BY <1>1 DEF Packet, Seqn
<1> HIDE DEF n
<1>3. \A i \in 1..n : PacketCell(k, i, 0) \in SaneCells(s)
  BY <1>1, <1>2, PacketCellIsSane
<1>4. Packet(s, k) \in Seq(SaneCells(s)) /\ Len(Packet(s, k)) = n
  BY <1>2, <1>3
<1> QED  BY <1>1, <1>2, <1>4 DEF n

LEMMA FrameIsSane ==
  ASSUME NEW s \in Scripts, NEW k \in 1..Len(s.frames)
  PROVE  Frame(s, k) \in Seq(SaneCells(s))
<1> DEFINE f == s.frames[k]
           x == IF f.masked THEN k ELSE 0
           S == SaneCells(s)
<1>1. /\ f.n \in Nat /\ f.from \in Nat /\ f.masked \in BOOLEAN /\ f.packet \in Nat
      /\ f.packet # 0 => f.packet \in 1..Len(s.packets)
      /\ k \in Nat /\ x \in Int /\ Ext(f.n) \in Nat
  BY FrameFacts DEF Ext
<1>2. Frame(s, k) = <<Cell("first", k, 1, 0), Cell("second", k, 1, 0)>>
        \o [i \in 1..Ext(f.n) |-> Cell("ext", k, i, 0)]
        \o (IF f.masked THEN <<Cell("key", k, 1, 0)>> ELSE <<>>)
        \o [i \in 1..f.n |-> IF f.packet = 0 THEN Cell("body", 0, i, x)
                             ELSE PacketCell(f.packet, f.from + i, x)]
  BY DEF Frame, Seqn
<1> HIDE DEF f, x
<1>3. Cell("first", k, 1, 0) \in S /\ Cell("second", k, 1, 0) \in S /\ Cell("key", k, 1, 0) \in S
  BY <1>1, SaneCell, SomeKinds
<1>4. \A i \in 1..Ext(f.n) : Cell("ext", k, i, 0) \in S
  BY <1>1, SaneCell, SomeKinds
<1>5. ASSUME NEW i \in 1..f.n
      PROVE  (IF f.packet = 0 THEN Cell("body", 0, i, x)
              ELSE PacketCell(f.packet, f.from + i, x)) \in S
  <2>1. CASE f.packet = 0
    BY <1>1, <2>1, SaneCell, SomeKinds
  <2>2. CASE f.packet # 0
    <3>1. f.packet \in 1..Len(s.packets) /\ f.from + i \in Nat
      BY <1>1, <2>2
    <3> QED  BY <1>1, <2>2, <3>1, PacketCellIsSane
  <2> QED  BY <2>1, <2>2
<1> HIDE DEF S
<1>6. /\ <<Cell("first", k, 1, 0), Cell("second", k, 1, 0)>> \in Seq(S)
      /\ (IF f.masked THEN <<Cell("key", k, 1, 0)>> ELSE <<>>) \in Seq(S)
  BY <1>3
<1>7. /\ [i \in 1..Ext(f.n) |-> Cell("ext", k, i, 0)] \in Seq(S)
      /\ [i \in 1..f.n |-> IF f.packet = 0 THEN Cell("body", 0, i, x)
                           ELSE PacketCell(f.packet, f.from + i, x)] \in Seq(S)
  BY <1>1, <1>4, <1>5, SMTT(30)
<1> QED  BY <1>2, <1>6, <1>7 DEF S

LEMMA LineIsSane ==
  ASSUME NEW s \in Scripts, NEW k \in 1..Len(s.lines)
  PROVE  RequestLine(s, k) \in Seq(SaneCells(s))
<1> DEFINE l == s.lines[k]
<1>1. l \in Seq(Letters) /\ k \in Nat /\ Len(l) \in Nat
  BY ScriptFacts DEF ScriptType
<1>2. RequestLine(s, k) = [i \in 1..Len(l) |-> Cell(l[i], k, i, 0)]
  BY DEF RequestLine, Seqn
<1> HIDE DEF l
<1>3. ASSUME NEW i \in 1..Len(l) PROVE Cell(l[i], k, i, 0) \in SaneCells(s)
  <2>1. l[i] \in Letters
    BY <1>1
  <2>2. i \in Nat /\ 0 \in Int
    BY <1>1
  <2> QED  BY <1>1, <2>1, <2>2, SaneCell, SomeKinds
<1> QED  BY <1>1, <1>2, <1>3

LEMMA ItemsAreSane ==
  ASSUME NEW s \in Scripts
  PROVE  Items(s) \in Seq(Seq(SaneCells(s)))
<1> DEFINE S == SaneCells(s)
<1>0. s.lines \in Seq(Seq(Letters))
  BY ScriptFacts DEF ScriptType
<1>1. /\ Len(s.lines) \in Nat /\ Len(s.frames) \in Nat /\ Len(s.packets) \in Nat
  BY <1>0, ScriptFacts
<1>2. \A k \in 1..Len(s.lines) : RequestLine(s, k) \in Seq(S)
  BY LineIsSane
<1>3. \A k \in 1..Len(s.frames) : Frame(s, k) \in Seq(S)
  BY FrameIsSane
<1>4. \A k \in 1..Len(s.packets) : Packet(s, k) \in Seq(S)
  BY PacketIsSane
<1> HIDE DEF S
<1>5. [k \in 1..Len(s.lines) |-> RequestLine(s, k)] \in Seq(Seq(S))
  BY <1>1, <1>2
<1>6. Request(s) \in Seq(S)
  BY <1>5, FlattenTyped DEF Request, Seqn
<1>7. [k \in 1..Len(s.frames) |-> Frame(s, k)] \in Seq(Seq(S))
  BY <1>1, <1>3
<1>8. [k \in 1..Len(s.packets) |-> Packet(s, k)] \in Seq(Seq(S))
  BY <1>1, <1>4
<1>9. CASE s.ws
  <2>1. Items(s) = <<Request(s)>> \o [k \in 1..Len(s.frames) |-> Frame(s, k)]
    BY <1>9 DEF Items, Seqn
  <2>2. <<Request(s)>> \in Seq(Seq(S))
    BY <1>6
  <2> QED  BY <1>7, <2>1, <2>2 DEF S
<1>10. CASE ~s.ws
  <2>1. Items(s) = [k \in 1..Len(s.packets) |-> Packet(s, k)]
    BY <1>10 DEF Items, Seqn
  <2> QED  BY <1>8, <2>1 DEF S
<1> QED  BY <1>9, <1>10

\* A cell of the stream that begins a header or a frame names one of the script.
LEMMA StreamIsSane ==
  ASSUME NEW s \in Scripts
  PROVE  \A j \in 1..Len(StreamOf(s)) : StreamOf(s)[j] \in Cells /\ StreamOf(s)[j] \in SaneCells(s)
<1>1. StreamOf(s) \in Seq(SaneCells(s)) /\ StreamOf(s) \in Seq(Cells)
  BY ItemsAreSane, FlattenTyped, ScriptFacts DEF StreamOf
<1> HIDE DEF SaneCells
<1> QED  BY <1>1

\* A client stops sending inside its stream.
LEMMA EndsInStream ==
  ASSUME NEW s \in Scripts, NEW e \in Ends(s)
  PROVE  e \in 0..Len(StreamOf(s))
<1> DEFINE seqs == Items(s)
           S == SaneCells(s)
<1>1. PICK n \in 1..Len(seqs) : e = Len(FlattenSeq(SubSeq(seqs, 1, n)))
  BY DEF Ends
<1>2. seqs \in Seq(Seq(S))
  BY ItemsAreSane
<1>3. StreamOf(s) = FlattenSeq(seqs)
  BY DEF StreamOf
<1> HIDE DEF seqs, S
<1>4. Len(seqs) \in Nat \ {0} /\ \A i \in 1..Len(seqs) : seqs[i] \in Seq(S)
  BY <1>1, <1>2
<1>5. PICK f : Flattening(seqs, f) /\ FlattenSeq(seqs) = f[Len(seqs)]
  BY <1>4, FlattenIsLast
<1>6. e = Len(f[n])
  BY <1>1, <1>2, <1>5, FlattenPrefix
<1>7. Len(seqs) \in n..Len(seqs)
  BY <1>1, <1>4
<1>8. Len(f[n]) <= Len(f[Len(seqs)])
  BY <1>4, <1>5, <1>7, FlattenGrows
<1>9. f[n] \in Seq(S) /\ f[Len(seqs)] \in Seq(S)
  <2>1. \A i \in 1..Len(seqs) : f[i] \in Seq(S)
    BY <1>4, <1>5, FlattenStep
  <2> QED  BY <1>4, <2>1
<1> QED  BY <1>3, <1>5, <1>6, <1>8, <1>9

-----------------------------------------------------------------------------
(* The connection: what its variables hold in each of its states *)

Exits == {"close", "putrb", "finish", "gone"}

\* A frame is read; its payload is in use; a slot was found free.
Framing == {"second", "ext", "key", "payload", "unmask", "frame", "pong", "pongbody"}
Framed == {"unmask", "frame", "pong", "pongbody", "message"}
Taken == {"first", "count", "message", "head", "body", "operate"} \cup Framing

Pcs == {"set", "line", "upgrade", "reply", "signal", "panic"} \cup Taken \cup Exits

Dpcs == {"none", "wait", "get", "frame", "head", "body", "raw", "flush", "shut",
         "exit", "drain", "gone"}

Whys == {"none", "ring", "read", "full", "pack", "head", "refused", "request", "path",
         "upgrade", "bits", "closed", "control", "max", "write"}

\* The cells of this script's stream, under a key or not.
Sane == Cells \cap SaneCells(script)

\* A body has the length it says, inside the buffer when it is a part of it.
BodyOK(b) ==
    /\ b \in Bodies
    /\ b.own => Len(b.cells) = b.n
    /\ ~b.own => b.from >= 0 /\ b.from + b.n <= Size

StreamInv ==
    /\ script \in Scripts /\ stream = StreamOf(script) /\ lines \in Nat
    /\ WindowInv
    /\ held => \A i \in 0..w-1 : buf[i] \in Sane

ControlInv ==
    /\ pc \in Pcs /\ dpc \in Dpcs /\ why \in Whys
    /\ open \in BOOLEAN /\ authed \in BOOLEAN /\ script.ws \in BOOLEAN
    /\ pc \notin Exits => held
    /\ authed => pc \notin {"line", "upgrade", "reply"}
    /\ pc = "finish" => authed
    /\ pc \in {"line", "upgrade", "first", "count", "message"} \cup Framing => script.ws
    /\ (dpc = "none") <=> ~authed

MessageInv ==
    /\ BodyOK(part)
    /\ part.own => part.cells \in Seq(Sane)
    /\ msg \in Seq(Sane)
    /\ proto.k \in Nat /\ proto.op \in Ops \cup {"none"} /\ BodyOK(proto.body) /\ proto \in Slots
    /\ pc = "body" => proto.k \in 1..Len(script.packets) /\ script.packets[proto.k].pack > H
    /\ pc \in Framing => frame \in 1..Len(script.frames)
    /\ pc = "ext" => Ext(F.n) > 0
    /\ pc = "payload" => F.n > 0
    /\ pc \in {"second", "ext", "key", "payload"} => part.own
    /\ pc = "unmask" => ~part.own
    /\ pc \in Framed /\ ~part.own => part.from + part.n <= r

\* A slot is free from SetProto until it is filled.
Requests == {s \in Slots : BodyOK(s.body)}

RingInv ==
    /\ slots \in Seq(Requests) /\ Len(slots) <= Num
    /\ authed /\ pc \in Taken => Len(slots) < Num
    /\ ~authed => slots = <<>>

Messages == [of : {"ready", "finish"}, k : Nat] \cup [of : {"push"}, k : 1..Len(script.pushes)]

SignalInv ==
    /\ pushed \in 0..Len(script.pushes)
    /\ signal \in Seq(Messages) /\ Len(signal) <= SvrProto

\* The dispatcher is at one of the writes of its item, a reply until its slot is freed.
PushCells == [t : {"push"}, k : Nat, i : Nat, x : Int]

ItemOK(it) ==
    /\ it.of \in {"push", "reply", "pong"} /\ it.k \in Nat /\ it.heart \in BOOLEAN
    /\ it.of # "reply" => ~it.heart
    /\ it.of = "push" => /\ it.body.own /\ it.body.cells \in Seq(PushCells)
                         /\ it.body.n = Len(it.body.cells)
    /\ it.of # "push" => BodyOK(it.body)

Writing == {"frame", "head", "body", "raw"}

DispatchInv ==
    dpc \in Writing =>
        /\ ItemOK(item) /\ item.of # "pong"
        /\ \E j \in 1..Len(Writes(item)) : Writes(item)[j] = dpc
        /\ item.of = "reply" => slots # <<>>

-----------------------------------------------------------------------------
(* The operators of the connection *)

LEMMA HeaderSize == H \in Nat /\ H >= 1 /\ H <= Size /\ H + 1 <= WSize /\ WSize \in Nat
  BY WireAssumption, WriterAssumption

LEMMA ExitStarts ==
  ASSUME script.ws \in BOOLEAN, authed \in BOOLEAN
  PROVE  Exit[1] = IF authed /\ ~script.ws THEN "putrb" ELSE "close"
  BY DEF Exit

LEMMA ExitGoesOn ==
  ASSUME script.ws \in BOOLEAN, authed \in BOOLEAN
  PROVE  /\ ~authed => Following("close") = "putrb" /\ Following("putrb") = "gone"
         /\ authed /\ script.ws => /\ Following("close") = "finish"
                                   /\ Following("finish") = "putrb"
                                   /\ Following("putrb") = "gone"
         /\ authed /\ ~script.ws => /\ Following("putrb") = "close"
                                    /\ Following("close") = "finish"
                                    /\ Following("finish") = "gone"
<1>1. CASE ~authed
  <2>1. Exit = <<"close", "putrb", "gone">>
    BY <1>1 DEF Exit
  <2>2. (CHOOSE i \in 1..Len(Exit) : Exit[i] = "close") = 1
    BY <2>1
  <2>3. (CHOOSE i \in 1..Len(Exit) : Exit[i] = "putrb") = 2
    BY <2>1
  <2> QED  BY <1>1, <2>1, <2>2, <2>3 DEF Following
<1>2. CASE authed /\ script.ws
  <2>1. Exit = <<"close", "finish", "putrb", "gone">>
    BY <1>2 DEF Exit
  <2>2. (CHOOSE i \in 1..Len(Exit) : Exit[i] = "close") = 1
    BY <2>1
  <2>3. (CHOOSE i \in 1..Len(Exit) : Exit[i] = "finish") = 2
    BY <2>1
  <2>4. (CHOOSE i \in 1..Len(Exit) : Exit[i] = "putrb") = 3
    BY <2>1
  <2> QED  BY <1>2, <2>1, <2>2, <2>3, <2>4 DEF Following
<1>3. CASE authed /\ ~script.ws
  <2>1. Exit = <<"putrb", "close", "finish", "gone">>
    BY <1>3 DEF Exit
  <2>2. (CHOOSE i \in 1..Len(Exit) : Exit[i] = "putrb") = 1
    BY <2>1
  <2>3. (CHOOSE i \in 1..Len(Exit) : Exit[i] = "close") = 2
    BY <2>1
  <2>4. (CHOOSE i \in 1..Len(Exit) : Exit[i] = "finish") = 3
    BY <2>1
  <2> QED  BY <1>3, <2>1, <2>2, <2>3, <2>4 DEF Following
<1> QED  BY <1>1, <1>2, <1>3

\* The next stage of a frame is one it has.
LEMMA StageIsWanted ==
  ASSUME NEW i \in 1..4
  PROVE  /\ Stage(i) \in {"ext", "key", "payload", "unmask", "frame"} /\ Wants(Stage(i))
         /\ i >= 2 => Stage(i) # "ext"
         /\ i >= 3 => Stage(i) # "key"
         /\ i <= 3 => Stage(i) # "unmask"
         /\ i = 4 => Stage(i) # "payload"
<1> DEFINE wanted == {j \in i..5 : Wants(Stages[j])}
           least == CHOOSE j \in wanted : \A k \in wanted : j <= k
<1>1. /\ Stages[1] = "ext" /\ Stages[2] = "key" /\ Stages[3] = "payload"
      /\ Stages[4] = "unmask" /\ Stages[5] = "frame"
  BY DEF Stages
<1>2. 5 \in wanted
  <2>1. Wants("frame")
    BY DEF Wants
  <2>2. 5 \in i..5
    OBVIOUS
  <2> QED  BY <1>1, <2>1, <2>2
<1>3. \E j \in wanted : \A k \in wanted : j <= k
  <2>1. wanted \subseteq Nat
    OBVIOUS
  <2> HIDE DEF wanted
  <2> QED  BY <1>2, <2>1, LeastNumber
<1>4. least \in wanted /\ \A k \in wanted : least <= k
  BY <1>3
<1>5. Stage(i) = Stages[least]
  BY DEF Stage
<1> HIDE DEF least
<1>6. least \in i..5 /\ Wants(Stages[least])
  BY <1>4
<1>7. i <= 3 => least # 4
  <2> SUFFICES ASSUME i <= 3, least = 4 PROVE FALSE
    OBVIOUS
  <2>1. Wants("unmask")
    BY <1>1, <1>6
  <2>2. Wants("payload")
    BY <2>1 DEF Wants
  <2>3. 3 \in wanted
    BY <1>1, <2>2
  <2> QED  BY <1>4, <2>3
<1> QED  BY <1>1, <1>5, <1>6, <1>7

LEMMA BodiesOwned ==
  ASSUME NEW cells \in Seq(Cells)
  PROVE  BodyOK(Own(cells)) /\ Own(cells).own /\ Own(cells).cells = cells /\ Own(cells).n = Len(cells)
  BY DEF BodyOK, Own, Bodies

LEMMA BodiesLent ==
  ASSUME NEW from \in Nat, NEW n \in Nat, from + n <= Size
  PROVE  /\ BodyOK(Part(from, n))
         /\ Part(from, n).own = FALSE /\ Part(from, n).from = from /\ Part(from, n).n = n
<1>1. <<>> \in Seq(Cells)
  OBVIOUS
<1> QED  BY <1>1 DEF BodyOK, Part, Bodies

LEMMA NilIsBody == BodyOK(Nil) /\ Nil.own /\ Nil.cells = <<>> /\ Nil.n = 0
<1>1. <<>> \in Seq(Cells) /\ Len(<<>>) = 0
  OBVIOUS
<1> QED  BY <1>1, BodiesOwned DEF Nil

\* What a body shows has its length.
LEMMA ContentsTyped ==
  ASSUME ReaderTypeOK, NEW b, BodyOK(b)
  PROVE  Contents(b) \in Seq(Cells) /\ Len(Contents(b)) = b.n
<1>1. CASE b.own
  BY <1>1 DEF Contents, BodyOK, Bodies
<1>2. CASE ~b.own
  <2>1. Contents(b) = [i \in 1..b.n |-> buf[b.from + i - 1]]
    <3>1. (b.from + b.n) - b.from = b.n
      BY DEF BodyOK, Bodies
    <3> QED  BY <1>2, <3>1 DEF Contents, Chars
  <2>2. \A i \in 1..b.n : buf[b.from + i - 1] \in Cells
    BY <1>2, SizeIsPositive DEF BodyOK, Bodies, ReaderTypeOK
  <2> QED  BY <2>1, <2>2 DEF BodyOK, Bodies
<1> QED  BY <1>1, <1>2

LEMMA ContentsSane ==
  ASSUME StreamInv, held, NEW b, BodyOK(b),
         b.own => b.cells \in Seq(Sane), ~b.own => b.from + b.n <= r
  PROVE  Contents(b) \in Seq(Sane)
<1>1. CASE b.own
  BY <1>1 DEF Contents
<1>2. CASE ~b.own
  <2>1. Contents(b) = [i \in 1..b.n |-> buf[b.from + i - 1]]
    <3>1. (b.from + b.n) - b.from = b.n
      BY DEF BodyOK, Bodies
    <3> QED  BY <1>2, <3>1 DEF Contents, Chars
  <2>2. r \in 0..w /\ w \in Nat /\ \A i \in 0..w-1 : buf[i] \in Sane
    BY DEF StreamInv, WindowInv, ReaderTypeOK
  <2>3. b.from \in Int /\ b.from >= 0 /\ b.n \in Nat /\ b.from + b.n <= r
    BY <1>2 DEF BodyOK, Bodies
  <2>4. \A i \in 1..b.n : b.from + i - 1 \in 0..w-1
    BY <2>2, <2>3
  <2> HIDE DEF Sane
  <2>5. \A i \in 1..b.n : buf[b.from + i - 1] \in Sane
    BY <2>2, <2>4
  <2> QED  BY <2>1, <2>3, <2>5
<1> QED  BY <1>1, <1>2

\* A header that is not refused for its length is that of a packet.
LEMMA HeaderIsOfPacket ==
  ASSUME script \in Scripts, NEW cells, cells[1] \in Sane
  PROVE  /\ Header(cells).k \in Nat /\ Header(cells).op \in Ops \cup {"none"}
         /\ Header(cells).pack \in Int /\ Header(cells).head \in Int
         /\ ~TooLarge(Header(cells)) =>
              /\ Header(cells).k \in 1..Len(script.packets)
              /\ Header(cells).pack = script.packets[Header(cells).k].pack
<1> DEFINE k == cells[1].k
<1>1. MaxPack \in Nat
  BY WireAssumption
<1>2. CASE cells[1].t = "head" /\ cells = First(Packet(script, cells[1].k), H)
  <2>1. k \in 1..Len(script.packets)
    BY <1>2 DEF Sane, SaneCells
  <2>2. Header(cells) = [k |-> k, op |-> script.packets[k].op, pack |-> script.packets[k].pack,
                         head |-> script.packets[k].head]
    BY <1>2 DEF Header
  <2> HIDE DEF k
  <2> QED  BY <2>1, <2>2, PacketFacts
<1>3. CASE ~(cells[1].t = "head" /\ cells = First(Packet(script, cells[1].k), H))
  <2>1. Header(cells) = [k |-> 0, op |-> "none", pack |-> MaxPack + 1, head |-> 0]
    BY <1>3 DEF Header
  <2> QED  BY <1>1, <2>1 DEF TooLarge
<1> QED  BY <1>2, <1>3

\* A key takes a cell of the script to one of the script.
LEMMA UnmaskedSane ==
  ASSUME script \in Scripts, NEW c \in Sane
  PROVE  Unmasked(c) \in Sane
<1>1. c \in Cells /\ c \in [t : Kinds, k : Nat, i : Nat, x : Int]
  BY ScriptAssumption DEF Sane
<1>2. \E x \in {0, -1} : Unmasked(c) = [c EXCEPT !.x = x]
  BY DEF Unmasked
<1>3. Unmasked(c) \in Cells
  BY <1>1, <1>2, ScriptAssumption
<1>4. Unmasked(c) \in SaneCells(script)
  BY <1>1, <1>2 DEF Sane, SaneCells
<1> QED  BY <1>3, <1>4 DEF Sane

-----------------------------------------------------------------------------
(* The connection keeps to the calls of the reader *)

LEMMA PoppingCalls ==
  ASSUME held, NEW n \in Nat \ {0}, Popping(n)
  PROVE  held /\ Call
<1>1. CASE PeekFills(n) /\ Receive
  <2>1. Filling
    BY <1>1 DEF Filling
  <2>2. Fill(FALSE) \/ Fill(TRUE)
    BY <1>1 DEF Receive
  <2> QED  BY <2>1, <2>2 DEF Call
<1>2. CASE PopFails(n)
  BY <1>2 DEF Call
<1> QED  BY <1>1, <1>2 DEF Popping

\* How many cells each read asks for.
LEMMA ReadsSomething ==
  ASSUME StreamInv, ControlInv, MessageInv
  PROVE  /\ H \in Nat \ {0}
         /\ pc = "body" => script.packets[proto.k].pack - H \in Nat \ {0}
         /\ pc = "ext" => Ext(F.n) \in Nat \ {0}
         /\ pc = "payload" => F.n \in Nat \ {0}
<1>1. pc = "body" => script.packets[proto.k].pack \in Int
  BY PacketFacts DEF StreamInv, MessageInv
<1>2. pc \in Framing => F.n \in Nat
  BY FrameFacts DEF StreamInv, MessageInv, F
<1>3. pc = "ext" => Ext(F.n) \in Nat
  BY DEF Ext
<1> QED  BY <1>1, <1>2, <1>3, HeaderSize, SMTT(30) DEF MessageInv, Framing

\* A step of the connection, as its reader sees it.
ReaderSees ==
    \/ UNCHANGED readerVars
    \/ held /\ Call
    \/ /\ \E n \in sent..Len(stream) : sent' = n
       /\ UNCHANGED <<stream, windowVars, buf, held>>
    \/ PutBuffer
    \/ Reuse
    \/ Unmask

LEMMA TakesSee ==
  ASSUME StreamInv, ControlInv, MessageInv,
         \/ TakeHead \/ TakeBody \/ TakeLine \/ TakeFirst \/ TakeSecond \/ TakeExt \/ TakeKey
         \/ TakePayload
  PROVE  held /\ Call
<1>1. held
  BY DEF ControlInv, TakeHead, TakeBody, TakeLine, TakeFirst, TakeSecond, TakeExt, TakeKey,
         TakePayload, Exits
<1> SUFFICES Call
  BY <1>1
<1>2. ASSUME NEW n \in Nat \ {0}, Popping(n) \/ Pop(n) PROVE Call
  BY <1>1, <1>2, PoppingCalls DEF Call
<1>3. CASE TakeHead
  BY <1>2, <1>3, ReadsSomething DEF TakeHead
<1>4. CASE TakeBody
  <2> DEFINE n == script.packets[proto.k].pack - H
  <2>1. n \in Nat \ {0}
    BY <1>4, ReadsSomething DEF TakeBody
  <2>2. Popping(n) \/ Pop(n)
    BY <1>4 DEF TakeBody
  <2> HIDE DEF n
  <2> QED  BY <1>2, <2>1, <2>2
<1>5. CASE TakeLine
  <2>1. CASE LineFills /\ Receive
    <3>1. Filling
      BY <2>1 DEF Filling
    <3>2. Fill(FALSE) \/ Fill(TRUE)
      BY <2>1 DEF Receive
    <3> QED  BY <3>1, <3>2 DEF Call
  <2>2. CASE LineFails \/ ReadLine
    BY <2>2 DEF Call
  <2> QED  BY <1>5, <2>1, <2>2 DEF TakeLine
<1>6. CASE TakeFirst \/ TakeSecond
  BY <1>2, <1>6 DEF TakeFirst, TakeSecond, ReadByte
<1>7. CASE TakeExt
  BY <1>2, <1>7, ReadsSomething DEF TakeExt
<1>8. CASE TakeKey
  BY <1>2, <1>8 DEF TakeKey
<1>9. CASE TakePayload
  BY <1>2, <1>9, ReadsSomething DEF TakePayload
<1> QED  BY <1>1, <1>3, <1>4, <1>5, <1>6, <1>7, <1>8, <1>9

LEMMA LeaveSees ==
  ASSUME StreamInv, Leave
  PROVE  UNCHANGED readerVars \/ PutBuffer
<1>1. held \in BOOLEAN
  BY DEF StreamInv, WindowInv, ReaderTypeOK
<1>2. UNCHANGED <<stream, sent, windowVars, buf>> /\ (held' = held \/ held' = FALSE)
  BY DEF Leave
<1> QED  BY <1>1, <1>2 DEF readerVars, PutBuffer

LEMMA StepsSee ==
  ASSUME StreamInv, ControlInv, MessageInv, [Next]_vars
  PROVE  ReaderSees /\ script' = script
<1>1. CASE UNCHANGED vars
  BY <1>1 DEF vars, client, ReaderSees
<1>2. CASE Send
  <2>1. PICK e \in Ends(script) : e > sent /\ sent' = e
    BY <1>2 DEF Send
  <2>2. e \in sent..Len(stream)
    BY <2>1, EndsInStream DEF StreamInv, WindowInv, ReaderTypeOK
  <2> QED  BY <1>2, <2>1, <2>2 DEF Send, ReaderSees
<1>3. CASE Finish \/ Close \/ PushTo \/ Lend
  BY <1>3 DEF Finish, Close, PushTo, Lend, client, ReaderSees
<1>4. CASE \/ TakeHead \/ TakeBody \/ TakeLine \/ TakeFirst \/ TakeSecond \/ TakeExt \/ TakeKey
           \/ TakePayload
  <2>1. held /\ Call
    BY <1>4, TakesSee
  <2>2. script' = script
    BY <1>4 DEF TakeHead, TakeBody, TakeLine, TakeFirst, TakeSecond, TakeExt, TakeKey,
                TakePayload, Popping, Receive, Elsewhere, client
  <2> QED  BY <2>1, <2>2 DEF ReaderSees
<1>5. CASE Unmask
  BY <1>5 DEF Unmask, Elsewhere, client, ReaderSees
<1>6. CASE Leave
  BY <1>6, LeaveSees DEF Leave, client, ReaderSees
<1>7. CASE SetProto \/ Operate \/ AuthReply \/ Signal \/ Upgrade
  BY <1>7 DEF SetProto, Operate, AuthReply, Signal, Upgrade, Elsewhere, client, ReaderSees
<1>8. CASE HandleFrame \/ CountFrame \/ WritePong \/ TakeMessage
  BY <1>8 DEF HandleFrame, CountFrame, WritePong, TakeMessage, Elsewhere, client, ReaderSees
<1>9. CASE Dispatcher
  BY <1>9 DEF Dispatcher, Wait, Get, Write, Flush, Shut, Drain, client, ReaderSees
<1> QED  BY <1>1, <1>2, <1>3, <1>4, <1>5, <1>6, <1>7, <1>8, <1>9
         DEF Next, Environment, ReadLoop

LEMMA LinesStay ==
  ASSUME [Next]_vars, ~TakeLine
  PROVE  UNCHANGED request
  BY DEF Next, Environment, ReadLoop, Dispatcher, Send, Finish, Close, PushTo, Lend, SetProto,
         TakeHead, TakeBody, Operate, AuthReply, Signal, Upgrade, TakeFirst, TakeSecond, TakeExt,
         TakeKey, TakePayload, Unmask, HandleFrame, CountFrame, WritePong, TakeMessage, Leave,
         Wait, Get, Write, Flush, Shut, Drain, Popping, Receive, vars, reading, request

LEMMA LinesCounted ==
  ASSUME lines \in Nat, [Next]_vars
  PROVE  lines' \in Nat
<1>1. CASE TakeLine
  <2>1. lines' = lines \/ lines' = lines + 1
    BY <1>1 DEF TakeLine, Receive, reading, request
  <2> QED  BY <2>1
<1>2. CASE ~TakeLine
  BY <1>2, LinesStay DEF request
<1> QED  BY <1>1, <1>2

\* Unmasking writes to the payload, which is below the window.
LEMMA UnmaskScribbles ==
  ASSUME StreamInv, ControlInv, MessageInv, Unmask
  PROVE  /\ part.from \in Nat /\ part.n \in Nat /\ part.from + part.n <= r
         /\ [i \in 0..Size-1 |-> Unmasked(buf[i])] \in [0..Size-1 -> Cells]
         /\ Scribble(part.from, part.n, [i \in 0..Size-1 |-> Unmasked(buf[i])])
<1>1. pc = "unmask" /\ Scribble(part.from, part.n, [i \in 0..Size-1 |-> Unmasked(buf[i])])
  BY DEF Unmask
<1>2. part.from \in Nat /\ part.n \in Nat /\ part.from + part.n <= r
  BY <1>1 DEF MessageInv, BodyOK, Bodies, Framed
<1>3. ASSUME NEW c \in Cells PROVE Unmasked(c) \in Cells
  <2>1. \E x \in {0, -1} : Unmasked(c) = [c EXCEPT !.x = x]
    BY DEF Unmasked
  <2> QED  BY <2>1, ScriptAssumption
<1>4. \A i \in 0..Size-1 : buf[i] \in Cells
  BY DEF StreamInv, WindowInv, ReaderTypeOK
<1> QED  BY <1>1, <1>2, <1>3, <1>4

LEMMA SeenIsRead ==
  ASSUME StreamInv, ControlInv, MessageInv, ReaderSees
  PROVE  ReaderNext \/ UNCHANGED readerVars
<1>1. CASE Unmask
  BY <1>1, UnmaskScribbles DEF ReaderNext, Others
<1> QED  BY <1>1 DEF ReaderSees, ReaderNext, Others

\* What is read into the buffer comes from the stream of the script.
LEMMA FillSane ==
  ASSUME StreamInv, held, Filling, NEW fails \in BOOLEAN, Fill(fails)
  PROVE  \A i \in 0..w'-1 : buf'[i] \in Sane
<1>1. ReaderTypeOK /\ WindowIsStream
  BY DEF StreamInv, WindowInv
<1>2. Buffered < Size /\ Buffered \in Nat /\ Buffered = w - r
  BY <1>1, FillingHasRoom, SizeIsPositive DEF ReaderTypeOK, Buffered
<1>3. PICK n \in 0..(IF sent - next < Size - Buffered THEN sent - next ELSE Size - Buffered) :
        buf' = Moved(n) /\ w' = Buffered + n
  <2>1. ~(Buffered >= Size)
    BY <1>1, <1>2, SizeIsPositive
  <2> QED  BY <2>1 DEF Fill
<1>4. n \in Nat /\ Buffered + n <= Size /\ next + n <= sent
  BY <1>1, <1>2, <1>3, SizeIsPositive DEF ReaderTypeOK
<1>5. /\ \A i \in 0..Buffered-1 : Moved(n)[i] = buf[i + r]
      /\ \A i \in Buffered..Buffered+n-1 : Moved(n)[i] = stream[next + i - Buffered + 1]
  BY <1>1, <1>4, MovedCells
<1>6. \A j \in 1..Len(stream) : stream[j] \in Sane
  BY StreamIsSane DEF StreamInv, Sane
<1>7. \A j \in 0..w-1 : buf[j] \in Sane
  BY DEF StreamInv
<1> HIDE DEF Sane
<1> SUFFICES ASSUME NEW i \in 0..w'-1 PROVE buf'[i] \in Sane
  OBVIOUS
<1>8. CASE i < Buffered
  <2>1. i \in 0..Buffered-1 /\ i + r \in 0..w-1
    BY <1>1, <1>2, <1>8, SizeIsPositive DEF ReaderTypeOK
  <2> QED  BY <1>3, <1>5, <1>7, <2>1
<1>9. CASE i >= Buffered
  <2>1. i \in Buffered..Buffered+n-1
    BY <1>2, <1>3, <1>4, <1>9
  <2>2. next + i - Buffered + 1 \in 1..Len(stream)
    BY <1>1, <1>2, <1>4, <2>1 DEF ReaderTypeOK
  <2> QED  BY <1>3, <1>5, <1>6, <2>1, <2>2
<1> QED  BY <1>2, <1>4, <1>8, <1>9

LEMMA StreamStep ==
  ASSUME StreamInv, ControlInv, MessageInv, [Next]_vars
  PROVE  StreamInv' /\ [ReaderNext]_readerVars
<1>1. ReaderSees /\ script' = script
  BY StepsSee
<1>2. [ReaderNext]_readerVars
  BY <1>1, SeenIsRead
<1>3. WindowInv'
  BY <1>2, WindowStep DEF StreamInv
<1>4. stream' = stream
  BY <1>2 DEF ReaderNext, Call, Others, Fill, Pop, PopFails, Discard, Read, ReadLine, LineFails,
              Scribble, PutBuffer, Reuse, readerVars
<1>5. script' \in Scripts /\ stream' = StreamOf(script)' /\ lines' \in Nat
  BY <1>1, <1>4, LinesCounted DEF StreamInv
<1>6. Sane' = Sane
  BY <1>1 DEF Sane, SaneCells
<1>7. (held => \A i \in 0..w-1 : buf[i] \in Sane) /\ r \in 0..w /\ w \in 0..Size
  BY DEF StreamInv, WindowInv, ReaderTypeOK
<1> SUFFICES ASSUME held' PROVE \A i \in 0..w'-1 : buf'[i] \in Sane
  <2> HIDE DEF Sane
  <2> QED  BY <1>2, <1>3, <1>5, <1>6 DEF StreamInv
<1> HIDE DEF Sane
<1>8. CASE UNCHANGED <<buf, w, held>>
  BY <1>7, <1>8
<1>9. CASE held /\ Call
  <2>1. CASE Filling /\ \E fails \in BOOLEAN : Fill(fails)
    BY <1>9, <2>1, FillSane
  <2>2. ASSUME NEW n \in Nat,
               Pop(n) \/ PopFails(n) \/ Discard(n) \/ Read(n) \/ ReadLine \/ LineFails
        PROVE  UNCHANGED <<buf, w, held>>
    BY <2>2 DEF Pop, PopFails, Discard, Read, ReadLine, LineFails
  <2> QED  BY <1>8, <1>9, <2>1, <2>2 DEF Call
<1>10. CASE PutBuffer \/ Reuse
  BY <1>10 DEF PutBuffer, Reuse
<1>11. CASE Unmask
  <2>1. /\ part.from \in Nat /\ part.n \in Nat /\ part.from + part.n <= r
        /\ Scribble(part.from, part.n, [i \in 0..Size-1 |-> Unmasked(buf[i])])
    BY <1>11, UnmaskScribbles
  <2>2. /\ buf' = [i \in 0..Size-1 |->
                     IF i \in part.from..part.from+part.n-1
                     THEN [j \in 0..Size-1 |-> Unmasked(buf[j])][i] ELSE buf[i]]
        /\ w' = w /\ held' = held
    BY <2>1 DEF Scribble, windowVars
  <2>3. ASSUME NEW i \in 0..w-1 PROVE buf'[i] \in Sane
    <3>1. i \in 0..Size-1 /\ buf[i] \in Sane
      BY <1>7, <2>2, SizeIsPositive
    <3>2. Unmasked(buf[i]) \in Sane
      BY <3>1, UnmaskedSane DEF StreamInv
    <3> QED  BY <2>2, <3>1, <3>2
  <2> QED  BY <2>2, <2>3
<1> QED  BY <1>1, <1>8, <1>9, <1>10, <1>11 DEF ReaderSees, readerVars, windowVars

-----------------------------------------------------------------------------
(* What the reader goroutine holds in each of its states *)

LEMMA FailKeeps ==
  ASSUME ControlInv, NEW x \in Whys, Fail(x), UNCHANGED <<script, dpc>>
  PROVE  ControlInv' /\ pc' \in {"close", "putrb"}
<1>1. pc' \in {"close", "putrb"} /\ why' = x /\ open' = open /\ authed' = authed
  BY ExitStarts DEF ControlInv, Fail
<1> QED  BY <1>1 DEF ControlInv, Pcs, Exits, Framing

LEMMA GotoKeeps ==
  ASSUME ControlInv, NEW p \in Pcs \ Exits, Goto(p), held', UNCHANGED <<script, dpc>>,
         authed => p \notin {"line", "upgrade", "reply"},
         p \in {"line", "upgrade", "first", "count", "message"} \cup Framing => script.ws
  PROVE  ControlInv' /\ pc' = p
<1>1. pc' = p /\ UNCHANGED <<open, why, authed>>
  BY DEF Goto
<1> QED  BY <1>1 DEF ControlInv, Exits

\* Where nothing is asked of what it holds.
Resting == Pcs \ ({"body"} \cup Framing \cup Framed)

LEMMA MessageRests ==
  ASSUME MessageInv, script' = script, pc' \in Resting, UNCHANGED <<part, msg>>,
         BodyOK(proto.body)', proto' \in Slots
  PROVE  MessageInv'
<1>1. Sane' = Sane
  BY DEF Sane, SaneCells
<1>2. proto'.k \in Nat /\ proto'.op \in Ops \cup {"none"}
  BY DEF Slots
<1>3. /\ pc' \notin {"body", "second", "ext", "key", "payload", "unmask"}
      /\ pc' \notin Framing /\ pc' \notin Framed
  BY DEF Resting, Framing
<1> HIDE DEF Sane
<1> QED  BY <1>1, <1>2, <1>3 DEF MessageInv

LEMMA GotoRests ==
  ASSUME ControlInv, MessageInv, NEW p \in Resting \ Exits, Goto(p), held',
         UNCHANGED <<script, dpc, part, msg>>, BodyOK(proto.body)', proto' \in Slots,
         authed => p \notin {"line", "upgrade", "reply"},
         p \in {"line", "upgrade", "first", "count", "message"} \cup Framing => script.ws
  PROVE  ControlInv' /\ MessageInv'
<1>1. p \in Pcs \ Exits
  BY DEF Resting
<1>2. ControlInv' /\ pc' = p
  BY <1>1, GotoKeeps
<1> QED  BY <1>2, MessageRests

LEMMA FailRests ==
  ASSUME ControlInv, MessageInv, NEW x \in Whys, Fail(x),
         UNCHANGED <<script, dpc, part, msg>>, BodyOK(proto.body)', proto' \in Slots
  PROVE  ControlInv' /\ MessageInv'
<1>1. ControlInv' /\ pc' \in {"close", "putrb"}
  BY FailKeeps
<1>2. pc' \in Resting
  BY <1>1 DEF Resting, Pcs, Exits, Framing, Framed
<1> QED  BY <1>1, <1>2, MessageRests

LEMMA PoppingKeeps ==
  ASSUME StreamInv, ControlInv, MessageInv, NEW n, Popping(n), pc \notin Framed
  PROVE  ControlInv' /\ MessageInv'
<1>1. CASE PeekFills(n) /\ Receive
  <2>1. UNCHANGED <<client, control, reading, channel, dispatch>> /\ held' = held
    BY <1>1 DEF Receive, Fill
  <2>2. ControlInv'
    BY <2>1 DEF ControlInv, control, client, dispatch
  <2>3. Sane' = Sane /\ F' = F
    BY <2>1 DEF Sane, SaneCells, F, client, reading, message
  <2> HIDE DEF Sane, F
  <2>4. MessageInv'
    BY <2>1, <2>3 DEF MessageInv, control, client, reading, message
  <2> QED  BY <2>2, <2>4
<1>2. CASE PopFails(n) /\ Fail(IF Fits(n) THEN "read" ELSE "full")
           /\ UNCHANGED <<client, reading, channel, dispatch>>
  <2>1. (IF Fits(n) THEN "read" ELSE "full") \in Whys
    BY DEF Whys
  <2>2. UNCHANGED <<script, dpc, part, msg, proto>>
    BY <1>2 DEF client, dispatch, reading, message
  <2>3. BodyOK(proto.body)' /\ proto' \in Slots
    BY <2>2 DEF MessageInv
  <2> QED  BY <1>2, <2>1, <2>2, <2>3, FailRests
<1> QED  BY <1>1, <1>2 DEF Popping

\* What is popped lies in the buffer, and comes from the stream.
LEMMA PoppedCells ==
  ASSUME StreamInv, held, NEW n \in Nat \ {0}, Pop(n)
  PROVE  /\ r \in Nat /\ r + n <= w /\ w <= Size /\ w \in Nat /\ r' = r + n
         /\ \A i \in r..r+n-1 : buf[i] \in Sane
         /\ UNCHANGED <<stream, sent, buf, held>>
<1>1. r \in 0..w /\ w \in 0..Size /\ Buffered >= n /\ Buffered = w - r
  BY DEF StreamInv, WindowInv, ReaderTypeOK, Pop, Buffered
<1>2. \A i \in 0..w-1 : buf[i] \in Sane
  BY DEF StreamInv
<1>3. r' = r + n /\ UNCHANGED <<stream, sent, buf, held>>
  BY DEF Pop
<1> HIDE DEF Sane
<1>4. r \in Nat /\ w \in Nat /\ r + n <= w /\ w <= Size
  BY <1>1, SizeIsPositive
<1>5. \A i \in r..r+n-1 : i \in 0..w-1
  BY <1>4
<1> QED  BY <1>2, <1>3, <1>4, <1>5

LEMMA SetProtoKeeps ==
  ASSUME StreamInv, ControlInv, MessageInv, SetProto
  PROVE  ControlInv' /\ MessageInv'
<1>1. pc = "set" /\ UNCHANGED <<script, dpc, held, part, msg, proto>>
  BY DEF SetProto, Elsewhere, client, dispatch, readerVars, reading, message
<1>2. held' /\ BodyOK(proto.body)' /\ proto' \in Slots
  BY <1>1 DEF ControlInv, Exits, MessageInv
<1>3. CASE Goto(IF script.ws THEN "first" ELSE "head")
  <2> DEFINE p == IF script.ws THEN "first" ELSE "head"
  <2>1. p \in Resting \ Exits /\ p \notin {"line", "upgrade", "reply"}
        /\ (p \in {"line", "upgrade", "first", "count", "message"} \cup Framing => script.ws)
    BY DEF Pcs, Taken, Exits, Resting, Framing, Framed, ControlInv
  <2>2. Goto(p)
    BY <1>3
  <2> HIDE DEF p
  <2> QED  BY <1>1, <1>2, <2>1, <2>2, GotoRests
<1>4. CASE Fail("ring")
  BY <1>1, <1>2, <1>4, FailRests DEF Whys
<1> QED  BY <1>3, <1>4 DEF SetProto

LEMMA TakeHeadKeeps ==
  ASSUME StreamInv, ControlInv, MessageInv, TakeHead
  PROVE  ControlInv' /\ MessageInv'
<1>1. pc = "head" /\ pc \notin Framed /\ held
  BY DEF TakeHead, Framed, ControlInv, Exits
<1>2. CASE Popping(H)
  BY <1>1, <1>2, PoppingKeeps
<1>3. CASE ~Popping(H)
  <2> DEFINE cells == Chars(r, r + H)
             h == Header(cells)
  <2>1. /\ Pop(H)
        /\ CASE TooLarge(h) -> Fail("pack")
             [] ~TooLarge(h) /\ h.head # H -> Fail("head")
             [] OTHER -> Goto(IF h.pack > H THEN "body" ELSE "operate")
        /\ proto' = [k |-> h.k, op |-> h.op, body |-> Nil]
        /\ UNCHANGED <<request, message>> /\ UNCHANGED <<client, channel, dispatch>>
    BY <1>3 DEF TakeHead, Elsewhere
  <2>2. H \in Nat \ {0}
    BY HeaderSize
  <2>3. /\ r \in Nat /\ \A i \in r..r+H-1 : buf[i] \in Sane
        /\ held'
    BY <1>1, <2>1, <2>2, PoppedCells
  <2>4. cells[1] \in Sane
    <3>1. cells[1] = buf[r]
      BY <2>2, <2>3 DEF Chars
    <3> HIDE DEF Sane, cells
    <3> QED  BY <2>2, <2>3, <3>1
  <2>5. UNCHANGED <<script, dpc, part, msg>>
    BY <2>1 DEF client, dispatch, message
  <2> HIDE DEF cells
  <2>6. /\ h.k \in Nat /\ h.op \in Ops \cup {"none"} /\ h.pack \in Int
        /\ ~TooLarge(h) => h.k \in 1..Len(script.packets) /\ h.pack = script.packets[h.k].pack
    BY <2>4, HeaderIsOfPacket DEF StreamInv
  <2> HIDE DEF h
  <2>7. /\ proto' \in Slots /\ BodyOK(proto.body)' /\ proto'.k = h.k
    BY <2>1, <2>6, NilIsBody DEF Slots, BodyOK
  <2>8. CASE Fail("pack") \/ Fail("head")
    BY <2>5, <2>7, <2>8, FailRests DEF Whys
  <2>9. CASE ~TooLarge(h) /\ Goto(IF h.pack > H THEN "body" ELSE "operate")
    <3> DEFINE p == IF h.pack > H THEN "body" ELSE "operate"
    <3>1. p \in Pcs \ Exits /\ p \notin {"line", "upgrade", "reply"}
          /\ p \notin {"line", "upgrade", "first", "count", "message"} \cup Framing
      BY DEF Pcs, Taken, Exits, Framing
    <3> HIDE DEF p
    <3>2. ControlInv' /\ pc' = p
      BY <2>3, <2>5, <2>9, <3>1, GotoKeeps DEF p
    <3>3. CASE h.pack > H
      <4>1. pc' = "body" /\ Sane' = Sane
        BY <2>5, <3>2, <3>3 DEF p, Sane, SaneCells
      <4> HIDE DEF Sane
      <4>2. proto'.k \in 1..Len(script'.packets) /\ script'.packets[proto'.k].pack > H
        BY <2>5, <2>6, <2>7, <2>9, <3>3
      <4>3. proto'.k \in Nat /\ proto'.op \in Ops \cup {"none"}
        BY <2>7 DEF Slots
      <4>4. pc' \notin Framing /\ pc' \notin Framed /\ pc' \notin {"ext", "payload", "unmask"}
        BY <4>1 DEF Framing, Framed
      <4> QED  BY <2>5, <2>7, <3>2, <4>1, <4>2, <4>3, <4>4 DEF MessageInv
    <3>4. CASE ~(h.pack > H)
      <4>1. pc' \in Resting
        BY <3>2, <3>4 DEF p, Resting, Pcs, Taken, Framing, Framed
      <4> QED  BY <2>5, <2>7, <3>2, <4>1, MessageRests
    <3> QED  BY <3>3, <3>4
  <2> QED  BY <2>1, <2>8, <2>9
<1> QED  BY <1>2, <1>3

LEMMA TakeBodyKeeps ==
  ASSUME StreamInv, ControlInv, MessageInv, TakeBody
  PROVE  ControlInv' /\ MessageInv'
<1> DEFINE n == script.packets[proto.k].pack - H
<1>1. pc = "body" /\ pc \notin Framed /\ held
  BY DEF TakeBody, Framed, ControlInv, Exits
<1>2. n \in Nat \ {0}
  BY <1>1, ReadsSomething
<1>3. \/ Popping(n)
      \/ /\ Pop(n)
         /\ proto' = [proto EXCEPT !.body = Part(r, n)]
         /\ Goto("operate")
         /\ UNCHANGED <<request, message, got>> /\ UNCHANGED <<client, channel, dispatch>>
  BY DEF TakeBody, Elsewhere
<1> HIDE DEF n
<1>4. CASE Popping(n)
  BY <1>1, <1>4, PoppingKeeps
<1>5. CASE /\ Pop(n)
           /\ proto' = [proto EXCEPT !.body = Part(r, n)]
           /\ Goto("operate")
           /\ UNCHANGED <<request, message, got>> /\ UNCHANGED <<client, channel, dispatch>>
  <2>1. /\ r \in Nat /\ r + n <= Size /\ held'
    <3>1. r \in Nat /\ r + n <= w /\ w <= Size /\ w \in Nat /\ held' = held
      BY <1>1, <1>2, <1>5, PoppedCells
    <3> QED  BY <1>1, <1>2, <3>1, SizeIsPositive
  <2>2. BodyOK(Part(r, n)) /\ Part(r, n) \in Bodies
    BY <1>2, <2>1, BodiesLent DEF BodyOK
  <2>3. proto' \in Slots /\ BodyOK(proto.body)'
    BY <1>5, <2>2 DEF MessageInv, Slots
  <2>4. UNCHANGED <<script, dpc, part, msg>>
    BY <1>5 DEF client, dispatch, message
  <2>5. "operate" \in Resting \ Exits
        /\ "operate" \notin {"line", "upgrade", "first", "count", "message"} \cup Framing
    BY DEF Pcs, Taken, Exits, Framing, Resting, Framed
  <2> QED  BY <1>5, <2>1, <2>3, <2>4, <2>5, GotoRests
<1> QED  BY <1>3, <1>4, <1>5

\* The first byte of a frame has a cell of its own.
LEMMA TakeFirstKeeps ==
  ASSUME StreamInv, ControlInv, MessageInv, TakeFirst
  PROVE  ControlInv' /\ MessageInv'
<1>1. pc = "first" /\ pc \notin Framed /\ held /\ script.ws
  BY DEF TakeFirst, Framed, ControlInv, Exits
<1>2. CASE Popping(1)
  BY <1>1, <1>2, PoppingKeeps
<1>3. CASE ~Popping(1)
  <2>1. /\ Pop(1)
        /\ \/ buf[r].t = "first" /\ frame' = buf[r].k /\ Goto("second")
           \/ Fail("bits") /\ UNCHANGED frame
        /\ part' = Nil
        /\ UNCHANGED <<request, key, msg, frames, proto, got>> /\ UNCHANGED <<client, channel, dispatch>>
    BY <1>3 DEF TakeFirst, ReadByte, Elsewhere
  <2>2. r \in Nat /\ buf[r] \in Sane /\ held'
    <3>1. 1 \in Nat \ {0}
      OBVIOUS
    <3>2. /\ r \in Nat /\ held' = held
          /\ \A i \in r..r+1-1 : buf[i] \in Sane
      BY <1>1, <2>1, <3>1, PoppedCells
    <3> HIDE DEF Sane
    <3> QED  BY <1>1, <3>2
  <2>3. /\ UNCHANGED <<script, dpc, msg, proto>>
        /\ BodyOK(proto.body)' /\ proto' \in Slots /\ proto'.k \in Nat /\ proto'.op \in Ops \cup {"none"}
    BY <2>1 DEF client, dispatch, MessageInv
  <2>4. Sane' = Sane
    BY <2>3 DEF Sane, SaneCells
  <2>5. BodyOK(part)' /\ part'.own /\ part'.cells \in Seq(Sane)
    <3>1. <<>> \in Seq(Sane)
      OBVIOUS
    <3> QED  BY <2>1, <3>1, NilIsBody
  <2>6. CASE buf[r].t = "first" /\ frame' = buf[r].k /\ Goto("second")
    <3>1. frame' \in 1..Len(script'.frames)
      BY <2>2, <2>3, <2>6 DEF Sane, SaneCells
    <3>2. "second" \in Pcs \ Exits /\ "second" \notin {"line", "upgrade", "reply"}
      BY DEF Pcs, Taken, Framing, Exits
    <3>3. ControlInv' /\ pc' = "second"
      BY <1>1, <2>2, <2>3, <2>6, <3>2, GotoKeeps
    <3> HIDE DEF Sane
    <3> QED  BY <2>3, <2>4, <2>5, <3>1, <3>3 DEF MessageInv, Framing, Framed
  <2>7. CASE Fail("bits")
    <3>1. ControlInv' /\ pc' \in {"close", "putrb"}
      BY <2>3, <2>7, FailKeeps DEF Whys
    <3> HIDE DEF Sane
    <3> QED  BY <2>3, <2>4, <2>5, <3>1 DEF MessageInv, Framing, Framed
  <2> QED  BY <2>1, <2>6, <2>7
<1> QED  BY <1>2, <1>3

\* On to the next stage the frame has.
LEMMA StageKeeps ==
  ASSUME ControlInv, MessageInv, pc \in Framing, NEW i \in 1..4, Goto(Stage(i)), held',
         UNCHANGED <<script, dpc, frame, msg, proto>>,
         BodyOK(part)', part'.own => part'.cells \in Seq(Sane),
         i <= 3 => part'.own,
         i = 4 => ~part'.own /\ part'.from + part'.n <= r'
  PROVE  ControlInv' /\ MessageInv'
<1> DEFINE p == Stage(i)
<1>1. /\ p \in {"ext", "key", "payload", "unmask", "frame"} /\ Wants(p)
      /\ i >= 2 => p # "ext"
      /\ i >= 3 => p # "key"
      /\ i <= 3 => p # "unmask"
      /\ i = 4 => p # "payload"
  BY StageIsWanted
<1> HIDE DEF p
<1>2. p \in Pcs \ Exits /\ p \notin {"line", "upgrade", "reply"} /\ script.ws
  BY <1>1 DEF Pcs, Taken, Framing, Exits, ControlInv
<1>3. ControlInv' /\ pc' = p
  BY <1>2, GotoKeeps DEF p
<1>4. Sane' = Sane /\ F' = F /\ frame' \in 1..Len(script'.frames)
  BY DEF Sane, SaneCells, F, MessageInv
<1>5. (p = "ext" => Ext(F.n) > 0) /\ (p = "payload" => F.n > 0)
  BY <1>1 DEF Wants
<1>6. /\ p \notin {"body", "second", "pong", "pongbody", "message"}
      /\ p \in {"ext", "key", "payload"} => part'.own
  BY <1>1
<1> HIDE DEF Sane, F
<1> QED  BY <1>1, <1>3, <1>4, <1>5, <1>6 DEF MessageInv, Framing, Framed

LEMMA TakeStagesKeep ==
  ASSUME StreamInv, ControlInv, MessageInv, TakeSecond \/ TakeExt
  PROVE  ControlInv' /\ MessageInv'
<1>1. pc \in {"second", "ext"} /\ pc \in Framing /\ pc \notin Framed /\ held
  BY DEF TakeSecond, TakeExt, Framing, Framed, ControlInv, Exits
<1>2. \/ \E n \in Int : Popping(n)
      \/ \E n \in Nat \ {0}, i \in {1, 2} :
            Pop(n) /\ Goto(Stage(i)) /\ UNCHANGED reading /\ UNCHANGED <<client, channel, dispatch>>
  <2>1. Ext(F.n) \in Int /\ (pc = "ext" => Ext(F.n) \in Nat \ {0})
    BY ReadsSomething DEF Ext
  <2> QED  BY <2>1 DEF TakeSecond, TakeExt, ReadByte, Elsewhere
<1>3. ASSUME NEW n \in Int, Popping(n) PROVE ControlInv' /\ MessageInv'
  BY <1>1, <1>3, PoppingKeeps
<1>4. ASSUME NEW n \in Nat \ {0}, NEW i \in {1, 2}, Pop(n), Goto(Stage(i)), UNCHANGED reading,
             UNCHANGED <<client, channel, dispatch>>
      PROVE  ControlInv' /\ MessageInv'
  <2>1. UNCHANGED <<script, dpc, frame, msg, proto, part>> /\ held'
    BY <1>1, <1>4 DEF reading, message, client, dispatch, Pop
  <2>2. BodyOK(part)' /\ part'.own /\ part'.cells \in Seq(Sane)
    BY <1>1, <2>1 DEF MessageInv
  <2>3. i \in 1..4 /\ i <= 3 /\ i # 4
    OBVIOUS
  <2> HIDE DEF Sane
  <2> QED  BY <1>1, <1>4, <2>1, <2>2, <2>3, StageKeeps
<1> QED  BY <1>2, <1>3, <1>4

LEMMA TakeKeyKeeps ==
  ASSUME StreamInv, ControlInv, MessageInv, TakeKey
  PROVE  ControlInv' /\ MessageInv'
<1>1. pc = "key" /\ pc \in Framing /\ pc \notin Framed /\ held
  BY DEF TakeKey, Framing, Framed, ControlInv, Exits
<1>2. CASE Popping(1)
  BY <1>1, <1>2, PoppingKeeps
<1>3. CASE ~Popping(1)
  <2>1. /\ Pop(1) /\ Goto(Stage(3))
        /\ UNCHANGED <<request, frame, part, msg, frames, proto, got>>
        /\ UNCHANGED <<client, channel, dispatch>>
    BY <1>3 DEF TakeKey, Elsewhere
  <2>2. UNCHANGED <<script, dpc, frame, msg, proto, part>> /\ held'
    BY <1>1, <2>1 DEF client, dispatch, Pop
  <2>3. BodyOK(part)' /\ part'.own /\ part'.cells \in Seq(Sane)
    BY <1>1, <2>2 DEF MessageInv
  <2>4. 3 \in 1..4 /\ 3 <= 3 /\ 3 # 4
    OBVIOUS
  <2> HIDE DEF Sane
  <2> QED  BY <1>1, <2>1, <2>2, <2>3, <2>4, StageKeeps
<1> QED  BY <1>2, <1>3

LEMMA TakePayloadKeeps ==
  ASSUME StreamInv, ControlInv, MessageInv, TakePayload
  PROVE  ControlInv' /\ MessageInv'
<1> DEFINE n == F.n
<1>1. pc = "payload" /\ pc \in Framing /\ pc \notin Framed /\ held
  BY DEF TakePayload, Framing, Framed, ControlInv, Exits
<1>2. n \in Nat \ {0}
  BY <1>1, ReadsSomething
<1>3. \/ Popping(n)
      \/ /\ Pop(n) /\ part' = Part(r, n) /\ Goto(Stage(4))
         /\ UNCHANGED <<request, frame, key, msg, frames, proto, got>>
         /\ UNCHANGED <<client, channel, dispatch>>
  BY DEF TakePayload, Elsewhere
<1> HIDE DEF n
<1>4. CASE Popping(n)
  BY <1>1, <1>4, PoppingKeeps
<1>5. CASE /\ Pop(n) /\ part' = Part(r, n) /\ Goto(Stage(4))
           /\ UNCHANGED <<request, frame, key, msg, frames, proto, got>>
           /\ UNCHANGED <<client, channel, dispatch>>
  <2>1. r \in Nat /\ r + n <= w /\ w <= Size /\ w \in Nat /\ held' = held /\ r' = r + n
    BY <1>1, <1>2, <1>5, PoppedCells
  <2>2. r + n <= Size
    BY <1>2, <2>1, SizeIsPositive
  <2>3. UNCHANGED <<script, dpc, frame, msg, proto>> /\ held'
    BY <1>1, <1>5, <2>1 DEF client, dispatch
  <2>4. BodyOK(part)' /\ part'.own = FALSE /\ part'.from = r /\ part'.n = n
    BY <1>2, <1>5, <2>1, <2>2, BodiesLent
  <2>5. part'.from + part'.n <= r'
    BY <1>2, <2>1, <2>4
  <2>6. 4 \in 1..4 /\ ~(4 <= 3)
    OBVIOUS
  <2> HIDE DEF Sane
  <2> QED  BY <1>1, <1>5, <2>3, <2>4, <2>5, <2>6, StageKeeps
<1> QED  BY <1>3, <1>4, <1>5

\* Where a line of the request leads.
LEMMA LineTurns ==
  ASSUME StreamInv, TakeLine
  PROVE  \/ UNCHANGED control
         \/ \E x \in {"read", "request", "path"} : Fail(x)
         \/ \E p \in {"line", "upgrade"} : Goto(p)
<1>1. CASE LineFills /\ Receive
  BY <1>1 DEF Receive
<1>2. CASE Fail("read")
  BY <1>2
<1>3. CASE ReadLine /\ ~Fail("read") /\ ~(LineFills /\ Receive)
  <2>1. CASE More
    BY <1>3, <2>1 DEF TakeLine
  <2>2. CASE ~More
    <3> DEFINE l == Joined(line)
               end == lines > 0 /\ Trimmed(l) = <<>>
    <3>1. (CASE lines = 0 /\ ~IsRequestLine(l) -> Fail("request")
            [] lines = 0 /\ IsRequestLine(l) -> Goto("line")
            [] end /\ script.sub -> Goto("upgrade")
            [] end /\ ~script.sub -> Fail("path")
            [] lines > 0 /\ ~end ->
                 IF IsField(Trimmed(l)) THEN Goto("line") ELSE Fail("request"))
      BY <1>3, <2>2 DEF TakeLine
    <3>2. lines = 0 \/ end \/ (lines > 0 /\ ~end)
      BY DEF StreamInv
    <3> HIDE DEF l, end
    <3> QED  BY <3>1, <3>2
  <2> QED  BY <2>1, <2>2
<1> QED  BY <1>1, <1>2, <1>3 DEF TakeLine

LEMMA TakeLineKeeps ==
  ASSUME StreamInv, ControlInv, MessageInv, TakeLine
  PROVE  ControlInv' /\ MessageInv'
<1>1. pc = "line" /\ held /\ script.ws /\ ~authed
  BY DEF TakeLine, ControlInv, Exits
<1>2. UNCHANGED <<script, dpc, part, msg, proto>> /\ held'
  BY <1>1 DEF TakeLine, Receive, Fill, LineFails, ReadLine, Elsewhere, client, dispatch, reading,
              message
<1>3. BodyOK(proto.body)' /\ proto' \in Slots
  BY <1>2 DEF MessageInv
<1>4. \/ UNCHANGED control
      \/ \E x \in {"read", "request", "path"} : Fail(x)
      \/ \E p \in {"line", "upgrade"} : Goto(p)
  BY LineTurns
<1>5. CASE UNCHANGED control
  <2>1. pc' = pc /\ pc \in Resting
    BY <1>1, <1>5 DEF control, Resting, Pcs, Framing, Framed
  <2>2. ControlInv'
    BY <1>1, <1>2, <1>5 DEF ControlInv, control
  <2> QED  BY <1>2, <1>3, <2>1, <2>2, MessageRests
<1>6. ASSUME NEW x \in {"read", "request", "path"}, Fail(x) PROVE ControlInv' /\ MessageInv'
  BY <1>2, <1>3, <1>6, FailRests DEF Whys
<1>7. ASSUME NEW p \in {"line", "upgrade"}, Goto(p) PROVE ControlInv' /\ MessageInv'
  <2>1. p \in Resting \ Exits
    BY DEF Resting, Pcs, Framing, Framed, Exits
  <2> QED  BY <1>1, <1>2, <1>3, <1>7, <2>1, GotoRests
<1> QED  BY <1>4, <1>5, <1>6, <1>7

LEMMA UpgradeKeeps ==
  ASSUME StreamInv, ControlInv, MessageInv, Upgrade
  PROVE  ControlInv' /\ MessageInv'
<1>1. pc = "upgrade" /\ held /\ script.ws /\ ~authed
  BY DEF Upgrade, ControlInv, Exits
<1>2. UNCHANGED <<script, dpc, part, msg, proto>> /\ held'
  BY <1>1 DEF Upgrade, client, reading, message, readerVars
<1>3. BodyOK(proto.body)' /\ proto' \in Slots
  BY <1>2 DEF MessageInv
<1>4. \/ \E x \in {"write", "upgrade"} : Fail(x)
      \/ Goto("set")
  BY DEF Upgrade
<1>5. ASSUME NEW x \in {"write", "upgrade"}, Fail(x) PROVE ControlInv' /\ MessageInv'
  BY <1>2, <1>3, <1>5, FailRests DEF Whys
<1>6. CASE Goto("set")
  <2>1. "set" \in Resting \ Exits
        /\ "set" \notin {"line", "upgrade", "first", "count", "message"} \cup Framing
    BY DEF Resting, Pcs, Framing, Framed, Exits
  <2> QED  BY <1>2, <1>3, <1>6, <2>1, GotoRests
<1> QED  BY <1>4, <1>5, <1>6

LEMMA UnmaskKeeps ==
  ASSUME StreamInv, ControlInv, MessageInv, Unmask
  PROVE  ControlInv' /\ MessageInv'
<1>1. pc = "unmask" /\ held /\ script.ws
  BY DEF Unmask, ControlInv, Exits, Framing
<1>2. UNCHANGED <<script, dpc, frame, part, msg, proto, r, held>> /\ Goto("frame")
  BY DEF Unmask, Scribble, Elsewhere, client, dispatch, reading, message, windowVars
<1>3. "frame" \in Pcs \ Exits
  BY DEF Pcs, Taken, Framing, Exits
<1>4. ControlInv' /\ pc' = "frame"
  BY <1>1, <1>2, <1>3, GotoKeeps
<1>5. Sane' = Sane
  BY <1>2 DEF Sane, SaneCells
<1> HIDE DEF Sane
<1> QED  BY <1>1, <1>2, <1>4, <1>5 DEF MessageInv, Framing, Framed

LEMMA CountFrameKeeps ==
  ASSUME StreamInv, ControlInv, MessageInv, CountFrame
  PROVE  ControlInv' /\ MessageInv'
<1>1. pc = "count" /\ held /\ script.ws
  BY DEF CountFrame, ControlInv, Exits
<1>2. UNCHANGED <<script, dpc, part, msg, proto>> /\ held'
  BY <1>1 DEF CountFrame, Elsewhere, client, dispatch, readerVars
<1>3. BodyOK(proto.body)' /\ proto' \in Slots
  BY <1>2 DEF MessageInv
<1>4. "first" \in Resting \ Exits /\ "first" \notin {"line", "upgrade", "reply"} /\ "max" \in Whys
  BY DEF Resting, Pcs, Taken, Framing, Framed, Exits, Whys
<1>5. Fail("max") \/ Goto("first")
  BY DEF CountFrame
<1> QED  BY <1>1, <1>2, <1>3, <1>4, <1>5, FailRests, GotoRests

\* The frames of a message are put together, unless there is only one.
LEMMA HandleFrameKeeps ==
  ASSUME StreamInv, ControlInv, MessageInv, HandleFrame
  PROVE  ControlInv' /\ MessageInv'
<1>1. pc = "frame" /\ held /\ script.ws /\ pc \in Framed /\ pc \in Framing
  BY DEF HandleFrame, ControlInv, Exits, Framed, Framing
<1>2. UNCHANGED <<script, dpc, frame, proto, r>> /\ held'
  BY <1>1 DEF HandleFrame, Elsewhere, client, dispatch, readerVars, windowVars
<1>3. BodyOK(proto.body)' /\ proto' \in Slots /\ proto'.k \in Nat /\ proto'.op \in Ops \cup {"none"}
  BY <1>2 DEF MessageInv
<1>4. Sane' = Sane
  BY <1>2 DEF Sane, SaneCells
<1>5. Payload \in Seq(Sane) /\ Payload \in Seq(Cells)
  <2>1. BodyOK(part) /\ (part.own => part.cells \in Seq(Sane))
        /\ (~part.own => part.from + part.n <= r) /\ msg \in Seq(Sane)
    BY <1>1 DEF MessageInv
  <2>2. Contents(part) \in Seq(Sane)
    BY <1>1, <2>1, ContentsSane
  <2>3. Payload \in Seq(Sane)
    <3> HIDE DEF Sane
    <3> QED  BY <2>1, <2>2 DEF Payload
  <2>4. Sane \subseteq Cells
    BY DEF Sane
  <2> HIDE DEF Sane
  <2> QED  BY <2>3, <2>4
<1>6. BodyOK(part) /\ (part.own => part.cells \in Seq(Sane))
      /\ (~part.own => part.from + part.n <= r) /\ msg \in Seq(Sane)
  BY <1>1 DEF MessageInv
<1>7. CASE Fail("closed") /\ UNCHANGED <<part, msg>>
  BY <1>2, <1>3, <1>7, FailRests DEF Whys
<1>8. CASE Fail("control") /\ UNCHANGED <<part, msg>>
  BY <1>2, <1>3, <1>8, FailRests DEF Whys
<1>9. CASE part' = (IF msg = <<>> THEN part ELSE Own(Payload)) /\ msg' = <<>> /\ Goto("message")
  <2>1. "message" \in Pcs \ Exits
    BY DEF Pcs, Taken, Exits, Framing
  <2>2. ControlInv' /\ pc' = "message"
    BY <1>1, <1>2, <1>9, <2>1, GotoKeeps
  <2>3. BodyOK(part') /\ (part'.own => part'.cells \in Seq(Sane))
        /\ (~part'.own => part'.from + part'.n <= r)
    <3>1. BodyOK(Own(Payload)) /\ Own(Payload).own /\ Own(Payload).cells = Payload
      BY <1>5, BodiesOwned
    <3> QED  BY <1>5, <1>6, <1>9, <3>1
  <2>4. msg' \in Seq(Sane)
    <3>1. <<>> \in Seq(Sane)
      OBVIOUS
    <3> QED  BY <1>9, <3>1
  <2> HIDE DEF Sane
  <2> QED  BY <1>2, <1>3, <1>4, <2>2, <2>3, <2>4 DEF MessageInv, Framing, Framed
<1>10. CASE msg' = Payload /\ Goto("count") /\ UNCHANGED part
  <2>1. "count" \in Pcs \ Exits
    BY DEF Pcs, Taken, Exits, Framing
  <2>2. ControlInv' /\ pc' = "count"
    BY <1>1, <1>2, <1>10, <2>1, GotoKeeps
  <2> HIDE DEF Sane
  <2> QED  BY <1>2, <1>3, <1>4, <1>5, <1>6, <1>10, <2>2 DEF MessageInv, Framing, Framed
<1>11. CASE Goto("pong") /\ UNCHANGED <<part, msg>>
  <2>1. "pong" \in Pcs \ Exits
    BY DEF Pcs, Taken, Exits, Framing
  <2>2. ControlInv' /\ pc' = "pong"
    BY <1>1, <1>2, <1>11, <2>1, GotoKeeps
  <2>3. frame' \in 1..Len(script'.frames)
    BY <1>1, <1>2 DEF MessageInv
  <2> HIDE DEF Sane
  <2> QED  BY <1>2, <1>3, <1>4, <1>6, <1>11, <2>2, <2>3 DEF MessageInv, Framing, Framed
<1>12. CASE Goto("count") /\ UNCHANGED <<part, msg>>
  <2>1. "count" \in Resting \ Exits
    BY DEF Resting, Pcs, Taken, Exits, Framing, Framed
  <2> QED  BY <1>1, <1>2, <1>3, <1>12, <2>1, GotoRests
<1> QED  BY <1>7, <1>8, <1>9, <1>10, <1>11, <1>12 DEF HandleFrame

LEMMA WritePongKeeps ==
  ASSUME StreamInv, ControlInv, MessageInv, WritePong
  PROVE  ControlInv' /\ MessageInv'
<1>1. pc \in {"pong", "pongbody"} /\ held /\ script.ws /\ pc \in Framed /\ pc \in Framing
  BY DEF WritePong, ControlInv, Exits, Framed, Framing
<1>2. UNCHANGED <<script, dpc, frame, part, msg, proto, r>> /\ held'
  BY <1>1 DEF WritePong, client, reading, message, readerVars, windowVars
<1>3. BodyOK(proto.body)' /\ proto' \in Slots
  BY <1>2 DEF MessageInv
<1>4. Fail("write") \/ Goto("pongbody") \/ Goto("count")
  BY DEF WritePong
<1>5. CASE Fail("write")
  BY <1>2, <1>3, <1>5, FailRests DEF Whys
<1>6. CASE Goto("count")
  <2>1. "count" \in Resting \ Exits
    BY DEF Resting, Pcs, Taken, Exits, Framing, Framed
  <2> QED  BY <1>1, <1>2, <1>3, <1>6, <2>1, GotoRests
<1>7. CASE Goto("pongbody")
  <2>1. "pongbody" \in Pcs \ Exits
    BY DEF Pcs, Taken, Exits, Framing
  <2>2. ControlInv' /\ pc' = "pongbody"
    BY <1>1, <1>2, <1>7, <2>1, GotoKeeps
  <2>3. Sane' = Sane
    BY <1>2 DEF Sane, SaneCells
  <2> HIDE DEF Sane
  <2> QED  BY <1>1, <1>2, <2>2, <2>3 DEF MessageInv, Framing, Framed
<1> QED  BY <1>4, <1>5, <1>6, <1>7

\* A slice behind the header of a message, which may reach past it.
LEMMA SliceIsBody ==
  ASSUME NEW b, BodyOK(b), NEW n \in Nat, n > H, MayReach(b, n)
  PROVE  BodyOK(From(b, H, n - H))
<1>1. H \in Nat /\ n - H \in Nat /\ H + (n - H) = n
  BY HeaderSize
<1>2. CASE b.own
  <2> DEFINE cells == [i \in 1..(n - H) |-> IF H + i <= b.n THEN b.cells[H + i] ELSE Junk]
  <2>1. Len(b.cells) = b.n /\ b.cells \in Seq(Cells) /\ b.n \in Nat
    BY <1>2 DEF BodyOK, Bodies
  <2>2. \A i \in 1..(n - H) : cells[i] \in Cells
    BY <1>1, <2>1, ReaderAssumption
  <2>3. cells \in [1..(n - H) -> Cells]
    BY <2>2
  <2>4. cells \in Seq(Cells)
    BY <1>1, <2>3
  <2>5. From(b, H, n - H) = Own(cells)
    BY <1>2 DEF From
  <2> HIDE DEF cells
  <2> QED  BY <2>4, <2>5, BodiesOwned
<1>3. CASE ~b.own
  <2>1. b.from \in Nat /\ b.n \in Nat /\ b.from + b.n <= Size
    BY <1>3 DEF BodyOK, Bodies
  <2>2. b.from + n <= Size
    BY <1>3, <2>1, SizeIsPositive DEF MayReach, Reaches
  <2>3. b.from + H \in Nat /\ (b.from + H) + (n - H) <= Size
    BY <1>1, <2>1, <2>2
  <2> QED  BY <1>1, <1>3, <2>3, BodiesLent DEF From
<1> QED  BY <1>2, <1>3

LEMMA TakeMessageKeeps ==
  ASSUME StreamInv, ControlInv, MessageInv, TakeMessage
  PROVE  ControlInv' /\ MessageInv'
<1>1. pc = "message" /\ held /\ script.ws /\ pc \in Framed
  BY DEF TakeMessage, ControlInv, Exits, Framed
<1>2. UNCHANGED <<script, dpc, part, msg>> /\ held'
  BY <1>1 DEF TakeMessage, Elsewhere, client, dispatch, readerVars, message
<1>3. BodyOK(part) /\ part.n \in Nat /\ (part.own => part.cells \in Seq(Sane))
      /\ (~part.own => part.from + part.n <= r)
  BY <1>1 DEF MessageInv, BodyOK, Bodies
<1>4. CASE part.n < H
  <2>1. Fail("pack") /\ UNCHANGED proto
    BY <1>4 DEF TakeMessage
  <2>2. BodyOK(proto.body)' /\ proto' \in Slots
    BY <2>1 DEF MessageInv
  <2> QED  BY <1>2, <2>1, <2>2, FailRests DEF Whys
<1>5. CASE ~(part.n < H)
  <2> DEFINE cells == First(Contents(part), H)
             h == Header(cells)
  <2>1. cells[1] \in Sane
    <3>1. Contents(part) \in Seq(Sane)
      BY <1>1, <1>3, ContentsSane
    <3>2. Len(Contents(part)) = part.n
      BY <1>3, ContentsTyped DEF StreamInv, WindowInv
    <3>3. H \in Nat /\ H >= 1
      BY HeaderSize
    <3>4. cells[1] = Contents(part)[1]
      BY <1>3, <1>5, <3>2, <3>3 DEF First
    <3> HIDE DEF Sane
    <3> QED  BY <1>3, <1>5, <3>1, <3>2, <3>3, <3>4
  <2>2. /\ CASE h.pack < 0 \/ TooLarge(h) -> Fail("pack")
             [] h.pack \in 0..MaxPack /\ h.head # H -> Fail("head")
             [] OTHER -> \/ (h.pack > H => MayReach(part, h.pack)) /\ Goto("operate")
                         \/ h.pack > H /\ ~Reaches(part, h.pack) /\ Panic
        /\ proto' = [k |-> h.k, op |-> h.op,
                     body |-> IF pc' = "operate" /\ h.pack > H THEN From(part, H, h.pack - H)
                             ELSE Nil]
    BY <1>5 DEF TakeMessage
  <2> HIDE DEF cells
  <2>3. /\ h.k \in Nat /\ h.op \in Ops \cup {"none"} /\ h.pack \in Int
    BY <2>1, HeaderIsOfPacket DEF StreamInv
  <2> HIDE DEF h
  <2>4. ASSUME NEW b, BodyOK(b), proto' = [k |-> h.k, op |-> h.op, body |-> b]
        PROVE  BodyOK(proto.body)' /\ proto' \in Slots
    BY <2>3, <2>4 DEF BodyOK, Slots
  <2>5. CASE Fail("pack") \/ Fail("head")
    <3>1. pc' \in {"close", "putrb"}
      BY <1>2, <2>5, FailKeeps DEF Whys
    <3>2. proto' = [k |-> h.k, op |-> h.op, body |-> Nil]
      BY <2>2, <3>1
    <3>3. BodyOK(proto.body)' /\ proto' \in Slots
      BY <2>4, <3>2, NilIsBody
    <3> QED  BY <1>2, <2>5, <3>3, FailRests DEF Whys
  <2>6. CASE h.pack >= 0 /\ (h.pack > H => MayReach(part, h.pack)) /\ Goto("operate")
    <3>1. BodyOK(proto.body)' /\ proto' \in Slots
      <4>1. CASE h.pack > H
        <5>1. BodyOK(From(part, H, h.pack - H))
          BY <1>3, <2>3, <2>6, <4>1, SliceIsBody
        <5>2. proto' = [k |-> h.k, op |-> h.op, body |-> From(part, H, h.pack - H)]
          BY <2>2, <2>6, <4>1 DEF Goto
        <5> QED  BY <2>4, <5>1, <5>2
      <4>2. CASE ~(h.pack > H)
        <5>1. proto' = [k |-> h.k, op |-> h.op, body |-> Nil]
          BY <2>2, <4>2
        <5> QED  BY <2>4, <5>1, NilIsBody
      <4> QED  BY <4>1, <4>2
    <3>2. "operate" \in Resting \ Exits
          /\ "operate" \notin {"line", "upgrade", "first", "count", "message"} \cup Framing
      BY DEF Pcs, Taken, Exits, Framing, Resting, Framed
    <3> QED  BY <1>2, <2>6, <3>1, <3>2, GotoRests
  <2>7. CASE Panic
    <3>1. pc' = "panic" /\ UNCHANGED <<why, authed>> /\ open' = FALSE
      BY <2>7 DEF Panic
    <3>2. "panic" \in Resting /\ "panic" \notin Exits
          /\ "panic" \notin {"line", "upgrade", "first", "count", "message"} \cup Framing
      BY DEF Pcs, Taken, Exits, Framing, Resting, Framed
    <3>3. ControlInv'
      BY <1>2, <3>1, <3>2 DEF ControlInv, Pcs
    <3>4. BodyOK(proto.body)' /\ proto' \in Slots
      BY <2>2, <2>4, <3>1, NilIsBody
    <3> QED  BY <1>2, <3>1, <3>2, <3>3, <3>4, MessageRests
  <2>8. Fail("pack") \/ Fail("head") \/ Panic
        \/ (h.pack >= 0 /\ (h.pack > H => MayReach(part, h.pack)) /\ Goto("operate"))
    <3>1. CASE h.pack < 0 \/ TooLarge(h)
      BY <2>2, <3>1
    <3>2. CASE ~(h.pack < 0 \/ TooLarge(h))
      BY <2>2, <2>3, <3>2
    <3> QED  BY <3>1, <3>2
  <2> QED  BY <2>5, <2>6, <2>7, <2>8
<1> QED  BY <1>4, <1>5

LEMMA OperateKeeps ==
  ASSUME StreamInv, ControlInv, MessageInv, Operate
  PROVE  ControlInv' /\ MessageInv'
<1>1. pc = "operate" /\ held
  BY DEF Operate, ControlInv, Exits
<1>2. UNCHANGED <<script, dpc, part, msg, proto>> /\ held'
  BY <1>1 DEF Operate, client, dispatch, readerVars, reading, message
<1>3. BodyOK(proto.body)' /\ proto' \in Slots
  BY <1>2 DEF MessageInv
<1>4. {"first", "head", "reply", "signal"} \subseteq Resting \ Exits /\ "refused" \in Whys
  BY DEF Resting, Pcs, Taken, Framing, Framed, Exits, Whys
<1>5. Fail("refused") \/ (~authed /\ Goto("reply")) \/ Goto("signal")
      \/ Goto(IF script.ws THEN "first" ELSE "head")
  BY DEF Operate
<1>6. CASE Fail("refused")
  BY <1>2, <1>3, <1>4, <1>6, FailRests
<1>7. CASE ~authed /\ Goto("reply")
  <2>1. "reply" \notin {"line", "upgrade", "first", "count", "message"} \cup Framing
    BY DEF Framing
  <2> QED  BY <1>2, <1>3, <1>4, <1>7, <2>1, GotoRests
<1>8. CASE Goto("signal")
  <2>1. "signal" \notin {"line", "upgrade", "first", "count", "message"} \cup Framing
    BY DEF Framing
  <2> QED  BY <1>2, <1>3, <1>4, <1>8, <2>1, GotoRests
<1>9. CASE Goto(IF script.ws THEN "first" ELSE "head")
  <2> DEFINE p == IF script.ws THEN "first" ELSE "head"
  <2>1. p \in Resting \ Exits /\ p \notin {"line", "upgrade", "reply"}
        /\ (p \in {"line", "upgrade", "first", "count", "message"} \cup Framing => script.ws)
    BY <1>4 DEF Framing, ControlInv
  <2>2. Goto(p)
    BY <1>9
  <2> HIDE DEF p
  <2> QED  BY <1>2, <1>3, <2>1, <2>2, GotoRests
<1> QED  BY <1>5, <1>6, <1>7, <1>8, <1>9

LEMMA AuthReplyKeeps ==
  ASSUME StreamInv, ControlInv, MessageInv, AuthReply
  PROVE  ControlInv' /\ MessageInv'
<1>1. pc = "reply" /\ held /\ ~authed
  BY DEF AuthReply, ControlInv, Exits
<1>2. UNCHANGED <<script, part, msg, proto>> /\ held'
  BY <1>1 DEF AuthReply, client, readerVars, reading, message
<1>3. BodyOK(proto.body)' /\ proto' \in Slots
  BY <1>2 DEF MessageInv
<1>4. CASE Fail("write") /\ UNCHANGED dpc
  BY <1>2, <1>3, <1>4, FailRests DEF Whys
<1>5. CASE authed' = TRUE /\ pc' = "set" /\ dpc' = "wait" /\ UNCHANGED <<open, why>>
  <2>1. "set" \in Resting /\ "set" \notin Exits
        /\ "set" \notin {"line", "upgrade", "first", "count", "message"} \cup Framing
    BY DEF Resting, Pcs, Taken, Framing, Framed, Exits
  <2>2. ControlInv'
    BY <1>2, <1>5, <2>1 DEF ControlInv, Pcs, Dpcs
  <2> QED  BY <1>2, <1>3, <1>5, <2>1, <2>2, MessageRests
<1> QED  BY <1>4, <1>5 DEF AuthReply

LEMMA SignalKeeps ==
  ASSUME StreamInv, ControlInv, MessageInv, Signal
  PROVE  ControlInv' /\ MessageInv'
<1>1. Goto("set") /\ held
  BY DEF Signal, ControlInv, Exits
<1>2. UNCHANGED <<script, dpc, part, msg, proto>> /\ held'
  BY <1>1 DEF Signal, client, dispatch, readerVars, reading, message
<1>3. BodyOK(proto.body)' /\ proto' \in Slots
  BY <1>2 DEF MessageInv
<1>4. "set" \in Resting \ Exits
      /\ "set" \notin {"line", "upgrade", "first", "count", "message"} \cup Framing
  BY DEF Resting, Pcs, Taken, Framing, Framed, Exits
<1> QED  BY <1>1, <1>2, <1>3, <1>4, GotoRests

LEMMA LeaveKeeps ==
  ASSUME StreamInv, ControlInv, MessageInv, Leave
  PROVE  ControlInv' /\ MessageInv'
<1>1. pc \in {"close", "putrb", "finish"} /\ pc' = Following(pc)
  BY DEF Leave
<1>2. UNCHANGED <<script, dpc, part, msg, proto, why, authed>> /\ open' \in BOOLEAN
  BY DEF Leave, client, reading, message, ControlInv
<1>3. BodyOK(proto.body)' /\ proto' \in Slots
  BY <1>2 DEF MessageInv
<1>4. script.ws \in BOOLEAN /\ authed \in BOOLEAN /\ (pc = "finish" => authed)
  BY DEF ControlInv
<1>5. pc' \in Exits /\ (pc' = "finish" => authed)
  BY <1>1, <1>4, ExitGoesOn DEF Exits
<1>6. pc' \in Resting
  BY <1>5 DEF Resting, Pcs, Framing, Framed, Exits
<1>7. ControlInv'
  BY <1>2, <1>5, <1>6 DEF ControlInv, Exits, Framing, Resting
<1> QED  BY <1>2, <1>3, <1>6, <1>7, MessageRests

-----------------------------------------------------------------------------
(* Items and signals *)

\* A reply and a pushed message can be written.
LEMMA ReplyIsItem ==
  ASSUME NEW p \in Requests
  PROVE  ItemOK(Reply(p)) /\ Reply(p).of = "reply"
  BY DEF ItemOK, Reply, Requests, Slots

LEMMA PushIsItem ==
  ASSUME script \in Scripts, NEW k \in 1..Len(script.pushes)
  PROVE  ItemOK(Push(k)) /\ Push(k).of = "push"
<1> DEFINE n == script.pushes[k]
           cells == [i \in 1..n |-> Cell("push", k, i, 0)]
<1>1. n \in Nat
  <2>1. script.pushes \in Seq(Nat)
    BY ScriptFacts DEF ScriptType
  <2> QED  BY <2>1
<1>2. \A i \in 1..n : cells[i] \in PushCells
  BY <1>1 DEF Cell, PushCells
<1>3. cells \in Seq(PushCells)
  BY <1>1, <1>2
<1>4. Push(k) = [of |-> "push", k |-> k, heart |-> FALSE, body |-> Own(cells)]
  BY DEF Push, Seqn
<1> HIDE DEF cells
<1> QED  BY <1>3, <1>4 DEF ItemOK, Own

LEMMA ItemContents ==
  ASSUME ReaderTypeOK, NEW it, ItemOK(it)
  PROVE  /\ it.body.n \in Nat
         /\ Contents(it.body) \in Seq(Cells \cup PushCells) /\ Len(Contents(it.body)) = it.body.n
<1>1. CASE it.of = "push"
  BY <1>1 DEF ItemOK, Contents
<1>2. CASE it.of # "push"
  <2>1. BodyOK(it.body)
    BY <1>2 DEF ItemOK
  <2>2. it.body.n \in Nat
    BY <2>1 DEF BodyOK, Bodies
  <2>3. Contents(it.body) \in Seq(Cells) /\ Len(Contents(it.body)) = it.body.n
    BY <2>1, ContentsTyped
  <2> QED  BY <2>2, <2>3
<1> QED  BY <1>1, <1>2

\* The writes of an item are states of the dispatcher.
LEMMA WritesAre ==
  ASSUME NEW it, script.ws \in BOOLEAN
  PROVE  /\ Len(Writes(it)) \in 1..3
         /\ \A i \in 1..Len(Writes(it)) : Writes(it)[i] \in Writing
         /\ \A i, j \in 1..Len(Writes(it)) : Writes(it)[i] = Writes(it)[j] => i = j
         /\ Head(Writes(it)) = Writes(it)[1] /\ DOMAIN Writes(it) = 1..Len(Writes(it))
<1>1. \/ Writes(it) = <<"raw">>
      \/ Writes(it) = <<"head", "body">>
      \/ Writes(it) = <<"head">>
      \/ Writes(it) = <<"frame", "head", "body">>
      \/ Writes(it) = <<"frame", "head">>
  BY DEF Writes, WriteTCP, WriteWebsocket
<1>2. CASE Writes(it) = <<"raw">>
  BY <1>2 DEF Writing
<1>3. CASE Writes(it) = <<"head", "body">>
  BY <1>3 DEF Writing
<1>4. CASE Writes(it) = <<"head">>
  BY <1>4 DEF Writing
<1>5. CASE Writes(it) = <<"frame", "head", "body">>
  BY <1>5 DEF Writing
<1>6. CASE Writes(it) = <<"frame", "head">>
  BY <1>6 DEF Writing
<1> QED  BY <1>1, <1>2, <1>3, <1>4, <1>5, <1>6

LEMMA FirstSignal ==
  ASSUME SignalInv, signal # <<>>
  PROVE  /\ Head(signal) \in Messages /\ Tail(signal) \in Seq(Messages)
         /\ Len(Tail(signal)) < Len(signal) /\ Len(signal) \in Nat
         /\ Head(signal).of \in {"ready", "finish", "push"}
         /\ Head(signal).of = "push" => Head(signal).k \in 1..Len(script.pushes)
<1>1. Head(signal) \in Messages /\ Tail(signal) \in Seq(Messages)
      /\ Len(Tail(signal)) < Len(signal) /\ Len(signal) \in Nat
  <2> HIDE DEF Messages
  <2> QED  BY DEF SignalInv
<1> QED  BY <1>1 DEF Messages

\* The next of the writes of an item is one of them; else it is done.
LEMMA WriteGoesOn ==
  ASSUME DispatchInv, ControlInv, Write
  PROVE  /\ dpc \in Writing
         /\ \/ wr'.err /\ dpc' = "shut" /\ UNCHANGED slots
            \/ /\ ~wr'.err /\ UNCHANGED slots
               /\ \E j \in 1..Len(Writes(item))-1 :
                    Writes(item)[j] = dpc /\ dpc' = Writes(item)[j + 1]
            \/ ~wr'.err /\ Writes(item)[Len(Writes(item))] = dpc /\ Done
<1> DEFINE writes == Writes(item)
           i == CHOOSE j \in DOMAIN writes : writes[j] = dpc
<1>1. dpc \in Writing
  BY DEF Write, Writing
<1>2. DOMAIN writes = 1..Len(writes) /\ Len(writes) \in 1..3
  BY WritesAre DEF ControlInv
<1>3. \E j \in DOMAIN writes : writes[j] = dpc
  BY <1>1, <1>2 DEF DispatchInv
<1>4. i \in DOMAIN writes /\ writes[i] = dpc
  BY <1>3
<1>5. /\ wr'.err => DGoto("shut") /\ UNCHANGED slots
      /\ ~wr'.err /\ i < Len(writes) => DGoto(writes[i + 1]) /\ UNCHANGED slots
      /\ ~wr'.err /\ ~(i < Len(writes)) => Done
  BY DEF Write
<1> HIDE DEF i, writes
<1>6. CASE wr'.err
  BY <1>1, <1>5, <1>6 DEF DGoto
<1>7. CASE ~wr'.err /\ i < Len(writes)
  <2>1. i \in 1..Len(writes)-1 /\ dpc' = writes[i + 1] /\ UNCHANGED slots
    BY <1>2, <1>4, <1>5, <1>7 DEF DGoto
  <2> QED  BY <1>1, <1>4, <1>7, <2>1 DEF writes
<1>8. CASE ~wr'.err /\ ~(i < Len(writes))
  <2>1. i = Len(writes) /\ Done
    BY <1>2, <1>4, <1>5, <1>8
  <2> QED  BY <1>1, <1>4, <1>8, <2>1 DEF writes
<1> QED  BY <1>6, <1>7, <1>8

LEMMA DispatcherKeeps ==
  ASSUME StreamInv, ControlInv, MessageInv, SignalInv, DispatchInv, Dispatcher
  PROVE  ControlInv' /\ MessageInv'
<1>1. dpc # "none"
  BY DEF Dispatcher, Wait, Get, Write, Flush, Shut, Drain
<1>2. UNCHANGED <<script, readerVars, pc, why, authed, reading>> /\ open' \in BOOLEAN
  BY DEF Dispatcher, Wait, Get, Write, Flush, Shut, Drain, client, control, ControlInv
<1>3. dpc' \in Dpcs \ {"none"}
  <2>1. ASSUME NEW it, Begin(it) PROVE dpc' \in Dpcs \ {"none"}
    <3>1. Head(Writes(it)) \in Writing
      BY WritesAre DEF ControlInv
    <3> QED  BY <2>1, <3>1 DEF Begin, DGoto, Dpcs, Writing
  <2>2. CASE Wait
    <3>1. Head(signal).of \in {"ready", "finish", "push"}
      BY <2>2, FirstSignal DEF Wait
    <3> QED  BY <2>1, <2>2, <3>1 DEF Wait, DGoto, Dpcs
  <2>3. CASE Get
    BY <2>1, <2>3 DEF Get, DGoto, Dpcs
  <2>4. CASE Flush \/ Shut \/ Drain
    BY <2>4 DEF Flush, Shut, Drain, DGoto, Dpcs
  <2>5. CASE Write
    <3>1. \A j \in 1..Len(Writes(item)) : Writes(item)[j] \in Writing
      BY WritesAre DEF ControlInv
    <3>2. Len(Writes(item)) \in 1..3
      BY WritesAre DEF ControlInv
    <3>3. ASSUME NEW j \in 1..Len(Writes(item))-1, dpc' = Writes(item)[j + 1] PROVE dpc' \in Writing
      BY <3>1, <3>2, <3>3
    <3> QED  BY <2>5, <3>3, WriteGoesOn DEF Done, DGoto, Dpcs, Writing
  <2> QED  BY <2>2, <2>3, <2>4, <2>5 DEF Dispatcher
<1>4. ControlInv'
  BY <1>1, <1>2, <1>3 DEF ControlInv, readerVars
<1>5. Sane' = Sane /\ F' = F
  BY <1>2 DEF Sane, SaneCells, F, reading, message
<1> HIDE DEF Sane, F
<1>6. MessageInv'
  BY <1>2, <1>5 DEF MessageInv, reading, message, readerVars, windowVars
<1> QED  BY <1>4, <1>6

LEMMA EnvironmentKeeps ==
  ASSUME StreamInv, ControlInv, MessageInv, Environment
  PROVE  ControlInv' /\ MessageInv'
<1>1. UNCHANGED <<script, windowVars, held, pc, why, authed, reading, dpc>> /\ open' \in BOOLEAN
  BY DEF Environment, Send, Finish, Close, PushTo, Lend, Reuse, client, control, dispatch, ControlInv,
         readerVars
<1>2. ControlInv'
  BY <1>1 DEF ControlInv
<1>3. Sane' = Sane /\ F' = F
  BY <1>1 DEF Sane, SaneCells, F, reading, message
<1> HIDE DEF Sane, F
<1>4. MessageInv'
  BY <1>1, <1>3 DEF MessageInv, reading, message, windowVars
<1> QED  BY <1>2, <1>4

LEMMA ReaderKeeps ==
  ASSUME StreamInv, ControlInv, MessageInv, SignalInv, DispatchInv, [Next]_vars
  PROVE  ControlInv' /\ MessageInv'
<1>1. CASE UNCHANGED vars
  <2>1. Sane' = Sane /\ F' = F
    BY <1>1 DEF Sane, SaneCells, F, vars, reading, message, client
  <2>2. ControlInv'
    BY <1>1 DEF ControlInv, vars, control, client, dispatch, readerVars
  <2> HIDE DEF Sane, F
  <2>3. MessageInv'
    BY <1>1, <2>1 DEF MessageInv, vars, control, client, reading, message, readerVars, windowVars
  <2> QED  BY <2>2, <2>3
<1>2. CASE Next
  BY <1>2, DispatcherKeeps, EnvironmentKeeps, SetProtoKeeps, TakeHeadKeeps, TakeBodyKeeps, OperateKeeps,
     AuthReplyKeeps, SignalKeeps, TakeLineKeeps, UpgradeKeeps, TakeFirstKeeps, TakeStagesKeep,
     TakeKeyKeeps, TakePayloadKeeps, UnmaskKeeps, HandleFrameKeeps, CountFrameKeeps, WritePongKeeps,
     TakeMessageKeeps, LeaveKeeps
     DEF Next, ReadLoop
<1> QED  BY <1>1, <1>2

\* What a step does to the ring: a request is put in, a reply is taken out.
LEMMA RingMoves ==
  ASSUME ControlInv, MessageInv, DispatchInv, [Next]_vars
  PROVE  \/ UNCHANGED slots
         \/ pc = "operate" /\ pc' = "signal" /\ authed /\ authed' = authed /\ dpc' = dpc /\ item' = item
            /\ \E p \in Requests : slots' = Append(slots, p)
         \/ Write /\ slots # <<>> /\ slots' = Tail(slots) /\ UNCHANGED <<pc, authed>>
<1>1. CASE Operate
  <2>1. proto \in Requests /\ [proto EXCEPT !.body = Nil] \in Requests
    BY NilIsBody DEF MessageInv, Requests, Slots, BodyOK
  <2> HIDE DEF Requests
  <2>2. CASE authed
    BY <1>1, <2>1, <2>2 DEF Operate, Goto, dispatch, writing
  <2>3. CASE ~authed
    BY <1>1, <2>3 DEF Operate
  <2> QED  BY <2>2, <2>3
<1>2. CASE Write
  <2>1. dpc \in Writing
    BY <1>2, WriteGoesOn
  <2>2. UNCHANGED slots \/ Done
    BY <1>2, WriteGoesOn
  <2>3. (item.of = "reply" => slots # <<>>) /\ UNCHANGED <<pc, authed>>
    BY <1>2, <2>1 DEF DispatchInv, Write, control
  <2> QED  BY <1>2, <2>2, <2>3 DEF Done
<1>3. CASE ~Operate /\ ~Write
  BY <1>3 DEF Next, Environment, ReadLoop, Dispatcher, Send, Finish, Close, PushTo, Lend, SetProto,
              TakeHead, TakeBody, TakeLine, AuthReply, Signal, Upgrade, TakeFirst, TakeSecond, TakeExt,
              TakeKey, TakePayload, Unmask, HandleFrame, CountFrame, WritePong, TakeMessage, Leave,
              Wait, Get, Flush, Shut, Drain, Popping, Receive, Elsewhere, vars, channel
<1> QED  BY <1>1, <1>2, <1>3

\* Who is let in stays so, until the connection is gone.
LEMMA AuthedStays ==
  ASSUME StreamInv, [Next]_vars
  PROVE  authed' = authed \/ (AuthReply /\ authed')
<1>1. CASE TakeLine
  BY <1>1, LineTurns DEF control, Fail, Goto
<1>2. CASE AuthReply
  BY <1>2 DEF AuthReply, Fail
<1>3. CASE UNCHANGED vars
  BY <1>3 DEF vars, control
<1>4. CASE \/ SetProto \/ TakeHead \/ TakeBody \/ Operate \/ Signal \/ Upgrade \/ TakeFirst
           \/ TakeSecond \/ TakeExt \/ TakeKey \/ TakePayload \/ Unmask
  BY <1>4 DEF SetProto, TakeHead, TakeBody, Operate, Signal, Upgrade, TakeFirst, TakeSecond, TakeExt,
              TakeKey, TakePayload, Unmask, Popping, Receive, Goto, Fail, control
<1>5. CASE HandleFrame \/ CountFrame \/ WritePong \/ TakeMessage \/ Leave
  BY <1>5 DEF HandleFrame, CountFrame, WritePong, TakeMessage, Leave, Goto, Fail, Panic, control
<1>6. CASE Environment \/ Dispatcher
  BY <1>6 DEF Environment, Dispatcher, Send, Finish, Close, PushTo, Lend, Wait, Get, Write, Flush,
              Shut, Drain, control
<1> QED  BY <1>1, <1>2, <1>3, <1>4, <1>5, <1>6 DEF Next, ReadLoop

\* A slot is looked for before a request is read.
LEMMA TakenBefore ==
  ASSUME StreamInv, ControlInv, Next, authed', pc' \in Taken
  PROVE  authed /\ (pc \in Taken \/ (pc = "set" /\ HasSlot))
<1>1. {"close", "putrb", "set", "signal", "panic"} \cap Taken = {}
      /\ {"head", "body", "operate", "first", "count", "message"} \subseteq Taken
      /\ Framing \subseteq Taken /\ Exits \cap Taken = {}
  BY DEF Taken, Framing, Exits
<1> HIDE DEF Taken
<1>2. authed /\ ~AuthReply
  <2>1. ~AuthReply
    <3>1. ASSUME AuthReply PROVE pc' = "set" \/ pc' \in {"close", "putrb"}
      BY <3>1, ExitStarts DEF AuthReply, Fail, ControlInv
    <3> QED  BY <1>1, <3>1
  <2>2. authed' = authed
    BY <2>1, AuthedStays
  <2> QED  BY <2>1, <2>2
<1>3. CASE Environment \/ Dispatcher
  BY <1>2, <1>3 DEF Environment, Dispatcher, Send, Finish, Close, PushTo, Lend, Wait, Get, Write, Flush,
                    Shut, Drain, control
<1>4. CASE \/ TakeHead \/ TakeBody \/ Operate \/ TakeFirst \/ TakeSecond \/ TakeExt \/ TakeKey
           \/ TakePayload \/ Unmask \/ HandleFrame \/ CountFrame \/ WritePong \/ TakeMessage
  <2>1. pc \in {"head", "body", "operate", "first", "count", "message"} \cup Framing
    BY <1>4 DEF TakeHead, TakeBody, Operate, TakeFirst, TakeSecond, TakeExt, TakeKey, TakePayload,
                Unmask, HandleFrame, CountFrame, WritePong, TakeMessage, Framing
  <2> QED  BY <1>1, <1>2, <2>1
<1>5. CASE SetProto
  <2>1. pc = "set"
    BY <1>5 DEF SetProto
  <2>2. CASE ~HasSlot
    <3>1. pc' \in {"close", "putrb"}
      BY <1>5, <2>2, ExitStarts DEF SetProto, Fail, ControlInv
    <3> QED  BY <1>1, <3>1
  <2> QED  BY <1>2, <2>1, <2>2
<1>6. CASE TakeLine \/ Upgrade
  BY <1>2, <1>6 DEF TakeLine, Upgrade, ControlInv
<1>7. CASE Signal
  BY <1>1, <1>7 DEF Signal, Goto
<1>8. CASE Leave
  <2>1. pc' \in Exits
    BY <1>8, ExitGoesOn DEF Leave, Exits, ControlInv
  <2> QED  BY <1>1, <2>1
<1> QED  BY <1>2, <1>3, <1>4, <1>5, <1>6, <1>7, <1>8 DEF Next, ReadLoop

LEMMA RingStep ==
  ASSUME StreamInv, ControlInv, MessageInv, DispatchInv, RingInv, [Next]_vars
  PROVE  RingInv'
<1>1. Num \in Nat /\ Num >= 1 /\ Len(slots) \in Nat
  BY WireAssumption DEF RingInv
<1>2. CASE UNCHANGED vars
  BY <1>2 DEF RingInv, vars, channel, control
<1>3. CASE Next
  <2> HIDE DEF Requests, Taken
  <2>1. CASE UNCHANGED slots
    <3>1. authed' /\ pc' \in Taken => Len(slots) < Num
      BY <1>3, TakenBefore DEF RingInv, HasSlot
    <3>2. ~authed' => slots = <<>>
      <4>1. authed => authed'
        BY AuthedStays
      <4> QED  BY <4>1 DEF RingInv
    <3> QED  BY <2>1, <3>1, <3>2 DEF RingInv
  <2>2. CASE pc = "operate" /\ pc' = "signal" /\ authed /\ authed' = authed
             /\ \E p \in Requests : slots' = Append(slots, p)
    <3>1. pc \in Taken /\ pc' \notin Taken
      BY <2>2 DEF Taken, Framing
    <3>2. Len(slots) < Num
      BY <2>2, <3>1 DEF RingInv
    <3> QED  BY <1>1, <2>2, <3>1, <3>2 DEF RingInv
  <2>3. CASE slots # <<>> /\ slots' = Tail(slots) /\ UNCHANGED <<pc, authed>>
    <3>1. slots' \in Seq(Requests) /\ Len(slots') < Len(slots)
      BY <2>3 DEF RingInv
    <3> QED  BY <1>1, <2>3, <3>1 DEF RingInv
  <2> QED  BY <1>3, <2>1, <2>2, <2>3, RingMoves
<1> QED  BY <1>2, <1>3

\* What a step does to the channel of signals.
LEMMA SignalMoves ==
  ASSUME [Next]_vars
  PROVE  \/ UNCHANGED <<signal, pushed>>
         \/ PushTo
         \/ (Signal \/ (Leave /\ pc = "finish")) /\ UNCHANGED pushed /\ Len(signal) < SvrProto
            /\ \E x \in {"ready", "finish"} : signal' = Append(signal, [of |-> x, k |-> 0])
         \/ (Wait \/ Drain) /\ UNCHANGED pushed /\ signal # <<>> /\ signal' = Tail(signal)
<1>1. CASE PushTo
  BY <1>1
<1>2. CASE Signal
  BY <1>2 DEF Signal
<1>3. CASE Leave
  BY <1>3 DEF Leave
<1>4. CASE Wait \/ Drain
  BY <1>4 DEF Wait, Drain
<1>5. CASE UNCHANGED vars
  BY <1>5 DEF vars, channel
<1>6. CASE \/ SetProto \/ TakeHead \/ TakeBody \/ TakeLine \/ Upgrade \/ TakeFirst
           \/ TakeSecond \/ TakeExt \/ TakeKey \/ TakePayload \/ Unmask
  BY <1>6 DEF SetProto, TakeHead, TakeBody, TakeLine, Upgrade, TakeFirst, TakeSecond, TakeExt,
              TakeKey, TakePayload, Unmask, Popping, Receive, Elsewhere, channel
<1>7. CASE \/ Operate \/ AuthReply \/ HandleFrame \/ CountFrame \/ WritePong \/ TakeMessage
           \/ Send \/ Finish \/ Close \/ Lend \/ Get \/ Write \/ Flush \/ Shut
  BY <1>7 DEF Operate, AuthReply, HandleFrame, CountFrame, WritePong, TakeMessage, Send, Finish, Close,
              Lend, Get, Write, Flush, Shut, Elsewhere, channel
<1> QED  BY <1>1, <1>2, <1>3, <1>4, <1>5, <1>6, <1>7 DEF Next, Environment, ReadLoop, Dispatcher

LEMMA SignalStep ==
  ASSUME script \in Scripts, script' = script, SignalInv, [Next]_vars
  PROVE  SignalInv'
<1>1. /\ SvrProto \in Nat /\ Len(signal) \in Nat /\ Len(script.pushes) \in Nat
      /\ pushed \in 0..Len(script.pushes)
  <2>1. script.pushes \in Seq(Nat)
    BY ScriptFacts DEF ScriptType
  <2> QED  BY <2>1, WireAssumption DEF SignalInv
<1>2. Messages' = Messages
  BY DEF Messages
<1>3. ASSUME NEW m \in Messages, Len(signal) < SvrProto, signal' = Append(signal, m)
      PROVE  signal' \in Seq(Messages) /\ Len(signal') <= SvrProto
  <2> HIDE DEF Messages
  <2> QED  BY <1>1, <1>3 DEF SignalInv
<1>4. CASE UNCHANGED <<signal, pushed>>
  BY <1>2, <1>4 DEF SignalInv
<1>5. CASE PushTo
  <2>1. pushed' = pushed + 1 /\ pushed < Len(script.pushes)
    BY <1>5 DEF PushTo
  <2>2. [of |-> "push", k |-> pushed + 1] \in Messages
    BY <1>1, <2>1 DEF Messages
  <2>3. signal' = signal \/ (Len(signal) < SvrProto /\ signal' = Append(signal, [of |-> "push", k |-> pushed + 1]))
    BY <1>5 DEF PushTo
  <2> HIDE DEF Messages
  <2> QED  BY <1>1, <1>2, <1>3, <2>1, <2>2, <2>3 DEF SignalInv
<1>6. ASSUME UNCHANGED pushed, Len(signal) < SvrProto, NEW x \in {"ready", "finish"},
             signal' = Append(signal, [of |-> x, k |-> 0])
      PROVE  SignalInv'
  <2>1. [of |-> x, k |-> 0] \in Messages
    BY DEF Messages
  <2> HIDE DEF Messages
  <2> QED  BY <1>2, <1>3, <1>6, <2>1 DEF SignalInv
<1>7. CASE UNCHANGED pushed /\ signal # <<>> /\ signal' = Tail(signal)
  <2>1. Tail(signal) \in Seq(Messages) /\ Len(Tail(signal)) < Len(signal)
    BY <1>7, FirstSignal
  <2> HIDE DEF Messages
  <2>2. Len(Tail(signal)) \in Nat
    BY <2>1
  <2> QED  BY <1>1, <1>2, <1>7, <2>1, <2>2 DEF SignalInv
<1> QED  BY <1>4, <1>5, <1>6, <1>7, SignalMoves

\* An item is begun with the first of its writes.
LEMMA BeginsItem ==
  ASSUME script' = script, script.ws \in BOOLEAN, NEW it, ItemOK(it), it.of # "pong", Begin(it),
         it.of = "reply" => slots' # <<>>
  PROVE  DispatchInv'
<1>1. item' = it /\ dpc' = Head(Writes(it))
  BY DEF Begin, DGoto
<1>2. Writes(item)' = Writes(it)
  BY <1>1 DEF Writes, WriteTCP, WriteWebsocket, HeadOf
<1>3. /\ Len(Writes(it)) \in 1..3 /\ Head(Writes(it)) = Writes(it)[1]
  BY WritesAre
<1>4. \E j \in 1..Len(Writes(it)) : Writes(it)[j] = dpc'
  BY <1>1, <1>3
<1> QED  BY <1>1, <1>2, <1>4 DEF DispatchInv

LEMMA DispatchStep ==
  ASSUME StreamInv, ControlInv, MessageInv, RingInv, SignalInv, DispatchInv, [Next]_vars,
         script' = script
  PROVE  DispatchInv'
<1>1. script \in Scripts /\ script.ws \in BOOLEAN
  BY DEF StreamInv, ControlInv
<1>2. ASSUME item' = item PROVE Writes(item)' = Writes(item)
  BY <1>2 DEF Writes, WriteTCP, WriteWebsocket, HeadOf
<1>3. ASSUME dpc' \notin Writing PROVE DispatchInv'
  BY <1>3 DEF DispatchInv
<1>4. CASE Wait
  <2>1. Head(signal).of \in {"ready", "finish", "push"}
        /\ (Head(signal).of = "push" => Head(signal).k \in 1..Len(script.pushes))
    BY <1>4, FirstSignal DEF Wait
  <2>2. CASE Head(signal).of \in {"ready", "finish"}
    BY <1>3, <1>4, <2>2 DEF Wait, DGoto, Writing
  <2>3. CASE Head(signal).of = "push"
    <3> DEFINE it == Push(Head(signal).k)
    <3>1. Begin(it)
      BY <1>4, <2>3 DEF Wait
    <3>2. ItemOK(it) /\ it.of = "push"
      BY <1>1, <2>1, <2>3, PushIsItem
    <3> HIDE DEF it
    <3> QED  BY <1>1, <3>1, <3>2, BeginsItem
  <2> QED  BY <2>1, <2>2, <2>3
<1>5. CASE Get
  <2>1. CASE slots = <<>>
    BY <1>3, <1>5, <2>1 DEF Get, DGoto, Writing
  <2>2. CASE slots # <<>>
    <3> DEFINE it == Reply(Head(slots))
    <3>1. Begin(it) /\ slots' = slots
      BY <1>5, <2>2 DEF Get, channel
    <3>2. Head(slots) \in Requests
      <4> HIDE DEF Requests
      <4> QED  BY <2>2 DEF RingInv
    <3>3. ItemOK(it) /\ it.of = "reply"
      BY <3>2, ReplyIsItem
    <3> HIDE DEF it
    <3> QED  BY <1>1, <2>2, <3>1, <3>3, BeginsItem
  <2> QED  BY <2>1, <2>2
<1>6. CASE Write
  <2>1. dpc \in Writing /\ item' = item
    BY <1>6, WriteGoesOn DEF Write
  <2>2. CASE wr'.err
    <3>1. dpc' = "shut"
      BY <1>6, <2>2, WriteGoesOn
    <3> QED  BY <1>3, <3>1 DEF Writing
  <2>3. CASE Done
    BY <1>3, <2>3 DEF Done, DGoto, Writing
  <2>4. ASSUME UNCHANGED slots, NEW j \in 1..Len(Writes(item))-1, dpc' = Writes(item)[j + 1]
        PROVE  DispatchInv'
    <3>1. Len(Writes(item)) \in 1..3
      BY <1>1, WritesAre
    <3>2. j + 1 \in 1..Len(Writes(item))
      BY <2>4, <3>1
    <3> QED  BY <1>2, <2>1, <2>4, <3>2 DEF DispatchInv
  <2> QED  BY <1>6, <2>2, <2>3, <2>4, WriteGoesOn
<1>7. CASE Flush \/ Shut \/ Drain
  BY <1>3, <1>7 DEF Flush, Shut, Drain, DGoto, Writing
<1>8. CASE AuthReply
  <2>1. dpc' = "wait" \/ dpc' = dpc
    BY <1>8 DEF AuthReply
  <2>2. dpc = "none"
    BY <1>8 DEF AuthReply, ControlInv
  <2> QED  BY <1>3, <2>1, <2>2 DEF Writing
<1>9. CASE ~(Dispatcher \/ AuthReply)
  <2>1. UNCHANGED <<dpc, item>>
    BY <1>9 DEF Next, Environment, ReadLoop, Dispatcher, Send, Finish, Close, PushTo, Lend, SetProto,
              TakeHead, TakeBody, TakeLine, Operate, Signal, Upgrade, TakeFirst, TakeSecond, TakeExt,
              TakeKey, TakePayload, Unmask, HandleFrame, CountFrame, WritePong, TakeMessage, Leave,
              Popping, Receive, Elsewhere, vars, dispatch, writing
  <2>2. slots # <<>> => slots' # <<>>
    <3>1. CASE UNCHANGED slots
      BY <3>1
    <3>2. ASSUME NEW p \in Requests, slots' = Append(slots, p) PROVE slots' # <<>>
      <4> HIDE DEF Requests
      <4> QED  BY <3>2 DEF RingInv
    <3>3. ~Write
      BY <1>9 DEF Dispatcher
    <3> QED  BY <3>1, <3>2, <3>3, RingMoves
  <2> QED  BY <1>2, <2>1, <2>2 DEF DispatchInv
<1> QED  BY <1>4, <1>5, <1>6, <1>7, <1>8, <1>9 DEF Dispatcher

-----------------------------------------------------------------------------
(* The buffered writer *)

Writers(S) == {s \in [buf : Seq(S), err : BOOLEAN, to : Seq(S)] : Len(s.buf) <= WSize}

\* All that was written to it, until a write failed.
Sofar(s) == IF s.err THEN s.to ELSE s.to \o s.buf

Starts(a, b) == Len(a) <= Len(b) /\ \A i \in 1..Len(a) : a[i] = b[i]

\* From state s to t p was written, or a part of it and then no more.
Puts(s, p, t) ==
    /\ s.err => t = s
    /\ ~s.err => Starts(Sofar(t), Sofar(s) \o p)
    /\ ~s.err /\ ~t.err => Len(Sofar(t)) = Len(Sofar(s)) + Len(p)

LEMMA WSizeFacts == WSize \in Nat /\ WSize >= 1
  BY WriterAssumption

LEMMA WriterFacts ==
  ASSUME NEW S, NEW s \in Writers(S)
  PROVE  /\ s.buf \in Seq(S) /\ s.to \in Seq(S) /\ s.err \in BOOLEAN
         /\ Len(s.buf) \in Nat /\ Len(s.to) \in Nat /\ Len(s.buf) <= WSize
         /\ Available(s) \in Nat /\ Available(s) = WSize - Len(s.buf)
         /\ Sofar(s) \in Seq(S) /\ Len(Sofar(s)) \in Nat
<1>1. /\ s.buf \in Seq(S) /\ s.to \in Seq(S) /\ s.err \in BOOLEAN
      /\ Len(s.buf) <= WSize
  BY DEF Writers
<1>2. s.to \o s.buf \in Seq(S)
  BY <1>1
<1>3. Len(s.buf) \in Nat /\ Len(s.to) \in Nat
  BY <1>1
<1>4. Available(s) \in Nat /\ Available(s) = WSize - Len(s.buf)
  BY <1>1, <1>3, WSizeFacts DEF Available
<1>5. Sofar(s) \in Seq(S)
  BY <1>1, <1>2 DEF Sofar
<1>6. Len(Sofar(s)) \in Nat
  BY <1>5
<1> QED  BY <1>1, <1>3, <1>4, <1>5, <1>6

\* The parts of a writer, as sequences of their own.
LEMMA WriterParts ==
  ASSUME NEW S, NEW s \in Writers(S)
  PROVE  \E b \in Seq(S), o \in Seq(S) :
            /\ s.buf = b /\ s.to = o /\ Len(b) <= WSize
            /\ ~s.err => s = [buf |-> b, err |-> FALSE, to |-> o] /\ Sofar(s) = o \o b
  BY DEF Writers, Sofar

LEMMA FirstCells ==
  ASSUME NEW S, NEW p \in Seq(S), NEW n \in 0..Len(p)
  PROVE  /\ First(p, n) \in Seq(S) /\ Len(First(p, n)) = n
         /\ \A i \in 1..n : First(p, n)[i] = p[i]
         /\ After(p, n) \in Seq(S) /\ Len(After(p, n)) = Len(p) - n
         /\ First(p, n) \o After(p, n) = p
<1>1. Len(p) \in Nat /\ n \in Int /\ 1 \in Int /\ n + 1 \in Int /\ Len(p) \in Int
  OBVIOUS
<1>2. (\A i \in 1..n : p[i] \in S) /\ (\A i \in n+1..Len(p) : p[i] \in S)
  BY <1>1, ElementOfSeq
<1>3. /\ First(p, n) \in Seq(S) /\ Len(First(p, n)) = IF 1 <= n THEN n - 1 + 1 ELSE 0
      /\ \A i \in 1..n-1+1 : First(p, n)[i] = p[1 + i - 1]
  BY <1>1, <1>2, SubSeqProperties DEF First
<1>4. /\ After(p, n) \in Seq(S)
      /\ Len(After(p, n)) = IF n + 1 <= Len(p) THEN Len(p) - (n + 1) + 1 ELSE 0
  BY <1>1, <1>2, SubSeqProperties DEF After
<1>5. SubSeq(p, 1, n) \o SubSeq(p, n + 1, Len(p)) = SubSeq(p, 1, Len(p))
  <2>1. 1 \in 1..Len(p)+1 /\ n \in 1-1..Len(p) /\ Len(p) \in n..Len(p)
    BY <1>1
  <2> QED  BY <2>1, ConcatAdjacentSubSeq
<1>6. First(p, n) \o After(p, n) = p
  BY <1>5, SubSeqFull DEF First, After
<1> QED  BY <1>1, <1>3, <1>4, <1>6

\* What is in the front of a sequence, and behind it.
LEMMA StartsLonger ==
  ASSUME NEW S, NEW a \in Seq(S), NEW b \in Seq(S), NEW c \in Seq(S), Starts(a, b)
  PROVE  Starts(a, b \o c)
<1>1. /\ Len(b \o c) = Len(b) + Len(c)
      /\ \A i \in 1..Len(b)+Len(c) : (b \o c)[i] = IF i <= Len(b) THEN b[i] ELSE c[i - Len(b)]
  BY ConcatProperties
<1>2. Len(a) \in Nat /\ Len(b) \in Nat /\ Len(c) \in Nat
  OBVIOUS
<1> QED  BY <1>1, <1>2 DEF Starts

LEMMA StartsBehind ==
  ASSUME NEW S, NEW a \in Seq(S), NEW b \in Seq(S), NEW c \in Seq(S), NEW d \in Seq(S),
         Starts(a, b), Len(a) = Len(b), NEW e \in Seq(S), Starts(e, a \o c), Starts(c, d)
  PROVE  Starts(e, b \o d)
<1>1. /\ Len(b \o d) = Len(b) + Len(d)
      /\ \A i \in 1..Len(b)+Len(d) : (b \o d)[i] = IF i <= Len(b) THEN b[i] ELSE d[i - Len(b)]
  BY ConcatProperties
<1>2. /\ Len(a \o c) = Len(a) + Len(c)
      /\ \A i \in 1..Len(a)+Len(c) : (a \o c)[i] = IF i <= Len(a) THEN a[i] ELSE c[i - Len(a)]
  BY ConcatProperties
<1>3. Len(a) \in Nat /\ Len(b) \in Nat /\ Len(c) \in Nat /\ Len(d) \in Nat /\ Len(e) \in Nat
  OBVIOUS
<1>4. Len(e) <= Len(b) + Len(d)
  BY <1>2, <1>3 DEF Starts
<1>5. ASSUME NEW i \in 1..Len(e) PROVE e[i] = (b \o d)[i]
  <2>1. e[i] = (a \o c)[i] /\ i \in 1..Len(a)+Len(c)
    BY <1>2, <1>3 DEF Starts
  <2>2. CASE i <= Len(a)
    <3>1. e[i] = a[i] /\ i \in 1..Len(a)
      BY <1>2, <1>3, <2>1, <2>2
    <3>2. a[i] = b[i]
      BY <3>1 DEF Starts
    <3> QED  BY <1>1, <1>3, <1>4, <2>2, <3>1, <3>2
  <2>3. CASE ~(i <= Len(a))
    <3>1. e[i] = c[i - Len(a)] /\ i - Len(a) \in 1..Len(c)
      BY <1>2, <1>3, <2>1, <2>3
    <3>2. c[i - Len(a)] = d[i - Len(a)]
      BY <3>1 DEF Starts
    <3> QED  BY <1>1, <1>3, <1>4, <2>3, <3>1, <3>2
  <2> QED  BY <2>2, <2>3
<1> QED  BY <1>1, <1>4, <1>5 DEF Starts

\* One write after the other.
LEMMA PutsThen ==
  ASSUME NEW S, NEW s \in Writers(S), NEW t \in Writers(S), NEW u \in Writers(S),
         NEW p \in Seq(S), NEW q \in Seq(S), Puts(s, p, t), Puts(t, q, u)
  PROVE  Puts(s, p \o q, u)
<1>1. /\ Sofar(s) \in Seq(S) /\ Sofar(t) \in Seq(S) /\ Sofar(u) \in Seq(S)
      /\ s.err \in BOOLEAN /\ t.err \in BOOLEAN /\ u.err \in BOOLEAN
  BY WriterFacts
<1>2. p \o q \in Seq(S) /\ Sofar(s) \o p \in Seq(S)
  BY <1>1
<1>3. CASE s.err
  BY <1>3 DEF Puts
<1>4. CASE ~s.err /\ t.err
  <2>1. u = t /\ Starts(Sofar(t), Sofar(s) \o p)
    BY <1>4 DEF Puts
  <2>2. Starts(Sofar(t), (Sofar(s) \o p) \o q)
    BY <1>1, <1>2, <2>1, StartsLonger
  <2>3. (Sofar(s) \o p) \o q = Sofar(s) \o (p \o q)
    BY <1>1, ConcatAssociative, SMTT(30)
  <2> QED  BY <1>4, <2>1, <2>2, <2>3 DEF Puts
<1>5. CASE ~s.err /\ ~t.err
  <2>1. /\ Starts(Sofar(t), Sofar(s) \o p) /\ Len(Sofar(t)) = Len(Sofar(s)) + Len(p)
        /\ Starts(Sofar(u), Sofar(t) \o q)
        /\ ~u.err => Len(Sofar(u)) = Len(Sofar(t)) + Len(q)
    BY <1>5 DEF Puts
  <2>2. Len(Sofar(s) \o p) = Len(Sofar(s)) + Len(p) /\ Len(p \o q) = Len(p) + Len(q)
    BY <1>1, ConcatProperties
  <2>3. Starts(q, q)
    BY DEF Starts
  <2>4. Starts(Sofar(u), (Sofar(s) \o p) \o q)
    BY <1>1, <1>2, <2>1, <2>2, <2>3, StartsBehind, ZenonT(40)
  <2>5. (Sofar(s) \o p) \o q = Sofar(s) \o (p \o q)
    BY <1>1, ConcatAssociative, SMTT(30)
  <2>6. Len(Sofar(s)) \in Nat /\ Len(p) \in Nat /\ Len(q) \in Nat
    BY <1>1
  <2> QED  BY <1>5, <2>1, <2>2, <2>4, <2>5, <2>6 DEF Puts
<1> QED  BY <1>1, <1>3, <1>4, <1>5

\* The first cells that were put, and all of them.
LEMMA PutsPart ==
  ASSUME NEW S, NEW s \in Writers(S), NEW t \in Writers(S), NEW p \in Seq(S),
         ~s.err, NEW n \in 0..Len(p), Sofar(t) = Sofar(s) \o First(p, n), ~t.err => n = Len(p)
  PROVE  Puts(s, p, t)
<1>1. Sofar(s) \in Seq(S) /\ Len(Sofar(s)) \in Nat /\ Len(p) \in Nat /\ t.err \in BOOLEAN
  BY WriterFacts
<1>2. First(p, n) \in Seq(S) /\ Len(First(p, n)) = n /\ \A i \in 1..n : First(p, n)[i] = p[i]
  BY FirstCells
<1>3. Starts(First(p, n), p) /\ Starts(Sofar(s), Sofar(s))
  BY <1>1, <1>2 DEF Starts
<1>4. Sofar(t) \in Seq(S)
  BY WriterFacts
<1>5. Starts(Sofar(s) \o First(p, n), Sofar(s) \o First(p, n))
  BY DEF Starts
<1>6. Starts(Sofar(t), Sofar(s) \o p)
  BY <1>1, <1>2, <1>3, <1>4, <1>5, StartsBehind, ZenonT(40)
<1>7. Len(Sofar(t)) = Len(Sofar(s)) + n
  <2>1. PICK a \in Seq(S), f \in Seq(S) : a = Sofar(s) /\ f = First(p, n)
    BY <1>1, <1>2
  <2>2. Len(a \o f) = Len(a) + Len(f)
    OBVIOUS
  <2> QED  BY <1>2, <2>1, <2>2
<1> QED  BY <1>6, <1>7 DEF Puts

LEMMA CutsAre ==
  ASSUME NEW m \in Nat, NEW closed \in BOOLEAN, NEW n \in Cuts(m, closed)
  PROVE  n \in 0..m
  BY DEF Cuts

LEMMA StoredPuts ==
  ASSUME NEW S, NEW s \in Writers(S), NEW p \in Seq(S), s.err \/ Len(p) <= Available(s),
         NEW t, t = Stored(s, p)
  PROVE  t \in Writers(S) /\ Puts(s, p, t)
<1>1. CASE s.err
  <2>1. t = s
    BY <1>1 DEF Stored
  <2> QED  BY <1>1, <2>1 DEF Puts
<1>2. CASE ~s.err
  <2>1. PICK b \in Seq(S), o \in Seq(S) : b = s.buf /\ o = s.to
    BY WriterFacts
  <2>2. s = [buf |-> b, err |-> FALSE, to |-> o] /\ Len(b) <= WSize /\ Available(s) = WSize - Len(b)
    BY <1>2, <2>1 DEF Writers, Available
  <2>3. Stored(s, p) = [buf |-> b \o p, err |-> FALSE, to |-> o]
    BY <1>2, <2>2 DEF Stored
  <2>4. b \o p \in Seq(S) /\ Len(b \o p) = Len(b) + Len(p) /\ Len(b) \in Nat /\ Len(p) \in Nat
    OBVIOUS
  <2>5. PICK q \in Seq(S) : q = b \o p /\ Len(q) <= WSize
    <3>1. Len(b \o p) <= WSize
      BY <1>2, <2>2, <2>4, WSizeFacts
    <3> QED  BY <2>4, <3>1
  <2>6. t = [buf |-> q, err |-> FALSE, to |-> o]
    BY <2>3, <2>5
  <2>7. t \in Writers(S) /\ Sofar(t) = o \o q
    <3>1. Len(q) <= WSize
      BY <2>5
    <3>2. t \in Writers(S)
      BY <2>6, <3>1 DEF Writers
    <3>3. t.err = FALSE /\ t.to = o /\ t.buf = q
      BY <2>6
    <3>4. Sofar(t) = o \o q
      BY <3>3 DEF Sofar
    <3> QED  BY <3>2, <3>4
  <2>8. Sofar(s) = o \o b
    BY <2>2 DEF Sofar
  <2>9. (o \o b) \o p = o \o (b \o p)
    BY ConcatAssociative, SMTT(30)
  <2>10. First(p, Len(p)) = p /\ Len(p) \in 0..Len(p)
    BY <2>4, SubSeqFull DEF First
  <2>11. Puts(s, p, t)
    BY <1>2, <2>5, <2>7, <2>8, <2>9, <2>10, PutsPart
  <2> QED  BY <2>7, <2>11
<1> QED  BY <1>1, <1>2

LEMMA DirectPuts ==
  ASSUME NEW S, NEW s \in Writers(S), NEW p \in Seq(S), NEW closed \in BOOLEAN,
         ~s.err, s.buf = <<>>, NEW t \in Direct(s, p, closed)
  PROVE  t \in Writers(S) /\ Puts(s, p, t)
<1>1. PICK b \in Seq(S), o \in Seq(S) :
        /\ s.buf = b /\ s.to = o /\ Len(b) <= WSize
        /\ s = [buf |-> b, err |-> FALSE, to |-> o] /\ Sofar(s) = o \o b
  BY WriterParts
<1>2. b = <<>> /\ Sofar(s) = o
  <2>1. o \o <<>> = o
    BY ConcatEmptySeq
  <2> QED  BY <1>1, <2>1
<1>3. ASSUME NEW n \in Cuts(Len(p), closed), t = [s EXCEPT !.to = @ \o First(p, n), !.err = TRUE]
      PROVE  t \in Writers(S) /\ Puts(s, p, t)
  <2>1. n \in 0..Len(p)
    BY CutsAre
  <2>2. PICK f \in Seq(S) : f = First(p, n)
    BY <2>1, FirstCells
  <2>3. PICK q \in Seq(S) : q = o \o f
    <3>1. o \o f \in Seq(S)
      OBVIOUS
    <3> QED  BY <3>1
  <2>4. t = [buf |-> b, err |-> TRUE, to |-> q]
    BY <1>1, <1>3, <2>2, <2>3
  <2>5. t \in Writers(S) /\ Sofar(t) = o \o f /\ t.err = TRUE
    BY <1>1, <2>3, <2>4 DEF Writers, Sofar
  <2> QED  BY <1>2, <2>1, <2>2, <2>5, PutsPart
<1>4. ASSUME t = [s EXCEPT !.to = @ \o p] PROVE t \in Writers(S) /\ Puts(s, p, t)
  <2>1. PICK q \in Seq(S) : q = o \o p
    <3>1. o \o p \in Seq(S)
      OBVIOUS
    <3> QED  BY <3>1
  <2>2. t = [buf |-> b, err |-> FALSE, to |-> q]
    <3>1. s = [buf |-> b, err |-> FALSE, to |-> o]
      BY <1>1
    <3> QED  BY <1>4, <2>1, <3>1
  <2>3. t \in Writers(S) /\ Sofar(t) = q \o b
    BY <1>1, <2>2 DEF Writers, Sofar
  <2>4. q \o <<>> = q
    BY ConcatEmptySeq
  <2>5. First(p, Len(p)) = p
    BY SubSeqFull DEF First
  <2>6. Len(p) \in 0..Len(p)
    OBVIOUS
  <2> QED  BY <1>2, <2>1, <2>3, <2>4, <2>5, <2>6, PutsPart
<1> QED  BY <1>3, <1>4 DEF Direct

LEMMA FlushedPuts ==
  ASSUME NEW S, NEW s \in Writers(S), NEW closed \in BOOLEAN, NEW t \in Flushed(s, closed)
  PROVE  t \in Writers(S) /\ Puts(s, <<>>, t) /\ (t.err \/ t.buf = <<>>) /\ (s.err => t = s)
<1>1. PICK b \in Seq(S), o \in Seq(S) :
        /\ s.buf = b /\ s.to = o /\ Len(b) <= WSize
        /\ ~s.err => s = [buf |-> b, err |-> FALSE, to |-> o] /\ Sofar(s) = o \o b
  BY WriterParts
<1>2. PICK a \in Seq(S) : a = Sofar(s)
  BY WriterFacts
<1>3. a \o <<>> = a
  BY ConcatEmptySeq
<1>4. Starts(a, a)
  BY DEF Starts
<1>5. Len(b) \in Nat /\ Len(a) \in Nat /\ <<>> \in Seq(S) /\ Len(<<>>) = 0
  OBVIOUS
<1>6. CASE s.err \/ s.buf = <<>>
  <2>1. t = s
    BY <1>6 DEF Flushed
  <2> QED  BY <1>2, <1>3, <1>4, <1>5, <1>6, <2>1 DEF Puts
<1>7. CASE ~s.err /\ s.buf # <<>>
  <2>1. a = o \o b /\ Len(b) > 0
    <3>1. Len(b) # 0
      BY <1>1, <1>7
    <3> QED  BY <1>1, <1>2, <1>5, <1>7, <3>1
  <2>2. ASSUME NEW n \in Cuts(Len(s.buf), closed),
               t = [buf |-> After(s.buf, n), err |-> TRUE, to |-> s.to \o First(s.buf, n)]
        PROVE  t \in Writers(S) /\ Puts(s, <<>>, t) /\ t.err
    <3>1. n \in 0..Len(b)
      BY <1>1, <1>5, <2>1, CutsAre
    <3>2. PICK f \in Seq(S), g \in Seq(S) :
            f = First(b, n) /\ g = After(b, n) /\ Len(g) = Len(b) - n /\ f \o g = b
      <4>1. First(b, n) \in Seq(S) /\ After(b, n) \in Seq(S)
            /\ Len(After(b, n)) = Len(b) - n /\ First(b, n) \o After(b, n) = b
        BY <3>1, FirstCells
      <4> QED  BY <4>1
    <3>3. PICK q \in Seq(S) : q = o \o f
      <4>1. o \o f \in Seq(S)
        OBVIOUS
      <4> QED  BY <4>1
    <3>4. t = [buf |-> g, err |-> TRUE, to |-> q] /\ Len(g) <= WSize
      BY <1>1, <1>5, <2>2, <3>1, <3>2, <3>3, WSizeFacts
    <3>5. t \in Writers(S) /\ Sofar(t) = q /\ t.err = TRUE
      BY <3>4 DEF Writers, Sofar
    <3>6. Starts(q, q)
      BY DEF Starts
    <3>7. Starts(q, q \o g)
      BY <3>6, StartsLonger
    <3>8. q \o g = a
      <4>1. (o \o f) \o g = o \o (f \o g)
        BY ConcatAssociative, SMTT(30)
      <4> QED  BY <2>1, <3>2, <3>3, <4>1
    <3> QED  BY <1>2, <1>3, <1>7, <3>5, <3>7, <3>8 DEF Puts
  <2>3. ASSUME t = [s EXCEPT !.buf = <<>>, !.to = @ \o s.buf]
        PROVE  t \in Writers(S) /\ Puts(s, <<>>, t) /\ t.buf = <<>>
    <3>1. t = [buf |-> <<>>, err |-> FALSE, to |-> a]
      <4>1. s = [buf |-> b, err |-> FALSE, to |-> o]
        BY <1>1, <1>7
      <4> QED  BY <2>1, <2>3, <4>1
    <3>2. Len(<<>>) <= WSize
      BY <1>5, WSizeFacts
    <3>3. t \in Writers(S) /\ Sofar(t) = a /\ t.buf = <<>>
      BY <1>3, <1>5, <3>1, <3>2 DEF Writers, Sofar
    <3> QED  BY <1>2, <1>3, <1>4, <1>5, <1>7, <3>3 DEF Puts
  <2> QED  BY <1>7, <2>2, <2>3 DEF Flushed
<1> QED  BY <1>6, <1>7

\* Peek of the writer: room for p is made, for what fits.
LEMMA PeekedPuts ==
  ASSUME NEW S, NEW s \in Writers(S), NEW p \in Seq(S), NEW closed \in BOOLEAN,
         Len(p) <= WSize, NEW t \in Peeked(s, p, closed)
  PROVE  t \in Writers(S) /\ Puts(s, p, t)
<1>1. CASE s.err \/ Len(p) <= Available(s)
  <2>1. t = Stored(s, p)
    BY <1>1 DEF Peeked
  <2> QED  BY <1>1, <2>1, StoredPuts
<1>2. CASE ~(s.err \/ Len(p) <= Available(s))
  <2>1. PICK u \in Flushed(s, closed) : t = Stored(u, p)
    BY <1>2 DEF Peeked
  <2>2. u \in Writers(S) /\ Puts(s, <<>>, u) /\ (u.err \/ u.buf = <<>>)
    BY <2>1, FlushedPuts
  <2>3. u.err \/ Len(p) <= Available(u)
    <3>1. CASE u.buf = <<>>
      <4>1. Len(u.buf) = 0
        BY <3>1
      <4>2. Available(u) = WSize
        BY <4>1, WSizeFacts DEF Available
      <4> QED  BY <4>2
    <3> QED  BY <2>2, <3>1
  <2>4. t \in Writers(S) /\ Puts(u, p, t)
    BY <2>1, <2>2, <2>3, StoredPuts
  <2>5. <<>> \in Seq(S) /\ <<>> \o p = p
    BY ConcatEmptySeq
  <2>6. Puts(s, <<>> \o p, t)
    BY <2>2, <2>4, <2>5, PutsThen
  <2> QED  BY <2>4, <2>5, <2>6
<1> QED  BY <1>1, <1>2

LEMMA RestPuts ==
  ASSUME NEW S, NEW s \in Writers(S), NEW p \in Seq(S), NEW closed \in BOOLEAN,
         s.err \/ s.buf = <<>>, NEW t \in Rest(s, p, closed)
  PROVE  t \in Writers(S) /\ Puts(s, p, t)
<1>1. CASE s.err \/ Len(p) <= WSize
  <2>1. t = Stored(s, p)
    BY <1>1 DEF Rest
  <2>2. s.err \/ Len(p) <= Available(s)
    <3>1. CASE s.buf = <<>>
      <4>1. Len(s.buf) = 0
        BY <3>1
      <4>2. Available(s) = WSize
        BY <4>1, WSizeFacts DEF Available
      <4> QED  BY <1>1, <4>2
    <3> QED  BY <3>1
  <2> QED  BY <2>1, <2>2, StoredPuts
<1>2. CASE ~(s.err \/ Len(p) <= WSize)
  <2>1. t \in Direct(s, p, closed) /\ ~s.err /\ s.buf = <<>>
    BY <1>2 DEF Rest
  <2> QED  BY <2>1, DirectPuts
<1> QED  BY <1>1, <1>2

\* Write: the buffer is filled up, and the rest comes after it.
LEMMA WrittenPuts ==
  ASSUME NEW S, NEW s \in Writers(S), NEW p \in Seq(S), NEW closed \in BOOLEAN,
         NEW t \in Written(s, p, closed)
  PROVE  t \in Writers(S) /\ Puts(s, p, t)
<1>1. Available(s) \in Nat /\ Len(p) \in Nat
  BY WriterFacts
<1>2. CASE s.err \/ Len(p) <= Available(s)
  <2>1. t = Stored(s, p)
    BY <1>2 DEF Written
  <2> QED  BY <1>2, <2>1, StoredPuts
<1>3. CASE ~(s.err \/ Len(p) <= Available(s)) /\ s.buf = <<>>
  <2>1. t \in Direct(s, p, closed) /\ ~s.err
    BY <1>3 DEF Written
  <2> QED  BY <1>3, <2>1, DirectPuts
<1>4. CASE ~(s.err \/ Len(p) <= Available(s)) /\ s.buf # <<>>
  <2>1. PICK n \in 0..Len(p) : n = Available(s)
    BY <1>1, <1>4
  <2>2. PICK f \in Seq(S), g \in Seq(S) : f = First(p, n) /\ g = After(p, n) /\ f \o g = p /\ Len(f) = n
    <3>1. First(p, n) \in Seq(S) /\ After(p, n) \in Seq(S) /\ First(p, n) \o After(p, n) = p
          /\ Len(First(p, n)) = n
      BY <2>1, FirstCells
    <3> QED  BY <3>1
  <2>3. PICK v : v = Stored(s, f)
    OBVIOUS
  <2>4. PICK u \in Flushed(v, closed) : t \in Rest(u, g, closed)
    BY <1>4, <2>1, <2>2, <2>3 DEF Written
  <2>5. v \in Writers(S) /\ Puts(s, f, v)
    BY <1>1, <2>1, <2>2, <2>3, StoredPuts
  <2>6. u \in Writers(S) /\ Puts(v, <<>>, u) /\ (u.err \/ u.buf = <<>>)
    BY <2>4, <2>5, FlushedPuts
  <2>7. t \in Writers(S) /\ Puts(u, g, t)
    BY <2>4, <2>6, RestPuts
  <2>8. <<>> \in Seq(S) /\ f \o <<>> = f
    BY ConcatEmptySeq
  <2>9. Puts(s, f \o <<>>, u)
    BY <2>5, <2>6, <2>8, PutsThen
  <2>10. Puts(s, f, u)
    BY <2>8, <2>9
  <2>11. Puts(s, f \o g, t)
    BY <2>6, <2>7, <2>10, PutsThen
  <2> QED  BY <2>2, <2>7, <2>11
<1> QED  BY <1>2, <1>3, <1>4

LEMMA WrittenRawPuts ==
  ASSUME NEW S, NEW s \in Writers(S), NEW p \in Seq(S), NEW closed \in BOOLEAN,
         NEW t \in WrittenRaw(s, p, closed)
  PROVE  t \in Writers(S) /\ Puts(s, p, t)
<1>1. CASE s.err
  BY <1>1 DEF WrittenRaw, Puts
<1>2. CASE ~s.err /\ s.buf = <<>>
  BY <1>2, DirectPuts DEF WrittenRaw
<1>3. CASE ~s.err /\ s.buf # <<>>
  BY <1>3, WrittenPuts DEF WrittenRaw
<1> QED  BY <1>1, <1>2, <1>3

LEMMA Division ==
  ASSUME NEW m \in Nat, NEW d \in Nat \ {0}
  PROVE  m \div d \in Nat /\ (m \div d) * d <= m /\ m < (m \div d) * d + d
  OBVIOUS

LEMMA Multiples ==
  ASSUME NEW a \in Nat, NEW b \in Nat, NEW d \in Nat \ {0}, a * d < b * d
  PROVE  (a + 1) * d = a * d + d /\ (a + 1) * d <= b * d
<1>1. a < b
  <2> SUFFICES ASSUME a >= b PROVE FALSE
    OBVIOUS
  <2>1. PICK c \in Nat : a = b + c
    <3>1. a - b \in Nat /\ a = b + (a - b)
      OBVIOUS
    <3> QED  BY <3>1
  <2>2. a * d = b * d + c * d
    BY <2>1
  <2>3. c * d \in Nat /\ b * d \in Nat
    OBVIOUS
  <2> QED  BY <2>2, <2>3
<1>2. (a + 1) * d = a * d + d
  OBVIOUS
<1>3. PICK c \in Nat : b = (a + 1) + c
  <2>1. b - (a + 1) \in Nat /\ b = (a + 1) + (b - (a + 1))
    BY <1>1
  <2> QED  BY <2>1
<1>4. b * d = (a + 1) * d + c * d
  BY <1>3
<1>5. c * d \in Nat /\ (a + 1) * d \in Nat
  OBVIOUS
<1> QED  BY <1>2, <1>4, <1>5

LEMMA AWriter ==
  ASSUME NEW S, NEW b \in Seq(S), Len(b) <= WSize, NEW e \in BOOLEAN, NEW o \in Seq(S)
  PROVE  [buf |-> b, err |-> e, to |-> o] \in Writers(S)
<1>1. CASE e = TRUE
  BY <1>1 DEF Writers
<1>2. CASE e = FALSE
  BY <1>2 DEF Writers
<1> QED  BY <1>1, <1>2

\* A writer of which c arrived, and a is to come unless it failed.
LEMMA ArrivedPuts ==
  ASSUME NEW S, NEW s \in Writers(S), ~s.err, NEW p \in Seq(S), NEW c \in Seq(S),
         NEW a \in Seq(S), c \o a = Sofar(s) \o p,
         NEW g \in Seq(S), Len(g) <= WSize, NEW e, e = TRUE \/ (e = FALSE /\ g = a),
         NEW t, t = [buf |-> g, err |-> e, to |-> c]
  PROVE  t \in Writers(S) /\ Puts(s, p, t)
<1>1. t.buf = g /\ t.err = e /\ t.to = c
  OBVIOUS
<1>2. t \in Writers(S)
  BY AWriter
<1>3. CASE e = TRUE
  <2>1. Sofar(t) = c
    BY <1>1, <1>3 DEF Sofar
  <2>2. Starts(c, c)
    BY DEF Starts
  <2>3. Starts(c, c \o a)
    BY <2>2, StartsLonger
  <2> QED  BY <1>1, <1>2, <1>3, <2>1, <2>3 DEF Puts
<1>4. CASE e = FALSE /\ g = a
  <2>1. Sofar(t) = c \o a
    BY <1>1, <1>4 DEF Sofar
  <2>2. PICK x \in Seq(S) : x = Sofar(s)
    BY WriterFacts
  <2>3. Len(x \o p) = Len(x) + Len(p) /\ Starts(x \o p, x \o p)
    BY DEF Starts
  <2> QED  BY <1>1, <1>2, <1>4, <2>1, <2>2, <2>3 DEF Puts
<1> QED  BY <1>3, <1>4

\* WriteString: whole buffers of it are flushed.
LEMMA StrungPuts ==
  ASSUME NEW S, NEW s \in Writers(S), NEW p \in Seq(S), NEW closed \in BOOLEAN,
         NEW t \in Strung(s, p, closed)
  PROVE  t \in Writers(S) /\ Puts(s, p, t)
<1>1. CASE s.err
  BY <1>1 DEF Strung, Puts
<1>2. CASE ~s.err
  <2>1. PICK b \in Seq(S), o \in Seq(S) :
          /\ s.buf = b /\ s.to = o /\ Len(b) <= WSize
          /\ s = [buf |-> b, err |-> FALSE, to |-> o] /\ Sofar(s) = o \o b
    BY <1>2, WriterParts
  <2>2. PICK all \in Seq(S) : all = b \o p
    <3>1. b \o p \in Seq(S)
      OBVIOUS
    <3> QED  BY <3>1
  <2>3. o \o all = Sofar(s) \o p
    <3>1. (o \o b) \o p = o \o (b \o p)
      BY ConcatAssociative, SMTT(30)
    <3> QED  BY <2>1, <2>2, <3>1
  <2> DEFINE q == (Len(all) - 1) \div WSize
             full == IF Len(all) <= WSize THEN 0 ELSE q * WSize
  <2>4. Len(all) \in Nat /\ WSize \in Nat \ {0}
    BY WSizeFacts
  <2>5. /\ full \in 0..Len(all) /\ Len(all) - full <= WSize
        /\ full # 0 => full = q * WSize /\ q \in Nat
    <3>1. CASE Len(all) <= WSize
      BY <2>4, <3>1
    <3>2. CASE ~(Len(all) <= WSize)
      <4>1. PICK m \in Nat : m = Len(all) - 1
        BY <2>4, <3>2
      <4>2. m \div WSize \in Nat /\ (m \div WSize) * WSize <= m
            /\ m < (m \div WSize) * WSize + WSize
        BY <2>4, Division
      <4>3. full = (m \div WSize) * WSize /\ (m \div WSize) * WSize \in Nat
        BY <2>4, <3>2, <4>1, <4>2
      <4> QED  BY <2>4, <4>1, <4>2, <4>3
    <3> QED  BY <3>1, <3>2
  <2>6. \/ \E n \in Cuts(full, closed) :
             /\ full # 0
             /\ t = [buf |-> SubSeq(all, n + 1, (n \div WSize + 1) * WSize), err |-> TRUE,
                     to |-> o \o First(all, n)]
        \/ t = [s EXCEPT !.buf = After(all, full), !.to = @ \o First(all, full)]
    BY <1>2, <2>1, <2>2 DEF Strung
  <2> HIDE DEF full, q
  <2>7. ASSUME NEW n \in 0..Len(all)
        PROVE  \E c \in Seq(S), a \in Seq(S) :
                  c = o \o First(all, n) /\ a = After(all, n) /\ c \o a = Sofar(s) \o p
    <3>1. PICK f \in Seq(S), a \in Seq(S) : f = First(all, n) /\ a = After(all, n) /\ f \o a = all
      <4>1. First(all, n) \in Seq(S) /\ After(all, n) \in Seq(S)
            /\ First(all, n) \o After(all, n) = all
        BY FirstCells
      <4> QED  BY <4>1
    <3>2. (o \o f) \o a = o \o (f \o a) /\ o \o f \in Seq(S)
      BY ConcatAssociative, SMTT(30)
    <3> QED  BY <2>3, <3>1, <3>2
  <2>8. ASSUME NEW n \in Cuts(full, closed), full # 0,
               t = [buf |-> SubSeq(all, n + 1, (n \div WSize + 1) * WSize), err |-> TRUE,
                    to |-> o \o First(all, n)]
        PROVE  t \in Writers(S) /\ Puts(s, p, t)
    <3>1. n \in Nat /\ n < full /\ n \in 0..Len(all)
      BY <2>4, <2>5, <2>8 DEF Cuts
    <3> DEFINE k == n \div WSize
               last == (k + 1) * WSize
    <3>2. k \in Nat /\ k * WSize <= n /\ n < k * WSize + WSize
      BY <2>4, <3>1, Division
    <3>3. q \in Nat /\ full = q * WSize
      BY <2>5, <2>8
    <3> HIDE DEF k
    <3>4. k * WSize \in Nat /\ q * WSize \in Nat
      BY <2>4, <3>2, <3>3
    <3>5. k * WSize < q * WSize
      BY <3>1, <3>2, <3>3, <3>4
    <3>6. last = k * WSize + WSize /\ last <= q * WSize
      BY <2>4, <3>2, <3>3, <3>5, Multiples
    <3>7. last \in Nat /\ last <= Len(all) /\ last - n <= WSize /\ n < last
      <4>1. PICK ws \in Nat, kw \in Nat, qw \in Nat : ws = WSize /\ kw = k * WSize /\ qw = q * WSize
        BY <2>4, <3>4
      <4>2. last = kw + ws /\ last <= qw /\ kw <= n /\ n < kw + ws /\ qw <= Len(all)
        BY <2>4, <2>5, <3>2, <3>3, <3>6, <4>1
      <4> HIDE DEF last
      <4> QED  BY <2>4, <3>1, <4>1, <4>2
    <3> HIDE DEF last
    <3>8. \A i \in n+1..last : all[i] \in S
      <4>1. \A i \in n+1..last : i \in 1..Len(all)
        BY <2>4, <3>1, <3>7
      <4> QED  BY <4>1, ElementOfSeq
    <3>9. SubSeq(all, n + 1, last) \in Seq(S) /\ Len(SubSeq(all, n + 1, last)) = last - n
      <4>1. n + 1 \in Int /\ last \in Int /\ n + 1 <= last /\ last - (n + 1) + 1 = last - n
        BY <3>1, <3>7
      <4> QED  BY <3>8, <4>1, SubSeqProperties
    <3>10. PICK g \in Seq(S) : g = SubSeq(all, n + 1, last) /\ Len(g) <= WSize
      BY <3>7, <3>9
    <3>11. t = [buf |-> g, err |-> TRUE, to |-> o \o First(all, n)]
      BY <2>8, <3>10 DEF last, k
    <3>12. PICK c \in Seq(S), a \in Seq(S) :
              c = o \o First(all, n) /\ c \o a = Sofar(s) \o p
      BY <2>7, <3>1
    <3>13. t = [buf |-> g, err |-> TRUE, to |-> c]
      BY <3>11, <3>12
    <3> QED  BY <1>2, <3>10, <3>12, <3>13, ArrivedPuts
  <2>9. ASSUME t = [s EXCEPT !.buf = After(all, full), !.to = @ \o First(all, full)]
        PROVE  t \in Writers(S) /\ Puts(s, p, t)
    <3>1. PICK g \in Seq(S) : g = After(all, full) /\ Len(g) <= WSize
      <4>1. After(all, full) \in Seq(S) /\ Len(After(all, full)) = Len(all) - full
        BY <2>5, FirstCells
      <4> QED  BY <2>5, <4>1
    <3>2. s = [buf |-> b, err |-> FALSE, to |-> o]
      BY <2>1
    <3>3. t = [buf |-> g, err |-> FALSE, to |-> o \o First(all, full)]
      BY <2>9, <3>1, <3>2
    <3>4. PICK c \in Seq(S), a \in Seq(S) :
              c = o \o First(all, full) /\ a = g /\ c \o a = Sofar(s) \o p
      BY <2>5, <2>7, <3>1
    <3>5. t = [buf |-> g, err |-> FALSE, to |-> c]
      BY <3>3, <3>4
    <3> QED  BY <1>2, <3>1, <3>4, <3>5, ArrivedPuts
  <2> QED  BY <2>6, <2>8, <2>9
<1> QED  BY <1>1, <1>2

-----------------------------------------------------------------------------
(* What is written: the cells of one item after the other *)

Sources == {"push", "reply", "pong", "upgrade"}
Stuff == Cells \cup PushCells \cup {Clear}
Outs == [of : Sources, k : Nat, i : Nat, n : Nat, c : Stuff]

\* Cells f+1, f+2, .. of an item of m cells.
Piece(p, x, k, m, f) ==
    /\ p \in Seq(Outs)
    /\ \A i \in 1..Len(p) : p[i].of = x /\ p[i].k = k /\ p[i].n = m /\ p[i].i = f + i

AtEnd(s) == s # <<>> => s[Len(s)].i = s[Len(s)].n

\* Cell f+1 of that item comes next.
Behind(s, x, k, m, f) ==
    IF f = 0 THEN AtEnd(s)
    ELSE s # <<>> /\ s[Len(s)].of = x /\ s[Len(s)].k = k /\ s[Len(s)].n = m /\ s[Len(s)].i = f

Whole(s) ==
    s # <<>> => s[1].i = 1 /\ \A j \in 1..Len(s)-1 : Follows(s[j], s[j + 1])

LEMMA NextCell ==
  ASSUME NEW a \in Outs, NEW b \in Outs, b.of = a.of, b.k = a.k, b.n = a.n, b.i = a.i + 1, a.i < a.n
  PROVE  Follows(a, b)
<1>1. b = [a EXCEPT !.i = @ + 1, !.c = b.c]
  BY DEF Outs
<1> QED  BY <1>1 DEF Follows

LEMMA ItemEnds ==
  ASSUME NEW s, NEW x, NEW k, NEW m, Behind(s, x, k, m, m)
  PROVE  AtEnd(s)
  BY DEF Behind, AtEnd

\* An item goes on where it was left, or begins behind the end of one.
LEMMA PieceFollows ==
  ASSUME NEW s \in Seq(Outs), NEW x, NEW k, NEW m \in Nat, NEW f \in Nat, NEW p,
         Whole(s), Behind(s, x, k, m, f), Piece(p, x, k, m, f), f + Len(p) <= m
  PROVE  Whole(s \o p) /\ Behind(s \o p, x, k, m, f + Len(p))
<1> HIDE DEF Outs
<1>1. PICK q \in Seq(Outs) : q = p
  BY DEF Piece
<1>2. /\ Len(q) \in Nat /\ Len(s) \in Nat /\ s \o q \in Seq(Outs)
      /\ Len(s \o q) = Len(s) + Len(q)
      /\ \A i \in 1..Len(s)+Len(q) : (s \o q)[i] = IF i <= Len(s) THEN s[i] ELSE q[i - Len(s)]
  BY ConcatProperties
<1>3. \A i \in 1..Len(q) : q[i].of = x /\ q[i].k = k /\ q[i].n = m /\ q[i].i = f + i
  BY <1>1 DEF Piece
<1>4. (s # <<>> <=> Len(s) >= 1) /\ (q # <<>> <=> Len(q) >= 1) /\ (s \o q # <<>> <=> Len(s) + Len(q) >= 1)
  BY <1>2
<1>5. f + Len(q) <= m
  BY <1>1
<1>6. Behind(s \o q, x, k, m, f + Len(q))
  <2>1. CASE Len(q) = 0
    <3>1. s \o q = s
      BY <1>4, <2>1, ConcatEmptySeq
    <3> QED  BY <2>1, <3>1, <1>1
  <2>2. CASE Len(q) >= 1
    <3>1. (s \o q)[Len(s) + Len(q)] = q[Len(q)]
      BY <1>2, <2>2
    <3>2. f + Len(q) # 0 /\ s \o q # <<>>
      BY <1>2, <1>4, <2>2
    <3> QED  BY <1>2, <1>3, <2>2, <3>1, <3>2 DEF Behind
  <2> QED  BY <1>2, <2>1, <2>2
<1>7. ASSUME s \o q # <<>> PROVE (s \o q)[1].i = 1
  <2>1. CASE s # <<>>
    <3>1. (s \o q)[1] = s[1]
      BY <1>2, <1>4, <2>1
    <3> QED  BY <2>1, <3>1 DEF Whole
  <2>2. CASE s = <<>>
    <3>1. f = 0
      BY <2>2 DEF Behind
    <3>2. (s \o q)[1] = q[1] /\ 1 \in 1..Len(q)
      BY <1>2, <1>4, <1>7, <2>2
    <3> QED  BY <1>3, <3>1, <3>2
  <2> QED  BY <2>1, <2>2
<1>8. ASSUME NEW j \in 1..Len(s \o q)-1 PROVE Follows((s \o q)[j], (s \o q)[j + 1])
  <2>1. CASE j < Len(s)
    <3>1. (s \o q)[j] = s[j] /\ (s \o q)[j + 1] = s[j + 1] /\ s # <<>> /\ j \in 1..Len(s)-1
      BY <1>2, <1>4, <2>1
    <3> QED  BY <3>1 DEF Whole
  <2>2. CASE j = Len(s)
    <3>1. (s \o q)[j] = s[Len(s)] /\ (s \o q)[j + 1] = q[1] /\ s # <<>> /\ 1 \in 1..Len(q)
          /\ Len(s) \in 1..Len(s)
      BY <1>2, <1>4, <2>2
    <3>2. q[1].i = f + 1
      BY <1>3, <3>1
    <3>3. CASE f = 0
      <4>1. s[Len(s)].i = s[Len(s)].n
        BY <3>1, <3>3 DEF Behind, AtEnd
      <4> QED  BY <3>1, <3>2, <3>3, <4>1 DEF Follows
    <3>4. CASE f # 0
      <4>1. s[Len(s)].of = x /\ s[Len(s)].k = k /\ s[Len(s)].n = m /\ s[Len(s)].i = f
        BY <3>4 DEF Behind
      <4>2. q[1].of = x /\ q[1].k = k /\ q[1].n = m
        BY <1>3, <3>1
      <4>3. f < m
        BY <1>2, <1>5, <3>1
      <4>4. s[Len(s)] \in Outs /\ q[1] \in Outs
        BY <3>1, ElementOfSeq
      <4> QED  BY <3>1, <3>2, <4>1, <4>2, <4>3, <4>4, NextCell
    <3> QED  BY <3>3, <3>4
  <2>3. CASE j > Len(s)
    <3>1. PICK i \in 1..Len(q)-1 : i = j - Len(s)
      <4>1. PICK d \in Nat, e \in Nat : d = Len(s) /\ e = Len(q) /\ j \in 1..(d + e - 1) /\ j > d
        BY <1>2, <2>3
      <4>2. j - d \in 1..e-1
        BY <4>1
      <4> QED  BY <4>1, <4>2
    <3>2. (s \o q)[j] = q[i] /\ (s \o q)[j + 1] = q[i + 1] /\ i \in 1..Len(q) /\ i + 1 \in 1..Len(q)
      <4>1. (j + 1) - Len(s) = i + 1
        BY <1>2, <3>1
      <4> QED  BY <1>2, <2>3, <3>1, <4>1
    <3>3. q[i] \in Outs /\ q[i + 1] \in Outs
      BY <3>2, ElementOfSeq
    <3>4. q[i].i = f + i /\ q[i + 1].i = (f + i) + 1 /\ q[i].n = m /\ q[i + 1].n = m
          /\ q[i].of = q[i + 1].of /\ q[i].k = q[i + 1].k
      BY <1>3, <3>2
    <3>5. f + i < m
      BY <1>2, <1>5, <3>2
    <3> QED  BY <3>2, <3>3, <3>4, <3>5, NextCell
  <2> QED  BY <1>2, <2>1, <2>2, <2>3
<1> QED  BY <1>1, <1>6, <1>7, <1>8 DEF Whole

\* A part of what is whole is whole, and all of it arrives unless the writer fails.
LEMMA WholePart ==
  ASSUME NEW a \in Seq(Outs), NEW b \in Seq(Outs), Whole(b), Starts(a, b)
  PROVE  Whole(a)
<1> HIDE DEF Outs
<1>1. Len(a) \in Nat /\ Len(b) \in Nat /\ Len(a) <= Len(b) /\ \A i \in 1..Len(a) : a[i] = b[i]
  BY DEF Starts
<1>2. ASSUME a # <<>> PROVE b # <<>> /\ a[1] = b[1]
  <2>1. Len(a) >= 1
    BY <1>2
  <2> QED  BY <1>1, <2>1
<1>3. ASSUME a # <<>>, NEW j \in 1..Len(a)-1 PROVE Follows(a[j], a[j + 1])
  <2>1. j \in 1..Len(b)-1 /\ j \in 1..Len(a) /\ j + 1 \in 1..Len(a)
    BY <1>1
  <2> QED  BY <1>1, <1>2, <1>3, <2>1 DEF Whole
<1> QED  BY <1>2, <1>3 DEF Whole

LEMMA AllArrives ==
  ASSUME NEW S, NEW s \in Writers(S), NEW t \in Writers(S), NEW p \in Seq(S), Puts(s, p, t),
         ~s.err, ~t.err
  PROVE  Sofar(t) = Sofar(s) \o p
<1>1. PICK a \in Seq(S), b \in Seq(S) : a = Sofar(s) /\ b = Sofar(t)
  BY WriterFacts
<1>2. Starts(b, a \o p) /\ Len(b) = Len(a) + Len(p)
  BY <1>1 DEF Puts
<1>3. a \o p \in Seq(S) /\ Len(a \o p) = Len(a) + Len(p)
  OBVIOUS
<1>4. PICK c \in Seq(S) : c = a \o p
  BY <1>3
<1>5. Len(b) = Len(c) /\ \A i \in 1..Len(b) : b[i] = c[i]
  BY <1>2, <1>3, <1>4 DEF Starts
<1>6. b = c
  BY <1>5, SeqEqual
<1> QED  BY <1>1, <1>4, <1>6

LEMMA PieceArrives ==
  ASSUME NEW s \in Writers(Outs), NEW t \in Writers(Outs), NEW p,
         NEW x, NEW k, NEW m \in Nat, NEW f \in Nat,
         Piece(p, x, k, m, f), f + Len(p) <= m, Puts(s, p, t),
         Whole(Sofar(s)), ~s.err => Behind(Sofar(s), x, k, m, f)
  PROVE  Whole(Sofar(t)) /\ (~t.err => Behind(Sofar(t), x, k, m, f + Len(p)))
<1> HIDE DEF Outs
<1>1. /\ s.err \in BOOLEAN /\ t.err \in BOOLEAN
      /\ Sofar(s) \in Seq(Outs) /\ Sofar(t) \in Seq(Outs) /\ p \in Seq(Outs)
  BY WriterFacts DEF Piece
<1>2. CASE s.err
  BY <1>2 DEF Puts
<1>3. CASE ~s.err
  <2>1. Whole(Sofar(s) \o p) /\ Behind(Sofar(s) \o p, x, k, m, f + Len(p))
    BY <1>1, <1>3, PieceFollows
  <2>2. Sofar(s) \o p \in Seq(Outs)
    BY <1>1
  <2>3. Whole(Sofar(t))
    BY <1>1, <1>3, <2>1, <2>2, WholePart DEF Puts
  <2>4. ASSUME ~t.err PROVE Sofar(t) = Sofar(s) \o p
    BY <1>1, <1>3, <2>4, AllArrives
  <2> QED  BY <2>1, <2>3, <2>4
<1> QED  BY <1>1, <1>2, <1>3

LEMMA APiece ==
  ASSUME NEW x \in Sources, NEW k \in Nat, NEW m \in Nat, NEW f \in Nat, NEW n \in Nat,
         NEW p, p = [i \in 1..n |-> p[i]],
         \A i \in 1..n : \E d \in Stuff : p[i] = Out(x, k, f + i, m, d)
  PROVE  Piece(p, x, k, m, f) /\ Len(p) = n
<1> HIDE DEF Stuff, Sources
<1>1. ASSUME NEW i \in 1..n
      PROVE  p[i] \in Outs /\ p[i].of = x /\ p[i].k = k /\ p[i].n = m /\ p[i].i = f + i
  <2>1. PICK d \in Stuff, g \in Nat : g = f + i /\ p[i] = Out(x, k, g, m, d)
    OBVIOUS
  <2>2. PICK e : e = [of |-> x, k |-> k, i |-> g, n |-> m, c |-> d]
    OBVIOUS
  <2>3. p[i] = e
    BY <2>1, <2>2 DEF Out
  <2>4. e \in Outs /\ e.of = x /\ e.k = k /\ e.n = m /\ e.i = g
    BY <2>2 DEF Outs
  <2> QED  BY <2>1, <2>3, <2>4
<1> HIDE DEF Outs
<1>2. p \in Seq(Outs) /\ Len(p) = n
  <2>1. [i \in 1..n |-> p[i]] \in [1..n -> Outs]
    BY <1>1
  <2>2. p \in [1..n -> Outs]
    BY <2>1
  <2> QED  BY <2>2
<1> QED  BY <1>1, <1>2 DEF Piece

LEMMA ItemSizes ==
  ASSUME ReaderTypeOK, script.ws \in BOOLEAN, NEW it, ItemOK(it)
  PROVE  /\ it.of \in Sources /\ it.k \in Nat /\ it.body.n \in Nat
         /\ HeadOf(it) \in {0, H, H + 1} /\ HeadOf(it) \in Nat /\ HeadOf(it) <= WSize
         /\ Length(it) \in Nat /\ Length(it) = HeadOf(it) + it.body.n
         /\ Ext(Length(it)) \in Nat /\ Ext(Length(it)) <= WSize
         /\ FramedBy(it) \in Nat
         /\ script.ws => FramedBy(it) = 1 + Ext(Length(it))
         /\ ~script.ws => FramedBy(it) = 0
<1>1. it.body.n \in Nat
  BY ItemContents
<1>2. it.of \in Sources /\ it.k \in Nat
  BY DEF ItemOK, Sources
<1>3. HeadOf(it) \in {0, H, H + 1}
  <2>1. (it.of = "pong" \/ (it.of = "push" /\ ~script.ws)) => HeadOf(it) = 0
    BY DEF HeadOf, ItemOK
  <2>2. ~(it.of = "pong" \/ (it.of = "push" /\ ~script.ws)) => HeadOf(it) \in {H, H + 1}
    BY DEF HeadOf, ItemOK
  <2> QED  BY <2>1, <2>2
<1>4. HeadOf(it) \in Nat /\ HeadOf(it) <= WSize
  BY <1>3, HeaderSize
<1>5. Ext(Length(it)) \in {0, 1, 2}
  BY DEF Ext
<1>6. Ext(Length(it)) \in Nat /\ Ext(Length(it)) <= WSize
  BY <1>5, HeaderSize
<1>7. Length(it) \in Nat /\ Length(it) = HeadOf(it) + it.body.n
  BY <1>1, <1>4 DEF Length
<1>8. (script.ws => FramedBy(it) = 1 + Ext(Length(it))) /\ (~script.ws => FramedBy(it) = 0)
  BY DEF FramedBy, FrameHead
<1>9. FramedBy(it) \in Nat
  BY <1>6, <1>8
<1> QED  BY <1>1, <1>2, <1>3, <1>4, <1>6, <1>7, <1>8, <1>9

\* All the cells of an item.
All(it) == FramedBy(it) + Length(it)

LEMMA FieldsPiece ==
  ASSUME ReaderTypeOK, script.ws \in BOOLEAN, NEW it, ItemOK(it), NEW f \in Nat, NEW n \in Nat
  PROVE  Piece(Fields(it, f, n), it.of, it.k, All(it), f) /\ Len(Fields(it, f, n)) = n
<1>1. PICK x \in Sources, k \in Nat, m \in Nat :
        x = it.of /\ k = it.k /\ m = All(it) /\ m = FramedBy(it) + Length(it)
  BY ItemSizes DEF All
<1>2. PICK p : p = Fields(it, f, n)
  OBVIOUS
<1>3. p = [i \in 1..n |-> Out(x, k, f + i, m, Clear)]
  BY <1>1, <1>2 DEF Fields, Slice, Seqn
<1>4. p = [i \in 1..n |-> p[i]] /\ \A i \in 1..n : p[i] = Out(x, k, f + i, m, Clear)
  BY <1>3
<1>5. Clear \in Stuff
  BY DEF Stuff
<1> HIDE DEF Stuff, Sources
<1>6. Piece(p, x, k, m, f) /\ Len(p) = n
  BY <1>4, <1>5, APiece
<1> QED  BY <1>1, <1>2, <1>6

LEMMA BodyPiece ==
  ASSUME ReaderTypeOK, script.ws \in BOOLEAN, NEW it, ItemOK(it)
  PROVE  /\ Piece(BodyOf(it), it.of, it.k, All(it), FramedBy(it) + HeadOf(it))
         /\ Len(BodyOf(it)) = it.body.n
<1>1. PICK x \in Sources, k \in Nat, m \in Nat, f \in Nat, n \in Nat :
        /\ x = it.of /\ k = it.k /\ m = All(it) /\ m = FramedBy(it) + Length(it)
        /\ f = FramedBy(it) + HeadOf(it) /\ n = it.body.n
  <2>1. FramedBy(it) + HeadOf(it) \in Nat /\ FramedBy(it) + Length(it) \in Nat
    BY ItemSizes
  <2> QED  BY <2>1, ItemSizes DEF All
<1>2. PICK p : p = BodyOf(it)
  OBVIOUS
<1>3. PICK c : c = Contents(it.body)
  OBVIOUS
<1>4. \A i \in 1..n : c[i] \in Stuff
  <2>1. c \in Seq(Cells \cup PushCells) /\ Len(c) = n
    BY <1>1, <1>3, ItemContents
  <2>2. \A i \in 1..n : c[i] \in Cells \cup PushCells
    <3> HIDE DEF PushCells
    <3> QED  BY <2>1, ElementOfSeq
  <2> QED  BY <2>2 DEF Stuff
<1>5. p = [i \in 1..n |-> Out(x, k, f + i, m, c[i])]
  BY <1>1, <1>2, <1>3 DEF BodyOf, Slice, Seqn
<1>6. p = [i \in 1..n |-> p[i]] /\ \A i \in 1..n : p[i] = Out(x, k, f + i, m, c[i])
  BY <1>5
<1> HIDE DEF Stuff, Sources
<1>7. \A i \in 1..n : \E d \in Stuff : p[i] = Out(x, k, f + i, m, d)
  BY <1>4, <1>6
<1>8. p = [i \in 1..n |-> p[i]]
  BY <1>6
<1>9. Piece(p, x, k, m, f) /\ Len(p) = n
  BY ONLY <1>7, <1>8, APiece
<1> QED  BY <1>1, <1>2, <1>9

LEMMA ResponsePiece ==
  ASSUME NEW n \in {1, 2}
  PROVE  /\ Piece(Response(n), "upgrade", 0, Status + Accept, IF n = 1 THEN 0 ELSE Status)
         /\ Len(Response(n)) = IF n = 1 THEN Status ELSE Accept
<1>1. PICK x \in Sources, k \in Nat, m \in Nat, f \in Nat, l \in Nat :
        /\ x = "upgrade" /\ k = 0 /\ m = Status + Accept
        /\ f = (IF n = 1 THEN 0 ELSE Status) /\ l = IF n = 1 THEN Status ELSE Accept
  <2>1. "upgrade" \in Sources /\ 0 \in Nat /\ Status \in Nat /\ Accept \in Nat
    BY WireAssumption DEF Sources
  <2>2. Status + Accept \in Nat
    BY <2>1
  <2> HIDE DEF Sources
  <2>3. CASE n = 1
    BY <2>1, <2>2, <2>3
  <2>4. CASE n = 2
    BY <2>1, <2>2, <2>4
  <2> QED  BY <2>3, <2>4
<1>2. PICK p : p = Response(n)
  OBVIOUS
<1>3. p = [i \in 1..l |-> Out(x, k, f + i, m, Clear)]
  BY <1>1, <1>2 DEF Response, Seqn
<1>4. p = [i \in 1..l |-> p[i]] /\ \A i \in 1..l : p[i] = Out(x, k, f + i, m, Clear)
  BY <1>3
<1>5. Clear \in Stuff
  BY DEF Stuff
<1> HIDE DEF Stuff, Sources
<1>6. p = [i \in 1..l |-> p[i]] /\ \A i \in 1..l : \E d \in Stuff : p[i] = Out(x, k, f + i, m, d)
  BY <1>4, <1>5
<1>7. Piece(p, x, k, m, f) /\ Len(p) = l
  BY ONLY <1>6, APiece
<1> QED  BY <1>1, <1>2, <1>7

\* What the writes of an item put.
Wrote(s, t, x, k, m, f, n) ==
    /\ t \in Writers(Outs)
    /\ s.err => t = s
    /\ Whole(Sofar(s)) /\ (~s.err => Behind(Sofar(s), x, k, m, f)) =>
          Whole(Sofar(t)) /\ (~t.err => Behind(Sofar(t), x, k, m, f + n))

LEMMA WroteThen ==
  ASSUME NEW s, NEW t, NEW u, NEW x, NEW k, NEW m, NEW f \in Nat, NEW n \in Nat, NEW o \in Nat,
         Wrote(s, t, x, k, m, f, n), Wrote(t, u, x, k, m, f + n, o)
  PROVE  Wrote(s, u, x, k, m, f, n + o)
<1>1. (f + n) + o = f + (n + o)
  OBVIOUS
<1> QED  BY <1>1 DEF Wrote

LEMMA PieceWrote ==
  ASSUME NEW s \in Writers(Outs), NEW t \in Writers(Outs), NEW p,
         NEW x, NEW k, NEW m \in Nat, NEW f \in Nat, NEW n \in Nat,
         Piece(p, x, k, m, f), Len(p) = n, f + n <= m, Puts(s, p, t)
  PROVE  Wrote(s, t, x, k, m, f, n)
<1> HIDE DEF Outs
<1>1. s.err => t = s
  BY DEF Puts
<1>2. ASSUME Whole(Sofar(s)), ~s.err => Behind(Sofar(s), x, k, m, f)
      PROVE  Whole(Sofar(t)) /\ (~t.err => Behind(Sofar(t), x, k, m, f + n))
  BY <1>2, PieceArrives
<1> QED  BY <1>1, <1>2 DEF Wrote

LEMMA AllOf ==
  ASSUME ReaderTypeOK, script.ws \in BOOLEAN, NEW it, ItemOK(it)
  PROVE  /\ All(it) \in Nat /\ FramedBy(it) \in Nat /\ HeadOf(it) \in Nat /\ it.body.n \in Nat
         /\ FramedBy(it) + HeadOf(it) \in Nat
         /\ All(it) = (FramedBy(it) + HeadOf(it)) + it.body.n
         /\ FramedBy(it) <= All(it) /\ FramedBy(it) + HeadOf(it) <= All(it)
<1>1. PICK a \in Nat, b \in Nat, c \in Nat :
        a = FramedBy(it) /\ b = HeadOf(it) /\ c = it.body.n /\ Length(it) = b + c
  BY ItemSizes
<1>2. All(it) = a + (b + c)
  BY <1>1 DEF All
<1>3. a + (b + c) \in Nat /\ a + b \in Nat /\ a + (b + c) = (a + b) + c
  OBVIOUS
<1> QED  BY <1>1, <1>2, <1>3

LEMMA PeekedWrote ==
  ASSUME ReaderTypeOK, script.ws \in BOOLEAN, NEW it, ItemOK(it), NEW s \in Writers(Outs),
         NEW f \in Nat, NEW n \in Nat, f + n <= All(it), n <= WSize, NEW closed \in BOOLEAN,
         NEW t \in Peeked(s, Fields(it, f, n), closed)
  PROVE  Wrote(s, t, it.of, it.k, All(it), f, n)
<1> HIDE DEF Outs
<1>1. PICK p \in Seq(Outs) : p = Fields(it, f, n) /\ Len(p) = n /\ Piece(p, it.of, it.k, All(it), f)
  <2>1. Piece(Fields(it, f, n), it.of, it.k, All(it), f) /\ Len(Fields(it, f, n)) = n
    BY FieldsPiece
  <2> QED  BY <2>1 DEF Piece
<1>2. t \in Writers(Outs) /\ Puts(s, p, t)
  BY <1>1, PeekedPuts
<1>3. All(it) \in Nat
  BY AllOf
<1> QED  BY <1>1, <1>2, <1>3, PieceWrote

LEMMA HeaderWrote ==
  ASSUME ReaderTypeOK, script.ws = TRUE, NEW it, ItemOK(it), wr \in Writers(Outs),
         open \in BOOLEAN, NEW t \in WriteHeader(it)
  PROVE  Wrote(wr, t, it.of, it.k, All(it), 0, FramedBy(it))
<1> HIDE DEF Outs
<1>1. PICK s \in Peeked(wr, Fields(it, 0, 1), ~open) :
        t \in Peeked(s, Fields(it, 1, Ext(Length(it))), ~open)
  BY DEF WriteHeader
<1>2. PICK e \in Nat : e = Ext(Length(it)) /\ e <= WSize /\ FramedBy(it) = 1 + e
  BY ItemSizes
<1>3. FramedBy(it) <= All(it) /\ All(it) \in Nat
  BY AllOf
<1>4. (~open) \in BOOLEAN /\ 0 + 1 = 1 /\ 1 + e <= All(it) /\ 1 <= All(it) /\ 1 <= WSize
  BY <1>2, <1>3, WSizeFacts
<1>5. Wrote(wr, s, it.of, it.k, All(it), 0, 1)
  BY <1>1, <1>4, PeekedWrote
<1>6. s \in Writers(Outs)
  BY <1>5 DEF Wrote
<1>7. Wrote(s, t, it.of, it.k, All(it), 1, e)
  BY <1>1, <1>2, <1>4, <1>6, PeekedWrote
<1> QED  BY <1>2, <1>4, <1>5, <1>7, WroteThen

LEMMA HeadWrote ==
  ASSUME ReaderTypeOK, script.ws \in BOOLEAN, NEW it, ItemOK(it), NEW s \in Writers(Outs),
         open \in BOOLEAN, NEW t \in WriteHead(s, it)
  PROVE  Wrote(s, t, it.of, it.k, All(it), FramedBy(it), HeadOf(it))
<1>1. t \in Peeked(s, Fields(it, FramedBy(it), HeadOf(it)), ~open)
  BY DEF WriteHead
<1>2. PICK f \in Nat, n \in Nat : f = FramedBy(it) /\ n = HeadOf(it) /\ n <= WSize /\ f + n <= All(it)
  BY AllOf, ItemSizes
<1>3. (~open) \in BOOLEAN
  OBVIOUS
<1>4. Wrote(s, t, it.of, it.k, All(it), f, n)
  BY <1>1, <1>2, <1>3, PeekedWrote
<1> QED  BY <1>2, <1>4

LEMMA BodyWrote ==
  ASSUME ReaderTypeOK, script.ws \in BOOLEAN, NEW it, ItemOK(it), NEW s \in Writers(Outs),
         open \in BOOLEAN,
         NEW t, t \in Written(s, BodyOf(it), ~open) \/ t \in WrittenRaw(s, BodyOf(it), ~open)
  PROVE  Wrote(s, t, it.of, it.k, All(it), FramedBy(it) + HeadOf(it), it.body.n)
<1> HIDE DEF Outs
<1>1. PICK f \in Nat, n \in Nat, m \in Nat :
        f = FramedBy(it) + HeadOf(it) /\ n = it.body.n /\ m = All(it) /\ m = f + n
  BY AllOf
<1>2. PICK p \in Seq(Outs) : p = BodyOf(it) /\ Len(p) = n /\ Piece(p, it.of, it.k, m, f)
  <2>1. Piece(BodyOf(it), it.of, it.k, m, f) /\ Len(BodyOf(it)) = n
    BY <1>1, BodyPiece
  <2> QED  BY <2>1 DEF Piece
<1>3. (~open) \in BOOLEAN
  OBVIOUS
<1>4. t \in Writers(Outs) /\ Puts(s, p, t)
  BY <1>2, <1>3, WrittenPuts, WrittenRawPuts
<1>5. Wrote(s, t, it.of, it.k, m, f, n)
  BY <1>1, <1>2, <1>4, PieceWrote
<1> QED  BY <1>1, <1>5

LEMMA FlushWrote ==
  ASSUME NEW s \in Writers(Outs), NEW closed \in BOOLEAN, NEW t \in Flushed(s, closed)
  PROVE  /\ t \in Writers(Outs)
         /\ s.err => t = s
         /\ ~t.err => ~s.err /\ Sofar(t) = Sofar(s)
         /\ Whole(Sofar(s)) => Whole(Sofar(t))
<1> HIDE DEF Outs
<1>1. t \in Writers(Outs) /\ Puts(s, <<>>, t) /\ (s.err => t = s)
  BY FlushedPuts
<1>2. PICK a \in Seq(Outs), b \in Seq(Outs), e \in Seq(Outs) : a = Sofar(s) /\ b = Sofar(t) /\ e = <<>>
  <2>1. Sofar(s) \in Seq(Outs) /\ Sofar(t) \in Seq(Outs)
    BY <1>1, WriterFacts
  <2>2. <<>> \in Seq(Outs)
    OBVIOUS
  <2> QED  BY <2>1, <2>2
<1>3. a \o <<>> = a
  BY ConcatEmptySeq
<1>4. s.err \in BOOLEAN /\ t.err \in BOOLEAN
  BY <1>1, WriterFacts
<1>5. ASSUME ~t.err PROVE ~s.err /\ Sofar(t) = Sofar(s)
  <2>1. ~s.err
    BY <1>1, <1>5
  <2>2. Sofar(t) = Sofar(s) \o e
    BY <1>1, <1>2, <1>5, <2>1, AllArrives
  <2> QED  BY <1>2, <1>3, <2>1, <2>2
<1>6. ASSUME Whole(Sofar(s)) PROVE Whole(Sofar(t))
  <2>1. CASE s.err
    BY <1>1, <1>6, <2>1
  <2>2. CASE ~s.err
    <3>1. Starts(b, a)
      BY <1>1, <1>2, <1>3, <2>2 DEF Puts
    <3> QED  BY <1>2, <1>6, <3>1, WholePart
  <2> QED  BY <1>4, <2>1, <2>2
<1> QED  BY <1>1, <1>5, <1>6

\* A reply is written before there is a dispatcher, and the answer to an upgrade.
LEMMA AuthReplyWrote ==
  ASSUME ReaderTypeOK, script.ws \in BOOLEAN, NEW it, ItemOK(it), it.body.n = 0, wr \in Writers(Outs),
         open \in BOOLEAN, Whole(Sofar(wr)), ~wr.err => AtEnd(Sofar(wr)),
         NEW s \in UNION {WriteHead(t, it) : t \in IF script.ws THEN WriteHeader(it) ELSE {wr}}
  PROVE  /\ s \in Writers(Outs) /\ (wr.err => s = wr) /\ Whole(Sofar(s))
         /\ ~s.err => AtEnd(Sofar(s))
<1> HIDE DEF Outs
<1>1. PICK t \in IF script.ws THEN WriteHeader(it) ELSE {wr} : s \in WriteHead(t, it)
  OBVIOUS
<1>2. PICK f \in Nat, n \in Nat, m \in Nat :
        f = FramedBy(it) /\ n = HeadOf(it) /\ m = All(it) /\ m = f + n
  <2>1. All(it) = (FramedBy(it) + HeadOf(it)) + 0 /\ FramedBy(it) + HeadOf(it) \in Nat
        /\ FramedBy(it) \in Nat /\ HeadOf(it) \in Nat
    BY AllOf
  <2> QED  BY <2>1
<1>3. Wrote(wr, t, it.of, it.k, m, 0, f)
  <2>1. CASE script.ws = TRUE
    BY <1>1, <1>2, <2>1, HeaderWrote
  <2>2. CASE script.ws = FALSE
    <3>1. t = wr /\ f = 0 /\ 0 + 0 = 0
      BY <1>1, <1>2, <2>2, ItemSizes
    <3> QED  BY <3>1 DEF Wrote
  <2> QED  BY <2>1, <2>2
<1>4. t \in Writers(Outs)
  BY <1>3 DEF Wrote
<1>5. Wrote(t, s, it.of, it.k, m, 0 + f, n)
  <2>1. Wrote(t, s, it.of, it.k, m, f, n)
    BY <1>1, <1>2, <1>4, HeadWrote
  <2>2. 0 + f = f
    OBVIOUS
  <2> QED  BY <2>1, <2>2
<1>6. Wrote(wr, s, it.of, it.k, m, 0, f + n)
  BY <1>3, <1>5, WroteThen
<1>7. ~wr.err => Behind(Sofar(wr), it.of, it.k, m, 0)
  BY DEF Behind
<1>8. Whole(Sofar(s)) /\ (~s.err => Behind(Sofar(s), it.of, it.k, m, m))
  <2>1. 0 + (f + n) = m
    BY <1>2
  <2> QED  BY <1>6, <1>7, <2>1 DEF Wrote
<1> QED  BY <1>6, <1>8, ItemEnds DEF Wrote

LEMMA UpgradeWrote ==
  ASSUME wr \in Writers(Outs), open \in BOOLEAN, Whole(Sofar(wr)), ~wr.err => AtEnd(Sofar(wr)),
         NEW t \in Strung(wr, Response(1), ~open), NEW s \in Strung(t, Response(2), ~open)
  PROVE  /\ s \in Writers(Outs) /\ (wr.err => s = wr) /\ Whole(Sofar(s))
         /\ ~s.err => AtEnd(Sofar(s))
<1> HIDE DEF Outs
<1>1. PICK a \in Nat, b \in Nat, m \in Nat : a = Status /\ b = Accept /\ m = a + b
  BY WireAssumption
<1>2. PICK p \in Seq(Outs) : p = Response(1) /\ Piece(p, "upgrade", 0, m, 0) /\ Len(p) = a
  BY <1>1, ResponsePiece DEF Piece
<1>3. PICK q \in Seq(Outs) : q = Response(2) /\ Piece(q, "upgrade", 0, m, a) /\ Len(q) = b
  BY <1>1, ResponsePiece DEF Piece
<1>4. (~open) \in BOOLEAN
  OBVIOUS
<1>5. t \in Writers(Outs) /\ Puts(wr, p, t)
  BY <1>2, <1>4, StrungPuts
<1>6. s \in Writers(Outs) /\ Puts(t, q, s)
  BY <1>3, <1>4, <1>5, StrungPuts
<1>7. 0 + a = a /\ 0 + a <= m /\ a + b <= m
  BY <1>1
<1>8. Wrote(wr, t, "upgrade", 0, m, 0, a)
  BY <1>2, <1>5, <1>7, PieceWrote
<1>9. Wrote(t, s, "upgrade", 0, m, a, b)
  BY <1>3, <1>5, <1>6, <1>7, PieceWrote
<1>10. Wrote(wr, s, "upgrade", 0, m, 0, m)
  <2>1. Wrote(t, s, "upgrade", 0, m, 0 + a, b)
    BY <1>7, <1>9
  <2>2. Wrote(wr, s, "upgrade", 0, m, 0, a + b)
    BY <1>8, <2>1, WroteThen
  <2> QED  BY <1>1, <2>2
<1>11. ~wr.err => Behind(Sofar(wr), "upgrade", 0, m, 0)
  BY DEF Behind
<1>12. Whole(Sofar(s)) /\ (~s.err => Behind(Sofar(s), "upgrade", 0, m, 0 + m))
  BY <1>10, <1>11 DEF Wrote
<1>13. 0 + m = m
  OBVIOUS
<1> QED  BY <1>10, <1>12, <1>13, ItemEnds DEF Wrote

-----------------------------------------------------------------------------
(* Who writes, and when *)

LEMMA ReaderMoves ==
  ASSUME StreamInv, ControlInv, ReadLoop, ~WritePong
  PROVE  pc \notin {"pongbody", "gone", "panic"} /\ pc' # "pongbody"
         /\ (pc = "putrb" => Leave)
<1>1. ASSUME NEW x, Fail(x) PROVE pc' # "pongbody"
  BY <1>1, ExitStarts DEF Fail, ControlInv
<1>2. CASE SetProto
  BY <1>1, <1>2 DEF SetProto, Goto
<1>3. CASE TakeHead
  <2>1. ASSUME NEW n, Popping(n) PROVE pc' # "pongbody"
    BY <1>1, <1>3, <2>1 DEF Popping, Receive, control, TakeHead
  <2> QED  BY <1>1, <1>3, <2>1 DEF TakeHead, Goto
<1>4. CASE TakeBody \/ TakeFirst
  <2>1. ASSUME NEW n, Popping(n) PROVE pc' # "pongbody"
    BY <1>1, <1>4, <2>1 DEF Popping, Receive, control, TakeBody, TakeFirst
  <2> QED  BY <1>1, <1>4, <2>1 DEF TakeBody, TakeFirst, Goto
<1>5. CASE Operate \/ AuthReply
  BY <1>1, <1>5 DEF Operate, AuthReply, Goto, ControlInv
<1>6. CASE Signal \/ Upgrade \/ Unmask \/ CountFrame
  BY <1>1, <1>6 DEF Signal, Upgrade, Unmask, CountFrame, Goto
<1>7. CASE TakeLine
  <2>1. \A p : Goto(p) => pc' = p
    BY DEF Goto
  <2>2. pc = "line"
    BY <1>7 DEF TakeLine
  <2> QED  BY <1>1, <1>7, <2>1, <2>2, LineTurns DEF control
<1>8. CASE TakeSecond \/ TakeExt \/ TakeKey \/ TakePayload
  <2>1. ASSUME NEW n, Popping(n) PROVE pc' # "pongbody"
    BY <1>1, <1>8, <2>1 DEF Popping, Receive, control, TakeSecond, TakeExt, TakeKey, TakePayload
  <2>2. \A i \in 1..4 : Stage(i) # "pongbody"
    BY StageIsWanted
  <2> QED  BY <1>8, <2>1, <2>2 DEF TakeSecond, TakeExt, TakeKey, TakePayload, Goto
<1>9. CASE HandleFrame
  BY <1>1, <1>9 DEF HandleFrame, Goto
<1>10. CASE TakeMessage
  <2>1. Goto("operate") \/ Panic \/ Fail("pack") \/ Fail("head")
    BY <1>10 DEF TakeMessage
  <2> QED  BY <1>1, <1>10, <2>1 DEF TakeMessage, Goto, Panic
<1>11. CASE Leave
  <2>1. pc \in {"close", "putrb", "finish"} /\ pc' = Following(pc)
    BY <1>11 DEF Leave
  <2> QED  BY <1>11, <2>1, ExitGoesOn DEF ControlInv
<1> QED  BY <1>2, <1>3, <1>4, <1>5, <1>6, <1>7, <1>8, <1>9, <1>10, <1>11 DEF ReadLoop

LEMMA OthersMove ==
  ASSUME Environment \/ Dispatcher \/ UNCHANGED vars
  PROVE  UNCHANGED <<pc, authed, frame, part>>
  BY DEF Environment, Dispatcher, Send, Finish, Close, PushTo, Lend, Wait, Get, Write, Flush, Shut,
         Drain, control, reading, message, vars

\* The reader goroutine reads nothing while it writes a pong, and nothing after its end.
LEMMA ReaderAt ==
  ASSUME StreamInv, ControlInv, [Next]_vars
  PROVE  /\ pc = "pongbody" /\ ~WritePong => UNCHANGED <<pc, part, frame>>
         /\ pc' = "pongbody" /\ ~WritePong => pc = "pongbody"
         /\ pc = "gone" => UNCHANGED pc
         /\ pc = "putrb" => UNCHANGED pc \/ Leave
<1>1. CASE Environment \/ Dispatcher \/ UNCHANGED vars
  BY <1>1, OthersMove
<1>2. CASE ReadLoop /\ ~WritePong
  BY <1>2, ReaderMoves
<1>3. CASE WritePong
  BY <1>3 DEF WritePong
<1> QED  BY <1>1, <1>2, <1>3 DEF Next

\* The steps that write, and what the dispatcher does between two writes.
LEMMA WriterMoves ==
  ASSUME [Next]_vars
  PROVE  UNCHANGED wr \/ (Upgrade /\ script.upgrade) \/ AuthReply \/ WritePong \/ Write \/ Flush
<1>1. CASE UNCHANGED vars
  BY <1>1 DEF vars, dispatch, writing
<1>2. CASE Environment
  BY <1>2 DEF Environment, Send, Finish, Close, PushTo, Lend, dispatch, writing
<1>3. CASE Dispatcher
  BY <1>3 DEF Dispatcher, Wait, Get, Shut, Drain, writing
<1>4. CASE \/ TakeHead \/ TakeBody \/ TakeLine \/ TakeFirst \/ TakeSecond \/ TakeExt \/ TakeKey
           \/ TakePayload
  BY <1>4 DEF TakeHead, TakeBody, TakeLine, TakeFirst, TakeSecond, TakeExt, TakeKey,
              TakePayload, Popping, Receive, Elsewhere, dispatch, writing
<1>5. CASE SetProto \/ Operate \/ Signal \/ Upgrade \/ Unmask \/ HandleFrame \/ CountFrame
           \/ TakeMessage \/ Leave
  BY <1>5 DEF SetProto, Operate, Signal, Upgrade, Unmask, HandleFrame, CountFrame, TakeMessage, Leave,
              Elsewhere, dispatch, writing
<1> QED  BY <1>1, <1>2, <1>3, <1>4, <1>5 DEF Next, ReadLoop

LEMMA TornMoves ==
  ASSUME [Next]_vars
  PROVE  torn' = torn \/ (WritePong /\ torn' = (torn \/ Midway))
                      \/ (Write /\ torn' = (torn \/ pc = "pongbody"))
<1>1. CASE UNCHANGED vars
  BY <1>1 DEF vars, dispatch, writing
<1>2. CASE Environment
  BY <1>2 DEF Environment, Send, Finish, Close, PushTo, Lend, dispatch, writing
<1>3. CASE Dispatcher
  BY <1>3 DEF Dispatcher, Wait, Get, Write, Flush, Shut, Drain, writing, Overlaps
<1>4. CASE \/ TakeHead \/ TakeBody \/ TakeLine \/ TakeFirst \/ TakeSecond \/ TakeExt \/ TakeKey
           \/ TakePayload
  BY <1>4 DEF TakeHead, TakeBody, TakeLine, TakeFirst, TakeSecond, TakeExt, TakeKey,
              TakePayload, Popping, Receive, Elsewhere, dispatch, writing
<1>5. CASE SetProto \/ Operate \/ Signal \/ Upgrade \/ Unmask \/ HandleFrame \/ CountFrame
           \/ TakeMessage \/ Leave \/ AuthReply \/ WritePong
  BY <1>5 DEF SetProto, Operate, Signal, Upgrade, Unmask, HandleFrame, CountFrame, TakeMessage, Leave,
              AuthReply, WritePong, Elsewhere, dispatch, writing
<1> QED  BY <1>1, <1>2, <1>3, <1>4, <1>5 DEF Next, ReadLoop

LEMMA WritesSay ==
  ASSUME script.ws \in BOOLEAN, NEW it, it.body.n \in Nat
  PROVE  /\ \A j \in 1..Len(Writes(it)) :
              /\ Writes(it)[j] = "frame" => script.ws /\ j < Len(Writes(it)) /\ Writes(it)[j + 1] = "head"
              /\ Writes(it)[j] = "head" => IF j < Len(Writes(it)) THEN Writes(it)[j + 1] = "body"
                                           ELSE it.body.n = 0
              /\ Writes(it)[j] \in {"body", "raw"} => j = Len(Writes(it))
              /\ Writes(it)[j] = "raw" => ~script.ws /\ HeadOf(it) = 0
         /\ Head(Writes(it)) # "body" /\ (Head(Writes(it)) = "head" => ~script.ws)
<1>1. CASE script.ws /\ it.body.n > 0
  <2>1. Writes(it) = <<"frame", "head", "body">>
    BY <1>1 DEF Writes, WriteWebsocket
  <2> QED  BY <1>1, <2>1
<1>2. CASE script.ws /\ it.body.n = 0
  <2>1. Writes(it) = <<"frame", "head">>
    BY <1>2 DEF Writes, WriteWebsocket
  <2> QED  BY <1>2, <2>1
<1>3. CASE ~script.ws /\ HeadOf(it) = 0
  <2>1. Writes(it) = <<"raw">>
    BY <1>3 DEF Writes, WriteTCP
  <2> QED  BY <1>3, <2>1
<1>4. CASE ~script.ws /\ HeadOf(it) # 0 /\ it.body.n > 0
  <2>1. Writes(it) = <<"head", "body">>
    BY <1>4 DEF Writes, WriteTCP
  <2> QED  BY <1>4, <2>1
<1>5. CASE ~script.ws /\ HeadOf(it) # 0 /\ it.body.n = 0
  <2>1. Writes(it) = <<"head">>
    BY <1>5 DEF Writes, WriteTCP
  <2> QED  BY <1>5, <2>1
<1> QED  BY <1>1, <1>2, <1>3, <1>4, <1>5

LEMMA PongIsItem ==
  ASSUME MessageInv, pc \in {"pong", "pongbody"}
  PROVE  /\ ItemOK(Pong) /\ HeadOf(Pong) = 0
         /\ Pong.of = "pong" /\ Pong.k = frame /\ Pong.body = part /\ frame \in Nat
<1>1. frame \in Nat /\ BodyOK(part)
  BY DEF MessageInv, Framing
<1>2. Pong.of = "pong" /\ Pong.k = frame /\ Pong.body = part /\ Pong.heart = FALSE
  BY DEF Pong
<1>3. HeadOf(Pong) = 0
  BY <1>2 DEF HeadOf
<1> QED  BY <1>1, <1>2, <1>3 DEF ItemOK

\* What Write writes of its item.
LEMMA WriteWrote ==
  ASSUME StreamInv, ControlInv, DispatchInv, wr \in Writers(Outs), Write
  PROVE  /\ ItemOK(item) /\ dpc \in Writing
         /\ dpc = "frame" => Wrote(wr, wr', item.of, item.k, All(item), 0, FramedBy(item))
         /\ dpc = "head" => Wrote(wr, wr', item.of, item.k, All(item), FramedBy(item), HeadOf(item))
         /\ dpc \in {"body", "raw"} =>
              Wrote(wr, wr', item.of, item.k, All(item), FramedBy(item) + HeadOf(item), item.body.n)
<1>1. dpc \in Writing /\ ItemOK(item) /\ script.ws \in BOOLEAN /\ open \in BOOLEAN /\ ReaderTypeOK
  BY DEF Write, Writing, DispatchInv, ControlInv, StreamInv, WindowInv
<1>2. dpc = "frame" => script.ws = TRUE
  <2>1. item.body.n \in Nat
    BY <1>1, ItemSizes
  <2> QED  BY <1>1, <2>1, WritesSay DEF DispatchInv
<1> HIDE DEF Outs, ItemOK
<1>3. CASE dpc = "frame" /\ wr' \in WriteHeader(item)
  BY <1>1, <1>2, <1>3, HeaderWrote
<1>4. CASE dpc = "head" /\ wr' \in WriteHead(wr, item)
  BY <1>1, <1>4, HeadWrote
<1>5. CASE dpc = "body" /\ wr' \in Written(wr, BodyOf(item), ~open)
  BY <1>1, <1>5, BodyWrote
<1>6. CASE dpc = "raw" /\ wr' \in WrittenRaw(wr, BodyOf(item), ~open)
  BY <1>1, <1>6, BodyWrote
<1> QED  BY <1>1, <1>3, <1>4, <1>5, <1>6 DEF Write, WriteBody

LEMMA PongWrote ==
  ASSUME StreamInv, ControlInv, MessageInv, wr \in Writers(Outs), WritePong
  PROVE  \/ pc = "pong" /\ Wrote(wr, wr', "pong", frame, All(Pong), 0, FramedBy(Pong))
         \/ pc = "pongbody" /\ Wrote(wr, wr', "pong", frame, All(Pong), FramedBy(Pong) + 0, part.n)
<1>1. pc \in {"pong", "pongbody"} /\ script.ws = TRUE /\ open \in BOOLEAN /\ ReaderTypeOK
  BY DEF WritePong, ControlInv, Framing, StreamInv, WindowInv
<1>2. ItemOK(Pong) /\ HeadOf(Pong) = 0 /\ Pong.of = "pong" /\ Pong.k = frame /\ Pong.body = part
  BY <1>1, PongIsItem
<1> HIDE DEF Outs, ItemOK
<1>3. CASE pc = "pong" /\ wr' \in WriteHeader(Pong)
  BY <1>1, <1>2, <1>3, HeaderWrote
<1>4. CASE pc = "pongbody" /\ wr' \in Written(wr, BodyOf(Pong), ~open)
  BY <1>1, <1>2, <1>4, BodyWrote
<1> QED  BY <1>3, <1>4 DEF WritePong

\* The answers of the handshake end where an item ends.
LEMMA HandshakeWrote ==
  ASSUME StreamInv, ControlInv, MessageInv, wr \in Writers(Outs), Whole(Sofar(wr)),
         ~wr.err => AtEnd(Sofar(wr)), (Upgrade /\ script.upgrade) \/ AuthReply
  PROVE  /\ wr' \in Writers(Outs) /\ (wr.err => wr' = wr) /\ Whole(Sofar(wr'))
         /\ ~wr'.err => AtEnd(Sofar(wr'))
<1>1. open \in BOOLEAN /\ (~open) \in BOOLEAN /\ script.ws \in BOOLEAN /\ ReaderTypeOK
  BY DEF ControlInv, StreamInv, WindowInv
<1> HIDE DEF Outs
<1>2. ASSUME NEW s, wr' \in Flushed(s, ~open), s \in Writers(Outs), wr.err => s = wr,
             Whole(Sofar(s)), ~s.err => AtEnd(Sofar(s))
      PROVE  /\ wr' \in Writers(Outs) /\ (wr.err => wr' = wr) /\ Whole(Sofar(wr'))
             /\ ~wr'.err => AtEnd(Sofar(wr'))
  <2>1. wr' \in Writers(Outs) /\ (s.err => wr' = s) /\ (~wr'.err => ~s.err /\ Sofar(wr') = Sofar(s))
        /\ Whole(Sofar(wr'))
    BY <1>1, <1>2, FlushWrote
  <2> QED  BY <1>2, <2>1
<1>3. CASE AuthReply
  <2> DEFINE it == [Reply(proto) EXCEPT !.body = Nil]
  <2>1. ItemOK(it) /\ it.body.n = 0
    <3>1. it = [of |-> "reply", k |-> proto.k, heart |-> proto.op = "beat", body |-> Nil]
      BY DEF Reply
    <3>2. BodyOK(Nil) /\ Nil.n = 0
      BY NilIsBody
    <3> HIDE DEF it
    <3> QED  BY <3>1, <3>2 DEF ItemOK, MessageInv
  <2>2. PICK s \in UNION {WriteHead(t, it) : t \in IF script.ws THEN WriteHeader(it) ELSE {wr}} :
          wr' \in Flushed(s, ~open)
    BY <1>3 DEF AuthReply
  <2> HIDE DEF it
  <2>3. s \in Writers(Outs) /\ (wr.err => s = wr) /\ Whole(Sofar(s)) /\ (~s.err => AtEnd(Sofar(s)))
    BY <1>1, <2>1, <2>2, AuthReplyWrote
  <2> QED  BY <1>2, <2>2, <2>3
<1>4. CASE Upgrade /\ script.upgrade
  <2>1. PICK t \in Strung(wr, Response(1), ~open) :
          \E s \in Strung(t, Response(2), ~open) : wr' \in Flushed(s, ~open)
    BY <1>4 DEF Upgrade
  <2>2. PICK s \in Strung(t, Response(2), ~open) : wr' \in Flushed(s, ~open)
    BY <2>1
  <2>3. s \in Writers(Outs) /\ (wr.err => s = wr) /\ Whole(Sofar(s)) /\ (~s.err => AtEnd(Sofar(s)))
    BY <1>1, <2>1, <2>2, UpgradeWrote
  <2> QED  BY <1>2, <2>2, <2>3
<1> QED  BY <1>3, <1>4

-----------------------------------------------------------------------------
(* The invariants of the writer *)

\* How far the item is that is being written.
Place ==
    /\ ~(Midway /\ pc = "pongbody")
    /\ dpc = "head" => Behind(Sofar(wr), item.of, item.k, All(item), FramedBy(item))
    /\ dpc = "body" => Behind(Sofar(wr), item.of, item.k, All(item), FramedBy(item) + HeadOf(item))
    /\ pc = "pongbody" => Behind(Sofar(wr), "pong", frame, All(Pong), FramedBy(Pong))
    /\ ~Midway /\ pc # "pongbody" => AtEnd(Sofar(wr))

FrameInv ==
    /\ wr \in Writers(Outs)
    /\ dpc = "none" => ~torn
    /\ ~torn => Whole(Sofar(wr)) /\ (~wr.err => Place)

LEMMA DispatcherAt ==
  ASSUME StreamInv, ControlInv, RingInv, SignalInv, [Next]_vars, ~Write
  PROVE  \/ UNCHANGED <<dpc, item>>
         \/ ~Midway /\ dpc' \notin {"head", "body"}
         \/ ~Midway /\ \E it : ItemOK(it) /\ Begin(it)
<1>1. CASE Wait
  <2>1. /\ Head(signal).of \in {"ready", "finish", "push"}
        /\ Head(signal).of = "push" => Head(signal).k \in 1..Len(script.pushes)
    BY <1>1, FirstSignal DEF Wait
  <2>2. CASE Head(signal).of = "push"
    <3>1. ItemOK(Push(Head(signal).k))
      BY <2>1, <2>2, PushIsItem DEF StreamInv
    <3>2. Begin(Push(Head(signal).k))
      BY <1>1, <2>2 DEF Wait
    <3> QED  BY <1>1, <3>1, <3>2 DEF Wait, Midway
  <2>3. CASE Head(signal).of \in {"ready", "finish"}
    BY <1>1, <2>3 DEF Wait, DGoto, Midway
  <2> QED  BY <2>1, <2>2, <2>3
<1>2. CASE Get
  <2>1. CASE slots = <<>>
    BY <1>2, <2>1 DEF Get, DGoto, Midway
  <2>2. CASE slots # <<>>
    <3>1. Head(slots) \in Requests
      <4> HIDE DEF Requests
      <4> QED  BY <2>2 DEF RingInv
    <3>2. ItemOK(Reply(Head(slots))) /\ Begin(Reply(Head(slots)))
      BY <1>2, <2>2, <3>1, ReplyIsItem DEF Get
    <3> QED  BY <1>2, <3>2 DEF Get, Midway
  <2> QED  BY <2>1, <2>2
<1>3. CASE Flush \/ Shut \/ Drain
  BY <1>3 DEF Flush, Shut, Drain, DGoto, Midway
<1>4. CASE AuthReply
  <2>1. dpc = "none" /\ dpc' \in {"none", "wait"}
    BY <1>4 DEF AuthReply, ControlInv
  <2> QED  BY <2>1 DEF Midway
<1>5. CASE UNCHANGED vars
  BY <1>5 DEF vars, dispatch, writing
<1>6. CASE Environment
  BY <1>6 DEF Environment, Send, Finish, Close, PushTo, Lend, dispatch, writing
<1>7. CASE \/ TakeHead \/ TakeBody \/ TakeLine \/ TakeFirst \/ TakeSecond \/ TakeExt \/ TakeKey
           \/ TakePayload
  BY <1>7 DEF TakeHead, TakeBody, TakeLine, TakeFirst, TakeSecond, TakeExt, TakeKey,
              TakePayload, Popping, Receive, Elsewhere, dispatch, writing
<1>8. CASE SetProto \/ Operate \/ Signal \/ Upgrade \/ Unmask \/ HandleFrame \/ CountFrame
           \/ TakeMessage \/ Leave \/ WritePong
  BY <1>8 DEF SetProto, Operate, Signal, Upgrade, Unmask, HandleFrame, CountFrame, TakeMessage, Leave,
              WritePong, Elsewhere, dispatch, writing
<1> QED  BY <1>1, <1>2, <1>3, <1>4, <1>5, <1>6, <1>7, <1>8 DEF Next, ReadLoop, Dispatcher

\* A step that adds nothing to what was written keeps the place.
LEMMA NothingAdded ==
  ASSUME StreamInv, ControlInv, RingInv, SignalInv, [Next]_vars, script' = script,
         ~Write, ~WritePong, Place, Sofar(wr)' = Sofar(wr)
  PROVE  Place'
<1>1. /\ pc = "pongbody" => UNCHANGED <<pc, part, frame>>
      /\ pc' = "pongbody" => pc = "pongbody"
  BY ReaderAt
<1>2. pc = "pongbody" => script.ws
  BY DEF ControlInv, Framing
<1>3. ASSUME pc' = "pongbody"
      PROVE  frame' = frame /\ All(Pong)' = All(Pong) /\ FramedBy(Pong)' = FramedBy(Pong)
  <2>1. Pong' = Pong
    BY <1>1, <1>3 DEF Pong
  <2> QED  BY <1>1, <1>3, <2>1 DEF All, FramedBy, Length, HeadOf
<1>4. ASSUME item' = item
      PROVE  All(item)' = All(item) /\ FramedBy(item)' = FramedBy(item) /\ HeadOf(item)' = HeadOf(item)
  BY <1>4 DEF All, FramedBy, Length, HeadOf
<1>5. CASE UNCHANGED <<dpc, item>>
  <2>1. Midway' = Midway
    BY <1>5 DEF Midway
  <2> QED  BY <1>1, <1>3, <1>4, <1>5, <2>1 DEF Place
<1>6. CASE ~Midway /\ dpc' \notin {"head", "body"}
  <2>1. ~Midway'
    BY <1>6 DEF Midway
  <2> QED  BY <1>1, <1>3, <1>6, <2>1 DEF Place
<1>7. ASSUME ~Midway, NEW it, ItemOK(it), Begin(it) PROVE Place'
  <2>1. item' = it /\ dpc' = Head(Writes(it))
    BY <1>7 DEF Begin, DGoto
  <2>2. it.body.n \in Nat /\ script.ws \in BOOLEAN
    BY <1>7, ItemContents DEF StreamInv, WindowInv, ControlInv
  <2>3. dpc' # "body" /\ (dpc' = "head" => ~script.ws)
    BY <2>1, <2>2, WritesSay
  <2>4. ~script.ws => FramedBy(item)' = 0
    BY DEF FramedBy
  <2>5. dpc' = "head" => Behind(Sofar(wr), item.of, item.k, All(item), FramedBy(item))'
    <3>1. ASSUME ~script.ws PROVE AtEnd(Sofar(wr))
      BY <1>2, <1>7, <3>1 DEF Place
    <3> QED  BY <2>3, <2>4, <3>1 DEF Behind
  <2>6. ~(Midway' /\ pc' = "pongbody")
    BY <1>1, <1>2, <2>3 DEF Midway
  <2> QED  BY <1>1, <1>3, <1>7, <2>3, <2>5, <2>6 DEF Place, Midway
<1> QED  BY <1>5, <1>6, <1>7, DispatcherAt

LEMMA HandshakeFrames ==
  ASSUME StreamInv, ControlInv, MessageInv, FrameInv, (Upgrade /\ script.upgrade) \/ AuthReply
  PROVE  FrameInv' /\ (wr.err => wr' = wr)
<1>1. dpc = "none" /\ pc # "pongbody" /\ dpc' \in {"none", "wait"} /\ torn' = torn /\ pc' # "pongbody"
  <2>1. dpc = "none" /\ pc \in {"upgrade", "reply"}
    BY DEF Upgrade, AuthReply, ControlInv
  <2>2. pc' # "pongbody"
    <3>1. ASSUME Fail("write") PROVE pc' # "pongbody"
      BY <3>1, ExitStarts DEF Fail, ControlInv
    <3> QED  BY <3>1 DEF Upgrade, AuthReply, Goto
  <2> QED  BY <2>1, <2>2 DEF Upgrade, AuthReply
<1>2. ~torn /\ Whole(Sofar(wr)) /\ (~wr.err => AtEnd(Sofar(wr))) /\ wr \in Writers(Outs)
  BY <1>1 DEF FrameInv, Place, Midway
<1>3. /\ wr' \in Writers(Outs) /\ (wr.err => wr' = wr) /\ Whole(Sofar(wr'))
      /\ ~wr'.err => AtEnd(Sofar(wr'))
  BY <1>2, HandshakeWrote
<1>4. Sofar(wr)' = Sofar(wr') /\ wr'.err = (wr.err)' /\ (wr \in Writers(Outs))' = (wr' \in Writers(Outs))
  BY DEF Sofar, Writers, Outs, Stuff
<1>5. ~wr'.err => Place'
  BY <1>1, <1>3, <1>4 DEF Place, Midway
<1> QED  BY <1>1, <1>2, <1>3, <1>4, <1>5 DEF FrameInv

LEMMA PongFrames ==
  ASSUME StreamInv, ControlInv, MessageInv, FrameInv, WritePong
  PROVE  FrameInv' /\ (wr.err => wr' = wr)
<1>1. /\ UNCHANGED <<script, dpc, item, frame, part>> /\ torn' = (torn \/ Midway)
      /\ pc \in {"pong", "pongbody"}
  BY DEF WritePong, client, reading, message
<1>2. /\ pc = "pong" => IF wr'.err THEN Fail("write") ELSE Goto(IF part.n > 0 THEN "pongbody" ELSE "count")
      /\ pc = "pongbody" => IF wr'.err THEN Fail("write") ELSE Goto("count")
  BY DEF WritePong
<1>3. PICK m, g \in Nat, n \in Nat :
        /\ m = All(Pong) /\ g = FramedBy(Pong) /\ n = part.n /\ m = g + n
        /\ \/ pc = "pong" /\ Wrote(wr, wr', "pong", frame, m, 0, g)
           \/ pc = "pongbody" /\ Wrote(wr, wr', "pong", frame, m, g, n)
  <2>1. ItemOK(Pong) /\ HeadOf(Pong) = 0 /\ Pong.body = part
    BY <1>1, PongIsItem
  <2>2. ReaderTypeOK /\ script.ws \in BOOLEAN
    BY DEF StreamInv, WindowInv, ControlInv
  <2>3. /\ All(Pong) \in Nat /\ FramedBy(Pong) \in Nat /\ part.n \in Nat
        /\ All(Pong) = (FramedBy(Pong) + 0) + part.n
    BY <2>1, <2>2, AllOf
  <2>4. FramedBy(Pong) + 0 = FramedBy(Pong)
    BY <2>3
  <2>5. wr \in Writers(Outs)
    BY DEF FrameInv
  <2>6. \/ pc = "pong" /\ Wrote(wr, wr', "pong", frame, All(Pong), 0, FramedBy(Pong))
        \/ pc = "pongbody" /\ Wrote(wr, wr', "pong", frame, All(Pong), FramedBy(Pong), part.n)
    BY <2>4, <2>5, PongWrote
  <2> QED  BY <2>3, <2>4, <2>6
<1>4. wr' \in Writers(Outs) /\ (wr.err => wr' = wr)
  BY <1>3 DEF Wrote
<1>5. Sofar(wr)' = Sofar(wr') /\ (wr.err)' = wr'.err /\ (wr \in Writers(Outs))' = (wr' \in Writers(Outs))
  BY DEF Sofar, Writers, Outs, Stuff
<1>6. All(Pong)' = m /\ FramedBy(Pong)' = g /\ Midway' = Midway
  <2>1. Pong' = Pong
    BY <1>1 DEF Pong
  <2> QED  BY <1>1, <1>3, <2>1 DEF All, FramedBy, Length, HeadOf, Midway
<1>7. ASSUME ~torn' PROVE Whole(Sofar(wr')) /\ (~wr'.err => Place')
  <2>1. ~torn /\ ~Midway /\ Whole(Sofar(wr)) /\ (~wr.err => Place)
    BY <1>1, <1>7 DEF FrameInv
  <2>2. ASSUME ~wr'.err PROVE ~wr.err
    BY <1>4, <2>2
  <2>3. dpc' \notin {"head", "body"} /\ ~Midway'
    BY <1>1, <2>1 DEF Midway
  <2>4. CASE pc = "pong"
    <3>1. ~wr.err => Behind(Sofar(wr), "pong", frame, m, 0)
      BY <2>1, <2>4 DEF Place, Behind
    <3>2. 0 + g = g
      BY <1>3
    <3>3. Whole(Sofar(wr')) /\ (~wr'.err => Behind(Sofar(wr'), "pong", frame, m, g))
      BY <1>3, <2>1, <2>4, <3>1, <3>2 DEF Wrote
    <3>4. CASE ~wr'.err /\ n > 0
      <4>1. pc' = "pongbody"
        BY <1>2, <1>3, <2>4, <3>4 DEF Goto
      <4> QED  BY <1>1, <1>5, <1>6, <2>3, <3>3, <3>4, <4>1 DEF Place
    <3>5. CASE ~wr'.err /\ ~(n > 0)
      <4>1. pc' = "count" /\ m = g
        BY <1>2, <1>3, <2>4, <3>5 DEF Goto
      <4>2. AtEnd(Sofar(wr'))
        BY <3>3, <3>5, <4>1, ItemEnds
      <4> QED  BY <1>5, <2>3, <3>3, <4>1, <4>2 DEF Place
    <3> QED  BY <3>3, <3>4, <3>5
  <2>5. CASE pc = "pongbody"
    <3>1. ~wr.err => Behind(Sofar(wr), "pong", frame, m, g)
      BY <1>3, <2>1, <2>5 DEF Place
    <3>2. Whole(Sofar(wr')) /\ (~wr'.err => Behind(Sofar(wr'), "pong", frame, m, m))
      BY <1>3, <2>1, <2>5, <3>1 DEF Wrote
    <3>3. ASSUME ~wr'.err PROVE Place'
      <4>1. pc' = "count"
        BY <1>2, <2>5, <3>3 DEF Goto
      <4>2. AtEnd(Sofar(wr'))
        BY <3>2, <3>3, ItemEnds
      <4> QED  BY <1>5, <2>3, <4>1, <4>2 DEF Place
    <3> QED  BY <3>2, <3>3
  <2> QED  BY <1>1, <2>4, <2>5
<1>8. dpc' = "none" => ~torn'
  BY <1>1 DEF FrameInv, Midway
<1> QED  BY <1>4, <1>5, <1>7, <1>8 DEF FrameInv

LEMMA WriteFrames ==
  ASSUME StreamInv, ControlInv, DispatchInv, FrameInv, Write
  PROVE  FrameInv' /\ (wr.err => wr' = wr)
<1>1. UNCHANGED <<script, item, pc, frame, part>> /\ torn' = (torn \/ pc = "pongbody")
  BY DEF Write, Overlaps, client, control, reading, message
<1>2. wr \in Writers(Outs)
  BY DEF FrameInv
<1>3. /\ ItemOK(item) /\ dpc \in Writing
      /\ dpc = "frame" => Wrote(wr, wr', item.of, item.k, All(item), 0, FramedBy(item))
      /\ dpc = "head" => Wrote(wr, wr', item.of, item.k, All(item), FramedBy(item), HeadOf(item))
      /\ dpc \in {"body", "raw"} =>
           Wrote(wr, wr', item.of, item.k, All(item), FramedBy(item) + HeadOf(item), item.body.n)
  BY <1>2, WriteWrote
<1> HIDE DEF ItemOK, Outs
<1>4. wr' \in Writers(Outs) /\ (wr.err => wr' = wr)
  BY <1>3 DEF Wrote, Writing
<1>5. Sofar(wr)' = Sofar(wr') /\ (wr.err)' = wr'.err /\ (wr \in Writers(Outs))' = (wr' \in Writers(Outs))
  BY DEF Sofar, Writers, Outs, Stuff
<1>6. All(item)' = All(item) /\ FramedBy(item)' = FramedBy(item) /\ HeadOf(item)' = HeadOf(item)
  BY <1>1 DEF All, FramedBy, Length, HeadOf
<1>7. PICK m \in Nat, g \in Nat, h \in Nat, n \in Nat :
        /\ m = All(item) /\ g = FramedBy(item) /\ h = HeadOf(item) /\ n = item.body.n
        /\ m = (g + h) + n /\ (~script.ws => g = 0)
  <2>1. ReaderTypeOK /\ script.ws \in BOOLEAN
    BY DEF StreamInv, WindowInv, ControlInv
  <2> QED  BY <1>3, <2>1, AllOf, ItemSizes
<1>8. PICK x, k : x = item.of /\ k = item.k
  OBVIOUS
<1>9. /\ dpc = "frame" => Wrote(wr, wr', x, k, m, 0, g)
      /\ dpc = "head" => Wrote(wr, wr', x, k, m, g, h)
      /\ dpc \in {"body", "raw"} => Wrote(wr, wr', x, k, m, g + h, n)
  BY <1>3, <1>7, <1>8
<1>10. \A j \in 1..Len(Writes(item)) :
          /\ Writes(item)[j] = "frame" =>
                j < Len(Writes(item)) /\ Writes(item)[j + 1] = "head"
          /\ Writes(item)[j] = "head" => IF j < Len(Writes(item)) THEN Writes(item)[j + 1] = "body"
                                         ELSE n = 0
          /\ Writes(item)[j] \in {"body", "raw"} => j = Len(Writes(item))
          /\ Writes(item)[j] = "raw" => ~script.ws /\ h = 0
  <2>1. script.ws \in BOOLEAN /\ item.body.n \in Nat
    BY <1>7 DEF ControlInv
  <2> QED  BY <1>7, <2>1, WritesSay
<1>11. PICK len \in 1..3 : len = Len(Writes(item))
  BY WritesAre DEF ControlInv
<1>12. ASSUME ~torn' PROVE Whole(Sofar(wr')) /\ (~wr'.err => Place')
  <2>1. ~torn /\ pc # "pongbody" /\ Whole(Sofar(wr)) /\ (~wr.err => Place)
    BY <1>1, <1>12 DEF FrameInv
  <2>2. ASSUME dpc' \notin {"head", "body"}, AtEnd(Sofar(wr')) PROVE Place'
    BY <1>1, <1>5, <2>1, <2>2 DEF Place, Midway
  <2>3. ASSUME dpc' = "head", Behind(Sofar(wr'), x, k, m, g) PROVE Place'
    BY <1>1, <1>5, <1>6, <1>7, <1>8, <2>1, <2>3 DEF Place, Midway
  <2>4. ASSUME dpc' = "body", Behind(Sofar(wr'), x, k, m, g + h) PROVE Place'
    BY <1>1, <1>5, <1>6, <1>7, <1>8, <2>1, <2>4 DEF Place, Midway
  <2>5. Done => dpc' \notin {"head", "body"}
    BY DEF Done, DGoto
  <2>6. \/ wr'.err
        \/ \E j \in 1..len-1 : Writes(item)[j] = dpc /\ dpc' = Writes(item)[j + 1]
        \/ Writes(item)[len] = dpc /\ Done
    BY <1>11, WriteGoesOn
  <2>7. len \in 1..len /\ \A j \in 1..len-1 : j \in 1..len /\ j < len /\ j # len
    BY <1>11
  <2>8. CASE dpc = "frame"
    <3>1. ~wr.err => Behind(Sofar(wr), x, k, m, 0)
      BY <2>1, <2>8 DEF Place, Behind, Midway
    <3>2. Whole(Sofar(wr')) /\ (~wr'.err => Behind(Sofar(wr'), x, k, m, 0 + g))
      BY <1>9, <2>1, <2>8, <3>1 DEF Wrote
    <3>3. 0 + g = g
      BY <1>7
    <3>4. ~wr'.err => dpc' = "head"
      BY <1>10, <1>11, <2>6, <2>7, <2>8
    <3> QED  BY <2>3, <3>2, <3>3, <3>4
  <2>9. CASE dpc = "head"
    <3>1. ~wr.err => Behind(Sofar(wr), x, k, m, g)
      BY <1>7, <1>8, <2>1, <2>9 DEF Place
    <3>2. Whole(Sofar(wr')) /\ (~wr'.err => Behind(Sofar(wr'), x, k, m, g + h))
      BY <1>9, <2>1, <2>9, <3>1 DEF Wrote
    <3>3. ~wr'.err => dpc' = "body" \/ (Done /\ n = 0)
      BY <1>10, <1>11, <2>6, <2>7, <2>9
    <3>4. ASSUME ~wr'.err, Done, n = 0 PROVE Place'
      <4>1. g + h = m
        BY <1>7, <3>4
      <4>2. AtEnd(Sofar(wr'))
        BY <3>2, <3>4, <4>1, ItemEnds
      <4> QED  BY <2>2, <2>5, <3>4, <4>2
    <3> QED  BY <2>4, <3>2, <3>3, <3>4
  <2>10. CASE dpc \in {"body", "raw"}
    <3>1. ~wr.err => Behind(Sofar(wr), x, k, m, g + h)
      <4>1. CASE dpc = "body"
        BY <1>7, <1>8, <2>1, <4>1 DEF Place
      <4>2. CASE dpc = "raw"
        <5>1. ~script.ws /\ h = 0
          BY <1>10, <1>11, <4>2 DEF DispatchInv, Writing
        <5>2. g + h = 0
          BY <1>7, <5>1
        <5> QED  BY <2>1, <4>2, <5>2 DEF Place, Behind, Midway
      <4> QED  BY <2>10, <4>1, <4>2
    <3>2. Whole(Sofar(wr')) /\ (~wr'.err => Behind(Sofar(wr'), x, k, m, (g + h) + n))
      BY <1>9, <2>1, <2>10, <3>1 DEF Wrote
    <3>3. ~wr'.err => Done
      BY <1>10, <1>11, <2>6, <2>7, <2>10
    <3>4. ~wr'.err => AtEnd(Sofar(wr'))
      BY <1>7, <3>2, ItemEnds
    <3> QED  BY <2>2, <2>5, <3>2, <3>3, <3>4
  <2> QED  BY <1>3, <2>8, <2>9, <2>10 DEF Writing
<1>13. dpc' # "none"
  <2>1. \A j \in 1..Len(Writes(item)) : Writes(item)[j] \in Writing
    BY WritesAre DEF ControlInv
  <2>2. ASSUME NEW j \in 1..len-1, dpc' = Writes(item)[j + 1] PROVE dpc' # "none"
    <3>1. j + 1 \in 1..len
      BY <1>11, <2>2
    <3> QED  BY <1>11, <2>1, <2>2, <3>1 DEF Writing
  <2> QED  BY <1>11, <2>2, WriteGoesOn DEF Done, DGoto
<1> QED  BY <1>4, <1>5, <1>12, <1>13 DEF FrameInv

LEMMA FrameStep ==
  ASSUME StreamInv, ControlInv, MessageInv, RingInv, SignalInv, DispatchInv, FrameInv, [Next]_vars,
         script' = script, ControlInv'
  PROVE  FrameInv' /\ (wr.err => wr' = wr)
<1>1. CASE (Upgrade /\ script.upgrade) \/ AuthReply
  BY <1>1, HandshakeFrames
<1>2. CASE WritePong
  BY <1>2, PongFrames
<1>3. CASE Write
  BY <1>3, WriteFrames
<1>4. CASE ~WritePong /\ ~Write /\ ~((Upgrade /\ script.upgrade) \/ AuthReply)
  <2>1. torn' = torn
    BY <1>4, TornMoves
  <2>2. /\ wr' \in Writers(Outs) /\ (wr.err => wr' = wr)
        /\ ~wr'.err => ~wr.err /\ Sofar(wr') = Sofar(wr)
        /\ Whole(Sofar(wr)) => Whole(Sofar(wr'))
    <3>1. CASE UNCHANGED wr
      BY <3>1 DEF FrameInv
    <3>2. CASE Flush
      <4>1. wr' \in Flushed(wr, ~open) /\ wr \in Writers(Outs) /\ (~open) \in BOOLEAN
        BY <3>2 DEF Flush, FrameInv
      <4> HIDE DEF Outs
      <4> QED  BY <4>1, FlushWrote
    <3> QED  BY <1>4, <3>1, <3>2, WriterMoves
  <2>3. Sofar(wr)' = Sofar(wr') /\ (wr.err)' = wr'.err /\ (wr \in Writers(Outs))' = (wr' \in Writers(Outs))
    BY DEF Sofar, Writers, Outs, Stuff
  <2>4. ASSUME ~torn', ~wr'.err PROVE Place'
    <3>1. Place
      BY <2>1, <2>2, <2>4 DEF FrameInv
    <3> QED  BY <1>4, <2>2, <2>3, <2>4, <3>1, NothingAdded
  <2>5. ~torn' => Whole(Sofar(wr'))
    BY <2>1, <2>2 DEF FrameInv
  <2>6. dpc' = "none" => dpc = "none"
    <3>1. authed => authed'
      BY AuthedStays
    <3> QED  BY <3>1 DEF ControlInv
  <2> QED  BY <2>1, <2>2, <2>3, <2>4, <2>5, <2>6 DEF FrameInv
<1> QED  BY <1>1, <1>2, <1>3, <1>4

-----------------------------------------------------------------------------
(* The end of the connection *)

\* A finish was sent: it is on its way, or taken.
Finished ==
    dpc \in {"exit", "gone"} \/ \E i \in 1..Len(signal) : signal[i].of = "finish"

EndInv ==
    /\ Finished => pc = "gone" \/ (script.ws /\ pc = "putrb")
    /\ dpc \in {"shut", "drain"} => wr.err
    /\ ~lent => (~authed /\ pc = "gone") \/ dpc \in {"drain", "gone"}

BoolInv == {ended, impatient, lent, torn} \subseteq BOOLEAN

LEMMA BoolStep ==
  ASSUME BoolInv, [Next]_vars
  PROVE  BoolInv'
<1>1. torn' \in BOOLEAN
  BY TornMoves DEF BoolInv
<1>2. ended' \in BOOLEAN /\ impatient' \in BOOLEAN
  <2>1. CASE Send \/ Finish
    <3>1. impatient' = (impatient \/ Outstanding) /\ ended' \in {ended, TRUE}
      BY <2>1 DEF Send, Finish, client
    <3>2. (impatient \/ Outstanding) \in BOOLEAN
      OBVIOUS
    <3> QED  BY <3>1, <3>2 DEF BoolInv
  <2>2. CASE ~(Send \/ Finish)
    <3>1. UNCHANGED <<ended, impatient>>
      BY <2>2 DEF Next, Environment, ReadLoop, Dispatcher, Close, PushTo, Lend, SetProto, Operate,
              TakeHead, TakeBody, TakeLine, AuthReply, Signal, Upgrade, TakeFirst, TakeSecond, TakeExt,
              TakeKey, TakePayload, Unmask, HandleFrame, CountFrame, WritePong, TakeMessage, Leave,
              Wait, Get, Write, Flush, Shut, Drain, Popping, Receive, Elsewhere, vars, client
    <3> QED  BY <3>1 DEF BoolInv
  <2> QED  BY <2>1, <2>2
<1>3. lent' \in BOOLEAN
  <2>1. CASE Leave
    <3>1. (lent /\ authed) \in BOOLEAN
      OBVIOUS
    <3> QED  BY <2>1, <3>1 DEF Leave, BoolInv
  <2>2. CASE ~Leave
    <3>1. lent' \in {lent, FALSE}
      BY <2>2 DEF Next, Environment, ReadLoop, Dispatcher, Close, PushTo, Lend, SetProto, Operate,
              Send, Finish, TakeHead, TakeBody, TakeLine, AuthReply, Signal, Upgrade, TakeFirst,
              TakeSecond, TakeExt, TakeKey, TakePayload, Unmask, HandleFrame, CountFrame, WritePong,
              TakeMessage, Wait, Get, Write, Flush, Shut, Drain, Popping, Receive, Elsewhere, vars,
              dispatch, writing
    <3> QED  BY <3>1 DEF BoolInv
  <2> QED  BY <2>1, <2>2
<1> QED  BY <1>1, <1>2, <1>3 DEF BoolInv

\* Where the write buffer is given back.
LEMMA LentMoves ==
  ASSUME [Next]_vars
  PROVE  \/ lent' = lent
         \/ Leave /\ pc = "putrb" /\ lent' = (lent /\ authed) /\ UNCHANGED <<authed, dpc>>
         \/ Shut
<1>1. CASE Leave
  BY <1>1 DEF Leave
<1>2. CASE ~Leave /\ ~Shut
  BY <1>2 DEF Next, Environment, ReadLoop, Dispatcher, Close, PushTo, Lend, SetProto, Operate,
          Send, Finish, TakeHead, TakeBody, TakeLine, AuthReply, Signal, Upgrade, TakeFirst,
          TakeSecond, TakeExt, TakeKey, TakePayload, Unmask, HandleFrame, CountFrame, WritePong,
          TakeMessage, Wait, Get, Write, Flush, Drain, Popping, Receive, Elsewhere, vars,
          dispatch, writing
<1> QED  BY <1>1, <1>2

\* How the dispatcher comes to its end.
LEMMA DispatcherEnds ==
  ASSUME StreamInv, ControlInv, DispatchInv, SignalInv, [Next]_vars
  PROVE  /\ dpc' \in {"exit", "gone"} => \/ dpc \in {"exit", "gone"}
                                         \/ signal # <<>> /\ Head(signal).of = "finish"
         /\ dpc' \in {"shut", "drain"} => dpc \in {"shut", "drain"} \/ wr'.err
         /\ dpc \in {"drain", "gone"} => dpc' \in {"drain", "gone"}
<1>1. CASE Wait
  <2>1. Head(signal).of \in {"ready", "finish", "push"}
    BY <1>1, FirstSignal DEF Wait
  <2>2. CASE Head(signal).of = "push"
    <3> DEFINE it == Push(Head(signal).k)
    <3>1. dpc' = Head(Writes(it))
      BY <1>1, <2>2 DEF Wait, Begin, DGoto
    <3>2. dpc' \in Writing
      BY <3>1, WritesAre DEF ControlInv
    <3> QED  BY <1>1, <3>2 DEF Wait, Writing
  <2>3. CASE Head(signal).of = "ready"
    BY <1>1, <2>3 DEF Wait, DGoto
  <2>4. CASE Head(signal).of = "finish"
    BY <1>1, <2>4 DEF Wait, DGoto
  <2> QED  BY <2>1, <2>2, <2>3, <2>4
<1>2. CASE Get
  <2>1. CASE slots = <<>>
    BY <1>2, <2>1 DEF Get, DGoto
  <2>2. CASE slots # <<>>
    <3>1. dpc' = Head(Writes(Reply(Head(slots))))
      BY <1>2, <2>2 DEF Get, Begin, DGoto
    <3>2. dpc' \in Writing
      BY <3>1, WritesAre DEF ControlInv
    <3> QED  BY <1>2, <3>2 DEF Get, Writing
  <2> QED  BY <2>1, <2>2
<1>3. CASE Write
  <2>1. \A j \in 1..Len(Writes(item)) : Writes(item)[j] \in Writing
    BY WritesAre DEF ControlInv
  <2>2. Len(Writes(item)) \in 1..3
    BY WritesAre DEF ControlInv
  <2>3. ASSUME NEW j \in 1..Len(Writes(item))-1, dpc' = Writes(item)[j + 1] PROVE dpc' \in Writing
    <3>1. j + 1 \in 1..Len(Writes(item))
      BY <2>2, <2>3
    <3> QED  BY <2>1, <2>3, <3>1
  <2>4. dpc \in Writing /\ (wr'.err \/ dpc' \in Writing \cup {"get", "flush"})
    BY <1>3, <2>3, WriteGoesOn DEF Done, DGoto
  <2>5. wr'.err => dpc' \in Writing \cup {"shut", "get", "flush"}
    BY <1>3, <2>3, WriteGoesOn DEF Done, DGoto
  <2> QED  BY <2>4, <2>5 DEF Writing
<1>4. CASE Flush \/ Shut \/ Drain
  BY <1>4 DEF Flush, Shut, Drain, DGoto
<1>5. CASE AuthReply
  BY <1>5 DEF AuthReply, ControlInv
<1>6. CASE ~Dispatcher /\ ~AuthReply
  <2>1. dpc' = dpc
    BY <1>6 DEF Next, Environment, ReadLoop, Send, Finish, Close, PushTo, Lend, SetProto,
              TakeHead, TakeBody, TakeLine, Operate, Signal, Upgrade, TakeFirst, TakeSecond, TakeExt,
              TakeKey, TakePayload, Unmask, HandleFrame, CountFrame, WritePong, TakeMessage, Leave,
              Popping, Receive, Elsewhere, vars, dispatch, writing
  <2> QED  BY <2>1
<1> QED  BY <1>1, <1>2, <1>3, <1>4, <1>5, <1>6 DEF Dispatcher

LEMMA EndStep ==
  ASSUME StreamInv, ControlInv, MessageInv, SignalInv, DispatchInv, EndInv, [Next]_vars,
         script' = script, wr.err => wr' = wr
  PROVE  EndInv'
<1>1. /\ pc = "gone" => UNCHANGED pc
      /\ pc = "putrb" => UNCHANGED pc \/ Leave
  BY ReaderAt
<1>2. pc = "putrb" /\ Leave /\ script.ws => pc' = "gone"
  BY ExitGoesOn DEF Leave, ControlInv
<1>3. Finished => pc' = "gone" \/ (script.ws /\ pc' = "putrb")
  BY <1>1, <1>2 DEF EndInv
<1>4. ASSUME Finished', ~Finished PROVE pc' = "gone" \/ (script.ws /\ pc' = "putrb")
  <2>1. ~(dpc' \in {"exit", "gone"})
    <3>1. ASSUME signal # <<>> PROVE Head(signal) = signal[1] /\ 1 \in 1..Len(signal)
      <4> HIDE DEF Messages
      <4> QED  BY <3>1 DEF SignalInv
    <3> QED  BY <1>4, <3>1, DispatcherEnds DEF Finished
  <2>2. PICK i \in 1..Len(signal') : signal'[i].of = "finish"
    BY <1>4, <2>1 DEF Finished
  <2>3. signal \in Seq(Messages)
    BY DEF SignalInv
  <2> HIDE DEF Messages
  <2>4. ASSUME NEW m, signal' = Append(signal, m), m.of # "finish" PROVE FALSE
    <3>1. CASE i \in 1..Len(signal)
      <4>1. signal'[i] = signal[i]
        BY <2>3, <2>4, <3>1
      <4> QED  BY <1>4, <2>2, <3>1, <4>1 DEF Finished
    <3>2. CASE i \notin 1..Len(signal)
      <4>1. signal'[i] = m
        BY <2>2, <2>3, <2>4, <3>2
      <4> QED  BY <2>2, <2>4, <4>1
    <3> QED  BY <3>1, <3>2
  <2>5. CASE UNCHANGED signal
    BY <1>4, <2>2, <2>5 DEF Finished
  <2>6. CASE PushTo
    <3>1. \/ signal' = signal
          \/ signal' = Append(signal, [of |-> "push", k |-> pushed + 1])
      BY <2>6 DEF PushTo
    <3> QED  BY <2>4, <2>5, <3>1
  <2>7. CASE Signal
    <3>1. signal' = Append(signal, [of |-> "ready", k |-> 0])
      BY <2>7 DEF Signal
    <3> QED  BY <2>4, <3>1
  <2>8. CASE Leave /\ pc = "finish"
    <3>1. pc' = Following("finish") /\ authed /\ script.ws \in BOOLEAN
      BY <2>8 DEF Leave, ControlInv
    <3> QED  BY <3>1, ExitGoesOn
  <2>9. CASE signal # <<>> /\ signal' = Tail(signal)
    <3>1. signal'[i] = signal[i + 1] /\ i + 1 \in 1..Len(signal)
      BY <2>2, <2>3, <2>9
    <3> QED  BY <1>4, <2>2, <3>1 DEF Finished
  <2> QED  BY <2>5, <2>6, <2>7, <2>8, <2>9, SignalMoves
<1>5. dpc' \in {"shut", "drain"} => wr'.err
  BY DispatcherEnds DEF EndInv
<1>6. ASSUME ~lent' PROVE (~authed' /\ pc' = "gone") \/ dpc' \in {"drain", "gone"}
  <2>1. CASE Shut
    BY <2>1 DEF Shut, DGoto
  <2>2. CASE Leave /\ pc = "putrb" /\ lent' = (lent /\ authed) /\ UNCHANGED <<authed, dpc>>
    <3>1. CASE ~authed
      <4>1. pc' = "gone"
        BY <2>2, <3>1, ExitGoesOn DEF Leave, ControlInv
      <4> QED  BY <2>2, <3>1, <4>1
    <3>2. CASE authed
      BY <1>6, <2>2, <3>2 DEF EndInv
    <3> QED  BY <3>1, <3>2
  <2>3. CASE lent' = lent
    <3>1. CASE ~authed /\ pc = "gone"
      <4>1. ~AuthReply
        BY <3>1 DEF AuthReply
      <4> QED  BY <1>1, <3>1, <4>1, AuthedStays
    <3>2. CASE dpc \in {"drain", "gone"}
      BY <3>2, DispatcherEnds
    <3> QED  BY <1>6, <2>3, <3>1, <3>2 DEF EndInv
  <2> QED  BY <2>1, <2>2, <2>3, LentMoves
<1>7. (wr.err)' = wr'.err /\ (script.ws)' = script.ws
  OBVIOUS
<1> QED  BY <1>3, <1>4, <1>5, <1>6, <1>7 DEF EndInv

\* Nobody writes with a buffer that was put back.
LEMMA GivenBack ==
  ASSUME ControlInv, EndInv, [Next]_vars, wr.err => wr' = wr, ~lent
  PROVE  UNCHANGED wr
<1>1. ASSUME (Upgrade /\ script.upgrade) \/ AuthReply PROVE FALSE
  BY <1>1 DEF Upgrade, AuthReply, EndInv, ControlInv
<1>2. ASSUME Write \/ Flush PROVE FALSE
  BY <1>2 DEF Write, Flush, EndInv, ControlInv
<1>3. CASE WritePong
  <2>1. pc \in {"pong", "pongbody"}
    BY <1>3 DEF WritePong
  <2>2. ~Finished
    BY <2>1 DEF EndInv
  <2>3. dpc = "drain"
    BY <2>1, <2>2 DEF EndInv, Finished
  <2> QED  BY <2>3 DEF EndInv
<1> QED  BY <1>1, <1>2, <1>3, WriterMoves

-----------------------------------------------------------------------------
(* The connection as a whole *)

ConnInv ==
    /\ StreamInv /\ ControlInv /\ MessageInv
    /\ RingInv /\ SignalInv /\ DispatchInv
    /\ FrameInv /\ EndInv /\ BoolInv

LEMMA ConnInit ==
  ASSUME Init
  PROVE  ConnInv
<1>1. /\ script \in Scripts /\ stream = StreamOf(script) /\ sent = 0 /\ ReaderInit
      /\ lines = 0 /\ held /\ w = 0
  BY DEF Init, ReaderInit
<1>2. script \in ScriptType /\ stream \in Seq(Cells)
  BY <1>1, ScriptFacts
<1>3. script.ws \in BOOLEAN /\ Len(script.pushes) \in Nat
  BY <1>2 DEF ScriptType
<1>4. StreamInv
  <2>1. WindowInv
    BY <1>1, <1>2, WindowInit
  <2> QED  BY <1>1, <2>1 DEF StreamInv
<1>5. ControlInv
  BY <1>1, <1>3 DEF Init, ControlInv, Pcs, Exits, Framing, Framed, Taken, Dpcs, Whys
<1>6. MessageInv
  <2>1. BodyOK(Nil) /\ Nil.own /\ Nil.cells = <<>> /\ Nil \in Bodies
    BY NilIsBody DEF BodyOK
  <2>2. <<>> \in Seq(Sane)
    OBVIOUS
  <2>3. part = Nil /\ msg = <<>> /\ proto = [k |-> 0, op |-> "none", body |-> Nil]
        /\ pc \in {"line", "set"}
    BY DEF Init
  <2>4. proto.k = 0 /\ proto.op = "none" /\ proto.body = Nil /\ proto \in Slots
    BY <2>1, <2>3 DEF Slots
  <2> QED  BY <2>1, <2>2, <2>3, <2>4 DEF MessageInv, Framing, Framed
<1>7. RingInv
  <2>1. <<>> \in Seq(Requests) /\ slots = <<>> /\ ~authed
    BY DEF Init
  <2>2. Len(slots) = 0 /\ Num \in Nat /\ Num >= 1
    BY <2>1, WireAssumption
  <2> QED  BY <2>1, <2>2 DEF RingInv
<1>8. SignalInv
  <2>1. <<>> \in Seq(Messages) /\ signal = <<>> /\ pushed = 0
    BY DEF Init
  <2>2. Len(signal) = 0 /\ SvrProto \in Nat /\ SvrProto >= 1
    BY <2>1, WireAssumption
  <2> QED  BY <1>3, <2>1, <2>2 DEF SignalInv
<1>9. DispatchInv
  BY DEF Init, DispatchInv, Writing
<1>10. FrameInv
  <2>1. /\ wr = NewWriter /\ dpc = "none" /\ ~torn /\ pc \in {"line", "set"}
    BY DEF Init
  <2>2. <<>> \in Seq(Outs)
    OBVIOUS
  <2>3. wr.buf = <<>> /\ wr.err = FALSE /\ wr.to = <<>>
    BY <2>1 DEF NewWriter
  <2>4. wr \in Writers(Outs)
    BY <2>1, <2>2, WSizeFacts DEF NewWriter, Writers
  <2>5. Sofar(wr) = <<>>
    BY <2>3 DEF Sofar
  <2>6. Whole(Sofar(wr))
    BY <2>5 DEF Whole
  <2>7. Place
    BY <2>1, <2>5 DEF Place, Midway, AtEnd
  <2> QED  BY <2>1, <2>4, <2>6, <2>7 DEF FrameInv
<1>11. EndInv
  <2>1. dpc = "none" /\ signal = <<>> /\ lent
    BY DEF Init
  <2>2. ~Finished
    BY <2>1 DEF Finished
  <2> QED  BY <2>1, <2>2 DEF EndInv
<1>12. BoolInv
  BY DEF Init, BoolInv
<1> QED  BY <1>4, <1>5, <1>6, <1>7, <1>8, <1>9, <1>10, <1>11, <1>12 DEF ConnInv

LEMMA ConnStep ==
  ASSUME ConnInv, [Next]_vars
  PROVE  ConnInv' /\ [ReaderNext]_readerVars /\ [~lent => UNCHANGED wr]_vars
<1>1. /\ StreamInv /\ ControlInv /\ MessageInv
      /\ RingInv /\ SignalInv /\ DispatchInv
      /\ FrameInv /\ EndInv /\ BoolInv
  BY DEF ConnInv
<1>2. script' = script
  BY <1>1, StepsSee
<1>3. StreamInv' /\ [ReaderNext]_readerVars
  BY <1>1, StreamStep
<1>4. ControlInv' /\ MessageInv'
  BY <1>1, ReaderKeeps
<1>5. RingInv'
  BY <1>1, RingStep
<1>6. script \in Scripts
  BY <1>1 DEF StreamInv
<1>7. SignalInv'
  BY <1>1, <1>2, <1>6, SignalStep
<1>8. DispatchInv'
  BY <1>1, <1>2, DispatchStep
<1>9. FrameInv' /\ (wr.err => wr' = wr)
  BY <1>1, <1>2, <1>4, FrameStep
<1>10. EndInv'
  BY <1>1, <1>2, <1>9, EndStep
<1>11. BoolInv'
  BY <1>1, BoolStep
<1>12. ~lent => UNCHANGED wr
  BY <1>1, <1>9, GivenBack
<1> QED  BY <1>3, <1>4, <1>5, <1>7, <1>8, <1>9, <1>10, <1>11, <1>12 DEF ConnInv

LEMMA ConnInvariance == Spec => []ConnInv
<1>1. Init => ConnInv
  BY ConnInit
<1>2. ConnInv /\ [Next]_vars => ConnInv'
  BY ConnStep
<1> QED  BY <1>1, <1>2, PTL DEF Spec

\* A connection uses the buffered reader as its contract says: one call at a
\* time, of the goroutine that has the buffer, and writes into it only at
\* cells it was given (server_tcp.go:84, server_websocket.go:83): what is
\* proved of the reader's calls in any order holds of them.
THEOREM ConnectionIsReader == Spec => ReaderSpec
<1>1. Init => stream \in Seq(Cells) /\ sent = 0 /\ ReaderInit
  BY ScriptFacts DEF Init
<1>2. ConnInv /\ [Next]_vars => [ReaderNext]_readerVars
  BY ConnStep
<1> QED  BY <1>1, <1>2, ConnInvariance, PTL DEF Spec, ReaderSpec

\* In a connection as well: what the requests are parsed from is the stream of
\* the client, without a gap, and fill never panics (bufio.go:62).
THEOREM ConnectionReadsStream == Spec => []WindowIsStream
  BY ConnectionIsReader, WindowsAreStream, PTL

\* Of any number of slots, sizes and clients: the ring never holds more than
\* its slots, the channel no more than its capacity, the write buffer no more
\* than its length, and a request in the ring is a slice of the read buffer or
\* memory of its own (ring.go:35, channel.go:26, bufio.go:403).
THEOREM ConnectionTypeCorrect == Spec => []TypeOK
<1>1. ConnInv => TypeOK
  <2> SUFFICES ASSUME ConnInv PROVE TypeOK
    OBVIOUS
  <2>1. /\ StreamInv /\ ControlInv /\ MessageInv
        /\ RingInv /\ SignalInv /\ FrameInv /\ BoolInv
    BY DEF ConnInv
  <2>2. ReaderTypeOK
    BY <2>1 DEF StreamInv, WindowInv
  <2>3. why \in Whys /\ dpc \in Dpcs /\ {open, authed} \subseteq BOOLEAN
    BY <2>1 DEF ControlInv
  <2>4. proto \in Slots
    BY <2>1 DEF MessageInv
  <2>5. slots \in Seq(Slots) /\ Len(slots) <= Num
    <3>1. slots \in Seq(Requests) /\ Requests \subseteq Slots
      BY <2>1 DEF RingInv, Requests
    <3>2. \A j \in 1..Len(slots) : slots[j] \in Slots
      BY <3>1, ElementOf
    <3>3. Len(slots) \in Nat /\ slots = [j \in 1..Len(slots) |-> slots[j]]
      BY <3>1
    <3> QED  BY <2>1, <3>2, <3>3 DEF RingInv
  <2>6. Len(signal) <= SvrProto
    BY <2>1 DEF SignalInv
  <2>7. Len(wr.buf) <= WSize
    BY <2>1 DEF FrameInv, Writers
  <2>8. {ended, impatient, lent, torn} \subseteq BOOLEAN
    BY <2>1 DEF BoolInv
  <2> QED  BY <2>2, <2>3, <2>4, <2>5, <2>6, <2>7, <2>8 DEF TypeOK, Whys, Dpcs
<1> QED  BY <1>1, ConnInvariance, PTL

\* For any sizes of the buffer and of what is written: a client gets whole
\* items, each as long as its head says, unless a pong of the reader goroutine
\* came between two writes of the dispatcher (conn.go:156).
THEOREM ConnectionFramesWhole == Spec => []FramesWhole
<1>1. ConnInv => FramesWhole
  BY DEF ConnInv, FrameInv, FramesWhole, Sofar, Whole
<1> QED  BY <1>1, ConnInvariance, PTL

\* Nobody writes with a write buffer that is back in its pool
\* (server_tcp.go:228, server_websocket.go:297).
THEOREM ConnectionReturnsUntouched == Spec => ReturnedIsUntouched
<1>1. ConnInv /\ [Next]_vars => [~lent => UNCHANGED wr]_vars
  BY ConnStep
<1> QED  BY <1>1, ConnInvariance, PTL DEF Spec, ReturnedIsUntouched

-----------------------------------------------------------------------------
(* Where the pieces of what a client sends lie in its stream *)

\* How many cells the first k sequences have.
Upto(seqs, k) == Len(FlattenSeq(SubSeq(seqs, 1, k)))

LEMMA UptoSteps ==
  ASSUME NEW S, NEW seqs \in Seq(Seq(S))
  PROVE  /\ Upto(seqs, 0) = 0
         /\ \A k \in 0..Len(seqs) : Upto(seqs, k) \in Nat
         /\ \A k \in 1..Len(seqs) : Upto(seqs, k) = Upto(seqs, k - 1) + Len(seqs[k])
         /\ Upto(seqs, Len(seqs)) = Len(FlattenSeq(seqs))
<1>1. SubSeq(seqs, 1, 0) = <<>> /\ Len(<<>>) = 0
  OBVIOUS
<1>2. Upto(seqs, 0) = 0
  BY <1>1 DEF Upto, FlattenSeq
<1>3. Len(seqs) \in Nat /\ \A i \in 1..Len(seqs) : seqs[i] \in Seq(S)
  OBVIOUS
<1>4. CASE Len(seqs) = 0
  <2>1. seqs = <<>> /\ FlattenSeq(seqs) = seqs
    BY <1>4 DEF FlattenSeq
  <2> QED  BY <1>1, <1>2, <1>4, <2>1
<1>5. CASE Len(seqs) # 0
  <2>1. PICK f : Flattening(seqs, f) /\ FlattenSeq(seqs) = f[Len(seqs)]
    BY <1>3, <1>5, FlattenIsLast
  <2>2. \A k \in 1..Len(seqs) : Upto(seqs, k) = Len(f[k])
    BY <2>1, FlattenPrefix DEF Upto
  <2>a. 1 \in 1..Len(seqs)
    BY <1>3, <1>5
  <2>3. /\ \A k \in 1..Len(seqs) : f[k] \in Seq(S)
        /\ f[1] = seqs[1]
        /\ \A k \in 2..Len(seqs) : f[k] = f[k - 1] \o seqs[k]
    <3>1. \A k \in 1..Len(seqs) : f[k] \in Seq(S)
      BY <1>3, <2>1, FlattenStep
    <3>2. \A k \in 1..Len(seqs) : f[k] = IF k = 1 THEN seqs[k] ELSE f[k - 1] \o seqs[k]
      BY <2>1 DEF Flattening
    <3>3. \A k \in 2..Len(seqs) : k \in 1..Len(seqs) /\ k # 1
      OBVIOUS
    <3> QED  BY <2>a, <3>1, <3>2, <3>3
  <2>4. \A k \in 1..Len(seqs) : Upto(seqs, k) \in Nat
    BY <2>2, <2>3
  <2>5. ASSUME NEW k \in 1..Len(seqs)
        PROVE  Upto(seqs, k) = Upto(seqs, k - 1) + Len(seqs[k])
    <3>1. CASE k = 1
      BY <1>2, <1>3, <2>2, <2>3, <3>1
    <3>2. CASE k # 1
      <4>1. k \in 2..Len(seqs) /\ k - 1 \in 1..Len(seqs)
        BY <3>2
      <4>2. f[k - 1] \in Seq(S) /\ seqs[k] \in Seq(S) /\ f[k] = f[k - 1] \o seqs[k]
        BY <1>3, <2>3, <4>1
      <4>3. Len(f[k]) = Len(f[k - 1]) + Len(seqs[k])
        BY <4>2
      <4> QED  BY <2>2, <4>1, <4>3
    <3> QED  BY <3>1, <3>2
  <2>6. Upto(seqs, Len(seqs)) = Len(FlattenSeq(seqs))
    BY <1>3, <1>5, <2>1, <2>2
  <2>7. \A k \in 0..Len(seqs) : k = 0 \/ k \in 1..Len(seqs)
    OBVIOUS
  <2> QED  BY <1>2, <2>4, <2>5, <2>6, <2>7
<1> QED  BY <1>4, <1>5

LEMMA UptoGrows ==
  ASSUME NEW S, NEW seqs \in Seq(Seq(S)), NEW i \in 0..Len(seqs), NEW k \in i..Len(seqs)
  PROVE  Upto(seqs, i) <= Upto(seqs, k)
<1> DEFINE T == {d \in Nat : i + d <= Len(seqs) => Upto(seqs, i) <= Upto(seqs, i + d)}
<1>1. Len(seqs) \in Nat /\ \A j \in 0..Len(seqs) : Upto(seqs, j) \in Nat
  BY UptoSteps
<1>2. 0 \in T
  <2>1. i + 0 = i /\ Upto(seqs, i) \in Nat
    BY <1>1
  <2> QED  BY <2>1
<1>3. ASSUME NEW d \in Nat, d \in T PROVE d + 1 \in T
  <2> SUFFICES ASSUME i + (d + 1) <= Len(seqs)
               PROVE  Upto(seqs, i) <= Upto(seqs, i + (d + 1))
    OBVIOUS
  <2>1. i + (d + 1) \in 1..Len(seqs) /\ (i + (d + 1)) - 1 = i + d /\ i + d \in 0..Len(seqs)
    BY <1>1
  <2>2. Upto(seqs, i + (d + 1)) = Upto(seqs, i + d) + Len(seqs[i + (d + 1)])
    BY <2>1, UptoSteps
  <2>3. Len(seqs[i + (d + 1)]) \in Nat
    BY <2>1
  <2>4. Upto(seqs, i) <= Upto(seqs, i + d)
    BY <1>3, <2>1
  <2> QED  BY <1>1, <2>1, <2>2, <2>3, <2>4
<1> HIDE DEF T
<1>4. \A d \in Nat : d \in T
  BY <1>2, <1>3, EveryNumber
<1>5. k - i \in Nat /\ i + (k - i) = k
  BY <1>1
<1>6. k - i \in T
  BY <1>4, <1>5
<1> QED  BY <1>5, <1>6 DEF T

\* Cell i of sequence k comes behind the sequences before it.
LEMMA UptoCells ==
  ASSUME NEW S, NEW seqs \in Seq(Seq(S)), NEW k \in 1..Len(seqs), NEW i \in 1..Len(seqs[k])
  PROVE  /\ Upto(seqs, k - 1) + i \in 1..Len(FlattenSeq(seqs))
         /\ FlattenSeq(seqs)[Upto(seqs, k - 1) + i] = seqs[k][i]
<1>1. Len(seqs) \in Nat \ {0} /\ \A j \in 1..Len(seqs) : seqs[j] \in Seq(S)
  OBVIOUS
<1>2. PICK f : Flattening(seqs, f) /\ FlattenSeq(seqs) = f[Len(seqs)]
  BY <1>1, FlattenIsLast
<1>a. 1 \in 1..Len(seqs)
  BY <1>1
<1>3. /\ \A j \in 1..Len(seqs) : f[j] \in Seq(S)
      /\ f[1] = seqs[1]
      /\ \A j \in 2..Len(seqs) : f[j] = f[j - 1] \o seqs[j]
  <2>1. \A j \in 1..Len(seqs) : f[j] \in Seq(S)
    BY <1>1, <1>2, FlattenStep
  <2>2. \A j \in 1..Len(seqs) : f[j] = IF j = 1 THEN seqs[j] ELSE f[j - 1] \o seqs[j]
    BY <1>2 DEF Flattening
  <2>3. \A j \in 2..Len(seqs) : j \in 1..Len(seqs) /\ j # 1
    OBVIOUS
  <2> QED  BY <1>a, <2>1, <2>2, <2>3
<1>4. \A j \in 1..Len(seqs) : Upto(seqs, j) = Len(f[j])
  BY <1>2, FlattenPrefix DEF Upto
<1>5. f[k] \in Seq(S) /\ seqs[k] \in Seq(S) /\ i \in Nat
  BY <1>1, <1>3
<1>6. Upto(seqs, k - 1) + i \in 1..Len(f[k]) /\ f[k][Upto(seqs, k - 1) + i] = seqs[k][i]
  <2>1. CASE k = 1
    <3>1. Upto(seqs, k - 1) = 0
      BY <2>1, UptoSteps
    <3>2. 0 + i = i
      BY <1>5
    <3> QED  BY <1>3, <2>1, <3>1, <3>2
  <2>2. CASE k # 1
    <3>1. k \in 2..Len(seqs) /\ k - 1 \in 1..Len(seqs)
      BY <2>2
    <3> DEFINE x == f[k - 1]
               y == seqs[k]
    <3>2. x \in Seq(S) /\ y \in Seq(S) /\ f[k] = x \o y /\ Upto(seqs, k - 1) = Len(x)
      BY <1>1, <1>3, <1>4, <3>1
    <3>3. i \in 1..Len(y)
      OBVIOUS
    <3> HIDE DEF x, y
    <3>4. Len(x) + i \in 1..Len(x \o y) /\ (x \o y)[Len(x) + i] = y[i]
      BY <3>2, <3>3
    <3> QED  BY <3>2, <3>4 DEF y
  <2> QED  BY <2>1, <2>2
<1>7. Len(seqs) \in k..Len(seqs) /\ f[Len(seqs)] \in Seq(S)
  BY <1>1, <1>3
<1>8. Len(f[k]) <= Len(f[Len(seqs)]) /\ \A j \in 1..Len(f[k]) : f[Len(seqs)][j] = f[k][j]
  <2>1. Len(f[k]) <= Len(f[Len(seqs)])
    BY <1>1, <1>2, <1>7, FlattenGrows
  <2>2. ASSUME NEW j \in 1..Len(f[k]) PROVE f[Len(seqs)][j] = f[k][j]
    <3>1. \A n \in k..Len(seqs) : f[n][j] = f[k][j]
      <4> SUFFICES ASSUME NEW n \in k..Len(seqs) PROVE f[n][j] = f[k][j]
        OBVIOUS
      <4>1. Flattening(seqs, f) /\ Len(seqs) \in Nat
        BY <1>1, <1>2
      <4>2. \A h \in 1..Len(f[k]) : f[n][h] = f[k][h]
        BY <1>1, <4>1, FlattenGrows
      <4> QED  BY <4>2
    <3> QED  BY <1>7, <3>1
  <2> QED  BY <2>1, <2>2
<1> DEFINE e == Upto(seqs, k - 1) + i
           m == Len(f[k])
           n == Len(f[Len(seqs)])
<1>9. e \in 1..m /\ m <= n /\ m \in Nat /\ n \in Nat
  <2>1. e \in 1..m
    BY <1>6
  <2>2. m <= n
    BY <1>8
  <2>3. f[k] \in Seq(S) /\ f[Len(seqs)] \in Seq(S)
    BY <1>1, <1>3, <1>7
  <2>4. \A q \in Seq(S) : Len(q) \in Nat
    OBVIOUS
  <2> QED  BY <2>1, <2>2, <2>3, <2>4
<1> HIDE DEF e, m, n
<1>10. e \in 1..n
  BY <1>9
<1> QED  BY <1>2, <1>6, <1>8, <1>10 DEF e, n

\* Every cell is one of these.
LEMMA UptoFinds ==
  ASSUME NEW S, NEW seqs \in Seq(Seq(S)), NEW e \in 1..Len(FlattenSeq(seqs))
  PROVE  \E k \in 1..Len(seqs) : \E i \in 1..Len(seqs[k]) : e = Upto(seqs, k - 1) + i
<1> DEFINE T == {k \in 0..Len(seqs) : Upto(seqs, k) >= e}
<1>1. /\ Len(seqs) \in Nat /\ \A k \in 0..Len(seqs) : Upto(seqs, k) \in Nat
      /\ Upto(seqs, 0) = 0 /\ Upto(seqs, Len(seqs)) = Len(FlattenSeq(seqs))
  BY UptoSteps
<1>2. Len(seqs) \in T /\ T \subseteq Nat /\ e \in Nat
  BY <1>1
<1>3. PICK k \in T : \A j \in T : k <= j
  <2> HIDE DEF T
  <2> QED  BY <1>2, LeastNumber
<1>4. k \in 1..Len(seqs) /\ k - 1 \in 0..Len(seqs)
  BY <1>1, <1>3
<1> DEFINE a == Upto(seqs, k - 1)
<1>5. ~(a >= e) /\ Upto(seqs, k) >= e
  <2>1. ~(k <= k - 1)
    BY <1>4
  <2>2. k - 1 \notin T
    BY <1>3, <2>1
  <2> QED  BY <1>3, <1>4, <2>2
<1>6. Upto(seqs, k) = a + Len(seqs[k]) /\ Len(seqs[k]) \in Nat /\ a \in Nat
  BY <1>1, <1>4, UptoSteps
<1> HIDE DEF a
<1>7. e - a \in 1..Len(seqs[k]) /\ e = a + (e - a)
  BY <1>2, <1>5, <1>6
<1> QED  BY <1>4, <1>7 DEF a

LEMMA TwoParts ==
  ASSUME NEW S, NEW p \in Seq(S), NEW q \in Seq(S)
  PROVE  /\ p \o q \in Seq(S) /\ Len(p \o q) = Len(p) + Len(q)
         /\ Len(p) \in Nat /\ Len(q) \in Nat
         /\ \A i \in 1..Len(p) : (p \o q)[i] = p[i]
         /\ \A i \in 1..Len(q) : (p \o q)[Len(p) + i] = q[i]
  OBVIOUS

\* Where piece k of a script ends, and the next begins.
Off(s, k) == Upto(Items(s), k)

LEMMA ItemsAre ==
  ASSUME NEW s \in Scripts
  PROVE  /\ Items(s) \in Seq(Seq(SaneCells(s)))
         /\ s.ws => /\ Len(Items(s)) = 1 + Len(s.frames)
                    /\ Items(s)[1] = Request(s)
                    /\ \A j \in 1..Len(s.frames) : Items(s)[j + 1] = Frame(s, j)
         /\ ~s.ws => /\ Len(Items(s)) = Len(s.packets)
                     /\ \A k \in 1..Len(s.packets) : Items(s)[k] = Packet(s, k)
<1>1. Len(s.frames) \in Nat /\ Len(s.packets) \in Nat
  BY ScriptFacts
<1>2. CASE s.ws
  <2> DEFINE a == <<Request(s)>>
             b == [k \in 1..Len(s.frames) |-> Frame(s, k)]
  <2>1. Items(s) = a \o b
    BY <1>2 DEF Items, Seqn
  <2>2. Len(a) = 1 /\ a[1] = Request(s) /\ Len(b) = Len(s.frames)
    BY <1>1
  <2>3. \A j \in 1..Len(s.frames) : b[j] = Frame(s, j)
    OBVIOUS
  <2> DEFINE T == {Request(s)} \cup {Frame(s, k) : k \in 1..Len(s.frames)}
  <2>4. a \in Seq(T) /\ b \in Seq(T)
    BY <1>1
  <2> HIDE DEF a, b, T
  <2>5. /\ Len(a \o b) = Len(a) + Len(b)
        /\ \A i \in 1..Len(a) : (a \o b)[i] = a[i]
        /\ \A i \in 1..Len(b) : (a \o b)[Len(a) + i] = b[i]
    BY <2>4, TwoParts
  <2>6. \A j \in 1..Len(s.frames) : (a \o b)[j + 1] = b[j] /\ j + 1 = 1 + j
    BY <2>2, <2>5
  <2>7. Len(a \o b) = 1 + Len(s.frames) /\ (a \o b)[1] = Request(s)
    BY <2>2, <2>5
  <2>8. \A j \in 1..Len(s.frames) : (a \o b)[j + 1] = Frame(s, j)
    BY <2>3, <2>6
  <2>9. Items(s) \in Seq(Seq(SaneCells(s)))
    BY ItemsAreSane
  <2> QED  BY <1>2, <2>1, <2>7, <2>8, <2>9
<1>3. CASE ~s.ws
  <2>1. Items(s) = [k \in 1..Len(s.packets) |-> Packet(s, k)]
    BY <1>3 DEF Items, Seqn
  <2> QED  BY <1>1, <1>3, <2>1, ItemsAreSane
<1> QED  BY <1>2, <1>3

LEMMA OffSteps ==
  ASSUME NEW s \in Scripts
  PROVE  /\ Off(s, 0) = 0 /\ Len(Items(s)) \in Nat
         /\ \A k \in 0..Len(Items(s)) : Off(s, k) \in Nat
         /\ \A k \in 1..Len(Items(s)) : /\ Off(s, k) = Off(s, k - 1) + Len(Items(s)[k])
                                        /\ Len(Items(s)[k]) \in Nat
         /\ Off(s, Len(Items(s))) = Len(StreamOf(s))
         /\ \A i, k \in 0..Len(Items(s)) : i <= k => Off(s, i) <= Off(s, k)
<1> DEFINE S == SaneCells(s)
           seqs == Items(s)
<1>1. seqs \in Seq(Seq(S))
  BY ItemsAreSane
<1>2. StreamOf(s) = FlattenSeq(seqs)
  BY DEF StreamOf
<1> HIDE DEF S, seqs
<1>3. /\ Upto(seqs, 0) = 0
      /\ \A k \in 0..Len(seqs) : Upto(seqs, k) \in Nat
      /\ \A k \in 1..Len(seqs) : Upto(seqs, k) = Upto(seqs, k - 1) + Len(seqs[k])
      /\ Upto(seqs, Len(seqs)) = Len(FlattenSeq(seqs))
  BY <1>1, UptoSteps
<1>4. Len(seqs) \in Nat /\ \A k \in 1..Len(seqs) : Len(seqs[k]) \in Nat
  BY <1>1
<1>5. ASSUME NEW i \in 0..Len(seqs), NEW k \in 0..Len(seqs), i <= k
      PROVE  Upto(seqs, i) <= Upto(seqs, k)
  <2>1. k \in i..Len(seqs)
    BY <1>5
  <2> QED  BY <1>1, <2>1, UptoGrows
<1> QED  BY <1>2, <1>3, <1>4, <1>5 DEF Off, seqs

LEMMA OffCells ==
  ASSUME NEW s \in Scripts, NEW k \in 1..Len(Items(s)), NEW i \in 1..Len(Items(s)[k])
  PROVE  /\ Off(s, k - 1) + i \in 1..Len(StreamOf(s))
         /\ StreamOf(s)[Off(s, k - 1) + i] = Items(s)[k][i]
  BY ItemsAreSane, UptoCells DEF Off, StreamOf

LEMMA OffFinds ==
  ASSUME NEW s \in Scripts, NEW e \in 1..Len(StreamOf(s))
  PROVE  \E k \in 1..Len(Items(s)) : \E i \in 1..Len(Items(s)[k]) : e = Off(s, k - 1) + i
  BY ItemsAreSane, UptoFinds DEF Off, StreamOf

-----------------------------------------------------------------------------
(* What a frame is made of *)

Mask(f) == IF f.masked THEN 1 ELSE 0

\* The cells of a frame's payload, under the key of frame x.
Chunk(f, x) ==
    Seqn(f.n, LAMBDA i : IF f.packet = 0 THEN Cell("body", 0, i, x)
                         ELSE PacketCell(f.packet, f.from + i, x))

LEMMA FourParts ==
  ASSUME NEW S, NEW a \in Seq(S), NEW b \in Seq(S), NEW c \in Seq(S), NEW d \in Seq(S),
         NEW whole, whole = a \o b \o c \o d
  PROVE  /\ Len(whole) = Len(a) + Len(b) + Len(c) + Len(d)
         /\ \A i \in 1..Len(a) : whole[i] = a[i]
         /\ \A i \in 1..Len(b) : whole[Len(a) + i] = b[i]
         /\ \A i \in 1..Len(c) : whole[Len(a) + Len(b) + i] = c[i]
         /\ \A i \in 1..Len(d) : whole[Len(a) + Len(b) + Len(c) + i] = d[i]
<1>1. ASSUME NEW p \in Seq(S), NEW q \in Seq(S)
      PROVE  /\ p \o q \in Seq(S) /\ Len(p \o q) = Len(p) + Len(q)
             /\ Len(p) \in Nat /\ Len(q) \in Nat
             /\ \A i \in 1..Len(p) : (p \o q)[i] = p[i]
             /\ \A i \in 1..Len(q) : (p \o q)[Len(p) + i] = q[i]
  BY TwoParts
<1> DEFINE ab == a \o b
           abc == ab \o c
<1>2. /\ ab \in Seq(S) /\ Len(ab) = Len(a) + Len(b) /\ Len(a) \in Nat /\ Len(b) \in Nat
      /\ \A i \in 1..Len(a) : ab[i] = a[i]
      /\ \A i \in 1..Len(b) : ab[Len(a) + i] = b[i]
  BY <1>1
<1> HIDE DEF ab
<1>3. /\ abc \in Seq(S) /\ Len(abc) = Len(ab) + Len(c) /\ Len(c) \in Nat
      /\ \A i \in 1..Len(ab) : abc[i] = ab[i]
      /\ \A i \in 1..Len(c) : abc[Len(ab) + i] = c[i]
  BY <1>1, <1>2
<1> HIDE DEF abc
<1>4. /\ Len(abc \o d) = Len(abc) + Len(d) /\ Len(d) \in Nat
      /\ \A i \in 1..Len(abc) : (abc \o d)[i] = abc[i]
      /\ \A i \in 1..Len(d) : (abc \o d)[Len(abc) + i] = d[i]
  BY <1>1, <1>3
<1>5. abc \o d = whole
  BY DEF ab, abc
<1>6. \A i \in 1..Len(a) : i \in 1..Len(ab) /\ i \in 1..Len(abc)
  BY <1>2, <1>3
<1>7. \A i \in 1..Len(b) : Len(a) + i \in 1..Len(ab) /\ Len(a) + i \in 1..Len(abc)
  BY <1>2, <1>3
<1>8. \A i \in 1..Len(c) : Len(ab) + i \in 1..Len(abc)
  BY <1>2, <1>3
<1>9. \A i \in 1..Len(b) : (abc \o d)[Len(a) + i] = b[i]
  BY <1>2, <1>3, <1>4, <1>7
<1>10. \A i \in 1..Len(c) : (abc \o d)[Len(ab) + i] = c[i]
  BY <1>3, <1>4, <1>8
<1>11. \A i \in 1..Len(a) : (abc \o d)[i] = a[i]
  BY <1>2, <1>3, <1>4, <1>6
<1> QED  BY <1>2, <1>3, <1>4, <1>5, <1>9, <1>10, <1>11

LEMMA Sizes ==
  ASSUME NEW s \in Scripts, NEW j \in 1..Len(s.frames)
  PROVE  /\ Ext(s.frames[j].n) \in Nat /\ Mask(s.frames[j]) \in Nat /\ s.frames[j].n \in Nat
         /\ s.frames[j].masked => Mask(s.frames[j]) = 1
         /\ ~s.frames[j].masked => Mask(s.frames[j]) = 0
         /\ Ext(s.frames[j].n) > 0 \/ Ext(s.frames[j].n) = 0
  BY FrameFacts DEF Ext, Mask

LEMMA FrameCells ==
  ASSUME NEW s \in Scripts, NEW j \in 1..Len(s.frames), NEW f, f = s.frames[j]
  PROVE  /\ Len(Frame(s, j)) = 2 + Ext(f.n) + Mask(f) + f.n
         /\ Frame(s, j)[1] = Cell("first", j, 1, 0)
         /\ f.masked => Frame(s, j)[2 + Ext(f.n) + 1] = Cell("key", j, 1, 0)
         /\ \A i \in 1..f.n : Frame(s, j)[2 + Ext(f.n) + Mask(f) + i]
                                = Chunk(f, IF f.masked THEN j ELSE 0)[i]
         /\ \A i \in 1..Len(Frame(s, j)) : /\ Frame(s, j)[i].t # "lf"
                                           /\ Frame(s, j)[i].t = "first" => i = 1
<1> DEFINE x == IF f.masked THEN j ELSE 0
           a == <<Cell("first", j, 1, 0), Cell("second", j, 1, 0)>>
           b == [i \in 1..Ext(f.n) |-> Cell("ext", j, i, 0)]
           c == IF f.masked THEN <<Cell("key", j, 1, 0)>> ELSE <<>>
           d == Chunk(f, x)
           S == {q \in [t : Kinds, k : Nat, i : Nat, x : Int] : q.t # "lf"}
<1>1. /\ f.n \in Nat /\ f.from \in Nat /\ f.masked \in BOOLEAN /\ f.packet \in Nat /\ j \in Nat
      /\ Ext(f.n) \in Nat /\ Mask(f) \in Nat
  BY FrameFacts, Sizes
<1>2. Frame(s, j) = a \o b \o c \o d
  BY DEF Frame, Chunk, Seqn
<1>3. d = [i \in 1..f.n |-> IF f.packet = 0 THEN Cell("body", 0, i, x)
                            ELSE PacketCell(f.packet, f.from + i, x)]
  BY DEF Chunk, Seqn
<1>4. x \in Int /\ H \in Nat
  BY <1>1, HeaderSize
<1>5. \A i \in 1..f.n : d[i] \in S /\ d[i].t # "first"
  <2> SUFFICES ASSUME NEW i \in 1..f.n PROVE d[i] \in S /\ d[i].t # "first"
    OBVIOUS
  <2>1. \/ \E k \in Nat, y \in Nat : d[i] = Cell("body", k, y, x)
        \/ \E k \in Nat, y \in Nat : d[i] = Cell("head", k, y, x)
    <3>1. CASE f.packet = 0
      <4> HIDE DEF d, x
      <4>1. d[i] = Cell("body", 0, i, x) /\ i \in Nat
        BY <1>3, <3>1
      <4> QED  BY <4>1
    <3>2. CASE f.packet # 0
      <4> HIDE DEF d, x
      <4>1. d[i] = PacketCell(f.packet, f.from + i, x) /\ f.from + i \in Nat
        BY <1>1, <1>3, <3>2
      <4>2. ASSUME NEW m \in Nat, m > H PROVE m - H \in Nat
        BY <1>4, <4>2
      <4> DEFINE m == f.from + i
      <4>3. CASE m <= H
        <5>1. d[i] = Cell("head", f.packet, m, x)
          BY <4>1, <4>3 DEF PacketCell
        <5> QED  BY <1>1, <4>1, <5>1
      <4>4. CASE ~(m <= H)
        <5>1. d[i] = Cell("body", f.packet, m - H, x)
          BY <4>1, <4>4 DEF PacketCell
        <5>2. m > H
          BY <1>4, <4>1, <4>4
        <5> QED  BY <1>1, <4>1, <4>2, <5>1, <5>2
      <4> QED  BY <4>3, <4>4
    <3> QED  BY <3>1, <3>2
  <2> HIDE DEF d, x
  <2>2. PICK k \in Nat, y \in Nat, t \in {"body", "head"} : d[i] = Cell(t, k, y, x)
    BY <2>1
  <2> QED  BY <1>4, <2>2 DEF Cell, Kinds, Letters
<1>6. Cell("first", j, 1, 0) \in S /\ Cell("second", j, 1, 0) \in S /\ Cell("key", j, 1, 0) \in S
  BY <1>1 DEF Cell, Kinds, Letters
<1>7. \A i \in 1..Ext(f.n) : b[i] \in S /\ b[i].t # "first"
  BY <1>1 DEF Cell, Kinds, Letters
<1>8. /\ Len(a) = 2 /\ Len(b) = Ext(f.n) /\ Len(c) = Mask(f) /\ Len(d) = f.n
      /\ a[1] = Cell("first", j, 1, 0) /\ a[2] = Cell("second", j, 1, 0)
      /\ f.masked => c[1] = Cell("key", j, 1, 0)
      /\ c # <<>> => f.masked
  <2>1. Len(d) = f.n
    BY <1>1, <1>3
  <2>2. Len(b) = Ext(f.n)
    BY <1>1
  <2> QED  BY <1>1, <2>1, <2>2 DEF Mask
<1>9. a \in Seq(S) /\ b \in Seq(S) /\ c \in Seq(S) /\ d \in Seq(S)
  <2>1. a \in Seq(S)
    <3> HIDE DEF S
    <3> QED  BY <1>6
  <2>2. c \in Seq(S)
    <3> HIDE DEF S
    <3> QED  BY <1>6
  <2>3. b \in Seq(S)
    <3> HIDE DEF S
    <3> QED  BY <1>1, <1>7
  <2>4. d \in Seq(S)
    <3> HIDE DEF S, d
    <3>1. Len(d) = f.n /\ d = [i \in 1..f.n |-> d[i]]
      BY <1>3, <1>8
    <3>2. [i \in 1..f.n |-> d[i]] \in Seq(S)
      BY <1>1, <1>5
    <3> QED  BY <3>1, <3>2
  <2> QED  BY <2>1, <2>2, <2>3, <2>4
<1>10. a[2].t # "first" /\ (f.masked => c[1].t # "first")
  BY <1>8 DEF Cell
<1> DEFINE whole == a \o b \o c \o d
<1> HIDE DEF a, b, c, d, S, x
<1>w. whole = a \o b \o c \o d
  OBVIOUS
<1> HIDE DEF whole
<1>11. /\ Len(whole) = Len(a) + Len(b) + Len(c) + Len(d)
       /\ \A i \in 1..Len(a) : whole[i] = a[i]
       /\ \A i \in 1..Len(b) : whole[Len(a) + i] = b[i]
       /\ \A i \in 1..Len(c) : whole[Len(a) + Len(b) + i] = c[i]
       /\ \A i \in 1..Len(d) : whole[Len(a) + Len(b) + Len(c) + i] = d[i]
  <2>1. Len(whole) = Len(a) + Len(b) + Len(c) + Len(d)
    BY <1>9, <1>w, FourParts
  <2>2. \A i \in 1..Len(a) : whole[i] = a[i]
    BY <1>9, <1>w, FourParts
  <2>3. \A i \in 1..Len(b) : whole[Len(a) + i] = b[i]
    BY <1>9, <1>w, FourParts
  <2>4. \A i \in 1..Len(c) : whole[Len(a) + Len(b) + i] = c[i]
    BY <1>9, <1>w, FourParts
  <2>5. \A i \in 1..Len(d) : whole[Len(a) + Len(b) + Len(c) + i] = d[i]
    BY <1>9, <1>w, FourParts
  <2> QED  BY <2>1, <2>2, <2>3, <2>4, <2>5
<1>12. whole \in Seq(S)
  BY <1>9, <1>w
<1>13. \A i \in 1..Len(whole) : whole[i].t # "lf"
  <2>1. \A i \in 1..Len(whole) : whole[i] \in S
    BY <1>12
  <2> QED  BY <2>1 DEF S
<1>14. ASSUME NEW i \in 1..Len(whole), i # 1 PROVE whole[i].t # "first"
  <2>1. CASE i = 2
    BY <1>8, <1>10, <1>11, <2>1
  <2>2. CASE i > 2 /\ i <= 2 + Ext(f.n)
    <3>1. i - 2 \in 1..Len(b) /\ Len(a) + (i - 2) = i
      BY <1>1, <1>8, <2>2
    <3> QED  BY <1>7, <1>8, <1>11, <3>1
  <2>3. CASE i > 2 + Ext(f.n) /\ i <= 2 + Ext(f.n) + Mask(f)
    <3>1. i - (2 + Ext(f.n)) \in 1..Len(c) /\ Len(a) + Len(b) + (i - (2 + Ext(f.n))) = i
      BY <1>1, <1>8, <2>3
    <3>2. f.masked /\ Len(c) = 1
      BY <1>1, <1>8, <2>3 DEF Mask
    <3>3. i - (2 + Ext(f.n)) = 1
      BY <3>1, <3>2
    <3> QED  BY <1>10, <1>11, <3>1, <3>2, <3>3
  <2>4. CASE i > 2 + Ext(f.n) + Mask(f)
    <3>1. i - (2 + Ext(f.n) + Mask(f)) \in 1..Len(d)
          /\ Len(a) + Len(b) + Len(c) + (i - (2 + Ext(f.n) + Mask(f))) = i
      <4>1. Len(whole) = 2 + Ext(f.n) + Mask(f) + f.n /\ Len(d) = f.n
            /\ Len(a) + Len(b) + Len(c) = 2 + Ext(f.n) + Mask(f)
        BY <1>8, <1>11
      <4> DEFINE u == 2 + Ext(f.n) + Mask(f)
      <4>2. u \in Nat /\ i > u /\ i <= u + Len(d) /\ Len(d) \in Nat
        BY <1>1, <2>4, <4>1
      <4>3. i - u \in 1..Len(d) /\ u + (i - u) = i
        <5> HIDE DEF u
        <5> QED  BY <4>2
      <4> QED  BY <4>1, <4>3
    <3>2. d[i - (2 + Ext(f.n) + Mask(f))].t # "first"
      BY <1>5, <1>8, <3>1
    <3> QED  BY <1>11, <3>1, <3>2
  <2> QED  BY <1>1, <1>14, <2>1, <2>2, <2>3, <2>4
<1>15. Frame(s, j) = whole
  BY <1>2, <1>w
<1>16. f.masked => whole[2 + Ext(f.n) + 1] = Cell("key", j, 1, 0)
  BY <1>8, <1>11 DEF Mask
<1>17. whole[1] = Cell("first", j, 1, 0)
  BY <1>8, <1>11
<1>18. \A i \in 1..f.n : whole[2 + Ext(f.n) + Mask(f) + i] = d[i]
  BY <1>8, <1>11
<1> QED  BY <1>8, <1>11, <1>13, <1>14, <1>15, <1>16, <1>17, <1>18 DEF d, x

\* The request has characters only.
LEMMA RequestLetters ==
  ASSUME NEW s \in Scripts
  PROVE  \A i \in 1..Len(Request(s)) : Request(s)[i].t \in Letters
<1> DEFINE S == {q \in [t : Kinds, k : Nat, i : Nat, x : Int] : q.t \in Letters}
<1>1. s.lines \in Seq(Seq(Letters))
  BY ScriptFacts DEF ScriptType
<1>2. ASSUME NEW k \in 1..Len(s.lines) PROVE RequestLine(s, k) \in Seq(S)
  <2> DEFINE l == s.lines[k]
  <2>1. l \in Seq(Letters) /\ k \in Nat
    BY <1>1
  <2>2. RequestLine(s, k) = [i \in 1..Len(l) |-> Cell(l[i], k, i, 0)]
    BY DEF RequestLine, Seqn
  <2> HIDE DEF l
  <2>3. \A i \in 1..Len(l) : l[i] \in Letters /\ i \in Nat
    BY <2>1
  <2>4. \A i \in 1..Len(l) : Cell(l[i], k, i, 0) \in S
    BY <2>1, <2>3 DEF Cell, Kinds
  <2>5. Len(l) \in Nat
    BY <2>1
  <2> HIDE DEF S
  <2> QED  BY <2>2, <2>4, <2>5
<1> HIDE DEF S
<1>3. Len(s.lines) \in Nat
  BY <1>1
<1>4. [k \in 1..Len(s.lines) |-> RequestLine(s, k)] \in Seq(Seq(S))
  BY <1>2, <1>3
<1>5. Request(s) \in Seq(S)
  BY <1>4, FlattenTyped DEF Request, Seqn
<1>6. \A i \in 1..Len(Request(s)) : Request(s)[i] \in S
  BY <1>5
<1> QED  BY <1>6 DEF S

\* Over a websocket the items are the request and the frames.
LEMMA FrameItems ==
  ASSUME NEW s \in Scripts, s.ws
  PROVE  /\ Len(Items(s)) = 1 + Len(s.frames) /\ Items(s)[1] = Request(s)
         /\ \A j \in 1..Len(s.frames) : Items(s)[j + 1] = Frame(s, j)
         /\ Len(s.frames) \in Nat
<1>1. Len(s.frames) \in Nat
  BY ScriptFacts
<1>2. Len(Items(s)) = 1 + Len(s.frames)
  BY ItemsAre
<1>3. Items(s)[1] = Request(s)
  BY ItemsAre
<1>4. ASSUME NEW j \in 1..Len(s.frames) PROVE Items(s)[j + 1] = Frame(s, j)
  BY ItemsAre
<1> QED  BY <1>1, <1>2, <1>3, <1>4

\* A cell that begins a frame is found where that frame begins.
LEMMA FirstIsThere ==
  ASSUME NEW s \in Scripts, s.ws, NEW e \in 1..Len(StreamOf(s)), StreamOf(s)[e].t = "first"
  PROVE  StreamOf(s)[e].k \in 1..Len(s.frames) /\ e = Off(s, StreamOf(s)[e].k) + 1
<1>1. PICK k \in 1..Len(Items(s)) : \E i \in 1..Len(Items(s)[k]) : e = Off(s, k - 1) + i
  BY OffFinds
<1>2. PICK i \in 1..Len(Items(s)[k]) : e = Off(s, k - 1) + i
  BY <1>1
<1>3. StreamOf(s)[e] = Items(s)[k][i]
  BY <1>2, OffCells
<1>4. /\ Len(Items(s)) = 1 + Len(s.frames) /\ Items(s)[1] = Request(s)
      /\ \A j \in 1..Len(s.frames) : Items(s)[j + 1] = Frame(s, j)
      /\ Len(s.frames) \in Nat
  BY FrameItems
<1>5. CASE k = 1
  <2>1. StreamOf(s)[e].t \in Letters
    BY <1>2, <1>3, <1>4, <1>5, RequestLetters
  <2> QED  BY <2>1 DEF Letters
<1>6. CASE k # 1
  <2>1. k - 1 \in 1..Len(s.frames) /\ (k - 1) + 1 = k
    BY <1>4, <1>6
  <2>2. Items(s)[k] = Frame(s, k - 1)
    BY <1>4, <2>1
  <2>3. i = 1 /\ Frame(s, k - 1)[1] = Cell("first", k - 1, 1, 0)
    BY <1>2, <1>3, <2>1, <2>2, FrameCells
  <2>4. StreamOf(s)[e].k = k - 1
    BY <1>3, <2>2, <2>3 DEF Cell
  <2> QED  BY <1>2, <2>1, <2>3, <2>4
<1> QED  BY <1>5, <1>6

\* A line feed is one of the request.
LEMMA LineFeedIsThere ==
  ASSUME NEW s \in Scripts, s.ws, NEW e \in 1..Len(StreamOf(s)), StreamOf(s)[e].t = "lf"
  PROVE  e <= Off(s, 1)
<1>1. PICK k \in 1..Len(Items(s)) : \E i \in 1..Len(Items(s)[k]) : e = Off(s, k - 1) + i
  BY OffFinds
<1>2. PICK i \in 1..Len(Items(s)[k]) : e = Off(s, k - 1) + i
  BY <1>1
<1>3. StreamOf(s)[e] = Items(s)[k][i]
  BY <1>2, OffCells
<1>4. /\ Len(Items(s)) = 1 + Len(s.frames)
      /\ \A j \in 1..Len(s.frames) : Items(s)[j + 1] = Frame(s, j)
      /\ Len(s.frames) \in Nat
  BY FrameItems
<1>5. CASE k = 1
  <2>1. Off(s, 1) = Off(s, 0) + Len(Items(s)[1]) /\ Off(s, 0) = 0 /\ Len(Items(s)[1]) \in Nat
    BY <1>5, OffSteps
  <2> QED  BY <1>2, <1>5, <2>1
<1>6. CASE k # 1
  <2>1. k - 1 \in 1..Len(s.frames) /\ (k - 1) + 1 = k
    BY <1>4, <1>6
  <2>2. Items(s)[k] = Frame(s, k - 1)
    BY <1>4, <2>1
  <2>3. Items(s)[k][i].t # "lf"
    <3>1. \A h \in 1..Len(Frame(s, k - 1)) : Frame(s, k - 1)[h].t # "lf"
      BY <2>1, FrameCells
    <3> QED  BY <1>2, <2>2, <3>1
  <2> QED  BY <1>3, <2>3
<1> QED  BY <1>5, <1>6

\* A frame takes room in the stream, as much as its parts.
LEMMA FrameRoom ==
  ASSUME NEW s \in Scripts, s.ws
  PROVE  /\ \A j \in 0..Len(s.frames) + 1 : Off(s, j) \in Nat
         /\ \A j \in 1..Len(s.frames) :
                Off(s, j + 1) = Off(s, j) + 2 + Ext(s.frames[j].n) + Mask(s.frames[j]) + s.frames[j].n
         /\ \A i, j \in 1..Len(s.frames) + 1 : i < j => Off(s, i) < Off(s, j)
         /\ Off(s, Len(s.frames) + 1) = Len(StreamOf(s))
<1>1. /\ Len(Items(s)) = Len(s.frames) + 1
      /\ \A j \in 1..Len(s.frames) : Items(s)[j + 1] = Frame(s, j)
      /\ Len(s.frames) \in Nat
  BY FrameItems
<1>2. /\ \A j \in 0..Len(s.frames) + 1 : Off(s, j) \in Nat
      /\ Off(s, Len(s.frames) + 1) = Len(StreamOf(s))
      /\ \A i, k \in 0..Len(s.frames) + 1 : i <= k => Off(s, i) <= Off(s, k)
  BY <1>1, OffSteps
<1>3. ASSUME NEW j \in 1..Len(s.frames)
      PROVE  /\ Off(s, j + 1)
                  = Off(s, j) + 2 + Ext(s.frames[j].n) + Mask(s.frames[j]) + s.frames[j].n
             /\ Off(s, j) < Off(s, j + 1)
  <2>1. j + 1 \in 1..Len(Items(s)) /\ (j + 1) - 1 = j /\ j \in 0..Len(s.frames) + 1
    BY <1>1
  <2>2. Off(s, j + 1) = Off(s, j) + Len(Items(s)[j + 1])
    BY <2>1, OffSteps
  <2>3. Items(s)[j + 1] = Frame(s, j)
    BY <1>1
  <2>4. Len(Frame(s, j)) = 2 + Ext(s.frames[j].n) + Mask(s.frames[j]) + s.frames[j].n
    BY FrameCells
  <2>5. Ext(s.frames[j].n) \in Nat /\ Mask(s.frames[j]) \in Nat /\ s.frames[j].n \in Nat
    BY Sizes
  <2>6. Off(s, j) \in Nat
    BY <1>2, <2>1
  <2> DEFINE x == 2 + Ext(s.frames[j].n) + Mask(s.frames[j]) + s.frames[j].n
  <2>7. x \in Nat /\ x > 0
    BY <2>5
  <2>8. Off(s, j + 1)
          = Off(s, j) + 2 + Ext(s.frames[j].n) + Mask(s.frames[j]) + s.frames[j].n
    <3> DEFINE m == Ext(s.frames[j].n)
               n == Mask(s.frames[j])
               l == s.frames[j].n
    <3>1. Off(s, j + 1) = Off(s, j) + (2 + m + n + l)
      BY <2>2, <2>3, <2>4
    <3>2. m \in Nat /\ n \in Nat /\ l \in Nat
      BY <2>5
    <3> HIDE DEF m, n, l
    <3>3. Off(s, j) + (2 + m + n + l) = Off(s, j) + 2 + m + n + l
      BY <2>6, <3>2
    <3> QED  BY <3>1, <3>3 DEF m, n, l
  <2>9. Off(s, j + 1) = Off(s, j) + x
    BY <2>5, <2>6, <2>8
  <2> HIDE DEF x
  <2>10. Off(s, j) < Off(s, j + 1)
    BY <2>6, <2>7, <2>9
  <2> QED  BY <2>8, <2>10
<1>4. ASSUME NEW i \in 1..Len(s.frames) + 1, NEW j \in 1..Len(s.frames) + 1, i < j
      PROVE  Off(s, i) < Off(s, j)
  <2>1. i \in 1..Len(s.frames) /\ i + 1 <= j /\ i + 1 \in 0..Len(s.frames) + 1
        /\ j \in 0..Len(s.frames) + 1 /\ i \in 0..Len(s.frames) + 1
    BY <1>1, <1>4
  <2>2. Off(s, i) < Off(s, i + 1) /\ Off(s, i + 1) <= Off(s, j)
    BY <1>2, <1>3, <2>1
  <2>3. Off(s, i) \in Nat /\ Off(s, i + 1) \in Nat /\ Off(s, j) \in Nat
    BY <1>2, <2>1
  <2> QED  BY <2>2, <2>3
<1> QED  BY <1>2, <1>3, <1>4

-----------------------------------------------------------------------------
(* How far the reader is in the stream *)

\* How much of the stream the reader gave to the connection.
At == next - (w - r)

LEMMA AtIsInStream ==
  ASSUME WindowInv
  PROVE  At \in Nat /\ At <= next /\ next \in Nat /\ next <= sent /\ sent \in Nat
         /\ sent <= Len(stream) /\ Len(stream) \in Nat
         /\ r \in Nat /\ w \in Nat /\ r <= w /\ w <= Size /\ At = next - Buffered
<1>1. /\ stream \in Seq(Cells) /\ sent \in 0..Len(stream) /\ next \in 0..sent
      /\ r \in 0..w /\ w \in 0..Size
  BY DEF WindowInv, ReaderTypeOK
<1>2. Len(stream) \in Nat
  BY <1>1
<1>3. w - r <= next
  BY DEF WindowInv, WindowIsStream, Buffered
<1> QED  BY <1>1, <1>2, <1>3, SizeIsPositive DEF At, Buffered

\* What is popped is the stream from there on.
LEMMA AtPops ==
  ASSUME WindowInv, held, NEW n \in Nat, Pop(n)
  PROVE  /\ At' = At + n /\ At + n <= Len(stream)
         /\ \A i \in 1..n : buf[r + i - 1] = stream[At + i]
         /\ r + n <= w /\ r' = r + n
         /\ UNCHANGED <<stream, sent, next, buf, w, rerr, held>>
<1>1. /\ At \in Nat /\ At <= next /\ next <= sent /\ sent <= Len(stream) /\ Len(stream) \in Nat
      /\ r \in Nat /\ w \in Nat /\ r <= w /\ w <= Size /\ next \in Nat /\ sent \in Nat
  BY AtIsInStream
<1>2. /\ w - r >= n /\ r' = r + n
      /\ UNCHANGED <<stream, sent, next, buf, w, rerr, held>>
  BY DEF Pop, Buffered
<1>3. At' = At + n /\ r + n <= w
  BY <1>1, <1>2 DEF At
<1>4. At + n <= Len(stream)
  BY <1>1, <1>2 DEF At
<1>5. ASSUME NEW i \in 1..n PROVE buf[r + i - 1] = stream[At + i]
  <2>1. r + i - 1 \in r..w-1
    BY <1>1, <1>2
  <2>2. buf[r + i - 1] = stream[next - w + (r + i - 1) + 1]
    BY <2>1 DEF WindowInv, WindowIsStream
  <2>3. next - w + (r + i - 1) + 1 = At + i
    BY <1>1 DEF At
  <2> QED  BY <2>2, <2>3
<1> QED  BY <1>2, <1>3, <1>4, <1>5

\* The window moves in its buffer and grows, not in the stream.
LEMMA AtFills ==
  ASSUME WindowInv, held, Filling, NEW fails \in BOOLEAN, Fill(fails)
  PROVE  /\ At' = At /\ held' /\ UNCHANGED <<stream, sent>>
         /\ r' = 0 /\ next' - w' = next - Buffered
         /\ next' \in Nat /\ next' <= sent /\ (~fails => next' > next /\ rerr' = rerr)
<1>1. ReaderTypeOK
  BY DEF WindowInv
<1>2. Buffered < Size /\ Buffered \in Nat /\ Buffered = w - r
  BY <1>1, FillingHasRoom, SizeIsPositive DEF ReaderTypeOK, Buffered
<1>3. PICK n \in 0..(IF sent - next < Size - Buffered THEN sent - next ELSE Size - Buffered) :
        /\ n = 0 => fails
        /\ r' = 0
        /\ w' = Buffered + n
        /\ next' = next + n
        /\ rerr' = IF fails THEN "error" ELSE rerr
  <2>1. ~(Buffered >= Size)
    BY <1>1, <1>2, SizeIsPositive
  <2> QED  BY <2>1 DEF Fill
<1>4. UNCHANGED <<stream, sent, held>>
  BY DEF Fill
<1>5. next \in Nat /\ sent \in Nat /\ next <= sent /\ n \in Nat /\ next + n <= sent
  BY <1>1, <1>2, <1>3, SizeIsPositive DEF ReaderTypeOK
<1> QED  BY <1>2, <1>3, <1>4, <1>5 DEF At

\* Nothing more will come.
Over == ~open \/ (ended /\ next = sent)

\* An error the reader keeps says so, and with nothing left it stays at the end.
QuietInv == rerr # None => Over
Dry == w = r /\ Over

LEMMA ReceiveStays ==
  ASSUME StreamInv, held, Filling, Receive, ended \in BOOLEAN, open \in BOOLEAN
  PROVE  /\ At' = At /\ held' /\ UNCHANGED <<stream, sent, client, control, reading, channel, dispatch>>
         /\ Over => UNCHANGED next /\ (w = r => w' = r')
         /\ rerr' # None => Over \/ rerr' = rerr
<1>1. WindowInv
  BY DEF StreamInv
<1>2. UNCHANGED <<client, control, reading, channel, dispatch>>
  BY DEF Receive
<1>3. CASE open /\ Fill(FALSE)
  <2>1. /\ At' = At /\ held' /\ UNCHANGED <<stream, sent>>
        /\ next' \in Nat /\ next' <= sent /\ next' > next /\ rerr' = rerr
    BY <1>1, <1>3, AtFills
  <2>2. ~Over
    BY <1>1, <1>3, <2>1, AtIsInStream DEF Over
  <2> QED  BY <1>2, <2>1, <2>2
<1>4. CASE Over /\ Fill(TRUE) /\ next' = next
  <2>1. /\ At' = At /\ held' /\ UNCHANGED <<stream, sent>> /\ r' = 0 /\ next' - w' = next - Buffered
    BY <1>1, <1>4, AtFills
  <2>2. w = r => w' = r'
    <3>1. WindowInv'
      BY <1>1, <1>4, FillInv
    <3>2. w' \in Nat /\ next' \in Nat
      BY <3>1, SizeIsPositive DEF WindowInv, ReaderTypeOK
    <3> QED  BY <1>1, <1>4, <2>1, <3>2, AtIsInStream DEF Buffered
  <2> QED  BY <1>2, <1>4, <2>1, <2>2
<1> QED  BY <1>3, <1>4 DEF Receive, Over

\* A call for n cells that does not return them yet.
LEMMA PoppingStays ==
  ASSUME StreamInv, held, NEW n \in Nat \ {0}, Popping(n), ended \in BOOLEAN, open \in BOOLEAN
  PROVE  /\ At' = At /\ held' /\ UNCHANGED <<stream, sent, client, reading, channel, dispatch>>
         /\ UNCHANGED control \/ \E x \in {"read", "full"} : Fail(x)
         /\ Over => UNCHANGED next /\ (w = r => w' = r')
         /\ rerr' # None => Over \/ rerr' = rerr
<1>1. CASE PeekFills(n) /\ Receive
  <2>1. Filling
    BY <1>1 DEF Filling
  <2> QED  BY <1>1, <2>1, ReceiveStays
<1>2. CASE /\ PopFails(n) /\ Fail(IF Fits(n) THEN "read" ELSE "full")
           /\ UNCHANGED <<client, reading, channel, dispatch>>
  <2>1. UNCHANGED <<stream, sent, next, r, w, held>> /\ rerr' \in {None, rerr}
    BY <1>2 DEF PopFails
  <2> QED  BY <1>2, <2>1 DEF At
<1> QED  BY <1>1, <1>2 DEF Popping

LEMMA TakesMove ==
  ASSUME StreamInv, ControlInv, MessageInv,
         \/ TakeHead \/ TakeBody \/ TakeLine \/ TakeFirst \/ TakeSecond \/ TakeExt \/ TakeKey
         \/ TakePayload
  PROVE  /\ held /\ UNCHANGED <<client, open>>
         /\ \/ \E n \in Nat \ {0} : Popping(n) \/ Pop(n)
            \/ LineFills /\ Receive
            \/ ReadLine \/ LineFails
<1>1. held
  BY DEF ControlInv, TakeHead, TakeBody, TakeLine, TakeFirst, TakeSecond, TakeExt, TakeKey,
         TakePayload, Exits
<1>2. CASE TakeHead
  <2>1. Popping(H) \/ Pop(H)
    BY <1>2 DEF TakeHead
  <2>2. UNCHANGED <<client, open>>
    BY <1>2 DEF TakeHead, Popping, Receive, Elsewhere, control, Goto, Fail
  <2> QED  BY <1>1, <2>1, <2>2, ReadsSomething
<1>3. CASE TakeBody
  <2> DEFINE n == script.packets[proto.k].pack - H
  <2>1. n \in Nat \ {0}
    BY <1>3, ReadsSomething DEF TakeBody
  <2>2. Popping(n) \/ Pop(n)
    BY <1>3 DEF TakeBody
  <2>3. UNCHANGED <<client, open>>
    BY <1>3 DEF TakeBody, Popping, Receive, Elsewhere, control, Goto, Fail
  <2> HIDE DEF n
  <2> QED  BY <1>1, <2>1, <2>2, <2>3
<1>4. CASE TakeLine
  <2>1. (LineFills /\ Receive) \/ ReadLine \/ LineFails
    BY <1>4 DEF TakeLine
  <2>2. UNCHANGED client
    BY <1>4 DEF TakeLine, Receive, Elsewhere
  <2>3. UNCHANGED open
    BY <1>4, LineTurns DEF control, Goto, Fail
  <2> QED  BY <1>1, <2>1, <2>2, <2>3
<1>5. CASE TakeFirst \/ TakeSecond \/ TakeKey
  <2>1. Popping(1) \/ Pop(1)
    BY <1>5 DEF TakeFirst, TakeSecond, TakeKey, ReadByte
  <2>2. UNCHANGED <<client, open>>
    BY <1>5 DEF TakeFirst, TakeSecond, TakeKey, Popping, Receive, Elsewhere, control, Goto, Fail
  <2> QED  BY <1>1, <2>1, <2>2
<1>6. CASE TakeExt
  <2>1. Ext(F.n) \in Nat \ {0} /\ (Popping(Ext(F.n)) \/ Pop(Ext(F.n)))
    BY <1>6, ReadsSomething DEF TakeExt
  <2>2. UNCHANGED <<client, open>>
    BY <1>6 DEF TakeExt, Popping, Receive, Elsewhere, control, Goto, Fail
  <2> QED  BY <1>1, <2>1, <2>2
<1>7. CASE TakePayload
  <2>1. F.n \in Nat \ {0} /\ (Popping(F.n) \/ Pop(F.n))
    BY <1>7, ReadsSomething DEF TakePayload
  <2>2. UNCHANGED <<client, open>>
    BY <1>7 DEF TakePayload, Popping, Receive, Elsewhere, control, Goto, Fail
  <2> QED  BY <1>1, <2>1, <2>2
<1> QED  BY <1>2, <1>3, <1>4, <1>5, <1>6, <1>7

\* What the others change of what the reader sees: the buffer, when it gave it back.
LEMMA OthersLeave ==
  ASSUME Environment \/ Dispatcher \/ UNCHANGED vars
  PROVE  /\ UNCHANGED <<pc, script, frame, key, part, msg, got, proto, stream, next, r, w, rerr, held>>
         /\ held => buf' = buf
         /\ open' => open
         /\ ended => ended'
         /\ sent' # sent => Send
<1>1. CASE Send \/ Finish \/ Close \/ PushTo \/ Lend
  BY <1>1 DEF Send, Finish, Close, PushTo, Lend, client, control, reading, message, readerVars,
              windowVars, Reuse
<1>2. CASE Dispatcher \/ UNCHANGED vars
  <2>1. UNCHANGED <<readerVars, client, pc, why, authed, reading>>
        /\ (open' = open \/ open' = FALSE)
    BY <1>2 DEF Dispatcher, Wait, Get, Write, Flush, Shut, Drain, control, vars
  <2> QED  BY <2>1 DEF client, reading, message, readerVars, windowVars
<1> QED  BY <1>1, <1>2 DEF Environment

LEMMA OverStays ==
  ASSUME StreamInv, ControlInv, MessageInv, BoolInv, [Next]_vars
  PROVE  /\ Over => Over'
         /\ QuietInv => QuietInv'
         /\ Dry => Dry'
<1>0. ended \in BOOLEAN /\ open \in BOOLEAN /\ WindowInv
  BY DEF BoolInv, ControlInv, StreamInv
<1>1. CASE Environment \/ Dispatcher \/ UNCHANGED vars
  <2>1. UNCHANGED <<next, r, w, rerr>> /\ (open' => open) /\ (ended => ended')
        /\ (sent' # sent => ~ended /\ open)
    BY <1>1, OthersLeave DEF Send
  <2> QED  BY <1>0, <2>1 DEF Over, QuietInv, Dry
<1>2. CASE \/ TakeHead \/ TakeBody \/ TakeLine \/ TakeFirst \/ TakeSecond \/ TakeExt \/ TakeKey
           \/ TakePayload
  <2>1. held /\ UNCHANGED <<ended, open>>
    BY <1>2, TakesMove DEF client
  <2>2. CASE \/ \E n \in Nat \ {0} : Popping(n)
             \/ LineFills /\ Receive
    <3>1. /\ UNCHANGED sent
          /\ Over => UNCHANGED next /\ (w = r => w' = r')
          /\ rerr' # None => Over \/ rerr' = rerr
      <4>1. CASE LineFills /\ Receive
        BY <1>0, <2>1, <4>1, ReceiveStays DEF Filling
      <4>2. CASE \E n \in Nat \ {0} : Popping(n)
        BY <1>0, <2>1, <4>2, PoppingStays
      <4> QED  BY <2>2, <4>1, <4>2
    <3> QED  BY <2>1, <3>1 DEF Over, QuietInv, Dry
  <2>3. CASE (\E n \in Nat \ {0} : Pop(n)) \/ ReadLine \/ LineFails
    <3>1. UNCHANGED <<sent, next, w>> /\ rerr' \in {None, rerr}
      BY <2>3 DEF Pop, ReadLine, LineFails
    <3>2. w = r => r' = r
      <4>1. CASE \E n \in Nat \ {0} : Pop(n)
        BY <1>0, <4>1, AtIsInStream DEF Pop, Buffered
      <4>2. CASE ReadLine
        <5>1. w = r => LineFeeds = {} /\ ~(Buffered > 0) /\ ~(Buffered >= Size)
          BY <1>0, AtIsInStream, SizeIsPositive DEF LineFeeds, Buffered
        <5> QED  BY <4>2, <5>1 DEF ReadLine
      <4>3. CASE LineFails
        BY <4>3 DEF LineFails
      <4> QED  BY <2>3, <4>1, <4>2, <4>3
    <3> QED  BY <2>1, <3>1, <3>2 DEF Over, QuietInv, Dry
  <2> QED  BY <1>2, <2>2, <2>3, TakesMove
<1>3. CASE \/ Unmask \/ Leave \/ SetProto \/ Operate \/ AuthReply \/ Signal \/ Upgrade
           \/ HandleFrame \/ CountFrame \/ WritePong \/ TakeMessage
  <2>1. UNCHANGED <<sent, next, r, w, rerr>>
    BY <1>3 DEF Unmask, Scribble, Leave, SetProto, Operate, AuthReply, Signal, Upgrade, HandleFrame,
                CountFrame, WritePong, TakeMessage, readerVars, windowVars
  <2>2. UNCHANGED ended
    BY <1>3 DEF Unmask, Leave, SetProto, Operate, AuthReply, Signal, Upgrade, HandleFrame,
                CountFrame, WritePong, TakeMessage, Elsewhere, client
  <2>3. open' = open \/ open' = FALSE
    BY <1>3 DEF Unmask, Leave, SetProto, Operate, AuthReply, Signal, Upgrade, HandleFrame,
                CountFrame, WritePong, TakeMessage, Goto, Fail, Panic
  <2> QED  BY <1>0, <2>1, <2>2, <2>3 DEF Over, QuietInv, Dry
<1> QED  BY <1>1, <1>2, <1>3 DEF Next, ReadLoop

-----------------------------------------------------------------------------
(* Where the reader stands between two frames, and inside one *)

Fetching == {"second", "ext", "key", "payload"}
Unread == {"line", "upgrade", "set", "first"}
Halted == Exits \cup {"panic"}

\* How much of a frame is read when a part of it is asked for.
Fetched(p, f) ==
    CASE p = "second" -> 1
      [] p = "ext" -> 2
      [] p = "key" -> 2 + Ext(f.n)
      [] p = "payload" -> 2 + Ext(f.n) + Mask(f)

\* A line of the request may be one that an error ended: then nothing more comes.
AlignInv ==
    script.ws =>
        /\ frame \in 0..Len(script.frames)
        /\ frame = 0 => pc \in Unread \cup Halted
        /\ frame = 0 /\ pc \in {"upgrade", "set", "first"} => At <= Off(script, 1) \/ Dry
        /\ frame > 0 => pc \notin {"line", "upgrade"}
        /\ pc \in Fetching => At = Off(script, frame) + Fetched(pc, F)
        /\ frame > 0 /\ pc \notin Fetching \cup Halted => At = Off(script, frame + 1)
        /\ pc = "key" => F.masked
        /\ pc \notin {"head", "body"}

LEMMA AlignRests ==
  ASSUME AlignInv, UNCHANGED <<script, frame, pc>>, At' = At, Dry => Dry'
  PROVE  AlignInv'
<1>1. F' = F /\ Off(script, 1)' = Off(script, 1) /\ Off(script, frame)' = Off(script, frame)
      /\ Off(script, frame + 1)' = Off(script, frame + 1)
  BY DEF F, Off
<1>2. (At <= Off(script, 1) \/ Dry) => (At <= Off(script, 1) \/ Dry)'
  BY <1>1
<1> HIDE DEF F, Off, At, Dry
<1> QED  BY <1>1, <1>2 DEF AlignInv

LEMMA AlignHalts ==
  ASSUME AlignInv, script' = script, frame' \in 0..Len(script.frames), pc' \in Halted
  PROVE  AlignInv'
<1>1. /\ pc' \notin {"line", "upgrade", "set", "first"} /\ pc' \notin Fetching /\ pc' # "key"
      /\ pc' \notin {"head", "body"}
  BY DEF Halted, Exits, Fetching
<1> QED  BY <1>1 DEF AlignInv

\* Where the reader goes when it reads nothing.
LEMMA OtherTurns ==
  ASSUME StreamInv, ControlInv, script.ws,
         \/ Unmask \/ Leave \/ SetProto \/ Operate \/ AuthReply \/ Signal \/ Upgrade
         \/ HandleFrame \/ CountFrame \/ WritePong \/ TakeMessage
  PROVE  /\ UNCHANGED <<script, frame, stream, sent, next, r, w, rerr>>
         /\ pc' \notin Fetching \cup {"line", "upgrade", "head", "body"}
         /\ pc \notin Fetching \cup {"line"}
         /\ pc \in {"upgrade", "set", "first"} => pc' \in {"set", "first"} \cup Halted
         /\ pc \in Halted => pc' \in Halted
         /\ pc' # "unmask" /\ (pc' = "frame" => Unmask)
<1>0. authed \in BOOLEAN /\ script.ws \in BOOLEAN
  BY DEF ControlInv
<1>1. /\ UNCHANGED <<script, frame, stream, sent, next, r, w, rerr>>
  <2>1. CASE Unmask \/ Leave \/ SetProto \/ Operate \/ AuthReply \/ Signal \/ Upgrade
    BY <2>1 DEF Unmask, Scribble, Leave, SetProto, Operate, AuthReply, Signal, Upgrade, readerVars,
                windowVars, Elsewhere, client, reading, message
  <2>2. CASE HandleFrame \/ CountFrame \/ WritePong \/ TakeMessage
    BY <2>2 DEF HandleFrame, CountFrame, WritePong, TakeMessage, readerVars, windowVars, Elsewhere,
                client, reading, message
  <2> QED  BY <2>1, <2>2
<1>2. ASSUME NEW x, Fail(x) PROVE pc' \in Halted
  BY <1>0, <1>2, ExitStarts DEF Fail, Halted, Exits
<1>3. CASE Leave
  <2>1. pc \in {"close", "putrb", "finish"} /\ pc' = Following(pc)
    BY <1>3 DEF Leave
  <2>2. pc = "finish" => authed
    BY DEF ControlInv
  <2>3. pc' \in Exits
    BY <1>0, <2>1, <2>2, ExitGoesOn DEF Exits
  <2>4. pc' \notin {"unmask", "frame"}
    BY <2>3 DEF Exits
  <2> QED  BY <1>1, <2>1, <2>3, <2>4 DEF Exits, Halted, Fetching
<1>4. CASE ~Leave
  <2>1. \/ pc = "unmask" /\ pc' = "frame"
        \/ pc = "set" /\ pc' \in {"first"} \cup Halted
        \/ pc = "operate" /\ pc' \in {"first", "reply", "signal"} \cup Halted
        \/ pc = "reply" /\ pc' \in {"set"} \cup Halted
        \/ pc = "signal" /\ pc' = "set"
        \/ pc = "upgrade" /\ pc' \in {"set"} \cup Halted
        \/ pc = "frame" /\ pc' \in {"message", "count", "pong"} \cup Halted
        \/ pc = "count" /\ pc' \in {"first"} \cup Halted
        \/ pc \in {"pong", "pongbody"} /\ pc' \in {"pongbody", "count"} \cup Halted
        \/ pc = "message" /\ pc' \in {"operate"} \cup Halted
    <3>1. CASE Unmask \/ SetProto \/ Operate \/ AuthReply \/ Signal \/ Upgrade
      BY <1>0, <1>2, <3>1 DEF Unmask, SetProto, Operate, AuthReply, Signal, Upgrade, Goto
    <3>2. CASE HandleFrame \/ CountFrame \/ WritePong
      BY <1>2, <3>2 DEF HandleFrame, CountFrame, WritePong, Goto
    <3>3. CASE TakeMessage
      <4>1. Panic => pc' \in Halted
        BY DEF Panic, Halted
      <4>2. pc = "message" /\ (Goto("operate") \/ Panic \/ \E x : Fail(x))
        BY <3>3 DEF TakeMessage
      <4> QED  BY <1>2, <4>1, <4>2 DEF Goto
    <3> QED  BY <1>4, <3>1, <3>2, <3>3
  <2>2. pc = "unmask" => Unmask
    BY DEF Leave, SetProto, Operate, AuthReply, Signal, Upgrade, HandleFrame, CountFrame, WritePong,
           TakeMessage
  <2> QED  BY <1>1, <2>1, <2>2 DEF Halted, Exits, Fetching
<1> QED  BY <1>3, <1>4

\* A first byte tells which frame it begins: the next one.
LEMMA TakeFirstAligns ==
  ASSUME StreamInv, ControlInv, BoolInv, QuietInv, AlignInv, TakeFirst, ~Popping(1), ~(pc' \in Halted)
  PROVE  /\ frame' = frame + 1 /\ frame' \in 1..Len(script.frames) /\ pc' = "second"
         /\ At = Off(script, frame + 1) /\ At' = At + 1 /\ script' = script
         /\ part' = Nil /\ UNCHANGED <<request, key, msg, frames, proto, got>>
         /\ script.frames[frame'].op # "reserved"
<1>0. held /\ script.ws /\ script \in Scripts /\ WindowInv /\ pc = "first"
      /\ stream = StreamOf(script)
  BY DEF ControlInv, StreamInv, TakeFirst, Exits
<1>1. /\ Pop(1) /\ part' = Nil /\ UNCHANGED <<request, key, msg, frames, proto, got>>
      /\ script' = script
  BY DEF TakeFirst, ReadByte, Elsewhere, client
<1>2. buf[r].t = "first" /\ script.frames[buf[r].k].op # "reserved" /\ frame' = buf[r].k
      /\ pc' = "second"
  <2>1. ~Fail("bits")
    BY ExitStarts DEF Fail, Halted, Exits, ControlInv
  <2> QED  BY <2>1 DEF TakeFirst, Goto
<1>3. /\ At' = At + 1 /\ At + 1 <= Len(stream) /\ buf[r] = stream[At + 1]
      /\ r + 1 <= w
  <2>1. /\ At' = At + 1 /\ At + 1 <= Len(stream) /\ \A i \in 1..1 : buf[r + i - 1] = stream[At + i]
        /\ r + 1 <= w
    BY <1>0, <1>1, AtPops
  <2>2. buf[r + 1 - 1] = stream[At + 1] /\ r + 1 - 1 = r
    BY <1>0, <2>1, AtIsInStream
  <2> QED  BY <2>1, <2>2
<1>4. At \in Nat /\ r \in Nat /\ Len(stream) \in Nat
  BY <1>0, AtIsInStream
<1>5. At + 1 \in 1..Len(stream)
  BY <1>3, <1>4
<1> DEFINE k == buf[r].k
           last == Len(script.frames)
<1>6. k \in 1..last /\ At + 1 = Off(script, k) + 1
  BY <1>0, <1>2, <1>3, <1>5, FirstIsThere
<1>7. /\ \A j \in 0..last + 1 : Off(script, j) \in Nat
      /\ \A i, j \in 1..last + 1 : i < j => Off(script, i) < Off(script, j)
      /\ last \in Nat
  BY <1>0, FrameRoom, ScriptFacts
<1> HIDE DEF k, last
<1>8. k \in 1..last + 1 /\ k \in 0..last + 1 /\ 1 \in 1..last + 1 /\ 1 \in 0..last + 1
  BY <1>6, <1>7
<1>9. At = Off(script, k)
  BY <1>4, <1>6, <1>7, <1>8
<1>10. frame \in 0..last
  BY <1>0 DEF AlignInv, last
<1>11. k = frame + 1
  <2>1. CASE frame = 0
    <3>1. ~Dry
      BY <1>3, <1>4, <1>0, AtIsInStream DEF Dry
    <3>2. At <= Off(script, 1)
      BY <1>0, <2>1, <3>1 DEF AlignInv
    <3>3. ~(1 < k)
      BY <1>4, <1>7, <1>8, <1>9, <3>2
    <3> QED  BY <1>6, <2>1, <3>3
  <2>2. CASE frame > 0
    <3>1. At = Off(script, frame + 1)
      BY <1>0, <2>2 DEF AlignInv, Fetching, Halted, Exits
    <3>2. frame + 1 \in 1..last + 1 /\ frame + 1 \in 0..last + 1
      BY <1>7, <1>10
    <3>3. ASSUME NEW i \in 1..last + 1, At = Off(script, i), i < k \/ k < i PROVE FALSE
      <4>1. Off(script, i) < Off(script, k) \/ Off(script, k) < Off(script, i)
        BY <1>7, <1>8, <3>3
      <4> QED  BY <1>4, <1>9, <3>3, <4>1
    <3>4. ~(k < frame + 1) /\ ~(frame + 1 < k)
      BY <3>1, <3>2, <3>3
    <3> QED  BY <1>6, <1>8, <3>2, <3>4
  <2> QED  BY <1>7, <1>10, <2>1, <2>2
<1> QED  BY <1>0, <1>1, <1>2, <1>3, <1>6, <1>9, <1>11 DEF k, last

\* Stage i is the first wanted one.
LEMMA StageIsFirst ==
  ASSUME NEW i \in 1..4
  PROVE  /\ i <= 1 /\ Stage(i) \in {"key", "payload", "unmask", "frame"} => ~Wants("ext")
         /\ i <= 2 /\ Stage(i) \in {"payload", "unmask", "frame"} => ~Wants("key")
         /\ i <= 3 /\ Stage(i) \in {"unmask", "frame"} => ~Wants("payload")
         /\ Stage(i) = "frame" => ~Wants("unmask")
<1> DEFINE wanted == {j \in i..5 : Wants(Stages[j])}
           least == CHOOSE j \in wanted : \A k \in wanted : j <= k
<1>1. /\ Stages[1] = "ext" /\ Stages[2] = "key" /\ Stages[3] = "payload"
      /\ Stages[4] = "unmask" /\ Stages[5] = "frame"
  BY DEF Stages
<1>2. 5 \in wanted
  <2>1. Wants("frame")
    BY DEF Wants
  <2>2. 5 \in i..5
    OBVIOUS
  <2> QED  BY <1>1, <2>1, <2>2
<1>3. \E j \in wanted : \A k \in wanted : j <= k
  <2>1. wanted \subseteq Nat
    OBVIOUS
  <2> HIDE DEF wanted
  <2> QED  BY <1>2, <2>1, LeastNumber
<1>4. least \in wanted /\ \A k \in wanted : least <= k
  BY <1>3
<1>5. Stage(i) = Stages[least]
  BY DEF Stage
<1> HIDE DEF least
<1>6. least \in i..5
  BY <1>4
<1>7. \A j \in i..5 : j < least => ~Wants(Stages[j])
  <2> SUFFICES ASSUME NEW j \in i..5, j < least, Wants(Stages[j]) PROVE FALSE
    OBVIOUS
  <2>1. j \in wanted
    OBVIOUS
  <2> QED  BY <1>4, <1>6, <2>1
<1> HIDE DEF wanted
<1>8. i <= 1 => (1 < least => ~Wants("ext"))
  BY <1>1, <1>7
<1>9. i <= 2 => (2 < least => ~Wants("key"))
  BY <1>1, <1>7
<1>10. i <= 3 => (3 < least => ~Wants("payload"))
  BY <1>1, <1>7
<1>11. 4 < least => ~Wants("unmask")
  BY <1>1, <1>7
<1>12. least \in 1..5
  BY <1>6
<1> QED  BY <1>1, <1>5, <1>8, <1>9, <1>10, <1>11, <1>12

\* From one stage of a frame to the next, the reader keeps its place in it.
LEMMA StageAligns ==
  ASSUME NEW i \in 1..4, NEW s \in Scripts, s = script, s.ws,
         frame \in 1..Len(s.frames), NEW a,
         a = Off(s, frame) + (CASE i = 1 -> 2
                                [] i = 2 -> 2 + Ext(F.n)
                                [] i = 3 -> 2 + Ext(F.n) + Mask(F)
                                [] i = 4 -> 2 + Ext(F.n) + Mask(F) + F.n)
  PROVE  /\ Stage(i) \in Fetching => a = Off(s, frame) + Fetched(Stage(i), F)
         /\ Stage(i) \notin Fetching => a = Off(s, frame + 1)
<1>1. /\ Stage(i) \in {"ext", "key", "payload", "unmask", "frame"} /\ Wants(Stage(i))
      /\ i >= 2 => Stage(i) # "ext"
      /\ i >= 3 => Stage(i) # "key"
      /\ i <= 3 => Stage(i) # "unmask"
      /\ i = 4 => Stage(i) # "payload"
  BY StageIsWanted
<1>2. /\ i <= 1 /\ Stage(i) \in {"key", "payload", "unmask", "frame"} => ~Wants("ext")
      /\ i <= 2 /\ Stage(i) \in {"payload", "unmask", "frame"} => ~Wants("key")
      /\ i <= 3 /\ Stage(i) \in {"unmask", "frame"} => ~Wants("payload")
  BY StageIsFirst
<1>3. /\ Ext(F.n) \in Nat /\ Mask(F) \in Nat /\ F.n \in Nat
      /\ ~Wants("ext") => Ext(F.n) = 0
      /\ ~Wants("key") => Mask(F) = 0
      /\ ~Wants("payload") => F.n = 0
  BY Sizes DEF F, Wants, Mask
<1>4. /\ Off(s, frame) \in Nat
      /\ Off(s, frame + 1) = Off(s, frame) + 2 + Ext(F.n) + Mask(F) + F.n
  <2>1. frame \in 0..Len(s.frames) + 1
    BY ScriptFacts
  <2> QED  BY <2>1, FrameRoom DEF F
<1> DEFINE p == Stage(i)
           x == Ext(F.n)
           y == Mask(F)
           z == F.n
           o == Off(s, frame)
<1>5. Fetched("ext", F) = 2 /\ Fetched("key", F) = 2 + x /\ Fetched("payload", F) = 2 + x + y
  BY DEF Fetched
<1>6. \/ i = 1 /\ a = o + 2
      \/ i = 2 /\ a = o + (2 + x)
      \/ i = 3 /\ a = o + (2 + x + y)
      \/ i = 4 /\ a = o + (2 + x + y + z)
  OBVIOUS
<1> HIDE DEF p, x, y, z, o
<1>7. /\ p \in {"ext", "key", "payload", "unmask", "frame"}
      /\ i >= 2 => p # "ext"
      /\ i >= 3 => p # "key"
      /\ i <= 3 => p # "unmask"
      /\ i = 4 => p # "payload"
      /\ i <= 1 /\ p \in {"key", "payload", "unmask", "frame"} => x = 0
      /\ i <= 2 /\ p \in {"payload", "unmask", "frame"} => y = 0
      /\ i <= 3 /\ p \in {"unmask", "frame"} => z = 0
      /\ x \in Nat /\ y \in Nat /\ z \in Nat /\ o \in Nat
  BY <1>1, <1>2, <1>3, <1>4 DEF p, x, y, z, o
<1>8. p = "ext" => a = o + 2
  BY <1>6, <1>7
<1>9. p = "key" => a = o + (2 + x)
  BY <1>6, <1>7
<1>10. p = "payload" => a = o + (2 + x + y)
  BY <1>6, <1>7
<1>11. p \in {"unmask", "frame"} => a = o + 2 + x + y + z
  BY <1>6, <1>7
<1>12. p \in Fetching => p \in {"ext", "key", "payload"}
  BY <1>7 DEF Fetching
<1>13. p \notin Fetching => p \in {"unmask", "frame"}
  BY <1>7 DEF Fetching
<1>14. p \in Fetching => a = o + Fetched(p, F)
  BY <1>5, <1>8, <1>9, <1>10, <1>12
<1>15. p \notin Fetching => a = Off(s, frame + 1)
  BY <1>4, <1>11, <1>13 DEF o, x, y, z
<1> QED  BY <1>14, <1>15 DEF p, o

\* What a part of a frame is asked for with, and what is next to be asked for.
LEMMA TakeStagesAlign ==
  ASSUME StreamInv, ControlInv, BoolInv, MessageInv, AlignInv, script.ws,
         TakeSecond \/ TakeExt \/ TakeKey \/ TakePayload
  PROVE  /\ UNCHANGED <<script, frame, msg, frames, proto, got>>
         /\ \/ pc' \in Halted
            \/ pc' = pc /\ UNCHANGED <<key, part>> /\ At' = At
            \/ /\ pc' \notin Halted /\ AlignInv'
               /\ \/ TakeSecond /\ pc' = Stage(1) /\ UNCHANGED <<key, part>>
                  \/ TakeExt /\ pc' = Stage(2) /\ UNCHANGED <<key, part>>
                  \/ TakeKey /\ Pop(1) /\ pc' = Stage(3) /\ UNCHANGED part /\ key' = Key(r)
                  \/ TakePayload /\ Pop(F.n) /\ pc' = Stage(4) /\ UNCHANGED key /\ part' = Part(r, F.n)
<1>0. /\ held /\ script \in Scripts /\ WindowInv /\ pc \in Fetching /\ pc \in Framing
      /\ frame \in 1..Len(script.frames) /\ ended \in BOOLEAN /\ open \in BOOLEAN
  BY DEF ControlInv, StreamInv, MessageInv, BoolInv, TakeSecond, TakeExt, TakeKey, TakePayload, Exits,
         Fetching, Framing
<1>1. ASSUME NEW x, Fail(x) PROVE pc' \in Halted
  BY <1>1, ExitStarts DEF Fail, Halted, Exits, ControlInv
<1>2. UNCHANGED <<script, frame, msg, frames, proto, got>>
  BY DEF TakeSecond, TakeExt, TakeKey, TakePayload, Popping, Receive, Elsewhere, client, reading,
         message
<1>3. ASSUME NEW n \in Nat \ {0}, Popping(n)
      PROVE  \/ pc' \in Halted
             \/ pc' = pc /\ UNCHANGED <<key, part>> /\ At' = At
  BY <1>0, <1>1, <1>3, PoppingStays DEF control, reading, message
<1>4. At \in Nat /\ At = Off(script, frame) + Fetched(pc, F)
  BY <1>0, AtIsInStream DEF AlignInv
<1>5. /\ Ext(F.n) \in Nat /\ Mask(F) \in Nat /\ F.n \in Nat
      /\ F.masked => Mask(F) = 1
  BY <1>0, Sizes DEF F
<1>6. Off(script, frame) \in Nat
  <2>1. frame \in 0..Len(script.frames) + 1
    BY <1>0, ScriptFacts
  <2> QED  BY <1>0, <2>1, FrameRoom
<1>7. ASSUME NEW i \in 1..4, pc' = Stage(i),
             At' = Off(script, frame) + (CASE i = 1 -> 2
                                           [] i = 2 -> 2 + Ext(F.n)
                                           [] i = 3 -> 2 + Ext(F.n) + Mask(F)
                                           [] i = 4 -> 2 + Ext(F.n) + Mask(F) + F.n)
      PROVE  pc' \notin Halted /\ AlignInv'
  <2>1. /\ Stage(i) \in Fetching => At' = Off(script, frame) + Fetched(Stage(i), F)
        /\ Stage(i) \notin Fetching => At' = Off(script, frame + 1)
    BY <1>0, <1>7, StageAligns
  <2>2. Stage(i) \in {"ext", "key", "payload", "unmask", "frame"}
    BY StageIsWanted
  <2>3. pc' \notin Halted /\ pc' \notin {"line", "upgrade"} /\ frame > 0 /\ frame # 0
    BY <1>0, <1>7, <2>2 DEF Halted, Exits
  <2>4. F' = F /\ Off(script, frame)' = Off(script, frame)
        /\ Off(script, frame + 1)' = Off(script, frame + 1)
    BY <1>2 DEF F, Off
  <2>5. frame' \in 0..Len(script'.frames)
    BY <1>0, <1>2
  <2>6. pc' = "key" => F.masked
    BY <1>7, StageIsWanted DEF Wants
  <2>7. pc' \notin {"head", "body"}
    BY <1>7, <2>2
  <2> HIDE DEF F, Off, At
  <2> QED  BY <1>2, <1>7, <2>1, <2>3, <2>4, <2>5, <2>6, <2>7 DEF AlignInv
<1>8. ASSUME NEW n \in Nat, Pop(n) PROVE At' = At + n
  BY <1>0, <1>8, AtPops
<1>9. CASE TakeSecond
  <2>1. Popping(1) \/ (Pop(1) /\ pc' = Stage(1) /\ UNCHANGED <<key, part>>)
    BY <1>9 DEF TakeSecond, ReadByte, Goto, reading, message
  <2>2. CASE Pop(1) /\ pc' = Stage(1) /\ UNCHANGED <<key, part>>
    <3>1. At' = Off(script, frame) + 2
      BY <1>4, <1>6, <1>8, <1>9, <2>2 DEF TakeSecond, Fetched
    <3>2. pc' \notin Halted /\ AlignInv'
      BY <1>7, <2>2, <3>1
    <3> QED  BY <1>2, <1>9, <2>2, <3>2
  <2> QED  BY <1>2, <1>3, <2>1, <2>2
<1>10. CASE TakeExt
  <2>1. Ext(F.n) \in Nat \ {0}
    BY <1>10, ReadsSomething DEF TakeExt
  <2>2. Popping(Ext(F.n)) \/ (Pop(Ext(F.n)) /\ pc' = Stage(2) /\ UNCHANGED <<key, part>>)
    BY <1>10 DEF TakeExt, Goto, reading, message
  <2>3. CASE Pop(Ext(F.n)) /\ pc' = Stage(2) /\ UNCHANGED <<key, part>>
    <3>1. At' = At + Ext(F.n)
      BY <1>5, <1>8, <2>3
    <3>2. At' = Off(script, frame) + (2 + Ext(F.n))
      BY <1>4, <1>5, <1>6, <1>10, <3>1 DEF TakeExt, Fetched
    <3>3. pc' \notin Halted /\ AlignInv'
      BY <1>7, <2>3, <3>2
    <3> QED  BY <1>2, <1>10, <2>3, <3>3
  <2> QED  BY <1>2, <1>3, <2>1, <2>2, <2>3
<1>11. CASE TakeKey
  <2>1. F.masked
    BY <1>0, <1>11 DEF TakeKey, AlignInv
  <2>2. Popping(1) \/ (Pop(1) /\ pc' = Stage(3) /\ UNCHANGED part /\ key' = Key(r))
    BY <1>11 DEF TakeKey, Goto
  <2>3. CASE Pop(1) /\ pc' = Stage(3) /\ UNCHANGED part /\ key' = Key(r)
    <3>1. At' = At + 1
      BY <1>8, <2>3
    <3>2. At' = Off(script, frame) + (2 + Ext(F.n) + Mask(F))
      BY <1>4, <1>5, <1>6, <1>11, <2>1, <3>1 DEF TakeKey, Fetched
    <3>3. pc' \notin Halted /\ AlignInv'
      BY <1>7, <2>3, <3>2
    <3> QED  BY <1>2, <1>11, <2>3, <3>3
  <2> QED  BY <1>2, <1>3, <2>2, <2>3
<1>12. CASE TakePayload
  <2>1. F.n \in Nat \ {0}
    BY <1>12, ReadsSomething DEF TakePayload
  <2>2. Popping(F.n) \/ (Pop(F.n) /\ pc' = Stage(4) /\ UNCHANGED key /\ part' = Part(r, F.n))
    BY <1>12 DEF TakePayload, Goto
  <2>3. CASE Pop(F.n) /\ pc' = Stage(4) /\ UNCHANGED key /\ part' = Part(r, F.n)
    <3>1. At' = At + F.n
      BY <1>5, <1>8, <2>3
    <3>2. At' = Off(script, frame) + (2 + Ext(F.n) + Mask(F) + F.n)
      BY <1>4, <1>5, <1>6, <1>12, <3>1 DEF TakePayload, Fetched
    <3>3. pc' \notin Halted /\ AlignInv'
      BY <1>7, <2>3, <3>2
    <3> QED  BY <1>2, <1>12, <2>3, <3>3
  <2> QED  BY <1>2, <1>3, <2>1, <2>2, <2>3
<1> QED  BY <1>9, <1>10, <1>11, <1>12

\* What a line leaves: an upgrade follows the last line feed of the request, or
\* an error with nothing behind it.
LEMMA TakeLineAligns ==
  ASSUME StreamInv, ControlInv, BoolInv, QuietInv, AlignInv, TakeLine, Dry => Dry'
  PROVE  /\ UNCHANGED <<script, message, proto, got>>
         /\ pc' \in {"line", "upgrade"} \cup Halted
         /\ AlignInv'
<1>0. held /\ script.ws /\ script \in Scripts /\ WindowInv /\ pc = "line" /\ ReaderTypeOK
      /\ stream = StreamOf(script)
  BY DEF ControlInv, StreamInv, TakeLine, Exits, WindowInv
<1>1. UNCHANGED <<script, message, proto, got>>
  BY DEF TakeLine, Receive, Elsewhere, client, reading
<1>2. frame = 0 /\ frame' = 0 /\ Len(script.frames) \in Nat
  BY <1>0, <1>1, ScriptFacts DEF AlignInv, message
<1>3. pc' \in {"line", "upgrade"} \cup Halted
  <2>1. ASSUME NEW x, Fail(x) PROVE pc' \in Halted
    BY <2>1, ExitStarts DEF Fail, Halted, Exits, ControlInv
  <2> QED  BY <1>0, <2>1, LineTurns DEF control, Goto
<1>4. pc' = "upgrade" => At' <= Off(script, 1) \/ Dry'
  <2> SUFFICES ASSUME pc' = "upgrade" PROVE At' <= Off(script, 1) \/ Dry'
    OBVIOUS
  <2>1. ReadLine /\ ~More
    BY <1>0, ExitStarts DEF TakeLine, Receive, control, Fail, Goto, ControlInv
  <2>2. UNCHANGED <<stream, sent, next, w, held>> /\ UNCHANGED <<open, ended>>
    <3>1. UNCHANGED <<stream, sent, next, w, held>>
      BY <2>1 DEF ReadLine
    <3>2. UNCHANGED open
      BY <1>0, LineTurns DEF control, Goto, Fail
    <3>3. UNCHANGED ended
      BY DEF TakeLine, Receive, Elsewhere, client
    <3> QED  BY <3>1, <3>2, <3>3
  <2>3. CASE LineFeeds # {}
    <3>1. EndOfLine \in r..w-1 /\ buf[EndOfLine].t = "lf" /\ r' = EndOfLine + 1
      BY <1>0, <2>1, <2>3, FirstLineFeed DEF LineFeeds, ReadLine
    <3>2. buf[EndOfLine] = stream[next - w + EndOfLine + 1]
      BY <1>0, <3>1 DEF WindowInv, WindowIsStream
    <3>3. /\ r \in Nat /\ w \in Nat /\ next \in Nat /\ next <= sent /\ sent <= Len(stream)
          /\ At \in Nat /\ Len(stream) \in Nat /\ sent \in Nat
      BY <1>0, AtIsInStream
    <3> DEFINE e == next - w + EndOfLine + 1
    <3>4. e \in 1..Len(stream) /\ At' = e
      BY <2>2, <3>1, <3>3 DEF At
    <3> HIDE DEF e
    <3>5. e <= Off(script, 1)
      BY <1>0, <3>1, <3>2, <3>4, LineFeedIsThere DEF e
    <3> QED  BY <3>4, <3>5
  <2>4. CASE LineFeeds = {}
    <3>1. rerr # None /\ r' = w
      BY <2>1, <2>4 DEF More, ReadLine
    <3>2. Over
      BY <3>1 DEF QuietInv
    <3> QED  BY <2>2, <3>1, <3>2 DEF Dry, Over
  <2> QED  BY <2>3, <2>4
<1>5. Off(script, 1)' = Off(script, 1)
  BY <1>1 DEF Off
<1>6. pc' \notin {"set", "first"} /\ pc' \notin Fetching
      /\ pc' \in Unread \cup Halted /\ pc' \notin {"key", "head", "body"}
      /\ frame' \in 0..Len(script'.frames)
  BY <1>1, <1>2, <1>3 DEF Halted, Exits, Fetching, Unread
<1>7. AlignInv'
  <2> HIDE DEF Dry, At, Off
  <2> QED  BY <1>1, <1>2, <1>4, <1>5, <1>6 DEF AlignInv
<1> QED  BY <1>1, <1>3, <1>7

LEMMA AlignStep ==
  ASSUME ConnInv, QuietInv, AlignInv, [Next]_vars
  PROVE  AlignInv'
<1>0. /\ StreamInv /\ ControlInv /\ MessageInv /\ BoolInv /\ WindowInv
      /\ script \in Scripts /\ ended \in BOOLEAN /\ open \in BOOLEAN
  BY DEF ConnInv, StreamInv, BoolInv, ControlInv
<1>1. script' = script /\ (Dry => Dry')
  BY <1>0, StepsSee, OverStays
<1> SUFFICES ASSUME script.ws PROVE AlignInv'
  BY <1>1 DEF AlignInv
<1>2. CASE Environment \/ Dispatcher \/ UNCHANGED vars
  <2>1. UNCHANGED <<pc, script, frame, next, r, w>>
    BY <1>2, OthersLeave
  <2>2. At' = At
    BY <2>1 DEF At
  <2> QED  BY <1>1, <2>1, <2>2, AlignRests
<1>3. CASE \/ Unmask \/ Leave \/ SetProto \/ Operate \/ AuthReply \/ Signal \/ Upgrade
           \/ HandleFrame \/ CountFrame \/ WritePong \/ TakeMessage
  <2>1. /\ UNCHANGED <<script, frame, stream, sent, next, r, w, rerr>>
        /\ pc' \notin Fetching \cup {"line", "upgrade", "head", "body"}
        /\ pc \notin Fetching \cup {"line"}
        /\ pc \in {"upgrade", "set", "first"} => pc' \in {"set", "first"} \cup Halted
        /\ pc \in Halted => pc' \in Halted
    BY <1>0, <1>3, OtherTurns
  <2>2. At' = At /\ Off(script, 1)' = Off(script, 1) /\ Off(script, frame + 1)' = Off(script, frame + 1)
    BY <2>1 DEF At, Off
  <2>3. pc' # "key"
    BY <2>1 DEF Fetching
  <2> HIDE DEF At, Off, Dry
  <2>4. frame = 0 => pc \in {"upgrade", "set", "first"} \cup Halted
    BY <2>1 DEF AlignInv, Unread
  <2>5. frame = 0 => pc' \in {"set", "first"} \cup Halted
    BY <2>1, <2>4
  <2>6. frame = 0 /\ pc' \in {"set", "first"} => pc \in {"upgrade", "set", "first"}
    BY <2>1, <2>4 DEF Halted, Exits
  <2>7. pc' \notin Halted => pc \notin Halted
    BY <2>1
  <2> QED  BY <1>1, <2>1, <2>2, <2>3, <2>5, <2>6, <2>7 DEF AlignInv, Unread
<1>4. CASE TakeLine
  BY <1>0, <1>1, <1>4, TakeLineAligns
<1>5. CASE TakeSecond \/ TakeExt \/ TakeKey \/ TakePayload
  <2>1. UNCHANGED <<script, frame>> /\ (\/ pc' \in Halted
                                        \/ pc' = pc /\ At' = At
                                        \/ AlignInv')
    BY <1>0, <1>5, TakeStagesAlign
  <2>2. frame' \in 0..Len(script.frames)
    BY <2>1 DEF AlignInv
  <2> QED  BY <1>1, <2>1, <2>2, AlignRests, AlignHalts
<1>6. CASE TakeFirst
  <2>1. held /\ pc = "first"
    BY <1>0, <1>6 DEF TakeFirst, ControlInv, Exits
  <2>2. CASE Popping(1)
    <3>1. UNCHANGED <<script, frame>> /\ At' = At /\ (pc' = pc \/ pc' \in Halted)
      <4>1. ASSUME NEW x, Fail(x) PROVE pc' \in Halted
        BY <1>0, <4>1, ExitStarts DEF Fail, Halted, Exits, ControlInv
      <4> QED  BY <1>0, <2>1, <2>2, <4>1, PoppingStays DEF client, reading, message, control
    <3>2. frame' \in 0..Len(script.frames)
      BY <3>1 DEF AlignInv
    <3> QED  BY <1>1, <3>1, <3>2, AlignRests, AlignHalts
  <2>3. CASE ~Popping(1) /\ pc' \in Halted
    <3>1. frame' \in 0..Len(script.frames)
      <4>1. frame' = frame \/ (frame' = buf[r].k /\ ~(pc' \in Halted))
        <5>1. "second" \notin Halted
          BY DEF Halted, Exits
        <5>2. frame' = frame \/ (frame' = buf[r].k /\ Goto("second"))
          BY <1>6, <2>3 DEF TakeFirst
        <5> QED  BY <5>1, <5>2 DEF Goto
      <4> QED  BY <2>3, <4>1 DEF AlignInv
    <3> QED  BY <1>1, <2>3, <3>1, AlignHalts
  <2>4. CASE ~Popping(1) /\ ~(pc' \in Halted)
    <3>1. /\ frame' = frame + 1 /\ frame' \in 1..Len(script.frames) /\ pc' = "second"
          /\ At = Off(script, frame + 1) /\ At' = At + 1
      BY <1>0, <1>6, <2>4, TakeFirstAligns
    <3>2. Off(script, frame)' = Off(script, frame') /\ Fetched(pc, F)' = 1
      BY <1>1, <3>1 DEF Off, Fetched
    <3>3. frame' # 0 /\ frame' \in 0..Len(script'.frames) /\ pc' \in Fetching
          /\ pc' \notin {"line", "upgrade", "key", "head", "body"}
      BY <1>1, <3>1 DEF Fetching
    <3>4. At' = Off(script, frame)' + Fetched(pc, F)'
      BY <3>1, <3>2
    <3> HIDE DEF At, Off
    <3> QED  BY <3>3, <3>4 DEF AlignInv
  <2> QED  BY <2>2, <2>3, <2>4
<1>7. CASE TakeHead \/ TakeBody
  BY <1>7 DEF TakeHead, TakeBody, AlignInv
<1> QED  BY <1>2, <1>3, <1>4, <1>5, <1>6, <1>7 DEF Next, ReadLoop

-----------------------------------------------------------------------------
(* What is in hand of a frame *)

LEMMA ChunkIs ==
  ASSUME NEW f, f.n \in Nat, NEW x
  PROVE  /\ Len(Chunk(f, x)) = f.n
         /\ f.n = 0 => Chunk(f, x) = <<>>
<1>1. Chunk(f, x) = [i \in 1..f.n |-> IF f.packet = 0 THEN Cell("body", 0, i, x)
                                      ELSE PacketCell(f.packet, f.from + i, x)]
  BY DEF Chunk, Seqn
<1> QED  BY <1>1

Uncovered(c) == [c EXCEPT !.x = 0]

LEMMA ChunkCells ==
  ASSUME NEW f, f.n \in Nat, NEW x, NEW j \in 1..f.n
  PROVE  Chunk(f, x)[j].x = x /\ Uncovered(Chunk(f, x)[j]) = Chunk(f, 0)[j]
<1> DEFINE cell(i, y) == IF f.packet = 0 THEN Cell("body", 0, i, y)
                         ELSE PacketCell(f.packet, f.from + i, y)
<1>1. \A y : Chunk(f, y) = [i \in 1..f.n |-> cell(i, y)]
  BY DEF Chunk, Seqn
<1>2. cell(j, x).x = x /\ Uncovered(cell(j, x)) = cell(j, 0)
  BY DEF Cell, PacketCell, Uncovered
<1> HIDE DEF cell
<1>3. Chunk(f, x)[j] = cell(j, x) /\ Chunk(f, 0)[j] = cell(j, 0)
  BY <1>1
<1> QED  BY <1>2, <1>3

LEMMA ChunkStays ==
  ASSUME F' = F, NEW CONSTANT x
  PROVE  Chunk(F, x)' = Chunk(F, x)
  BY DEF Chunk, Seqn, PacketCell, Cell

\* A payload lies in the buffer as it came, until it is unmasked there.
PartInv ==
    script.ws =>
        /\ pc \in Fetching => part = Nil
        /\ pc \in {"payload", "unmask"} /\ F.masked => key = Own(<<Cell("key", frame, 1, 0)>>)
        /\ pc = "unmask" => F.masked /\ Contents(part) = Chunk(F, frame)
        /\ pc = "frame" => Contents(part) = Chunk(F, 0)

LEMMA PartRests ==
  ASSUME PartInv, UNCHANGED <<script, frame, pc, key, part>>, pc \in {"unmask", "frame"} => buf' = buf
  PROVE  PartInv'
<1>1. F' = F
  BY DEF F
<1>2. pc \in {"unmask", "frame"} => Contents(part)' = Contents(part)
  BY DEF Contents, Chars
<1> HIDE DEF F, Contents
<1> QED  BY <1>1, <1>2 DEF PartInv, Own

LEMMA PartAway ==
  ASSUME pc' \notin Fetching \cup {"unmask", "frame"}
  PROVE  PartInv'
  BY DEF PartInv, Fetching

\* The cells of a payload lose the key they came under.
LEMMA UnmaskClears ==
  ASSUME StreamInv, ControlInv, MessageInv, PartInv, Unmask
  PROVE  PartInv'
<1>0. /\ script.ws /\ pc = "unmask" /\ pc' = "frame" /\ UNCHANGED <<script, frame, key, part>>
      /\ script \in Scripts /\ frame \in 1..Len(script.frames) /\ F' = F /\ F.n \in Nat
  <2>1. script.ws /\ pc = "unmask" /\ pc' = "frame" /\ UNCHANGED <<script, frame, key, part>>
    BY DEF Unmask, ControlInv, Framing, Goto, Elsewhere, client, reading, message
  <2>2. script \in Scripts /\ frame \in 1..Len(script.frames)
    BY <2>1 DEF StreamInv, MessageInv, Framing
  <2> QED  BY <2>1, <2>2, FrameFacts DEF F
<1>1. /\ key = Own(<<Cell("key", frame, 1, 0)>>) /\ Contents(part) = Chunk(F, frame) /\ ~part.own
      /\ part.from \in Nat /\ part.n \in Nat /\ part.from + part.n <= r /\ r \in Nat /\ r <= Size
      /\ Size \in Nat
  BY <1>0, UnmaskScribbles, AtIsInStream, SizeIsPositive DEF PartInv, MessageInv, StreamInv
<1>2. /\ Contents(part) = [i \in 1..part.n |-> buf[part.from + i - 1]]
      /\ Contents(part)' = [i \in 1..part.n |-> buf'[part.from + i - 1]]
  <2>1. part.from + part.n - part.from = part.n
    BY <1>1
  <2> QED  BY <1>0, <1>1, <2>1 DEF Contents, Chars
<1>3. part.n = F.n
  <2>1. Len(Contents(part)) = part.n
    BY <1>1, <1>2
  <2>2. Len(Chunk(F, frame)) = F.n
    BY <1>0, ChunkIs
  <2> QED  BY <1>1, <2>1, <2>2
<1>4. Contents(key)[1] = Cell("key", frame, 1, 0)
  BY <1>1 DEF Contents, Own
<1>5. ASSUME NEW i \in 1..F.n PROVE Contents(part)'[i] = Chunk(F, 0)[i]
  <2> DEFINE e == part.from + i - 1
  <2>1. e \in part.from..part.from + part.n - 1 /\ e \in 0..Size - 1
    BY <1>1, <1>3
  <2>2. buf'[e] = Unmasked(buf[e])
    BY <1>0, <2>1, UnmaskScribbles DEF Scribble
  <2>3. buf[e] = Chunk(F, frame)[i] /\ Contents(part)'[i] = buf'[e]
    BY <1>1, <1>2, <1>3
  <2>4. buf[e].x = frame /\ Uncovered(buf[e]) = Chunk(F, 0)[i]
    <3>1. Chunk(F, frame)[i].x = frame /\ Uncovered(Chunk(F, frame)[i]) = Chunk(F, 0)[i]
      <4>1. F.n \in Nat /\ i \in 1..F.n
        BY <1>0
      <4> QED  BY <4>1, ChunkCells, Zenon
    <3> QED  BY <2>3, <3>1
  <2> HIDE DEF e
  <2>5. Unmasked(buf[e]) = Uncovered(buf[e])
    BY <1>4, <2>4 DEF Unmasked, Uncovered
  <2> QED  BY <2>2, <2>3, <2>4, <2>5
<1>6. Contents(part)' = Chunk(F, 0)
  <2>1. DOMAIN Contents(part)' = 1..F.n
    BY <1>2, <1>3
  <2>2. Contents(part)' = [i \in 1..F.n |-> Contents(part)'[i]]
    BY <1>2, <1>3
  <2>3. Chunk(F, 0) = [i \in 1..F.n |-> Chunk(F, 0)[i]]
    BY DEF Chunk, Seqn
  <2> QED  BY <1>5, <2>2, <2>3
<1>7. (Contents(part) = Chunk(F, 0))'
  BY <1>0, <1>6, ChunkStays
<1> HIDE DEF F, Contents
<1> QED  BY <1>0, <1>7 DEF PartInv, Fetching

\* The key and the payload are those of the frame that is being read.
LEMMA PartAdvances ==
  ASSUME StreamInv, ControlInv, MessageInv, AlignInv, PartInv, script.ws,
         UNCHANGED <<script, frame>>,
         \/ TakeSecond /\ pc' = Stage(1) /\ UNCHANGED <<key, part>>
         \/ TakeExt /\ pc' = Stage(2) /\ UNCHANGED <<key, part>>
         \/ TakeKey /\ Pop(1) /\ pc' = Stage(3) /\ UNCHANGED part /\ key' = Key(r)
         \/ TakePayload /\ Pop(F.n) /\ pc' = Stage(4) /\ UNCHANGED key /\ part' = Part(r, F.n)
  PROVE  PartInv'
<1>0. /\ held /\ script \in Scripts /\ WindowInv /\ pc \in Fetching /\ pc \in Framing
      /\ frame \in 1..Len(script.frames) /\ stream = StreamOf(script)
  BY DEF ControlInv, StreamInv, MessageInv, TakeSecond, TakeExt, TakeKey, TakePayload, Exits, Fetching,
         Framing
<1>1. F' = F /\ F.n \in Nat /\ F = script.frames[frame] /\ F.masked \in BOOLEAN
  BY <1>0, FrameFacts DEF F
<1>2. part = Nil /\ Contents(Nil) = <<>>
  BY <1>0, NilIsBody DEF PartInv, Contents
<1>3. Contents(Nil)' = <<>>
  BY NilIsBody DEF Contents
<1>4. At \in Nat /\ At = Off(script, frame) + Fetched(pc, F)
  BY <1>0, AtIsInStream DEF AlignInv
<1>5. /\ Ext(F.n) \in Nat /\ Mask(F) \in Nat /\ F.n \in Nat
      /\ F.masked => Mask(F) = 1
  BY <1>0, Sizes DEF F
\* Cell i of the frame.
<1>6. /\ Off(script, frame) \in Nat
      /\ \A i \in 1..Len(Frame(script, frame)) :
            stream[Off(script, frame) + i] = Frame(script, frame)[i]
      /\ Len(Frame(script, frame)) = 2 + Ext(F.n) + Mask(F) + F.n
  <2>1. frame + 1 \in 1..Len(Items(script)) /\ Items(script)[frame + 1] = Frame(script, frame)
        /\ (frame + 1) - 1 = frame
    <3>1. Len(Items(script)) = 1 + Len(script.frames) /\ Items(script)[frame + 1] = Frame(script, frame)
          /\ Len(script.frames) \in Nat
      <4>1. Len(Items(script)) = 1 + Len(script.frames) /\ Len(script.frames) \in Nat
        BY <1>0, FrameItems
      <4>2. \A j \in 1..Len(script.frames) : Items(script)[j + 1] = Frame(script, j)
        BY <1>0, FrameItems
      <4> QED  BY <1>0, <4>1, <4>2
    <3> QED  BY <1>0, <3>1
  <2> DEFINE k == frame + 1
  <2>2. ASSUME NEW i \in 1..Len(Frame(script, frame))
        PROVE  stream[Off(script, frame) + i] = Frame(script, frame)[i]
    <3>1. k \in 1..Len(Items(script)) /\ i \in 1..Len(Items(script)[k]) /\ k - 1 = frame
          /\ Items(script)[k] = Frame(script, frame)
      BY <2>1
    <3> HIDE DEF k
    <3>2. StreamOf(script)[Off(script, k - 1) + i] = Items(script)[k][i]
      BY <1>0, <3>1, OffCells
    <3> QED  BY <1>0, <3>1, <3>2
  <2>3. Off(script, frame) \in Nat
    <3>1. \A j \in 0..Len(script.frames) + 1 : Off(script, j) \in Nat
      BY <1>0, FrameRoom
    <3>2. Len(script.frames) \in Nat /\ frame \in Nat
      BY <1>0, ScriptFacts
    <3>3. frame \in 0..Len(script.frames) + 1
      BY <1>0, <3>2
    <3> QED  BY <3>1, <3>3
  <2> QED  BY <1>0, <1>1, <2>2, <2>3, FrameCells
<1>7. ASSUME part' = Nil, pc' \notin {"payload", "unmask"} \/ ~F.masked \/ key' = Own(<<Cell("key", frame, 1, 0)>>),
             pc' # "unmask", pc' = "frame" => F.n = 0
      PROVE  PartInv'
  <2>1. pc' = "frame" => Chunk(F, 0) = <<>>
    BY <1>1, <1>7, ChunkIs
  <2>2. Contents(part)' = <<>>
    BY <1>3, <1>7 DEF Contents
  <2>3. frame' = frame /\ Chunk(F, 0)' = Chunk(F, 0) /\ F' = F
    BY <1>1, ChunkStays
  <2> HIDE DEF F, Contents, Chunk
  <2> QED  BY <1>7, <2>1, <2>2, <2>3 DEF PartInv, Nil, Own
<1>8. CASE TakeSecond /\ pc' = Stage(1) /\ UNCHANGED <<key, part>>
  <2>1. /\ pc' # "unmask"
        /\ pc' = "frame" => ~Wants("payload")
        /\ pc' = "payload" => ~Wants("key")
    BY <1>8, StageIsFirst, StageIsWanted
  <2> QED  BY <1>1, <1>2, <1>7, <1>8, <2>1 DEF Wants
<1>9. CASE TakeExt /\ pc' = Stage(2) /\ UNCHANGED <<key, part>>
  <2>1. /\ pc' # "unmask"
        /\ pc' = "frame" => ~Wants("payload")
        /\ pc' = "payload" => ~Wants("key")
    BY <1>9, StageIsFirst, StageIsWanted
  <2> QED  BY <1>1, <1>2, <1>7, <1>9, <2>1 DEF Wants
<1>10. CASE TakeKey /\ Pop(1) /\ pc' = Stage(3) /\ UNCHANGED part /\ key' = Key(r)
  <2>1. /\ pc' # "unmask"
        /\ pc' = "frame" => ~Wants("payload")
    BY <1>10, StageIsFirst, StageIsWanted
  <2>2. pc = "key" /\ F.masked
    BY <1>10 DEF TakeKey, AlignInv
  <2>3. buf[r] = stream[At + 1]
    <3>1. \A i \in 1..1 : buf[r + i - 1] = stream[At + i]
      BY <1>0, <1>10, AtPops
    <3>2. r + 1 - 1 = r
      BY <1>0, AtIsInStream
    <3> QED  BY <3>1, <3>2
  <2>4. At + 1 = Off(script, frame) + (2 + Ext(F.n) + 1)
    BY <1>4, <1>5, <1>6, <2>2 DEF Fetched
  <2>5. 2 + Ext(F.n) + 1 \in 1..Len(Frame(script, frame))
    BY <1>5, <1>6, <2>2
  <2>6. Frame(script, frame)[2 + Ext(F.n) + 1] = Cell("key", frame, 1, 0)
    BY <1>0, <1>1, <2>2, FrameCells
  <2>7. buf[r] = Cell("key", frame, 1, 0)
    BY <1>6, <2>3, <2>4, <2>5, <2>6
  <2>8. key' = Own(<<Cell("key", frame, 1, 0)>>)
    BY <1>10, <2>7 DEF Key
  <2> QED  BY <1>1, <1>2, <1>7, <1>10, <2>1, <2>8 DEF Wants
<1>11. CASE TakePayload /\ Pop(F.n) /\ pc' = Stage(4) /\ UNCHANGED key /\ part' = Part(r, F.n)
  <2>0. pc = "payload" /\ F.n > 0
    BY <1>11 DEF TakePayload, MessageInv
  <2>1. /\ pc' \in {"unmask", "frame"} /\ pc' \notin Fetching /\ pc' # "payload"
        /\ pc' = "frame" => ~F.masked
        /\ pc' = "unmask" => F.masked
    <3>1. /\ pc' \in {"ext", "key", "payload", "unmask", "frame"} /\ Wants(pc')
          /\ pc' # "ext" /\ pc' # "key" /\ pc' # "payload"
          /\ pc' = "frame" => ~Wants("unmask")
      BY <1>11, StageIsFirst, StageIsWanted
    <3> QED  BY <2>0, <3>1 DEF Wants, Fetching
  <2> DEFINE x == IF F.masked THEN frame ELSE 0
             o == 2 + Ext(F.n) + Mask(F)
  <2>2. /\ \A i \in 1..F.n : buf[r + i - 1] = stream[At + i]
        /\ buf' = buf
    BY <1>0, <1>1, <1>11, AtPops
  <2>3. o \in Nat /\ At = Off(script, frame) + o
    BY <1>4, <1>5, <2>0 DEF Fetched
  <2>4. \A i \in 1..F.n : Frame(script, frame)[o + i] = Chunk(F, x)[i]
    BY <1>0, <1>1, FrameCells
  <2> HIDE DEF o, x
  <2>5. Len(Frame(script, frame)) = o + F.n
    BY <1>6 DEF o
  <2>6. ASSUME NEW i \in 1..F.n PROVE buf[r + i - 1] = Chunk(F, x)[i]
    <3> DEFINE p == Off(script, frame)
               m == Len(Frame(script, frame))
               n == F.n
               a == At
    <3>0. p \in Nat /\ m = o + n /\ n \in Nat /\ i \in 1..n /\ o \in Nat /\ a = p + o
      BY <1>1, <1>6, <2>3, <2>5
    <3> HIDE DEF p, m, n, a
    <3>a. o + i \in 1..m /\ a + i = p + (o + i)
      BY <3>0
    <3>1. o + i \in 1..Len(Frame(script, frame)) /\ At + i = Off(script, frame) + (o + i)
      BY <3>a DEF p, m, a
    <3> QED  BY <1>6, <2>2, <2>4, <3>1
  <2>7. Contents(part)' = [i \in 1..F.n |-> buf[r + i - 1]]
    <3>1. r \in Nat /\ r + F.n - r = F.n
      BY <1>0, <1>1, AtIsInStream
    <3>2. ~part'.own /\ part'.from = r /\ part'.n = F.n
      BY <1>11 DEF Part
    <3>3. buf' = buf
      BY <2>2
    <3>4. Contents(part)' = [i \in 1..(r + F.n - r) |-> buf[r + i - 1]]
      <4>1. F.n \in Nat /\ part'.from \in Nat /\ part'.n \in Nat
        BY <1>1, <3>1, <3>2
      <4> QED  BY <3>1, <3>2, <3>3, <4>1 DEF Contents, Chars
    <3> QED  BY <3>1, <3>4
  <2>8. Chunk(F, x) = [i \in 1..F.n |-> Chunk(F, x)[i]]
    BY DEF Chunk, Seqn
  <2>9. Contents(part)' = Chunk(F, x)
    BY <2>6, <2>7, <2>8
  <2>10. frame' = frame /\ F' = F /\ Chunk(F, frame)' = Chunk(F, frame) /\ Chunk(F, 0)' = Chunk(F, 0)
    BY <1>1 DEF Chunk, Seqn, PacketCell, Cell
  <2>11. pc' = "unmask" => key' = Own(<<Cell("key", frame, 1, 0)>>)
    BY <1>11, <2>0, <2>1 DEF PartInv
  <2> HIDE DEF F, Contents, Chunk
  <2> QED  BY <2>1, <2>9, <2>10, <2>11 DEF PartInv, x, Own
<1> QED  BY <1>8, <1>9, <1>10, <1>11

LEMMA PartStep ==
  ASSUME ConnInv, QuietInv, AlignInv, PartInv, [Next]_vars
  PROVE  PartInv'
<1>0. /\ StreamInv /\ ControlInv /\ MessageInv /\ BoolInv
      /\ pc \in {"unmask", "frame"} => held
  BY DEF ConnInv, ControlInv, Exits
<1>1. script' = script
  BY <1>0, StepsSee
<1>a. script.ws \/ PartInv'
  BY <1>1 DEF PartInv
<1> SUFFICES ASSUME script.ws PROVE PartInv'
  BY <1>a
<1>h. pc' \in Halted => PartInv'
  <2>1. pc' \in Halted => pc' \notin Fetching \cup {"unmask", "frame"}
    BY DEF Halted, Exits, Fetching
  <2> QED  BY <2>1, PartAway
<1>2. CASE Environment \/ Dispatcher \/ UNCHANGED vars
  BY <1>0, <1>2, OthersLeave, PartRests
<1>3. CASE \/ Unmask \/ Leave \/ SetProto \/ Operate \/ AuthReply \/ Signal \/ Upgrade
           \/ HandleFrame \/ CountFrame \/ WritePong \/ TakeMessage
  <2>1. pc' \notin Fetching /\ pc' # "unmask" /\ (pc' = "frame" => Unmask)
    BY <1>0, <1>3, OtherTurns
  <2> QED  BY <1>0, <2>1, PartAway, UnmaskClears
<1>4. CASE TakeLine
  <2>1. pc' \in {"line", "upgrade"} \cup Halted
    BY <1>0, <1>4, TakeLineAligns, OverStays DEF ConnInv
  <2>2. pc' \in {"line", "upgrade"} => pc' \notin Fetching \cup {"unmask", "frame"}
    BY DEF Fetching
  <2> QED  BY <1>h, <2>1, <2>2, PartAway
<1>5. CASE TakeSecond \/ TakeExt \/ TakeKey \/ TakePayload
  <2>1. UNCHANGED <<script, frame>>
    BY <1>0, <1>5, TakeStagesAlign
  <2>2. pc \notin {"unmask", "frame"}
    BY <1>5 DEF TakeSecond, TakeExt, TakeKey, TakePayload
  <2>3. \/ pc' \in Halted
        \/ pc' = pc /\ UNCHANGED <<key, part>>
        \/ TakeSecond /\ pc' = Stage(1) /\ UNCHANGED <<key, part>>
        \/ TakeExt /\ pc' = Stage(2) /\ UNCHANGED <<key, part>>
        \/ TakeKey /\ Pop(1) /\ pc' = Stage(3) /\ UNCHANGED part /\ key' = Key(r)
        \/ TakePayload /\ Pop(F.n) /\ pc' = Stage(4) /\ UNCHANGED key /\ part' = Part(r, F.n)
    BY <1>0, <1>5, TakeStagesAlign
  <2>4. CASE pc' = pc /\ UNCHANGED <<key, part>>
    BY <2>1, <2>2, <2>4, PartRests
  <2> QED  BY <1>0, <1>h, <2>1, <2>3, <2>4, PartAdvances
<1>6. CASE TakeFirst
  <2>1. held /\ pc = "first" /\ ended \in BOOLEAN /\ open \in BOOLEAN
    BY <1>0, <1>6 DEF TakeFirst, ControlInv, Exits, BoolInv
  <2>2. CASE Popping(1)
    <3>1. pc' = pc \/ pc' \in Halted
      <4>1. ASSUME NEW x, Fail(x) PROVE pc' \in Halted
        BY <1>0, <4>1, ExitStarts DEF Fail, Halted, Exits, ControlInv
      <4> QED  BY <1>0, <2>1, <2>2, <4>1, PoppingStays DEF control
    <3>2. pc \notin Fetching \cup {"unmask", "frame"}
      BY <2>1 DEF Fetching
    <3> QED  BY <1>h, <3>1, <3>2, PartAway
  <2>3. CASE ~Popping(1) /\ ~(pc' \in Halted)
    <3>1. pc' = "second" /\ part' = Nil
      BY <1>0, <1>6, <2>3, TakeFirstAligns
    <3> QED  BY <3>1 DEF PartInv, Nil, Own
  <2> QED  BY <1>h, <2>2, <2>3
<1>7. CASE TakeHead \/ TakeBody
  BY <1>7 DEF TakeHead, TakeBody, AlignInv
<1> QED  BY <1>2, <1>3, <1>4, <1>5, <1>6, <1>7 DEF Next, ReadLoop

-----------------------------------------------------------------------------
(* A message is put together from its frames *)

LEMMA InStepShrinks ==
  ASSUME NEW s, NEW k1 \in Int, NEW k2 \in Int, NEW f1 \in Int, NEW f2 \in Int,
         k1 <= k2, f1 <= f2, InStep(s, k2, f2)
  PROVE  InStep(s, k1, f1)
<1>1. (\A j \in 1..f1 : j \in 1..f2) /\ (\A j \in 1..k1 : j \in 1..k2)
  OBVIOUS
<1>2. CASE s.ws
  BY <1>1, <1>2 DEF InStep
<1>3. CASE ~s.ws
  BY <1>1, <1>3 DEF InStep
<1> QED  BY <1>2, <1>3

\* The first m cells of a packet.
Begun(k, m) == Seqn(m, LAMBDA i : PacketCell(k, i, 0))

LEMMA BegunIs ==
  ASSUME NEW k, NEW m \in Nat
  PROVE  /\ Begun(k, m) = [i \in 1..m |-> PacketCell(k, i, 0)]
         /\ Len(Begun(k, m)) = m /\ (m = 0 => Begun(k, m) = <<>>)
<1>1. Begun(k, m) = [i \in 1..m |-> PacketCell(k, i, 0)]
  BY DEF Begun, Seqn
<1> QED  BY <1>1

LEMMA BegunGrows ==
  ASSUME NEW k, NEW m \in Nat, NEW f, f.packet = k, k # 0, f.from = m, f.n \in Nat
  PROVE  Begun(k, m) \o Chunk(f, 0) = Begun(k, m + f.n)
<1> DEFINE S == {PacketCell(k, i, 0) : i \in Nat}
           a == Begun(k, m)
           b == Chunk(f, 0)
           c == Begun(k, m + f.n)
<1>1. /\ a = [i \in 1..m |-> PacketCell(k, i, 0)]
      /\ b = [i \in 1..f.n |-> PacketCell(k, m + i, 0)]
      /\ c = [i \in 1..m + f.n |-> PacketCell(k, i, 0)]
  BY BegunIs DEF Chunk, Seqn
<1>2. \A i \in Nat : PacketCell(k, i, 0) \in S
  OBVIOUS
<1> HIDE DEF S
<1>3. a \in Seq(S) /\ b \in Seq(S) /\ c \in Seq(S) /\ Len(a) = m /\ Len(b) = f.n /\ Len(c) = m + f.n
  <2>1. \A i \in 1..f.n : PacketCell(k, m + i, 0) \in S
    <3>1. \A i \in 1..f.n : m + i \in Nat
      OBVIOUS
    <3> QED  BY <1>2, <3>1
  <2> HIDE DEF a, b, c
  <2>2. a \in Seq(S) /\ Len(a) = m
    BY <1>1, <1>2
  <2>3. b \in Seq(S) /\ Len(b) = f.n
    <3> DEFINE n == f.n
               v == [i \in 1..n |-> PacketCell(k, m + i, 0)]
    <3>1. n \in Nat /\ \A i \in 1..n : v[i] \in S
      BY <2>1
    <3>2. v = [i \in 1..n |-> v[i]]
      OBVIOUS
    <3>3. b = v
      BY <1>1
    <3> HIDE DEF n, v
    <3>4. v \in Seq(S) /\ Len(v) = n
      BY <3>1, <3>2
    <3> QED  BY <3>3, <3>4 DEF n
  <2>4. c \in Seq(S) /\ Len(c) = m + f.n
    <3>1. m + f.n \in Nat
      OBVIOUS
    <3> QED  BY <1>1, <1>2, <3>1
  <2> QED  BY <2>2, <2>3, <2>4
<1>4. \A i \in 1..f.n : b[i] = PacketCell(k, m + i, 0)
  BY <1>1
<1>5. \A i \in 1..m : a[i] = PacketCell(k, i, 0)
  BY <1>1
<1>6. \A i \in 1..m + f.n : c[i] = PacketCell(k, i, 0)
  BY <1>1
<1> DEFINE d == a \o b
<1> HIDE DEF a, b, c
<1>7. /\ d \in Seq(S) /\ Len(d) = m + f.n
      /\ \A i \in 1..m : d[i] = a[i]
      /\ \A i \in 1..f.n : d[m + i] = b[i]
  <2>1. a \in Seq(S) /\ b \in Seq(S)
    BY <1>3
  <2>2. d \in Seq(S) /\ Len(d) = Len(a) + Len(b)
    BY <2>1, TwoParts
  <2>3. \A i \in 1..Len(a) : d[i] = a[i]
    BY <2>1, TwoParts
  <2>4. \A i \in 1..Len(b) : d[Len(a) + i] = b[i]
    BY <2>1, TwoParts
  <2> HIDE DEF d
  <2> QED  BY <1>3, <2>2, <2>3, <2>4
<1> HIDE DEF d
<1>8. ASSUME NEW i \in 1..m + f.n PROVE d[i] = c[i]
  <2>1. CASE i \in 1..m
    BY <1>5, <1>6, <1>7, <2>1
  <2>2. CASE i \notin 1..m
    <3>1. i - m \in 1..f.n /\ m + (i - m) = i
      BY <2>2
    <3> QED  BY <1>4, <1>6, <1>7, <3>1
  <2> QED  BY <2>1, <2>2
<1>9. d = [i \in 1..m + f.n |-> d[i]]
  BY <1>7
<1>10. c = [i \in 1..m + f.n |-> c[i]]
  BY <1>3
<1>11. d = c
  BY <1>8, <1>9, <1>10
<1> QED  BY <1>11 DEF a, b, c, d

LEMMA BegunIsPacket ==
  ASSUME NEW s \in Scripts, NEW k \in 1..Len(s.packets)
  PROVE  Begun(k, H + s.packets[k].body) = Packet(s, k)
  BY DEF Begun, Packet

\* Of the frames up to f, packets up to g are whole, and msg is the rest of them.
Gathered(f, g) ==
    \/ Before(script, f + 1) = {} /\ g = 0 /\ msg = <<>>
    \/ \E i \in Before(script, f + 1) :
        /\ \A h \in Before(script, f + 1) : h <= i
        /\ IF script.frames[i].fin
           THEN g = script.frames[i].packet /\ msg = <<>>
           ELSE /\ g = script.frames[i].packet - 1
                /\ msg = Begun(script.frames[i].packet, script.frames[i].from + script.frames[i].n)

Between == {"line", "upgrade", "set", "first", "count", "pong", "pongbody", "operate", "reply",
            "signal"}
Inside == Fetching \cup {"unmask", "frame"}

JoinInv ==
    script.ws /\ InStep(script, got, frame) =>
        /\ pc \in Between => Gathered(frame, got)
        /\ pc \in Inside => Gathered(frame - 1, got)
        /\ pc = "message" => /\ Gathered(frame, got + 1)
                             /\ got + 1 \in 1..Len(script.packets)
                             /\ Contents(part) = Packet(script, got + 1)

LEMMA JoinGoes ==
  ASSUME JoinInv, UNCHANGED <<script, frame, msg, got>>,
         \/ pc \in Between /\ pc' \in Between
         \/ pc \in Inside /\ pc' \in Inside
         \/ pc' \in Halted
  PROVE  JoinInv'
<1>1. InStep(script, got, frame)' = InStep(script, got, frame)
  BY DEF InStep, Carries, Before, Begins, GoesOn, Announces
<1>2. Gathered(frame, got)' = Gathered(frame, got) /\ Gathered(frame - 1, got)' = Gathered(frame - 1, got)
  BY DEF Gathered, Before, Carries
<1>3. pc' # "message" /\ ~(pc' \in Halted /\ pc' \in Between) /\ ~(pc' \in Halted /\ pc' \in Inside)
      /\ ~(pc' \in Inside /\ pc' \in Between)
  BY DEF Halted, Exits, Between, Inside, Fetching
<1> HIDE DEF InStep, Gathered
<1> QED  BY <1>1, <1>2, <1>3 DEF JoinInv

LEMMA JoinRests ==
  ASSUME JoinInv, UNCHANGED <<script, frame, msg, got, part, pc>>, pc = "message" => buf' = buf
  PROVE  JoinInv'
<1>1. InStep(script, got, frame)' = InStep(script, got, frame)
  BY DEF InStep, Carries, Before, Begins, GoesOn, Announces
<1>2. /\ Gathered(frame, got)' = Gathered(frame, got)
      /\ Gathered(frame - 1, got)' = Gathered(frame - 1, got)
      /\ Gathered(frame, got + 1)' = Gathered(frame, got + 1)
  BY DEF Gathered, Before, Carries
<1>3. pc = "message" => Contents(part)' = Contents(part)
  BY DEF Contents, Chars
<1>4. Packet(script, got + 1)' = Packet(script, got + 1)
  BY DEF Packet, Seqn, PacketCell, Cell
<1> HIDE DEF InStep, Gathered, Contents, Packet
<1> QED  BY <1>1, <1>2, <1>3, <1>4 DEF JoinInv

\* Where the next frame goes on.
LEMMA FrameGoesOn ==
  ASSUME NEW s \in Scripts, s = script, s.ws, NEW j \in 1..Len(s.frames), NEW k, InStep(s, k, j),
         Carries(s, j), got \in Nat, Gathered(j - 1, got)
  PROVE  /\ s.frames[j].packet = got + 1 /\ got + 1 \in 1..Len(s.packets)
         /\ msg = Begun(got + 1, s.frames[j].from)
         /\ s.frames[j].fin => s.frames[j].from + s.frames[j].n = H + s.packets[got + 1].body
<1> DEFINE f == s.frames[j]
           B == Before(s, j)
<1>0. f.packet \in Nat /\ (f.packet # 0 => f.packet \in 1..Len(s.packets)) /\ f.from \in Nat
  BY FrameFacts
<1>1. /\ \/ B = {} /\ Begins(s, j)
         \/ \E i \in B : (\A h \in B : h <= i) /\ GoesOn(s, i, j)
      /\ f.fin => f.from + f.n = H + s.packets[f.packet].body
  <2>1. j \in 1..j
    OBVIOUS
  <2> QED  BY <2>1 DEF InStep
<1>2. \/ B = {} /\ got = 0 /\ msg = <<>>
      \/ \E i \in B :
          /\ \A h \in B : h <= i
          /\ IF s.frames[i].fin
             THEN got = s.frames[i].packet /\ msg = <<>>
             ELSE /\ got = s.frames[i].packet - 1
                  /\ msg = Begun(s.frames[i].packet, s.frames[i].from + s.frames[i].n)
  <2>1. (j - 1) + 1 = j
    OBVIOUS
  <2> QED  BY <2>1 DEF Gathered
<1> HIDE DEF B
<1>3. f.packet = got + 1 /\ msg = Begun(got + 1, f.from)
  <2>1. CASE B = {}
    <3>1. f.packet = 1 /\ f.from = 0 /\ got = 0 /\ msg = <<>>
      BY <1>1, <1>2, <2>1 DEF Begins
    <3>2. Begun(got + 1, 0) = <<>>
      BY BegunIs
    <3> QED  BY <3>1, <3>2
  <2>2. CASE B # {}
    <3>1. PICK i \in B : (\A h \in B : h <= i) /\ GoesOn(s, i, j)
      BY <1>1, <2>2
    <3>2. PICK m \in B :
              /\ \A h \in B : h <= m
              /\ IF s.frames[m].fin
                 THEN got = s.frames[m].packet /\ msg = <<>>
                 ELSE /\ got = s.frames[m].packet - 1
                      /\ msg = Begun(s.frames[m].packet, s.frames[m].from + s.frames[m].n)
      BY <1>2, <2>2
    <3>3. i \in 1..j-1 /\ m \in 1..j-1
      BY DEF B, Before
    <3>4. i = m
      BY <3>1, <3>2, <3>3
    <3>5. i \in 1..Len(s.frames)
      BY <3>3, ScriptFacts
    <3>6. s.frames[i].packet \in Nat
      BY <3>5, FrameFacts
    <3>7. CASE s.frames[i].fin
      <4>1. f.packet = got + 1 /\ f.from = 0 /\ msg = <<>>
        BY <3>1, <3>2, <3>4, <3>7 DEF GoesOn
      <4>2. Begun(got + 1, 0) = <<>>
        BY BegunIs
      <4> QED  BY <4>1, <4>2
    <3>8. CASE ~s.frames[i].fin
      BY <3>1, <3>2, <3>4, <3>6, <3>8 DEF GoesOn
    <3> QED  BY <3>7, <3>8
  <2> QED  BY <2>1, <2>2
<1> QED  BY <1>0, <1>1, <1>3

LEMMA LastBefore ==
  ASSUME NEW s, NEW j \in Nat \ {0}
  PROVE  /\ Carries(s, j) => j \in Before(s, j + 1) /\ \A h \in Before(s, j + 1) : h <= j
         /\ ~Carries(s, j) => Before(s, j + 1) = Before(s, (j - 1) + 1)
<1>1. (j + 1) - 1 = j /\ (j - 1) + 1 = j
  OBVIOUS
<1>2. 1..j = (1..j-1) \cup {j}
  OBVIOUS
<1> QED  BY <1>1, <1>2 DEF Before

LEMMA InStepStays ==
  ASSUME UNCHANGED <<script, got, frame>>
  PROVE  InStep(script, got, frame)' = InStep(script, got, frame)
<1>1. /\ script' = script => (script.frames)' = script.frames /\ (script.packets)' = script.packets
      /\ script' = script => (script.ws)' = script.ws
  OBVIOUS
<1> QED  BY <1>1 DEF InStep, Carries, Before, Begins, GoesOn, Announces

\* A data frame ends its packet, or leaves the rest to the next one.
LEMMA FrameJoins ==
  ASSUME StreamInv, ControlInv, MessageInv, AlignInv, PartInv, JoinInv, got \in Nat, HandleFrame
  PROVE  JoinInv'
<1>0. /\ script.ws /\ pc = "frame" /\ UNCHANGED <<script, frame, got, buf>>
      /\ script \in Scripts /\ frame \in 1..Len(script.frames)
      /\ F = script.frames[frame] /\ F.n \in Nat /\ F.from \in Nat /\ F.fin \in BOOLEAN
      /\ Contents(part) = Chunk(F, 0)
  <2>1. script.ws /\ pc = "frame" /\ UNCHANGED <<script, frame, got, buf>>
    BY DEF HandleFrame, ControlInv, Framing, Elsewhere, client, readerVars
  <2>2. script \in Scripts /\ frame \in 1..Len(script.frames)
    BY <2>1 DEF StreamInv, MessageInv, Framing
  <2> QED  BY <2>1, <2>2, FrameFacts DEF F, PartInv
<1>h. ASSUME NEW x, Fail(x) PROVE pc' \in Halted
  BY <1>h, ExitStarts DEF Fail, Halted, Exits, ControlInv
<1>1. InStep(script, got, frame)' = InStep(script, got, frame)
  BY <1>0, InStepStays
<1> SUFFICES ASSUME InStep(script, got, frame), ~(pc' \in Halted)
             PROVE  /\ pc' \in Between => Gathered(frame, got)'
                    /\ pc' \notin Inside
                    /\ pc' = "message" => /\ Gathered(frame, got + 1)'
                                          /\ got + 1 \in 1..Len(script.packets)
                                          /\ Contents(part)' = Packet(script, got + 1)
  <2>1. pc' \in Halted => pc' \notin Between /\ pc' \notin Inside /\ pc' # "message"
    BY DEF Halted, Exits, Between, Inside, Fetching
  <2>2. Packet(script, got + 1)' = Packet(script, got + 1)
    BY <1>0 DEF Packet, Seqn, PacketCell, Cell
  <2> HIDE DEF Packet, Contents, Gathered, InStep
  <2> QED  BY <1>0, <1>1, <2>1, <2>2 DEF JoinInv
<1>2. Gathered(frame - 1, got)
  BY <1>0 DEF JoinInv, Inside
<1>3. frame \in Nat \ {0}
  BY <1>0, ScriptFacts
<1>4. CASE F.op \in {"data", "cont"}
  <2> DEFINE k == got + 1
  <2>1. Carries(script, frame)
    BY <1>0, <1>4 DEF Carries
  <2>2. /\ F.packet = k /\ k \in 1..Len(script.packets) /\ msg = Begun(k, F.from)
        /\ F.fin => F.from + F.n = H + script.packets[k].body
    BY <1>0, <1>2, <2>1, FrameGoesOn
  <2>3. k # 0 /\ k - 1 = got
    OBVIOUS
  <2> HIDE DEF k
  <2>4. Payload = Begun(k, F.from + F.n)
    <3>1. Begun(k, F.from) \o Chunk(F, 0) = Begun(k, F.from + F.n)
      <4>1. F.packet = k /\ F.from \in Nat /\ F.n \in Nat
        BY <1>0, <2>2
      <4> QED  BY <2>3, <4>1, BegunGrows
    <3> QED  BY <1>0, <2>2, <3>1 DEF Payload
  <2>5. frame \in Before(script, frame + 1) /\ \A h \in Before(script, frame + 1) : h <= frame
    BY <1>3, <2>1, LastBefore
  <2>6. CASE F.fin
    <3>1. /\ part' = IF msg = <<>> THEN part ELSE Own(Payload)
          /\ msg' = <<>> /\ pc' = "message"
      BY <1>4, <2>6 DEF HandleFrame, Goto
    <3>2. Payload = Packet(script, k)
      BY <1>0, <2>2, <2>4, <2>6, BegunIsPacket
    <3>3. Contents(part)' = Packet(script, k)
      <4>1. CASE msg = <<>>
        <5>1. Len(Begun(k, F.from)) = F.from /\ Len(<<>>) = 0
          BY <1>0, BegunIs
        <5>2. F.from = 0
          BY <2>2, <4>1, <5>1
        <5>3. Contents(part) = Begun(k, F.from + F.n)
          <6>1. Begun(k, F.n) = [i \in 1..F.n |-> PacketCell(k, i, 0)]
            BY <1>0, BegunIs
          <6>2. Chunk(F, 0) = [i \in 1..F.n |-> PacketCell(k, 0 + i, 0)]
            BY <2>2, <2>3, <5>2 DEF Chunk, Seqn
          <6>3. Chunk(F, 0) = Begun(k, F.n)
            BY <1>0, <6>1, <6>2
          <6>4. F.from + F.n = F.n
            BY <1>0, <5>2
          <6> QED  BY <1>0, <6>3, <6>4
        <5>4. Contents(part)' = Contents(part)
          BY <1>0, <3>1, <4>1 DEF Contents, Chars
        <5> QED  BY <2>4, <3>2, <5>3, <5>4
      <4>2. CASE msg # <<>>
        <5>1. part' = Own(Payload)
          BY <3>1, <4>2
        <5>2. Contents(part)' = Payload
          BY <5>1 DEF Contents, Own
        <5> QED  BY <3>2, <5>2
      <4> QED  BY <4>1, <4>2
    <3>4. Gathered(frame, got + 1)'
      <4>1. script'.frames[frame].fin /\ script'.frames[frame].packet = k
        BY <1>0, <2>2, <2>6
      <4>2. Before(script, frame + 1)' = Before(script, frame + 1)
        BY <1>0 DEF Before, Carries
      <4> HIDE DEF Before
      <4> QED  BY <1>0, <2>5, <3>1, <4>1, <4>2 DEF Gathered, k
    <3> QED  BY <2>2, <3>1, <3>3, <3>4 DEF Between, Inside, Fetching, k
  <2>7. CASE ~F.fin
    <3>1. msg' = Payload /\ pc' = "count"
      BY <1>4, <2>7 DEF HandleFrame, Goto
    <3>2. Gathered(frame, got)'
      <4>1. /\ ~script'.frames[frame].fin /\ script'.frames[frame].packet = k
            /\ script'.frames[frame].from = F.from /\ script'.frames[frame].n = F.n
        BY <1>0, <2>2, <2>7
      <4>2. Before(script, frame + 1)' = Before(script, frame + 1)
        BY <1>0 DEF Before, Carries
      <4>3. msg' = Begun(script'.frames[frame].packet, script'.frames[frame].from + script'.frames[frame].n)
        BY <2>4, <3>1, <4>1
      <4>4. got' = script'.frames[frame].packet - 1 /\ frame' = frame
        BY <1>0, <2>3, <4>1
      <4> HIDE DEF Before
      <4> QED  BY <2>5, <4>1, <4>2, <4>3, <4>4 DEF Gathered
    <3> QED  BY <3>1, <3>2 DEF Inside, Fetching
  <2> QED  BY <2>6, <2>7
<1>5. CASE F.op \notin {"data", "cont"}
  <2>1. pc' \in {"pong", "count"} /\ msg' = msg
    BY <1>h, <1>5 DEF HandleFrame, Goto
  <2>2. ~Carries(script, frame)
    BY <1>0, <1>5 DEF Carries
  <2>3. Before(script, frame + 1) = Before(script, (frame - 1) + 1)
    BY <1>3, <2>2, LastBefore
  <2>4. Gathered(frame, got)
    BY <1>2, <2>3 DEF Gathered
  <2>5. Gathered(frame, got)'
    BY <1>0, <2>1, <2>4 DEF Gathered, Before, Carries
  <2> QED  BY <2>1, <2>5 DEF Inside, Fetching
<1> QED  BY <1>4, <1>5

-----------------------------------------------------------------------------
(* The packet that is taken *)

\* The next packet, and over TCP where it begins.
TakenInv ==
    InStep(script, got, frame) /\ pc \in {"operate", "reply"} =>
        /\ got \in 1..Len(script.packets)
        /\ proto.k = got /\ proto.op = script.packets[got].op
        /\ pc = "operate" /\ Announces(script, got) => Contents(proto.body) = Body(script, got)

TcpInv ==
    ~script.ws /\ InStep(script, got, frame) =>
        /\ pc \in {"set", "head", "signal", "reply", "operate"} =>
               At = Off(script, got) /\ got <= Len(script.packets)
        /\ pc = "body" => /\ At = Off(script, got - 1) + H
                          /\ got \in 1..Len(script.packets)
                          /\ proto.k = got /\ proto.op = script.packets[got].op

WholeInv ==
    /\ got \in Nat /\ frame \in Nat
    /\ QuietInv /\ AlignInv /\ PartInv /\ JoinInv /\ TcpInv /\ TakenInv

LEMMA TakenRests ==
  ASSUME TakenInv, UNCHANGED <<script, got, frame, proto>>,
         \/ pc' = pc /\ (pc = "operate" => buf' = buf)
         \/ pc = "operate" /\ pc' = "reply"
         \/ pc' \notin {"operate", "reply"}
  PROVE  TakenInv'
<1>1. InStep(script, got, frame)' = InStep(script, got, frame)
  BY InStepStays
<1>2. buf' = buf => Contents(proto.body)' = Contents(proto.body)
  BY DEF Contents, Chars
<1>3. Body(script, got)' = Body(script, got) /\ Announces(script, got)' = Announces(script, got)
  BY DEF Body, Seqn, Cell, Announces
<1> HIDE DEF InStep, Contents, Body, Announces
<1> QED  BY <1>1, <1>2, <1>3 DEF TakenInv

LEMMA TcpRests ==
  ASSUME TcpInv, UNCHANGED <<script, got, frame, proto>>, At' = At,
         \/ pc' = pc
         \/ pc \in {"set", "operate", "reply", "signal"} /\ pc' \in {"set", "head", "reply", "signal"}
         \/ pc' \in Halted
  PROVE  TcpInv'
<1>1. InStep(script, got, frame)' = InStep(script, got, frame)
  BY InStepStays
<1>2. Off(script, got)' = Off(script, got) /\ Off(script, got - 1)' = Off(script, got - 1)
  BY DEF Off
<1>3. pc' \in Halted => pc' \notin {"set", "head", "signal", "reply", "operate", "body"}
  BY DEF Halted, Exits
<1> HIDE DEF InStep, Off, At
<1> QED  BY <1>1, <1>2, <1>3 DEF TcpInv

LEMMA HeaderIsWhole ==
  ASSUME script \in Scripts, NEW k \in 1..Len(script.packets), NEW cells,
         cells = First(Packet(script, k), H)
  PROVE  Header(cells) = [k |-> k, op |-> script.packets[k].op, pack |-> script.packets[k].pack,
                          head |-> script.packets[k].head]
<1>1. /\ Packet(script, k) \in Seq(SaneCells(script)) /\ Len(Packet(script, k)) >= H
      /\ Packet(script, k)[1] = PacketCell(k, 1, 0)
  <2>1. /\ Packet(script, k) \in Seq(SaneCells(script)) /\ script.packets[k].body \in Nat
        /\ Len(Packet(script, k)) = H + script.packets[k].body
    BY PacketIsSane
  <2>2. \A i \in 1..H + script.packets[k].body : Packet(script, k)[i] = PacketCell(k, i, 0)
    BY PacketIsSane
  <2>3. 1 \in 1..H + script.packets[k].body
    BY <2>1, HeaderSize
  <2> QED  BY <2>1, <2>2, <2>3, HeaderSize
<1>2. cells[1] = Packet(script, k)[1]
  BY <1>1, HeaderSize DEF First
<1>3. cells[1] = Cell("head", k, 1, 0)
  BY <1>1, <1>2, HeaderSize DEF PacketCell
<1>4. cells[1].t = "head" /\ cells[1].k = k
  BY <1>3 DEF Cell
<1> QED  BY <1>4 DEF Header

LEMMA BodyIs ==
  ASSUME NEW s \in Scripts, NEW k \in 1..Len(s.packets), NEW n, n = s.packets[k].body
  PROVE  /\ n \in Nat /\ Body(s, k) = [i \in 1..n |-> Packet(s, k)[H + i]]
         /\ n = 0 => Body(s, k) = <<>>
<1>1. n \in Nat /\ \A i \in 1..H + n : Packet(s, k)[i] = PacketCell(k, i, 0)
  BY PacketIsSane
<1>2. ASSUME NEW i \in 1..n PROVE Packet(s, k)[H + i] = Cell("body", k, i, 0)
  <2>1. H + i \in 1..H + n /\ ~(H + i <= H) /\ (H + i) - H = i
    BY <1>1, HeaderSize
  <2> QED  BY <1>1, <2>1 DEF PacketCell
<1>3. Body(s, k) = [i \in 1..n |-> Cell("body", k, i, 0)]
  BY DEF Body, Seqn
<1> QED  BY <1>1, <1>2, <1>3

LEMMA FromIsBody ==
  ASSUME ReaderTypeOK, script \in Scripts, NEW k \in 1..Len(script.packets), NEW b, BodyOK(b),
         Contents(b) = Packet(script, k), NEW n, n = script.packets[k].body, n > 0
  PROVE  Contents(From(b, H, n)) = Body(script, k)
<1>1. n \in Nat /\ Body(script, k) = [i \in 1..n |-> Packet(script, k)[H + i]] /\ H \in Nat
  BY BodyIs, HeaderSize
<1>2. b.n = H + n /\ b.from \in Int
  <2>1. Len(Contents(b)) = b.n
    BY ContentsTyped
  <2>2. Len(Packet(script, k)) = H + n
    BY PacketIsSane
  <2> QED  BY <2>1, <2>2 DEF BodyOK, Bodies
<1>3. CASE b.own
  <2>1. b.cells = Packet(script, k)
    BY <1>3 DEF Contents
  <2>2. \A i \in 1..n : H + i <= b.n
    BY <1>1, <1>2
  <2>3. Contents(From(b, H, n)) = [i \in 1..n |-> IF H + i <= b.n THEN b.cells[H + i] ELSE Junk]
    BY <1>3 DEF Contents, From, Own
  <2> QED  BY <1>1, <2>1, <2>2, <2>3
<1>4. CASE ~b.own
  <2>1. Packet(script, k) = [i \in 1..H + n |-> buf[b.from + i - 1]]
    <3>1. Contents(b) = [i \in 1..b.from + b.n - b.from |-> buf[b.from + i - 1]]
      BY <1>1, <1>2, <1>4 DEF Contents, Chars
    <3>2. b.from + b.n - b.from = H + n
      BY <1>1, <1>2
    <3> QED  BY <3>1, <3>2
  <2>2. ASSUME NEW i \in 1..n PROVE Packet(script, k)[H + i] = buf[b.from + H + i - 1]
    <3>1. H + i \in 1..H + n /\ b.from + (H + i) - 1 = b.from + H + i - 1
      BY <1>1, <1>2
    <3> QED  BY <2>1, <3>1
  <2>3. Contents(From(b, H, n)) = [i \in 1..n |-> buf[b.from + H + i - 1]]
    <3>1. From(b, H, n) = Part(b.from + H, n)
      BY <1>4 DEF From
    <3>2. b.from + H + n - (b.from + H) = n /\ b.from + H \in Int
      BY <1>1, <1>2
    <3>3. ~Part(b.from + H, n).own /\ Part(b.from + H, n).from = b.from + H /\ Part(b.from + H, n).n = n
      BY DEF Part
    <3> QED  BY <1>1, <3>1, <3>2, <3>3 DEF Contents, Chars
  <2> QED  BY <1>1, <2>2, <2>3
<1> QED  BY <1>3, <1>4

\* A message holds the next packet, and that is what is taken of it.
LEMMA MessageIsTaken ==
  ASSUME StreamInv, ControlInv, MessageInv, frame \in Nat, got \in Nat, JoinInv, TakeMessage
  PROVE  JoinInv' /\ TakenInv'
<1>0. /\ script.ws /\ pc = "message" /\ UNCHANGED <<script, frame, msg, buf>> /\ got' = got + 1
      /\ script \in Scripts /\ ReaderTypeOK /\ BodyOK(part)
  BY DEF TakeMessage, ControlInv, Elsewhere, client, message, readerVars, StreamInv, WindowInv,
         MessageInv
<1>1. pc' \in {"operate"} \cup Halted /\ pc' \notin Inside /\ pc' # "message" /\ pc' # "reply"
      /\ (pc' \in Between => pc' = "operate")
  <2>1. ASSUME NEW x, Fail(x) PROVE pc' \in Halted
    BY <2>1, ExitStarts DEF Fail, Halted, Exits, ControlInv
  <2>2. Panic => pc' \in Halted
    BY DEF Panic, Halted
  <2>3. Goto("operate") \/ Panic \/ \E x : Fail(x)
    BY DEF TakeMessage
  <2> QED  BY <2>1, <2>2, <2>3 DEF Goto, Inside, Fetching, Halted, Exits, Between
<1>2. InStep(script, got, frame)' = InStep(script, got + 1, frame)
  BY <1>0 DEF InStep, Carries, Before, Begins, GoesOn, Announces
<1> SUFFICES ASSUME InStep(script, got + 1, frame), pc' = "operate"
             PROVE  /\ Gathered(frame, got)'
                    /\ got + 1 \in 1..Len(script.packets)
                    /\ proto'.k = got + 1 /\ proto'.op = script.packets[got + 1].op
                    /\ Announces(script, got + 1)
                         => Contents(proto.body)' = Body(script, got + 1)
  <2>1. Announces(script, got)' = Announces(script, got + 1) /\ Body(script, got)' = Body(script, got + 1)
    BY <1>0 DEF Announces, Body, Seqn, Cell
  <2> HIDE DEF InStep, Gathered, Contents, Announces, Body
  <2> QED  BY <1>0, <1>1, <1>2, <2>1 DEF JoinInv, TakenInv
<1>3. InStep(script, got, frame)
  BY InStepShrinks
<1> DEFINE k == got + 1
           n == script.packets[k].body
<1>4. /\ Gathered(frame, k) /\ k \in 1..Len(script.packets) /\ Contents(part) = Packet(script, k)
  BY <1>0, <1>3 DEF JoinInv
<1>5. Gathered(frame, got)'
  BY <1>0, <1>4 DEF Gathered, Before, Carries
<1> HIDE DEF k
<1> DEFINE h == Header(First(Contents(part), H))
<1>6. /\ h.k = k /\ h.op = script.packets[k].op /\ h.pack = script.packets[k].pack
  <2>1. h = [k |-> k, op |-> script.packets[k].op, pack |-> script.packets[k].pack,
             head |-> script.packets[k].head]
    BY <1>0, <1>4, HeaderIsWhole
  <2> QED  BY <2>1
<1>7. proto' = [k |-> h.k, op |-> h.op, body |-> IF h.pack > H THEN From(part, H, h.pack - H) ELSE Nil]
  <2>1. ~(part.n < H)
    <3>1. pc' = "operate" => ~Fail("pack")
      BY ExitStarts DEF Fail, ControlInv
    <3> QED  BY <3>1 DEF TakeMessage
  <2> QED  BY <2>1 DEF TakeMessage
<1> HIDE DEF h
<1>8. n \in Nat /\ (n = 0 => Body(script, k) = <<>>) /\ H \in Nat
  BY <1>0, <1>4, BodyIs, HeaderSize
<1>9. ASSUME Announces(script, k) PROVE Contents(proto.body)' = Body(script, k)
  <2>1. h.pack = H + n
    BY <1>6, <1>9 DEF Announces
  <2>2. CASE n = 0
    <3>1. proto'.body = Nil
      BY <1>7, <1>8, <2>1, <2>2
    <3>2. Contents(proto.body)' = <<>>
      BY <3>1, NilIsBody DEF Contents
    <3> QED  BY <1>8, <2>2, <3>2
  <2>3. CASE n > 0
    <3> DEFINE b == From(part, H, n)
    <3>1. proto'.body = b
      <4>1. h.pack > H /\ h.pack - H = n
        BY <1>8, <2>1, <2>3
      <4> QED  BY <1>7, <4>1
    <3>2. Contents(b) = Body(script, k)
      BY <1>0, <1>4, <1>8, <2>3, FromIsBody
    <3>3. b.from \in Int /\ b.n \in Int
      <4>1. part.from \in Int
        BY <1>0 DEF BodyOK, Bodies
      <4>2. CASE part.own
        <5> DEFINE v == [i \in 1..n |-> IF H + i <= part.n THEN part.cells[H + i] ELSE Junk]
        <5>1. b = Own(v)
          BY <4>2 DEF From
        <5>2. Len(v) = n
          BY <1>8
        <5> HIDE DEF v
        <5> QED  BY <1>8, <5>1, <5>2 DEF Own
      <4>3. CASE ~part.own
        BY <1>8, <4>1, <4>3 DEF From, Part
      <4> QED  BY <4>2, <4>3
    <3> HIDE DEF b
    <3>4. Contents(proto.body)' = Contents(b)
      BY <1>0, <3>1, <3>3 DEF Contents, Chars
    <3> QED  BY <3>2, <3>4
  <2> QED  BY <1>8, <2>2, <2>3
<1> QED  BY <1>4, <1>5, <1>6, <1>7, <1>9 DEF k

\* A packet takes room in the stream of a TCP connection.
LEMMA PacketRoom ==
  ASSUME NEW s \in Scripts, ~s.ws
  PROVE  /\ Len(s.packets) \in Nat /\ Off(s, 0) = 0
         /\ \A k \in 0..Len(s.packets) : Off(s, k) \in Nat
         /\ \A k \in 1..Len(s.packets) : /\ Off(s, k) = Off(s, k - 1) + (H + s.packets[k].body)
                                         /\ s.packets[k].body \in Nat
         /\ Off(s, Len(s.packets)) = Len(StreamOf(s))
<1>1. /\ Len(Items(s)) = Len(s.packets)
      /\ \A k \in 1..Len(s.packets) : Items(s)[k] = Packet(s, k)
      /\ Len(s.packets) \in Nat
  BY ItemsAre, ScriptFacts
<1>2. ASSUME NEW k \in 1..Len(s.packets)
      PROVE  Off(s, k) = Off(s, k - 1) + (H + s.packets[k].body) /\ s.packets[k].body \in Nat
  <2>1. Off(s, k) = Off(s, k - 1) + Len(Items(s)[k])
    BY <1>1, OffSteps
  <2>2. Items(s)[k] = Packet(s, k)
    BY <1>1
  <2>3. Len(Packet(s, k)) = H + s.packets[k].body /\ s.packets[k].body \in Nat
    BY PacketIsSane
  <2> QED  BY <2>1, <2>2, <2>3
<1>3. Off(s, 0) = 0 /\ Off(s, Len(s.packets)) = Len(StreamOf(s))
  BY <1>1, OffSteps
<1>4. \A k \in 0..Len(s.packets) : Off(s, k) \in Nat
  BY <1>1, OffSteps
<1> QED  BY <1>1, <1>2, <1>3, <1>4

LEMMA PacketIsThere ==
  ASSUME NEW s \in Scripts, ~s.ws, NEW k \in 1..Len(s.packets), NEW i \in 1..H + s.packets[k].body
  PROVE  StreamOf(s)[Off(s, k - 1) + i] = Packet(s, k)[i]
<1>1. k \in 1..Len(Items(s)) /\ Items(s)[k] = Packet(s, k)
  BY ItemsAre
<1>2. i \in 1..Len(Items(s)[k])
  <2>1. Len(Packet(s, k)) = H + s.packets[k].body
    BY PacketIsSane
  <2> QED  BY <1>1, <2>1
<1>3. StreamOf(s)[Off(s, k - 1) + i] = Items(s)[k][i]
  BY <1>1, <1>2, OffCells
<1> QED  BY <1>1, <1>3

\* Where the reader of a TCP connection looks for a header, there is one.
LEMMA HeadIsThere ==
  ASSUME StreamInv, held, pc = "head", got \in Nat, TcpInv, ~script.ws,
         InStep(script, got, frame), Pop(H)
  PROVE  /\ got + 1 \in 1..Len(script.packets) /\ At = Off(script, got) /\ At' = At + H
         /\ Chars(r, r + H) = First(Packet(script, got + 1), H)
<1>0. script \in Scripts /\ WindowInv /\ stream = StreamOf(script)
  BY DEF StreamInv
<1>a. H \in Nat \ {0}
  BY HeaderSize
<1> DEFINE k == got + 1
           n == script.packets[k].body
<1>3. At = Off(script, got) /\ got <= Len(script.packets)
  BY <1>0 DEF TcpInv
<1>4. /\ At' = At + H /\ At + H <= Len(stream)
      /\ \A i \in 1..H : buf[r + i - 1] = stream[At + i]
  BY <1>0, <1>a, AtPops
<1>5. Len(script.packets) \in Nat /\ Off(script, Len(script.packets)) = Len(stream)
  BY <1>0, PacketRoom
<1>6. got # Len(script.packets)
  BY <1>0, <1>a, <1>3, <1>4, <1>5, AtIsInStream
<1>7. k \in 1..Len(script.packets) /\ k - 1 = got
  BY <1>3, <1>5, <1>6
<1>8. n \in Nat
  BY <1>0, <1>7, PacketRoom
<1> HIDE DEF k
<1>9. Chars(r, r + H) = First(Packet(script, k), H)
  <2>1. ASSUME NEW i \in 1..H PROVE buf[r + i - 1] = Packet(script, k)[i]
    <3>1. i \in 1..H + n
      BY <1>a, <1>8
    <3>2. StreamOf(script)[Off(script, k - 1) + i] = Packet(script, k)[i]
      BY <1>0, <1>7, <3>1, PacketIsThere
    <3> QED  BY <1>0, <1>3, <1>4, <1>7, <3>2
  <2>2. Chars(r, r + H) = [i \in 1..H |-> buf[r + i - 1]]
    <3>1. r \in Nat /\ r + H - r = H
      BY <1>0, <1>a, AtIsInStream
    <3> QED  BY <1>a, <3>1 DEF Chars
  <2>3. First(Packet(script, k), H) = [i \in 1..H |-> Packet(script, k)[i]]
    <3>1. Packet(script, k) \in Seq(SaneCells(script)) /\ Len(Packet(script, k)) = H + n
      BY <1>0, <1>7, PacketIsSane
    <3> QED  BY <1>a, <1>8, <3>1 DEF First
  <2> QED  BY <2>1, <2>2, <2>3
<1> QED  BY <1>3, <1>4, <1>7, <1>9 DEF k

LEMMA HeadIsTaken ==
  ASSUME StreamInv, ControlInv, BoolInv, MessageInv, got \in Nat, TcpInv, frame \in Int, TakeHead,
         ~script.ws
  PROVE  TcpInv' /\ TakenInv' /\ got' \in Nat
<1>0. /\ held /\ pc = "head" /\ script \in Scripts /\ WindowInv /\ stream = StreamOf(script)
      /\ ended \in BOOLEAN /\ open \in BOOLEAN
  BY DEF ControlInv, StreamInv, BoolInv, TakeHead, Exits
<1>a. H \in Nat \ {0}
  BY HeaderSize
<1>h. ASSUME NEW x, Fail(x) PROVE pc' \in Halted
  BY <1>h, ExitStarts DEF Fail, Halted, Exits, ControlInv
<1>n. pc' \in Halted => pc' \notin {"set", "head", "signal", "reply", "operate", "body"}
  BY DEF Halted, Exits
<1>1. CASE Popping(H)
  <2>1. /\ At' = At /\ UNCHANGED <<script, frame, got, proto>> /\ (pc' = pc \/ pc' \in Halted)
    BY <1>0, <1>a, <1>h, <1>1, PoppingStays DEF client, reading, message, control
  <2>2. TcpInv'
    BY <2>1, TcpRests
  <2>3. pc' \notin {"operate", "reply"}
    BY <1>0, <1>n, <2>1
  <2> QED  BY <2>1, <2>2, <2>3 DEF TakenInv
<1>2. CASE ~Popping(H)
  <2> DEFINE k == got + 1
             n == script.packets[k].body
             h == Header(Chars(r, r + H))
  <2>1. /\ Pop(H) /\ UNCHANGED <<script, frame>> /\ got' = k
        /\ proto' = [k |-> h.k, op |-> h.op, body |-> Nil]
        /\ pc' \in Halted \/ pc' = IF h.pack > H THEN "body" ELSE "operate"
    <3>1. /\ Pop(H) /\ got' = got + 1 /\ UNCHANGED <<script, frame>>
          /\ proto' = [k |-> h.k, op |-> h.op, body |-> Nil]
      BY <1>2 DEF TakeHead, Elsewhere, client, message
    <3>2. Fail("pack") \/ Fail("head") \/ Goto(IF h.pack > H THEN "body" ELSE "operate")
      BY <1>2 DEF TakeHead
    <3> HIDE DEF h
    <3>3. pc' \in Halted \/ pc' = IF h.pack > H THEN "body" ELSE "operate"
      BY <1>h, <3>2 DEF Goto
    <3> QED  BY <3>1, <3>3
  <2>i. InStep(script, got, frame)' = InStep(script, k, frame)
    BY <2>1 DEF InStep, Carries, Before, Begins, GoesOn, Announces
  <2>g. got' \in Nat
    BY <2>1
  <2> SUFFICES ASSUME InStep(script, k, frame), ~(pc' \in Halted)
               PROVE  /\ k \in 1..Len(script.packets)
                      /\ proto'.k = k /\ proto'.op = script.packets[k].op
                      /\ pc' = "operate" => /\ At' = Off(script, k)
                                            /\ Contents(proto.body)' = Body(script, k)
                      /\ pc' = "body" => At' = Off(script, k - 1) + H
    <3>1. /\ Off(script, got)' = Off(script, k) /\ Off(script, got - 1)' = Off(script, k - 1)
          /\ Body(script, got)' = Body(script, k)
      BY <2>1 DEF Off, Body, Seqn, Cell
    <3>2. pc' \in {"operate", "body"} \/ pc' \in Halted
      BY <2>1
    <3>3. k \in 1..Len(script.packets) => k <= Len(script.packets)
      OBVIOUS
    <3> HIDE DEF InStep, Off, Body, Contents, k, h
    <3> QED  BY <1>0, <1>n, <2>1, <2>i, <2>g, <3>1, <3>2, <3>3 DEF TcpInv, TakenInv
  <2>2. InStep(script, got, frame)
    BY InStepShrinks
  <2>3. /\ k \in 1..Len(script.packets) /\ At = Off(script, got) /\ At' = At + H
        /\ Chars(r, r + H) = First(Packet(script, k), H)
    BY <1>0, <2>1, <2>2, HeadIsThere
  <2>4. Len(script.packets) \in Nat /\ k - 1 = got
    BY <1>0, PacketRoom
  <2>5. n \in Nat /\ Off(script, k) = Off(script, k - 1) + (H + n) /\ Off(script, k - 1) \in Nat
    <3>1. k - 1 \in 0..Len(script.packets)
      BY <2>3, <2>4
    <3> HIDE DEF k
    <3> QED  BY <1>0, <2>3, <3>1, PacketRoom
  <2> HIDE DEF k
  <2>10. /\ h.k = k /\ h.op = script.packets[k].op /\ h.pack = script.packets[k].pack
    <3>1. h = [k |-> k, op |-> script.packets[k].op, pack |-> script.packets[k].pack,
               head |-> script.packets[k].head]
      BY <1>0, <2>3, HeaderIsWhole
    <3> QED  BY <3>1
  <2> HIDE DEF h
  <2>11. h.pack = H + n
    <3>1. k \in 1..k
      BY <2>3, <2>4
    <3> QED  BY <2>10, <3>1 DEF InStep, Announces
  <2>12. pc' = "operate" => n = 0
    BY <1>a, <2>1, <2>5, <2>11
  <2>13. n = 0 => Body(script, k) = <<>>
    BY <1>0, <2>3, BodyIs
  <2>14. Contents(proto.body)' = <<>>
    <3>1. proto'.body = Nil
      BY <2>1
    <3> QED  BY <3>1, NilIsBody DEF Contents
  <2>15. At' = Off(script, k - 1) + H
    BY <2>3, <2>4
  <2>16. pc' = "operate" => At' = Off(script, k)
    BY <1>a, <2>5, <2>12, <2>15
  <2> QED  BY <2>1, <2>3, <2>10, <2>12, <2>13, <2>14, <2>15, <2>16
<1> QED  BY <1>1, <1>2

\* And the body comes behind it.
LEMMA BodyIsTaken ==
  ASSUME StreamInv, ControlInv, BoolInv, MessageInv, got \in Nat, TcpInv, frame \in Int, TakeBody,
         ~script.ws
  PROVE  TcpInv' /\ TakenInv' /\ got' \in Nat
<1>0. /\ held /\ pc = "body" /\ script \in Scripts /\ WindowInv /\ stream = StreamOf(script)
      /\ ended \in BOOLEAN /\ open \in BOOLEAN
  BY DEF ControlInv, StreamInv, BoolInv, TakeBody, Exits
<1>h. ASSUME NEW x, Fail(x) PROVE pc' \in Halted
  BY <1>h, ExitStarts DEF Fail, Halted, Exits, ControlInv
<1>n. pc' \in Halted => pc' \notin {"set", "head", "signal", "reply", "operate", "body"}
  BY DEF Halted, Exits
<1> DEFINE n == script.packets[proto.k].pack - H
<1>a. n \in Nat \ {0} /\ H \in Nat \ {0}
  BY <1>0, ReadsSomething
<1>1. CASE Popping(n)
  <2> HIDE DEF n
  <2>1. /\ At' = At /\ UNCHANGED <<script, frame, got, proto>> /\ (pc' = pc \/ pc' \in Halted)
    BY <1>0, <1>a, <1>h, <1>1, PoppingStays DEF client, reading, message, control
  <2>2. TcpInv'
    BY <2>1, TcpRests
  <2>3. pc' \notin {"operate", "reply"}
    BY <1>0, <1>n, <2>1
  <2> QED  BY <2>1, <2>2, <2>3 DEF TakenInv
<1>2. CASE ~Popping(n)
  <2>1. /\ Pop(n) /\ UNCHANGED <<script, frame, got>> /\ pc' = "operate"
        /\ proto' = [proto EXCEPT !.body = Part(r, n)]
    BY <1>2 DEF TakeBody, Elsewhere, client, message, Goto
  <2>i. InStep(script, got, frame)' = InStep(script, got, frame)
    BY <2>1, InStepStays
  <2> SUFFICES ASSUME InStep(script, got, frame)
               PROVE  /\ got \in 1..Len(script.packets)
                      /\ proto'.k = got /\ proto'.op = script.packets[got].op
                      /\ At' = Off(script, got)
                      /\ Contents(proto.body)' = Body(script, got)
    <3>1. /\ Off(script, got)' = Off(script, got) /\ Body(script, got)' = Body(script, got)
      BY <2>1 DEF Off, Body, Seqn, Cell
    <3>2. got \in 1..Len(script.packets) => got <= Len(script.packets)
      OBVIOUS
    <3> HIDE DEF InStep, Off, Body, Contents, n
    <3> QED  BY <1>0, <2>1, <2>i, <3>1, <3>2 DEF TcpInv, TakenInv
  <2>2. /\ At = Off(script, got - 1) + H /\ got \in 1..Len(script.packets) /\ proto.k = got
        /\ proto.op = script.packets[got].op
    BY <1>0 DEF TcpInv
  <2>3. n = script.packets[got].body
    <3>1. got \in 1..got
      BY <2>2
    <3>2. script.packets[got].pack = H + script.packets[got].body
      BY <3>1 DEF InStep, Announces
    <3>3. script.packets[got].body \in Nat
      BY <1>0, <2>2, PacketFacts
    <3> QED  BY <1>a, <2>2, <3>2, <3>3
  <2> HIDE DEF n
  <2>4. /\ At' = At + n /\ \A i \in 1..n : buf[r + i - 1] = stream[At + i]
        /\ buf' = buf
    BY <1>0, <1>a, <2>1, AtPops
  <2>5. Off(script, got) = Off(script, got - 1) + (H + n) /\ Off(script, got - 1) \in Nat
    <3>1. got - 1 \in 0..Len(script.packets)
      BY <1>0, <2>2, PacketRoom
    <3> QED  BY <1>0, <2>2, <2>3, <3>1, PacketRoom
  <2>6. At' = Off(script, got)
    BY <1>a, <2>2, <2>4, <2>5
  <2>7. proto'.k = proto.k /\ proto'.op = proto.op /\ proto'.body = Part(r, n)
    <3>1. proto \in Slots
      BY DEF MessageInv
    <3> QED  BY <2>1, <3>1 DEF Slots
  <2>8. Contents(proto.body)' = [i \in 1..n |-> buf[r + i - 1]]
    <3>1. r \in Nat /\ r + n - r = n
      BY <1>0, <1>a, AtIsInStream
    <3>2. ~Part(r, n).own /\ Part(r, n).from = r /\ Part(r, n).n = n
      BY DEF Part
    <3> QED  BY <1>a, <2>4, <2>7, <3>1, <3>2 DEF Contents, Chars
  <2>9. ASSUME NEW i \in 1..n PROVE buf[r + i - 1] = Packet(script, got)[H + i]
    <3>1. H + i \in 1..H + n /\ At + i = Off(script, got - 1) + (H + i)
      BY <1>a, <2>2, <2>5
    <3>2. StreamOf(script)[Off(script, got - 1) + (H + i)] = Packet(script, got)[H + i]
      BY <1>0, <2>2, <2>3, <3>1, PacketIsThere
    <3> QED  BY <1>0, <2>4, <3>1, <3>2
  <2>10. Body(script, got) = [i \in 1..n |-> Packet(script, got)[H + i]]
    BY <1>0, <2>2, <2>3, BodyIs
  <2>11. Contents(proto.body)' = Body(script, got)
    BY <2>8, <2>9, <2>10
  <2> QED  BY <2>2, <2>6, <2>7, <2>11
<1> QED  BY <1>1, <1>2

\* Steps of the reader that take nothing.
LEMMA QuietTurns ==
  ASSUME ControlInv,
         \/ SetProto \/ Operate \/ AuthReply \/ Signal \/ Upgrade \/ CountFrame \/ WritePong \/ Leave
  PROVE  /\ UNCHANGED <<script, frame, msg, got, part, proto, next, r, w>>
         /\ \/ pc' \in Halted
            \/ /\ script.ws => pc \in Between /\ pc' \in Between
               /\ ~script.ws => /\ pc \in {"set", "operate", "reply", "signal"}
                                /\ pc' \in {"set", "head", "reply", "signal"}
               /\ pc' \notin {"operate"} /\ (pc' = "reply" => pc = "operate")
<1>0. authed \in BOOLEAN /\ script.ws \in BOOLEAN
  BY DEF ControlInv
<1>1. UNCHANGED <<script, frame, msg, got, part, proto, next, r, w>>
  <2>1. CASE Leave \/ SetProto \/ Operate \/ AuthReply \/ Signal \/ Upgrade
    BY <2>1 DEF Leave, SetProto, Operate, AuthReply, Signal, Upgrade, readerVars, windowVars, Elsewhere,
                client, reading, message
  <2>2. CASE CountFrame \/ WritePong
    BY <2>2 DEF CountFrame, WritePong, readerVars, windowVars, Elsewhere, client, reading, message
  <2> QED  BY <2>1, <2>2
<1>2. ASSUME NEW x, Fail(x) PROVE pc' \in Halted
  BY <1>0, <1>2, ExitStarts DEF Fail, Halted, Exits
<1>3. CASE Leave
  <2>1. pc \in {"close", "putrb", "finish"} /\ pc' = Following(pc)
    BY <1>3 DEF Leave
  <2>2. pc = "finish" => authed
    BY DEF ControlInv
  <2>3. pc' \in Exits
    BY <1>0, <2>1, <2>2, ExitGoesOn DEF Exits
  <2> QED  BY <1>1, <2>3 DEF Halted
<1>4. CASE ~Leave
  <2>1. \/ pc' \in Halted
        \/ pc = "set" /\ pc' = (IF script.ws THEN "first" ELSE "head")
        \/ pc = "operate" /\ pc' \in {IF script.ws THEN "first" ELSE "head", "reply", "signal"}
        \/ pc \in {"reply", "signal"} /\ pc' = "set"
        \/ pc = "upgrade" /\ pc' = "set"
        \/ pc = "count" /\ pc' = "first"
        \/ pc \in {"pong", "pongbody"} /\ pc' \in {"pongbody", "count"}
    <3>1. CASE SetProto \/ Operate \/ AuthReply \/ Signal \/ Upgrade
      BY <1>0, <1>2, <3>1 DEF SetProto, Operate, AuthReply, Signal, Upgrade, Goto
    <3>2. CASE CountFrame \/ WritePong
      BY <1>2, <3>2 DEF CountFrame, WritePong, Goto
    <3> QED  BY <1>4, <3>1, <3>2
  <2>2. pc \in {"upgrade", "count", "pong", "pongbody"} => script.ws
    BY DEF ControlInv, Framing
  <2> QED  BY <1>0, <1>1, <2>1, <2>2 DEF Between
<1> QED  BY <1>3, <1>4

LEMMA WholeStep ==
  ASSUME ConnInv, WholeInv, [Next]_vars
  PROVE  WholeInv'
<1>0. /\ StreamInv /\ ControlInv /\ MessageInv /\ BoolInv /\ pc \in Pcs
      /\ got \in Nat /\ frame \in Nat
      /\ QuietInv /\ AlignInv /\ PartInv /\ JoinInv /\ TcpInv /\ TakenInv
      /\ pc \in {"message", "operate"} => held
  BY DEF ConnInv, WholeInv, ControlInv, Exits
<1>1. script' = script /\ QuietInv' /\ AlignInv' /\ PartInv'
  BY <1>0, StepsSee, OverStays, AlignStep, PartStep
<1>n. pc' \in Halted => /\ pc' \notin {"set", "head", "signal", "reply", "operate", "body"}
                        /\ pc' \notin Between /\ pc' \notin Inside /\ pc' # "message"
  BY DEF Halted, Exits, Between, Inside, Fetching
<1>f. script.ws => frame' \in Nat
  <2> SUFFICES ASSUME script.ws PROVE frame' \in Nat
    OBVIOUS
  <2>1. frame' \in 0..Len(script.frames) /\ Len(script.frames) \in Nat
    BY <1>0, <1>1, ScriptFacts DEF AlignInv, StreamInv
  <2> QED  BY <2>1
<1>j. ~script.ws => JoinInv'
  BY <1>1 DEF JoinInv
<1>t. script.ws => TcpInv'
  BY <1>1 DEF TcpInv
<1> SUFFICES got' \in Nat /\ (~script.ws => frame' \in Nat) /\ (script.ws => JoinInv')
             /\ (~script.ws => TcpInv') /\ TakenInv'
  BY <1>1, <1>f, <1>j, <1>t DEF WholeInv
<1>2. CASE Environment \/ Dispatcher \/ UNCHANGED vars
  <2>1. UNCHANGED <<pc, script, frame, part, msg, got, proto, next, r, w>> /\ (held => buf' = buf)
    BY <1>2, OthersLeave
  <2>2. At' = At
    BY <2>1 DEF At
  <2> QED  BY <1>0, <2>1, <2>2, JoinRests, TcpRests, TakenRests
<1>3. CASE \/ SetProto \/ Operate \/ AuthReply \/ Signal \/ Upgrade \/ CountFrame \/ WritePong \/ Leave
  <2>1. /\ UNCHANGED <<script, frame, msg, got, part, proto, next, r, w>>
        /\ \/ pc' \in Halted
           \/ /\ script.ws => pc \in Between /\ pc' \in Between
              /\ ~script.ws => /\ pc \in {"set", "operate", "reply", "signal"}
                               /\ pc' \in {"set", "head", "reply", "signal"}
              /\ pc' \notin {"operate"} /\ (pc' = "reply" => pc = "operate")
    BY <1>0, <1>3, QuietTurns
  <2>2. At' = At
    BY <2>1 DEF At
  <2>3. TakenInv'
    <3>1. pc' \notin {"operate", "reply"} \/ (pc = "operate" /\ pc' = "reply")
      BY <1>n, <2>1
    <3> QED  BY <1>0, <2>1, <3>1, TakenRests
  <2>4. script.ws => JoinInv'
    BY <1>0, <2>1, JoinGoes
  <2>5. ~script.ws => TcpInv'
    BY <1>0, <2>1, <2>2, TcpRests
  <2> QED  BY <1>0, <2>1, <2>3, <2>4, <2>5
<1>w. pc \in {"unmask", "frame", "message", "line", "first", "second", "ext", "key", "payload"} => script.ws
  BY <1>0 DEF ControlInv, Framing
<1>4. CASE Unmask
  <2>1. /\ pc = "unmask" /\ pc' = "frame" /\ UNCHANGED <<script, frame, msg, got, proto>>
    BY <1>4 DEF Unmask, Goto, Elsewhere, client, reading, message
  <2>2. JoinInv' /\ TakenInv'
    BY <1>0, <2>1, JoinGoes, TakenRests DEF Inside
  <2> QED  BY <1>0, <1>w, <2>1, <2>2
<1>5. CASE HandleFrame
  <2>1. /\ pc = "frame" /\ pc' \notin {"operate", "reply"} /\ UNCHANGED <<script, frame, got, proto>>
    <3>1. ASSUME NEW x, Fail(x) PROVE pc' \in Halted
      BY <1>0, <3>1, ExitStarts DEF Fail, Halted, Exits, ControlInv
    <3>2. pc' \in {"message", "count", "pong"} \cup Halted
      BY <1>5, <3>1 DEF HandleFrame, Goto
    <3> QED  BY <1>5, <1>n, <3>2 DEF HandleFrame, Elsewhere, client
  <2>2. JoinInv' /\ TakenInv'
    BY <1>0, <1>5, <2>1, FrameJoins, TakenRests
  <2> QED  BY <1>0, <1>w, <2>1, <2>2
<1>6. CASE TakeMessage
  <2>1. pc = "message" /\ got' = got + 1
    BY <1>6 DEF TakeMessage
  <2> QED  BY <1>0, <1>6, <1>w, <2>1, MessageIsTaken
<1>7. CASE TakeLine
  <2>1. /\ pc = "line" /\ pc' \in {"line", "upgrade"} \cup Halted
        /\ UNCHANGED <<script, message, proto, got>>
    BY <1>0, <1>7, TakeLineAligns, OverStays DEF TakeLine
  <2>2. pc' \notin {"operate", "reply"} /\ UNCHANGED <<frame, msg>>
    BY <1>n, <2>1 DEF message
  <2>3. TakenInv' /\ JoinInv'
    BY <1>0, <2>1, <2>2, JoinGoes, TakenRests DEF Between
  <2> QED  BY <1>0, <1>w, <2>1, <2>3
<1>8. CASE TakeSecond \/ TakeExt \/ TakeKey \/ TakePayload
  <2>1. pc \in {"second", "ext", "key", "payload"}
    BY <1>8 DEF TakeSecond, TakeExt, TakeKey, TakePayload
  <2>2. script.ws
    BY <1>w, <2>1
  <2>3. /\ UNCHANGED <<script, frame, msg, proto, got>>
        /\ pc' \in Halted \/ pc' = pc \/ pc' \in {Stage(1), Stage(2), Stage(3), Stage(4)}
    BY <1>0, <1>8, <2>2, TakeStagesAlign
  <2>4. \A i \in 1..4 : Stage(i) \in Inside
    BY StageIsWanted DEF Inside, Fetching
  <2>5. pc' \in Halted \/ pc' \in Inside
    BY <2>1, <2>3, <2>4 DEF Inside, Fetching
  <2>6. pc' \notin {"operate", "reply"}
    BY <1>n, <2>5 DEF Inside, Fetching
  <2>7. JoinInv' /\ TakenInv'
    BY <1>0, <2>1, <2>3, <2>5, <2>6, JoinGoes, TakenRests DEF Inside, Fetching
  <2> QED  BY <1>0, <2>2, <2>3, <2>7
<1>9. CASE TakeFirst
  <2>1. pc = "first" /\ script.ws /\ held /\ ended \in BOOLEAN /\ open \in BOOLEAN
    BY <1>0, <1>9 DEF TakeFirst, ControlInv, Framing, Exits, BoolInv
  <2>2. CASE Popping(1)
    <3>1. /\ UNCHANGED <<script, frame, msg, got, proto>> /\ (pc' = pc \/ pc' \in Halted)
      <4>1. ASSUME NEW x, Fail(x) PROVE pc' \in Halted
        BY <1>0, <4>1, ExitStarts DEF Fail, Halted, Exits, ControlInv
      <4> QED  BY <1>0, <2>1, <2>2, <4>1, PoppingStays DEF client, reading, message, control
    <3>2. JoinInv' /\ TakenInv'
      BY <1>0, <1>n, <2>1, <3>1, JoinGoes, TakenRests DEF Between
    <3> QED  BY <1>0, <2>1, <3>1, <3>2
  <2>3. CASE pc' \in Halted
    <3>1. got' = got
      BY <1>9 DEF TakeFirst, Popping, Receive, reading
    <3>2. JoinInv' /\ TakenInv'
      BY <1>n, <2>3 DEF JoinInv, TakenInv
    <3> QED  BY <1>0, <2>1, <3>1, <3>2
  <2>4. CASE ~Popping(1) /\ ~(pc' \in Halted)
    <3>1. /\ frame' = frame + 1 /\ pc' = "second" /\ UNCHANGED <<script, msg, got, proto>>
      BY <1>0, <1>9, <2>4, TakeFirstAligns
    <3>2. TakenInv'
      BY <3>1 DEF TakenInv
    <3>3. InStep(script, got, frame)' => Gathered(frame - 1, got)'
      <4>1. InStep(script, got, frame)' => InStep(script, got, frame)
        <5>1. InStep(script, got, frame)' = InStep(script, got, frame + 1)
          BY <3>1 DEF InStep, Carries, Before, Begins, GoesOn, Announces
        <5>2. InStep(script, got, frame + 1) => InStep(script, got, frame)
          BY <1>0, InStepShrinks
        <5> QED  BY <5>1, <5>2
      <4>2. InStep(script, got, frame) => Gathered(frame, got)
        BY <1>0, <2>1 DEF JoinInv, Between
      <4>3. frame' - 1 = frame
        BY <1>0, <3>1
      <4>4. Gathered(frame, got) => Gathered(frame - 1, got)'
        BY <3>1, <4>3 DEF Gathered, Before, Carries
      <4> QED  BY <4>1, <4>2, <4>4
    <3>4. JoinInv'
      <4>1. pc' \notin Between /\ pc' # "message"
        BY <3>1 DEF Between
      <4> HIDE DEF InStep, Gathered
      <4> QED  BY <3>3, <4>1 DEF JoinInv
    <3> QED  BY <1>0, <2>1, <3>1, <3>2, <3>4
  <2> QED  BY <2>2, <2>3, <2>4
<1>10. CASE TakeHead \/ TakeBody
  <2>1. ~script.ws
    BY <1>0, <1>10 DEF TakeHead, TakeBody, AlignInv
  <2>2. frame' = frame
    BY <1>10 DEF TakeHead, TakeBody, Popping, Receive, reading, message
  <2> QED  BY <1>0, <1>10, <2>1, <2>2, HeadIsTaken, BodyIsTaken
<1> QED  BY <1>2, <1>3, <1>4, <1>5, <1>6, <1>7, <1>8, <1>9, <1>10 DEF Next, ReadLoop

LEMMA WholeInit ==
  ASSUME Init
  PROVE  WholeInv
<1>1. /\ script \in Scripts /\ got = 0 /\ frame = 0 /\ rerr = None /\ msg = <<>>
      /\ pc = (IF script.ws THEN "line" ELSE "set") /\ next = 0 /\ r = 0 /\ w = 0
  BY DEF Init, ReaderInit
<1>2. QuietInv
  BY <1>1 DEF QuietInv
<1>3. Len(script.frames) \in Nat /\ Len(script.packets) \in Nat
  BY <1>1, ScriptFacts
<1>4. AlignInv
  BY <1>1, <1>3 DEF AlignInv, Unread, Fetching, Halted
<1>5. PartInv
  BY <1>1 DEF PartInv, Fetching
<1>6. JoinInv
  <2>1. Before(script, 0 + 1) = {}
    BY DEF Before
  <2>2. script.ws => Gathered(frame, got)
    BY <1>1, <2>1 DEF Gathered
  <2>3. script.ws => pc \notin Inside /\ pc # "message"
    BY <1>1 DEF Inside, Fetching
  <2> HIDE DEF Gathered
  <2> QED  BY <2>2, <2>3 DEF JoinInv
<1>7. TcpInv
  <2>1. ~script.ws => Off(script, got) = 0
    BY <1>1, PacketRoom
  <2>2. At = 0
    BY <1>1 DEF At
  <2>3. ~script.ws => pc = "set"
    BY <1>1
  <2> HIDE DEF Off, At
  <2> QED  BY <1>1, <1>3, <2>1, <2>2, <2>3 DEF TcpInv
<1>8. TakenInv
  BY <1>1 DEF TakenInv
<1> QED  BY <1>1, <1>2, <1>4, <1>5, <1>6, <1>7, <1>8 DEF WholeInv

LEMMA WholeInvariance == Spec => []WholeInv
<1>1. Init => WholeInv
  BY WholeInit
<1>2. ConnInv /\ WholeInv /\ [Next]_vars => WholeInv'
  BY WholeStep
<1> QED  BY <1>1, <1>2, ConnInvariance, PTL DEF Spec

\* A packet that reaches its handler is the next one its client sent, with its
\* body whole and in order, for every way to cut the stream into reads and
\* frames and every size of the buffer (protocol.go:95, 181; websocket/conn.go:145).
THEOREM ConnectionReadsWhole == Spec => []ReadsWhole
<1>1. WholeInv => ReadsWhole
  <2>1. ASSUME WholeInv, pc = "operate", InStep(script, got, frame)
        PROVE  /\ proto.k = got
               /\ Announces(script, got) => Contents(proto.body) = Body(script, got)
    BY <2>1 DEF WholeInv, TakenInv
  <2> QED  BY <2>1 DEF ReadsWhole
<1> QED  BY <1>1, WholeInvariance, PTL
=============================================================================
