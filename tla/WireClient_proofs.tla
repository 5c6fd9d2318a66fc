-------------------------- MODULE WireClient_proofs --------------------------
(***************************************************************************)
(* What the clients of Wire can count on who keep to the protocol and wait *)
(* for their replies: they get the bodies they sent, and are not turned    *)
(* away.  Wire_proofs has the invariants of the connection itself.         *)
(***************************************************************************)
EXTENDS Wire_proofs

-----------------------------------------------------------------------------
(* What a write adds to what the client got *)

\* What arrived stays; with the socket closed nothing more arrives.
Keeps(s, t, closed) == Starts(s.to, t.to) /\ (closed => t.to = s.to)

LEMMA ToKeeps ==
  ASSUME NEW S, NEW s \in Writers(S), NEW closed \in BOOLEAN, NEW q \in Seq(S),
         NEW n \in 0..Len(q), closed => n = 0, NEW t, t.to = s.to \o First(q, n)
  PROVE  Keeps(s, t, closed)
<1>1. PICK o \in Seq(S), p \in Seq(S) : o = s.to /\ p = First(q, n) /\ Len(p) = n
  <2>1. s.to \in Seq(S)
    BY WriterFacts
  <2>2. First(q, n) \in Seq(S) /\ Len(First(q, n)) = n
    BY FirstCells
  <2> QED  BY <2>1, <2>2
<1>2. t.to = o \o p
  BY <1>1
<1>3. Starts(o, o)
  BY DEF Starts
<1>4. Starts(o, o \o p)
  BY <1>3, StartsLonger
<1>5. ASSUME closed PROVE t.to = o
  <2>1. n = 0
    BY <1>5
  <2>2. p = <<>>
    BY <1>1, <2>1
  <2> QED  BY <1>2, <2>2, ConcatEmptySeq
<1> QED  BY <1>1, <1>2, <1>4, <1>5 DEF Keeps

LEMMA SameKeeps ==
  ASSUME NEW S, NEW s \in Writers(S), NEW t, t.to = s.to, NEW closed
  PROVE  Keeps(s, t, closed)
<1>1. PICK o \in Seq(S) : o = s.to
  BY WriterFacts
<1>2. Starts(o, o)
  BY DEF Starts
<1> QED  BY <1>1, <1>2 DEF Keeps

LEMMA KeepsThen ==
  ASSUME NEW S, NEW s \in Writers(S), NEW t \in Writers(S), NEW u \in Writers(S), NEW closed,
         Keeps(s, t, closed), Keeps(t, u, closed)
  PROVE  Keeps(s, u, closed)
<1>1. Len(s.to) \in Nat /\ Len(t.to) \in Nat /\ Len(u.to) \in Nat
  BY WriterFacts
<1> QED  BY <1>1 DEF Keeps, Starts

LEMMA StoredKeeps ==
  ASSUME NEW S, NEW s \in Writers(S), NEW p, NEW closed, NEW t, t = Stored(s, p)
  PROVE  Keeps(s, t, closed)
<1>1. s.to = t.to
  BY DEF Stored, Writers
<1> QED  BY <1>1, SameKeeps

LEMMA DirectKeeps ==
  ASSUME NEW S, NEW s \in Writers(S), NEW p \in Seq(S), NEW closed \in BOOLEAN,
         NEW t \in Direct(s, p, closed)
  PROVE  Keeps(s, t, closed)
<1>1. Len(p) \in Nat /\ s \in [buf : Seq(S), err : BOOLEAN, to : Seq(S)]
  BY DEF Writers
<1>2. ASSUME NEW n \in Cuts(Len(p), closed), t = [s EXCEPT !.to = @ \o First(p, n), !.err = TRUE]
      PROVE  Keeps(s, t, closed)
  <2>1. closed => n = 0
    BY <1>2 DEF Cuts
  <2>2. n \in 0..Len(p)
    BY <1>1, <1>2 DEF Cuts
  <2>3. t.to = s.to \o First(p, n)
    BY <1>1, <1>2
  <2> QED  BY <2>1, <2>2, <2>3, ToKeeps
<1>3. ASSUME ~closed, t = [s EXCEPT !.to = @ \o p]
      PROVE  Keeps(s, t, closed)
  <2>1. Len(p) \in 0..Len(p) /\ First(p, Len(p)) = p
    BY <1>1, SubSeqFull DEF First
  <2>2. t.to = s.to \o First(p, Len(p))
    BY <1>1, <1>3, <2>1
  <2> QED  BY <1>3, <2>1, <2>2, ToKeeps
<1> QED  BY <1>2, <1>3 DEF Direct

LEMMA FlushedKeeps ==
  ASSUME NEW S, NEW s \in Writers(S), NEW closed \in BOOLEAN, NEW t \in Flushed(s, closed)
  PROVE  Keeps(s, t, closed)
<1>0. s \in [buf : Seq(S), err : BOOLEAN, to : Seq(S)]
  BY DEF Writers
<1>1. PICK b \in Seq(S) : b = s.buf
  BY <1>0
<1>2. Len(b) \in Nat
  OBVIOUS
<1>3. CASE t = s
  BY <1>3, SameKeeps
<1>4. ASSUME NEW n \in Cuts(Len(b), closed),
             t = [buf |-> After(b, n), err |-> TRUE, to |-> s.to \o First(b, n)]
      PROVE  Keeps(s, t, closed)
  <2>1. closed => n = 0
    BY <1>4 DEF Cuts
  <2>2. s.err \/ s.buf = <<>> \/ n \in 0..Len(b)
    BY <1>2, <1>4 DEF Cuts
  <2>3. t.to = s.to \o First(b, n)
    BY <1>4
  <2>4. b # <<>> => n \in 0..Len(b)
    BY <1>2, <1>4 DEF Cuts
  <2>5. b = <<>> => n = 0 \/ n \in 0..Len(b)
    BY <1>2, <1>4 DEF Cuts
  <2>6. n \in 0..Len(b)
    BY <1>2, <2>4, <2>5
  <2> QED  BY <2>1, <2>3, <2>6, ToKeeps
<1>5. ASSUME ~closed, t = [s EXCEPT !.buf = <<>>, !.to = @ \o b]
      PROVE  Keeps(s, t, closed)
  <2>1. Len(b) \in 0..Len(b) /\ First(b, Len(b)) = b
    BY <1>2, SubSeqFull DEF First
  <2>2. t.to = s.to \o First(b, Len(b))
    BY <1>0, <1>5, <2>1
  <2> QED  BY <1>5, <2>1, <2>2, ToKeeps
<1> QED  BY <1>1, <1>3, <1>4, <1>5 DEF Flushed

LEMMA PeekedKeeps ==
  ASSUME NEW S, NEW s \in Writers(S), NEW p \in Seq(S), NEW closed \in BOOLEAN,
         Len(p) <= WSize, NEW t \in Peeked(s, p, closed)
  PROVE  Keeps(s, t, closed)
<1>1. PICK u : (u = s \/ u \in Flushed(s, closed)) /\ t = Stored(u, p)
  BY DEF Peeked
<1>2. CASE u = s
  BY <1>1, <1>2, StoredKeeps
<1>3. CASE u \in Flushed(s, closed)
  <2>1. u \in Writers(S) /\ Keeps(s, u, closed)
    BY <1>3, FlushedPuts, FlushedKeeps
  <2>2. Keeps(u, t, closed) /\ t \in Writers(S)
    BY <1>1, <2>1, StoredKeeps, PeekedPuts
  <2> QED  BY <2>1, <2>2, KeepsThen
<1> QED  BY <1>1, <1>2, <1>3

LEMMA WrittenKeeps ==
  ASSUME NEW S, NEW s \in Writers(S), NEW p \in Seq(S), NEW closed \in BOOLEAN,
         NEW t \in Written(s, p, closed)
  PROVE  Keeps(s, t, closed)
<1>1. Available(s) \in Nat /\ Len(p) \in Nat
  BY WriterFacts
<1>2. CASE t = Stored(s, p)
  BY <1>2, StoredKeeps
<1>3. CASE t \in Direct(s, p, closed)
  BY <1>3, DirectKeeps
<1>4. CASE ~(s.err \/ Len(p) <= Available(s))
           /\ t \in UNION {Rest(x, After(p, Available(s)), closed) :
                              x \in Flushed(Stored(s, First(p, Available(s))), closed)}
  <2>1. PICK q \in Seq(S), a \in Seq(S) :
          q = First(p, Available(s)) /\ a = After(p, Available(s)) /\ Len(q) = Available(s)
    <3>1. Available(s) \in 0..Len(p)
      BY <1>1, <1>4
    <3> QED  BY <3>1, FirstCells
  <2>2. PICK u \in Flushed(Stored(s, q), closed) : t \in Rest(u, a, closed)
    BY <1>4, <2>1
  <2>3. PICK v : v = Stored(s, q)
    OBVIOUS
  <2>4. v \in Writers(S) /\ Keeps(s, v, closed)
    BY <1>1, <2>1, <2>3, StoredPuts, StoredKeeps
  <2>5. u \in Writers(S) /\ Keeps(v, u, closed) /\ (u.err \/ u.buf = <<>>)
    BY <2>2, <2>3, <2>4, FlushedPuts, FlushedKeeps
  <2>6. t \in Writers(S)
    BY <2>2, <2>5, RestPuts
  <2>7. Keeps(u, t, closed)
    <3>1. t = Stored(u, a) \/ t \in Direct(u, a, closed)
      BY <2>2 DEF Rest
    <3> QED  BY <2>5, <3>1, StoredKeeps, DirectKeeps
  <2>8. Keeps(s, u, closed)
    BY <2>4, <2>5, KeepsThen
  <2> QED  BY <2>5, <2>6, <2>7, <2>8, KeepsThen
<1> QED  BY <1>2, <1>3, <1>4 DEF Written

LEMMA WrittenRawKeeps ==
  ASSUME NEW S, NEW s \in Writers(S), NEW p \in Seq(S), NEW closed \in BOOLEAN,
         NEW t \in WrittenRaw(s, p, closed)
  PROVE  Keeps(s, t, closed)
<1>1. t = s \/ t \in Direct(s, p, closed) \/ t \in Written(s, p, closed)
  BY DEF WrittenRaw
<1> QED  BY <1>1, SameKeeps, DirectKeeps, WrittenKeeps

LEMMA StrungKeeps ==
  ASSUME NEW S, NEW s \in Writers(S), NEW p \in Seq(S), NEW closed \in BOOLEAN,
         NEW t \in Strung(s, p, closed)
  PROVE  Keeps(s, t, closed)
<1>1. s \in [buf : Seq(S), err : BOOLEAN, to : Seq(S)]
  BY DEF Writers
<1>2. PICK all \in Seq(S) : all = s.buf \o p
  <2>1. PICK b \in Seq(S) : b = s.buf
    BY <1>1
  <2>2. b \o p \in Seq(S)
    OBVIOUS
  <2> QED  BY <2>1, <2>2
<1> DEFINE q == (Len(all) - 1) \div WSize
           full == IF Len(all) <= WSize THEN 0 ELSE q * WSize
<1>3. Len(all) \in Nat /\ WSize \in Nat \ {0}
  BY WSizeFacts
<1>4. full \in 0..Len(all)
  <2>1. CASE Len(all) <= WSize
    BY <1>3, <2>1
  <2>2. CASE ~(Len(all) <= WSize)
    <3>1. PICK m \in Nat : m = Len(all) - 1
      BY <1>3, <2>2
    <3>2. m \div WSize \in Nat /\ (m \div WSize) * WSize <= m
      BY <1>3, Division
    <3>3. full = (m \div WSize) * WSize /\ (m \div WSize) * WSize \in Nat
      BY <1>3, <2>2, <3>1, <3>2
    <3> QED  BY <1>3, <3>1, <3>2, <3>3
  <2> QED  BY <2>1, <2>2
<1>5. \/ t = s
      \/ \E n \in Cuts(full, closed) : full # 0 /\ t.to = s.to \o First(all, n)
      \/ (closed => full = 0) /\ t = [s EXCEPT !.buf = After(all, full), !.to = @ \o First(all, full)]
  <2>1. CASE s.err
    BY <2>1 DEF Strung
  <2>2. CASE ~s.err
    <3>1. \/ \E n \in Cuts(full, closed) :
               /\ full # 0
               /\ t = [buf |-> SubSeq(all, n + 1, (n \div WSize + 1) * WSize), err |-> TRUE,
                       to |-> s.to \o First(all, n)]
          \/ (closed => full = 0)
             /\ t = [s EXCEPT !.buf = After(all, full), !.to = @ \o First(all, full)]
      <4>1. \/ \E n \in (IF full = 0 THEN {} ELSE Cuts(full, closed)) :
                   t = [buf |-> SubSeq(all, n + 1, (n \div WSize + 1) * WSize), err |-> TRUE,
                        to |-> s.to \o First(all, n)]
            \/ ~(closed /\ full > 0)
               /\ t = [s EXCEPT !.buf = After(all, full), !.to = @ \o First(all, full)]
        BY <1>2, <2>2 DEF Strung
      <4> HIDE DEF full, q
      <4>2. full # 0 => full > 0
        BY <1>4
      <4>3. ASSUME NEW n \in (IF full = 0 THEN {} ELSE Cuts(full, closed))
            PROVE  full # 0 /\ n \in Cuts(full, closed)
        OBVIOUS
      <4> QED  BY <4>1, <4>2, <4>3
    <3> HIDE DEF full, q
    <3> QED  BY <3>1
  <2> QED  BY <1>1, <2>1, <2>2
<1> HIDE DEF full, q
<1>6. CASE t = s
  BY <1>6, SameKeeps
<1>7. ASSUME NEW n \in Cuts(full, closed), full # 0, t.to = s.to \o First(all, n)
      PROVE  Keeps(s, t, closed)
  <2>1. closed => n = 0
    BY <1>7 DEF Cuts
  <2>2. n \in 0..Len(all)
    BY <1>3, <1>4, <1>7 DEF Cuts
  <2> QED  BY <1>7, <2>1, <2>2, ToKeeps
<1>8. ASSUME closed => full = 0, t = [s EXCEPT !.buf = After(all, full), !.to = @ \o First(all, full)]
      PROVE  Keeps(s, t, closed)
  <2>1. t.to = s.to \o First(all, full)
    BY <1>1, <1>8
  <2> QED  BY <1>4, <1>8, <2>1, ToKeeps
<1> QED  BY <1>5, <1>6, <1>7, <1>8

\* The cells of a sequence.
Parts(q) == {q[j] : j \in 1..Len(q)}

LEMMA PutsParts ==
  ASSUME NEW S, NEW s \in Writers(S), NEW t \in Writers(S), NEW p \in Seq(S), Puts(s, p, t)
  PROVE  Parts(Sofar(t)) \subseteq Parts(Sofar(s)) \cup Parts(p)
<1>1. CASE s.err
  BY <1>1 DEF Puts
<1>2. CASE ~s.err
  <2>1. PICK a \in Seq(S), b \in Seq(S) : a = Sofar(s) /\ b = Sofar(t)
    BY WriterFacts
  <2>2. Starts(b, a \o p)
    BY <1>2, <2>1 DEF Puts
  <2>3. /\ Len(a \o p) = Len(a) + Len(p)
        /\ \A i \in 1..Len(a)+Len(p) : (a \o p)[i] = IF i <= Len(a) THEN a[i] ELSE p[i - Len(a)]
    BY ConcatProperties
  <2>4. Len(a) \in Nat /\ Len(b) \in Nat /\ Len(p) \in Nat
    OBVIOUS
  <2>5. ASSUME NEW j \in 1..Len(b) PROVE b[j] \in Parts(a) \cup Parts(p)
    <3>1. j \in 1..Len(a)+Len(p) /\ b[j] = (a \o p)[j]
      BY <2>2, <2>3, <2>4 DEF Starts
    <3>2. CASE j <= Len(a)
      <4>1. j \in 1..Len(a) /\ b[j] = a[j]
        BY <2>3, <2>4, <3>1, <3>2
      <4> QED  BY <4>1 DEF Parts
    <3>3. CASE ~(j <= Len(a))
      <4>1. j - Len(a) \in 1..Len(p) /\ b[j] = p[j - Len(a)]
        BY <2>3, <2>4, <3>1, <3>3
      <4> QED  BY <4>1 DEF Parts
    <3> QED  BY <3>2, <3>3
  <2> QED  BY <2>1, <2>5 DEF Parts
<1> QED  BY <1>1, <1>2

\* What arrived was written.
LEMMA ToIsSofar ==
  ASSUME NEW S, NEW s \in Writers(S)
  PROVE  Parts(s.to) \subseteq Parts(Sofar(s))
<1>1. PICK b \in Seq(S), o \in Seq(S) : b = s.buf /\ o = s.to
  BY WriterFacts
<1>2. \A i \in 1..Len(o) : i \in 1..Len(o \o b) /\ (o \o b)[i] = o[i]
  OBVIOUS
<1>3. Parts(o) \subseteq Parts(o \o b)
  BY <1>2 DEF Parts
<1> QED  BY <1>1, <1>3 DEF Sofar

\* What a write adds are cells of G.
Adds(s, t, G, closed) ==
    /\ t \in Writers(Outs)
    /\ s.err => t = s
    /\ Keeps(s, t, closed)
    /\ Parts(Sofar(t)) \subseteq Parts(Sofar(s)) \cup G

LEMMA AddsThen ==
  ASSUME NEW s \in Writers(Outs), NEW t, NEW u, NEW G, NEW closed,
         Adds(s, t, G, closed), Adds(t, u, G, closed)
  PROVE  Adds(s, u, G, closed)
<1> HIDE DEF Outs
<1>1. t \in Writers(Outs) /\ u \in Writers(Outs)
  BY DEF Adds
<1>2. Keeps(s, u, closed)
  BY <1>1, KeepsThen DEF Adds
<1> QED  BY <1>1, <1>2 DEF Adds

LEMMA PieceAdds ==
  ASSUME NEW s \in Writers(Outs), NEW p \in Seq(Outs), NEW G, Parts(p) \subseteq G,
         NEW closed \in BOOLEAN,
         NEW t, \/ Len(p) <= WSize /\ t \in Peeked(s, p, closed)
                \/ t \in Written(s, p, closed)
                \/ t \in WrittenRaw(s, p, closed)
                \/ t \in Strung(s, p, closed)
  PROVE  Adds(s, t, G, closed)
<1> HIDE DEF Outs
<1>1. t \in Writers(Outs) /\ Puts(s, p, t)
  BY PeekedPuts, WrittenPuts, WrittenRawPuts, StrungPuts
<1>2. Keeps(s, t, closed)
  BY PeekedKeeps, WrittenKeeps, WrittenRawKeeps, StrungKeeps
<1>3. Parts(Sofar(t)) \subseteq Parts(Sofar(s)) \cup Parts(p)
  BY <1>1, PutsParts
<1> QED  BY <1>1, <1>2, <1>3 DEF Adds, Puts

LEMMA FlushAdds ==
  ASSUME NEW s \in Writers(Outs), NEW G, NEW closed \in BOOLEAN, NEW t \in Flushed(s, closed)
  PROVE  Adds(s, t, G, closed)
<1> HIDE DEF Outs
<1>1. t \in Writers(Outs) /\ Puts(s, <<>>, t) /\ <<>> \in Seq(Outs)
  BY FlushedPuts
<1>2. Parts(Sofar(t)) \subseteq Parts(Sofar(s)) \cup Parts(<<>>)
  BY <1>1, PutsParts
<1>3. Parts(<<>>) = {}
  BY DEF Parts
<1>4. Keeps(s, t, closed)
  BY FlushedKeeps
<1> QED  BY <1>1, <1>2, <1>3, <1>4 DEF Adds, Puts

\* The first m cells an item is made of, or some of them.
Made(it, m) ==
    {o \in Outs :
        /\ o.of = it.of /\ o.k = it.k /\ o.n = All(it) /\ o.i <= m
        /\ \/ o.c = Clear
           \/ \E j \in 1..it.body.n :
                o.i = (FramedBy(it) + HeadOf(it)) + j /\ o.c = Contents(it.body)[j]}

LEMMA MadeGrows ==
  ASSUME NEW it, NEW m \in Nat, NEW n \in Nat, m <= n
  PROVE  Made(it, m) \subseteq Made(it, n)
<1>1. ASSUME NEW o \in Outs, o.i <= m PROVE o.i <= n
  <2>1. o.i \in Nat
    BY DEF Outs
  <2> QED  BY <1>1, <2>1
<1> HIDE DEF Outs
<1> QED  BY <1>1 DEF Made

LEMMA FieldsMade ==
  ASSUME ReaderTypeOK, script.ws \in BOOLEAN, NEW it, ItemOK(it), NEW f \in Nat, NEW n \in Nat
  PROVE  Fields(it, f, n) \in Seq(Outs) /\ Parts(Fields(it, f, n)) \subseteq Made(it, f + n)
<1> HIDE DEF Outs
<1>1. PICK p \in Seq(Outs) : p = Fields(it, f, n) /\ Len(p) = n /\ Piece(p, it.of, it.k, All(it), f)
  <2>1. Piece(Fields(it, f, n), it.of, it.k, All(it), f) /\ Len(Fields(it, f, n)) = n
    BY FieldsPiece
  <2> QED  BY <2>1 DEF Piece
<1>2. \A i \in 1..n : p[i].c = Clear
  BY <1>1 DEF Fields, Slice, Seqn, Out
<1>3. ASSUME NEW i \in 1..n PROVE p[i] \in Made(it, f + n)
  <2>1. p[i] \in Outs
    BY <1>1, ElementOfSeq
  <2>2. p[i].of = it.of /\ p[i].k = it.k /\ p[i].n = All(it) /\ p[i].i = f + i
    BY <1>1 DEF Piece
  <2>3. f + i <= f + n
    OBVIOUS
  <2> QED  BY <1>2, <2>1, <2>2, <2>3 DEF Made
<1> QED  BY <1>1, <1>3 DEF Parts

LEMMA BodyMade ==
  ASSUME ReaderTypeOK, script.ws \in BOOLEAN, NEW it, ItemOK(it)
  PROVE  BodyOf(it) \in Seq(Outs) /\ Parts(BodyOf(it)) \subseteq Made(it, All(it))
<1> HIDE DEF Outs
<1>1. PICK f \in Nat, n \in Nat, m \in Nat :
        f = FramedBy(it) + HeadOf(it) /\ n = it.body.n /\ m = All(it) /\ m = f + n
  BY AllOf
<1>2. PICK p \in Seq(Outs) : p = BodyOf(it) /\ Len(p) = n /\ Piece(p, it.of, it.k, m, f)
  <2>1. Piece(BodyOf(it), it.of, it.k, m, f) /\ Len(BodyOf(it)) = n
    BY <1>1, BodyPiece
  <2> QED  BY <2>1 DEF Piece
<1>3. \A i \in 1..n : p[i].c = Contents(it.body)[i]
  BY <1>1, <1>2 DEF BodyOf, Slice, Seqn, Out
<1>4. ASSUME NEW i \in 1..n PROVE p[i] \in Made(it, m)
  <2>1. p[i] \in Outs
    BY <1>2, ElementOfSeq
  <2>2. p[i].of = it.of /\ p[i].k = it.k /\ p[i].n = m /\ p[i].i = f + i
    BY <1>2 DEF Piece
  <2>3. f + i <= m
    BY <1>1
  <2> QED  BY <1>1, <1>3, <2>1, <2>2, <2>3 DEF Made
<1> QED  BY <1>1, <1>2, <1>4 DEF Parts

LEMMA PeekedAdds ==
  ASSUME ReaderTypeOK, script.ws \in BOOLEAN, NEW it, ItemOK(it), NEW s \in Writers(Outs),
         NEW f \in Nat, NEW n \in Nat, NEW m \in Nat, f + n <= m, n <= WSize,
         NEW closed \in BOOLEAN, NEW t \in Peeked(s, Fields(it, f, n), closed)
  PROVE  Adds(s, t, Made(it, m), closed)
<1> HIDE DEF Outs
<1>1. PICK p \in Seq(Outs) : p = Fields(it, f, n) /\ Len(p) = n /\ Parts(p) \subseteq Made(it, m)
  <2>1. Fields(it, f, n) \in Seq(Outs) /\ Parts(Fields(it, f, n)) \subseteq Made(it, f + n)
    BY FieldsMade
  <2>2. Len(Fields(it, f, n)) = n
    BY FieldsPiece
  <2>3. f + n \in Nat
    OBVIOUS
  <2>4. Made(it, f + n) \subseteq Made(it, m)
    BY <2>3, MadeGrows
  <2> QED  BY <2>1, <2>2, <2>4
<1> QED  BY <1>1, PieceAdds

LEMMA HeaderAdds ==
  ASSUME ReaderTypeOK, script.ws = TRUE, NEW it, ItemOK(it), wr \in Writers(Outs),
         open \in BOOLEAN, NEW t \in WriteHeader(it)
  PROVE  Adds(wr, t, Made(it, FramedBy(it)), ~open)
<1> HIDE DEF Outs
<1>1. PICK s \in Peeked(wr, Fields(it, 0, 1), ~open) :
        t \in Peeked(s, Fields(it, 1, Ext(Length(it))), ~open)
  BY DEF WriteHeader
<1>2. PICK e \in Nat, m \in Nat : e = Ext(Length(it)) /\ e <= WSize /\ m = FramedBy(it) /\ m = 1 + e
  BY ItemSizes
<1>3. (~open) \in BOOLEAN /\ 0 + 1 <= m /\ 1 + e <= m /\ 1 <= WSize
  BY <1>2, WSizeFacts
<1>4. Adds(wr, s, Made(it, m), ~open)
  BY <1>1, <1>3, PeekedAdds
<1>5. s \in Writers(Outs)
  BY <1>4 DEF Adds
<1>6. Adds(s, t, Made(it, m), ~open)
  BY <1>1, <1>2, <1>3, <1>5, PeekedAdds
<1>7. Adds(wr, t, Made(it, m), ~open)
  BY <1>4, <1>6, AddsThen
<1> QED  BY <1>2, <1>7

LEMMA HeadAdds ==
  ASSUME ReaderTypeOK, script.ws \in BOOLEAN, NEW it, ItemOK(it), NEW s \in Writers(Outs),
         open \in BOOLEAN, NEW t \in WriteHead(s, it)
  PROVE  Adds(s, t, Made(it, FramedBy(it) + HeadOf(it)), ~open)
<1> HIDE DEF Outs
<1>1. t \in Peeked(s, Fields(it, FramedBy(it), HeadOf(it)), ~open)
  BY DEF WriteHead
<1>2. PICK f \in Nat, n \in Nat, m \in Nat : f = FramedBy(it) /\ n = HeadOf(it) /\ n <= WSize /\ m = f + n
  BY AllOf, ItemSizes
<1>3. (~open) \in BOOLEAN /\ f + n <= m
  BY <1>2
<1>4. Adds(s, t, Made(it, m), ~open)
  BY <1>1, <1>2, <1>3, PeekedAdds
<1> QED  BY <1>2, <1>4

LEMMA BodyAdds ==
  ASSUME ReaderTypeOK, script.ws \in BOOLEAN, NEW it, ItemOK(it), NEW s \in Writers(Outs),
         open \in BOOLEAN,
         NEW t, t \in Written(s, BodyOf(it), ~open) \/ t \in WrittenRaw(s, BodyOf(it), ~open)
  PROVE  Adds(s, t, Made(it, All(it)), ~open)
<1> HIDE DEF Outs
<1>1. PICK p \in Seq(Outs) : p = BodyOf(it) /\ Parts(p) \subseteq Made(it, All(it))
  BY BodyMade
<1>2. (~open) \in BOOLEAN
  OBVIOUS
<1> QED  BY <1>1, <1>2, PieceAdds

\* How many cells of its item the dispatcher has written once a write is over.
Far == CASE dpc = "frame" -> FramedBy(item)
         [] dpc = "head" -> FramedBy(item) + HeadOf(item)
         [] OTHER -> All(item)

LEMMA WriteAdds ==
  ASSUME StreamInv, ControlInv, DispatchInv, wr \in Writers(Outs), Write
  PROVE  ItemOK(item) /\ dpc \in Writing /\ Adds(wr, wr', Made(item, Far), ~open)
<1>1. dpc \in Writing /\ ItemOK(item) /\ script.ws \in BOOLEAN /\ open \in BOOLEAN /\ ReaderTypeOK
  BY DEF Write, Writing, DispatchInv, ControlInv, StreamInv, WindowInv
<1>2. dpc = "frame" => script.ws = TRUE
  <2>1. item.body.n \in Nat
    BY <1>1, ItemSizes
  <2> QED  BY <1>1, <2>1, WritesSay DEF DispatchInv
<1> HIDE DEF Outs, ItemOK
<1>3. CASE dpc = "frame" /\ wr' \in WriteHeader(item)
  <2>1. Adds(wr, wr', Made(item, FramedBy(item)), ~open)
    BY <1>1, <1>2, <1>3, HeaderAdds
  <2> QED  BY <1>1, <1>3, <2>1 DEF Far
<1>4. CASE dpc = "head" /\ wr' \in WriteHead(wr, item)
  <2>1. Adds(wr, wr', Made(item, FramedBy(item) + HeadOf(item)), ~open)
    BY <1>1, <1>4, HeadAdds
  <2> QED  BY <1>1, <1>4, <2>1 DEF Far
<1>5. CASE dpc = "body" /\ wr' \in Written(wr, BodyOf(item), ~open)
  <2>1. Adds(wr, wr', Made(item, All(item)), ~open)
    BY <1>1, <1>5, BodyAdds
  <2> QED  BY <1>1, <1>5, <2>1 DEF Far
<1>6. CASE dpc = "raw" /\ wr' \in WrittenRaw(wr, BodyOf(item), ~open)
  <2>1. Adds(wr, wr', Made(item, All(item)), ~open)
    BY <1>1, <1>6, BodyAdds
  <2> QED  BY <1>1, <1>6, <2>1 DEF Far
<1> QED  BY <1>1, <1>3, <1>4, <1>5, <1>6 DEF Write, WriteBody

Elsewise == {o \in Outs : o.of # "reply"}

LEMMA MadeElsewise ==
  ASSUME NEW it, it.of # "reply", NEW m
  PROVE  Made(it, m) \subseteq Elsewise
<1> HIDE DEF Outs
<1> QED  BY DEF Made, Elsewise

LEMMA PongAdds ==
  ASSUME StreamInv, ControlInv, MessageInv, wr \in Writers(Outs), WritePong
  PROVE  Adds(wr, wr', Elsewise, ~open)
<1>1. pc \in {"pong", "pongbody"} /\ script.ws = TRUE /\ open \in BOOLEAN /\ ReaderTypeOK
  BY DEF WritePong, ControlInv, Framing, StreamInv, WindowInv
<1>2. ItemOK(Pong) /\ Pong.of = "pong"
  BY <1>1, PongIsItem
<1> HIDE DEF Outs, ItemOK
<1>3. \A m : Made(Pong, m) \subseteq Elsewise
  BY <1>2, MadeElsewise
<1>4. CASE pc = "pong" /\ wr' \in WriteHeader(Pong)
  <2>1. Adds(wr, wr', Made(Pong, FramedBy(Pong)), ~open)
    BY <1>1, <1>2, <1>4, HeaderAdds
  <2> QED  BY <1>3, <2>1 DEF Adds
<1>5. CASE pc = "pongbody" /\ wr' \in Written(wr, BodyOf(Pong), ~open)
  <2>1. Adds(wr, wr', Made(Pong, All(Pong)), ~open)
    BY <1>1, <1>2, <1>5, BodyAdds
  <2> QED  BY <1>3, <2>1 DEF Adds
<1> QED  BY <1>4, <1>5 DEF WritePong

LEMMA UpgradeAdds ==
  ASSUME wr \in Writers(Outs), open \in BOOLEAN, Upgrade, script.upgrade
  PROVE  Adds(wr, wr', Elsewise, ~open)
<1> HIDE DEF Outs
<1>1. PICK t \in Strung(wr, Response(1), ~open) :
        \E s \in Strung(t, Response(2), ~open) : wr' \in Flushed(s, ~open)
  BY DEF Upgrade
<1>2. PICK s \in Strung(t, Response(2), ~open) : wr' \in Flushed(s, ~open)
  BY <1>1
<1>3. ASSUME NEW n \in {1, 2}
      PROVE  Response(n) \in Seq(Outs) /\ Parts(Response(n)) \subseteq Elsewise
  <2>1. PICK p : p = Response(n)
    OBVIOUS
  <2>2. p \in Seq(Outs) /\ \A i \in 1..Len(p) : p[i].of = "upgrade"
    BY <2>1, ResponsePiece DEF Piece
  <2>3. \A i \in 1..Len(p) : p[i] \in Outs
    BY <2>2, ElementOfSeq
  <2> QED  BY <2>1, <2>2, <2>3 DEF Parts, Elsewise
<1>4. (~open) \in BOOLEAN
  OBVIOUS
<1>5. Adds(wr, t, Elsewise, ~open)
  <2>1. PICK p \in Seq(Outs) : p = Response(1) /\ Parts(p) \subseteq Elsewise
    BY <1>3
  <2> QED  BY <1>1, <1>4, <2>1, PieceAdds
<1>6. t \in Writers(Outs)
  BY <1>5 DEF Adds
<1>7. Adds(t, s, Elsewise, ~open)
  <2>1. PICK p \in Seq(Outs) : p = Response(2) /\ Parts(p) \subseteq Elsewise
    BY <1>3
  <2> QED  BY <1>2, <1>4, <1>6, <2>1, PieceAdds
<1>8. s \in Writers(Outs) /\ Adds(wr, s, Elsewise, ~open)
  <2>1. s \in Writers(Outs)
    BY <1>7 DEF Adds
  <2> QED  BY <1>5, <1>7, <2>1, AddsThen
<1>9. Adds(s, wr', Elsewise, ~open)
  BY <1>2, <1>4, <1>8, FlushAdds
<1> QED  BY <1>8, <1>9, AddsThen

\* The cells of a reply to packet k without a body.
Plain(k) == {o \in Outs : o.of = "reply" /\ o.k = k /\ o.c = Clear}

LEMMA AuthReplyAdds ==
  ASSUME StreamInv, ControlInv, MessageInv, wr \in Writers(Outs), AuthReply
  PROVE  Adds(wr, wr', Plain(proto.k), ~open)
<1>1. open \in BOOLEAN /\ (~open) \in BOOLEAN /\ script.ws \in BOOLEAN /\ ReaderTypeOK
  BY DEF ControlInv, StreamInv, WindowInv
<1> HIDE DEF Outs
<1> DEFINE it == [Reply(proto) EXCEPT !.body = Nil]
<1>2. it = [of |-> "reply", k |-> proto.k, heart |-> proto.op = "beat", body |-> Nil]
  BY DEF Reply
<1>3. PICK s \in UNION {WriteHead(t, it) : t \in IF script.ws THEN WriteHeader(it) ELSE {wr}} :
        wr' \in Flushed(s, ~open)
  BY DEF AuthReply
<1> HIDE DEF it
<1>4. ItemOK(it) /\ it.body.n = 0 /\ it.of = "reply" /\ it.k = proto.k
  <2>1. BodyOK(Nil) /\ Nil.n = 0
    BY NilIsBody
  <2> QED  BY <1>2, <2>1 DEF ItemOK, MessageInv
<1> HIDE DEF ItemOK
<1>5. \A m : Made(it, m) \subseteq Plain(proto.k)
  <2>1. 1..0 = {}
    OBVIOUS
  <2> QED  BY <1>4, <2>1 DEF Made, Plain
<1>6. PICK t \in IF script.ws THEN WriteHeader(it) ELSE {wr} : s \in WriteHead(t, it)
  BY <1>3
<1>7. t \in Writers(Outs) /\ Adds(wr, t, Plain(proto.k), ~open)
  <2>1. CASE script.ws = TRUE
    <3>1. Adds(wr, t, Made(it, FramedBy(it)), ~open)
      BY <1>1, <1>4, <1>6, <2>1, HeaderAdds
    <3> QED  BY <1>5, <3>1 DEF Adds
  <2>2. CASE script.ws = FALSE
    <3>1. t = wr
      BY <1>6, <2>2
    <3>2. Keeps(wr, wr, ~open)
      BY <1>1, SameKeeps
    <3> QED  BY <3>1, <3>2 DEF Adds
  <2> QED  BY <1>1, <2>1, <2>2
<1>8. Adds(t, s, Plain(proto.k), ~open)
  <2>1. Adds(t, s, Made(it, FramedBy(it) + HeadOf(it)), ~open)
    BY <1>1, <1>4, <1>6, <1>7, HeadAdds
  <2> QED  BY <1>5, <2>1 DEF Adds
<1>9. s \in Writers(Outs) /\ Adds(wr, s, Plain(proto.k), ~open)
  <2>1. s \in Writers(Outs)
    BY <1>8 DEF Adds
  <2> QED  BY <1>7, <1>8, <2>1, AddsThen
<1>10. Adds(s, wr', Plain(proto.k), ~open)
  BY <1>1, <1>3, <1>9, FlushAdds
<1> QED  BY <1>9, <1>10, AddsThen

\* The cells of a reply that a step adds.
Fresh ==
    CASE AuthReply -> Plain(proto.k)
      [] Write /\ ~AuthReply -> IF item.of = "reply" THEN Made(item, Far) ELSE {}
      [] OTHER -> {}

LEMMA WriterAdds ==
  ASSUME StreamInv, ControlInv, MessageInv, DispatchInv, wr \in Writers(Outs), [Next]_vars
  PROVE  Adds(wr, wr', Fresh \cup Elsewise, ~open)
<1>0. open \in BOOLEAN
  BY DEF ControlInv
<1> HIDE DEF Outs
<1>1. CASE UNCHANGED wr
  <2>1. Keeps(wr, wr, ~open)
    BY SameKeeps
  <2> QED  BY <1>1, <2>1 DEF Adds
<1>2. CASE AuthReply
  <2>1. Adds(wr, wr', Plain(proto.k), ~open)
    BY <1>2, AuthReplyAdds
  <2>2. Fresh = Plain(proto.k)
    BY <1>2 DEF Fresh
  <2> QED  BY <2>1, <2>2 DEF Adds
<1>3. CASE Upgrade /\ script.upgrade
  <2>1. Adds(wr, wr', Elsewise, ~open)
    BY <1>0, <1>3, UpgradeAdds
  <2> QED  BY <2>1 DEF Adds
<1>4. CASE WritePong
  <2>1. Adds(wr, wr', Elsewise, ~open)
    BY <1>4, PongAdds
  <2> QED  BY <2>1 DEF Adds
<1>5. CASE Write /\ ~AuthReply
  <2>1. Adds(wr, wr', Made(item, Far), ~open)
    BY <1>5, WriteAdds
  <2>2. Made(item, Far) \subseteq Fresh \cup Elsewise
    <3>1. CASE item.of = "reply"
      BY <1>5, <3>1 DEF Fresh
    <3>2. CASE item.of # "reply"
      BY <3>2, MadeElsewise
    <3> QED  BY <3>1, <3>2
  <2> QED  BY <2>1, <2>2 DEF Adds
<1>6. CASE Flush
  <2>1. wr' \in Flushed(wr, ~open) /\ (~open) \in BOOLEAN
    BY <1>0, <1>6 DEF Flush
  <2> QED  BY <2>1, FlushAdds
<1> QED  BY <1>1, <1>2, <1>3, <1>4, <1>5, <1>6, WriterMoves

\* The last cell of a reply is written with its last write, and its slot freed.
LEMMA LastIsDone ==
  ASSUME StreamInv, ControlInv, DispatchInv, wr \in Writers(Outs), Write, item.of = "reply", ~wr'.err,
         NEW o \in Made(item, Far), o.i = o.n
  PROVE  slots' = Tail(slots) /\ dpc' = "get"
<1>1. ItemOK(item) /\ dpc \in Writing /\ script.ws \in BOOLEAN /\ ReaderTypeOK
  BY WriteAdds DEF ControlInv, StreamInv, WindowInv
<1> HIDE DEF Outs
<1>2. PICK f \in Nat, h \in Nat, b \in Nat :
        /\ f = FramedBy(item) /\ h = HeadOf(item) /\ b = item.body.n /\ All(item) = (f + h) + b
  BY <1>1, AllOf
<1>3. h > 0
  <2>1. H \in Nat \ {0}
    BY WireAssumption
  <2> QED  BY <1>2, <2>1 DEF HeadOf
<1>4. All(item) <= Far
  BY DEF Made
<1>5. PICK j \in 1..Len(Writes(item)) : Writes(item)[j] = dpc
  BY <1>1 DEF DispatchInv
<1>6. /\ dpc = "frame" => FALSE
      /\ dpc = "head" => b = 0
  BY <1>2, <1>3, <1>4 DEF Far
<1>7. /\ DOMAIN Writes(item) = 1..Len(Writes(item)) /\ Len(Writes(item)) \in Nat
      /\ \A i \in 1..Len(Writes(item)) : Writes(item)[i] = dpc => i = Len(Writes(item))
  <2>1. PICK ws : ws = Writes(item)
    OBVIOUS
  <2>2. \/ b = 0 /\ (ws = <<"frame", "head">> \/ ws = <<"head">>)
        \/ b > 0 /\ (ws = <<"frame", "head", "body">> \/ ws = <<"head", "body">>)
    BY <1>2, <1>3, <2>1 DEF Writes, WriteWebsocket, WriteTCP
  <2>3. CASE ws = <<"frame", "head">>
    BY <1>6, <2>1, <2>3
  <2>4. CASE ws = <<"head">>
    BY <1>6, <2>1, <2>4
  <2>5. CASE b > 0 /\ ws = <<"frame", "head", "body">>
    <3>1. dpc # "frame" /\ dpc # "head"
      BY <1>6, <2>5
    <3> QED  BY <2>1, <2>5, <3>1
  <2>6. CASE b > 0 /\ ws = <<"head", "body">>
    <3>1. dpc # "frame" /\ dpc # "head"
      BY <1>6, <2>6
    <3> QED  BY <2>1, <2>6, <3>1
  <2> QED  BY <2>2, <2>3, <2>4, <2>5, <2>6
<1>8. (CHOOSE i \in DOMAIN Writes(item) : Writes(item)[i] = dpc) = Len(Writes(item))
  <2>1. \E i \in DOMAIN Writes(item) : Writes(item)[i] = dpc
    BY <1>5, <1>7
  <2> QED  BY <1>7, <2>1
<1>9. Done
  <2> DEFINE i == CHOOSE k \in DOMAIN Writes(item) : Writes(item)[k] = dpc
  <2>1. i = Len(Writes(item)) /\ Len(Writes(item)) \in Nat
    BY <1>7, <1>8
  <2> HIDE DEF i
  <2>2. (CASE wr'.err -> DGoto("shut") /\ UNCHANGED slots
           [] ~wr'.err /\ i < Len(Writes(item)) -> DGoto(Writes(item)[i + 1]) /\ UNCHANGED slots
           [] OTHER -> Done)
    BY DEF Write, i
  <2> QED  BY <2>1, <2>2
<1> QED  BY <1>9 DEF Done, DGoto

-----------------------------------------------------------------------------
(* A write that fails does not bring the last cell of its item *)

\* Less arrives than was buffered and n cells.
FallsShort(s, n, t) == ~s.err /\ t.err => Len(t.to) < (Len(s.to) + Len(s.buf)) + n

LEMMA FewerArrive ==
  ASSUME NEW S, NEW o \in Seq(S), NEW q \in Seq(S), NEW n \in 0..Len(q)-1
  PROVE  Len(o \o First(q, n)) = Len(o) + n /\ n < Len(q)
<1>1. n \in 0..Len(q) /\ n < Len(q) /\ Len(q) \in Nat
  OBVIOUS
<1>2. PICK f \in Seq(S) : f = First(q, n) /\ Len(f) = n
  BY <1>1, FirstCells
<1> QED  BY <1>1, <1>2

LEMMA DirectShort ==
  ASSUME NEW S, NEW s \in Writers(S), NEW p \in Seq(S), NEW t \in Direct(s, p, FALSE)
  PROVE  FallsShort(s, Len(p), t)
<1>1. PICK b \in Seq(S), o \in Seq(S) : s.buf = b /\ s.to = o
  BY WriterParts
<1>2. s \in [buf : Seq(S), err : BOOLEAN, to : Seq(S)]
  BY DEF Writers
<1>3. CASE t = [s EXCEPT !.to = @ \o p]
  BY <1>2, <1>3 DEF FallsShort
<1>4. ASSUME NEW n \in Cuts(Len(p), FALSE), t = [s EXCEPT !.to = @ \o First(p, n), !.err = TRUE]
      PROVE  Len(t.to) < (Len(s.to) + Len(s.buf)) + Len(p)
  <2>1. n \in 0..Len(p)-1
    BY <1>4 DEF Cuts
  <2>2. t.to = o \o First(p, n)
    BY <1>1, <1>2, <1>4
  <2>3. Len(t.to) = Len(o) + n /\ n < Len(p)
    BY <2>1, <2>2, FewerArrive
  <2> QED  BY <1>1, <2>1, <2>3
<1> QED  BY <1>3, <1>4 DEF Direct, FallsShort

LEMMA FlushedShort ==
  ASSUME NEW S, NEW s \in Writers(S), NEW t \in Flushed(s, FALSE)
  PROVE  FallsShort(s, 0, t)
<1>1. PICK b \in Seq(S), o \in Seq(S) : s.buf = b /\ s.to = o
  BY WriterParts
<1>2. s \in [buf : Seq(S), err : BOOLEAN, to : Seq(S)]
  BY DEF Writers
<1>3. CASE t = s \/ t = [s EXCEPT !.buf = <<>>, !.to = @ \o s.buf]
  BY <1>2, <1>3 DEF FallsShort
<1>4. ASSUME NEW n \in Cuts(Len(s.buf), FALSE),
             t = [buf |-> After(s.buf, n), err |-> TRUE, to |-> s.to \o First(s.buf, n)]
      PROVE  Len(t.to) < (Len(s.to) + Len(s.buf)) + 0
  <2>1. n \in 0..Len(b)-1
    BY <1>1, <1>4 DEF Cuts
  <2>2. t.to = o \o First(b, n)
    BY <1>1, <1>4
  <2>3. Len(t.to) = Len(o) + n /\ n < Len(b)
    BY <2>1, <2>2, FewerArrive
  <2> QED  BY <1>1, <2>1, <2>3
<1> QED  BY <1>3, <1>4 DEF Flushed, FallsShort

LEMMA PeekedShort ==
  ASSUME NEW S, NEW s \in Writers(S), NEW p \in Seq(S), NEW t \in Peeked(s, p, FALSE)
  PROVE  FallsShort(s, Len(p), t)
<1> SUFFICES ASSUME ~s.err, t.err PROVE Len(t.to) < (Len(s.to) + Len(s.buf)) + Len(p)
  BY DEF FallsShort
<1>1. PICK u \in (IF s.err \/ Len(p) <= Available(s) THEN {s} ELSE Flushed(s, FALSE)) : t = Stored(u, p)
  BY DEF Peeked
<1>2. u \in Writers(S) /\ FallsShort(s, 0, u)
  <2>1. CASE u = s
    BY <2>1 DEF FallsShort
  <2>2. CASE u \in Flushed(s, FALSE)
    BY <2>2, FlushedPuts, FlushedShort
  <2> QED  BY <1>1, <2>1, <2>2
<1>3. u.err /\ t = u
  BY <1>1, <1>2 DEF Stored, Writers
<1>4. Len(t.to) < (Len(s.to) + Len(s.buf)) + 0
  BY <1>2, <1>3 DEF FallsShort
<1>5. PICK a \in Nat, b \in Nat : a = Len(s.to) /\ b = Len(s.buf)
  BY WriterFacts
<1>6. PICK c \in Nat : c = Len(t.to)
  BY <1>2, <1>3, WriterFacts
<1>7. PICK d \in Nat : d = Len(p)
  OBVIOUS
<1>8. c < (a + b) + 0
  BY <1>4, <1>5, <1>6
<1>9. c < (a + b) + d
  BY <1>8
<1> QED  BY <1>5, <1>6, <1>7, <1>9

LEMMA WrittenShort ==
  ASSUME NEW S, NEW s \in Writers(S), NEW p \in Seq(S), NEW t \in Written(s, p, FALSE)
  PROVE  FallsShort(s, Len(p), t)
<1> SUFFICES ASSUME ~s.err, t.err PROVE Len(t.to) < (Len(s.to) + Len(s.buf)) + Len(p)
  BY DEF FallsShort
<1>1. CASE t = Stored(s, p)
  BY <1>1 DEF Stored, Writers
<1>2. CASE t \in Direct(s, p, FALSE)
  BY <1>2, DirectShort DEF FallsShort
<1>3. CASE ~(Len(p) <= Available(s)) /\ t \in UNION {Rest(v, After(p, Available(s)), FALSE) :
                    v \in Flushed(Stored(s, First(p, Available(s))), FALSE)}
  <2>1. PICK a \in Nat : a = Available(s) /\ a < Len(p) /\ Len(p) \in Nat /\ a \in 0..Len(p)
    BY <1>3, WriterFacts
  <2>2. PICK f \in Seq(S), g \in Seq(S) :
          f = First(p, a) /\ g = After(p, a) /\ Len(f) = a /\ Len(g) = Len(p) - a
    <3>1. a \in 0..Len(p)
      BY <2>1
    <3>2. /\ First(p, a) \in Seq(S) /\ Len(First(p, a)) = a
          /\ After(p, a) \in Seq(S) /\ Len(After(p, a)) = Len(p) - a
      BY <3>1, FirstCells
    <3> QED  BY <3>2
  <2>3. PICK v \in Flushed(Stored(s, f), FALSE) : t \in Rest(v, g, FALSE)
    BY <1>3, <2>1, <2>2
  <2>4. PICK q : q = Stored(s, f)
    OBVIOUS
  <2>5. q \in Writers(S)
    BY <2>1, <2>2, <2>4, StoredPuts
  <2>6. ~q.err /\ q.to = s.to /\ q.buf = s.buf \o f
    BY <2>4 DEF Stored, Writers
  <2>7. PICK b \in Seq(S), o \in Seq(S) : s.buf = b /\ s.to = o
    BY WriterParts
  <2>8. Len(q.to) = Len(o) /\ Len(q.buf) = Len(b) + a
    <3>1. q.buf = b \o f /\ q.to = o
      BY <2>6, <2>7
    <3>2. Len(b \o f) = Len(b) + Len(f)
      OBVIOUS
    <3> QED  BY <2>2, <3>1, <3>2
  <2>9. v \in Writers(S) /\ FallsShort(q, 0, v)
    BY <2>3, <2>4, <2>5, FlushedPuts, FlushedShort
  <2>10. CASE v.err
    <3>1. t = v
      BY <2>3, <2>10 DEF Rest, Stored
    <3>2. Len(t.to) < (Len(q.to) + Len(q.buf)) + 0
      BY <2>6, <2>9, <2>10, <3>1 DEF FallsShort
    <3>3. Len(t.to) \in Nat /\ Len(o) \in Nat /\ Len(b) \in Nat
      BY <2>7, <2>9, <3>1, WriterFacts
    <3> QED  BY <2>1, <2>7, <2>8, <3>2, <3>3
  <2>11. CASE ~v.err
    <3>1. t \in Direct(v, g, FALSE)
      <4>1. t = Stored(v, g) \/ t \in Direct(v, g, FALSE)
        BY <2>3 DEF Rest
      <4>2. v \in [buf : Seq(S), err : BOOLEAN, to : Seq(S)]
        BY <2>9 DEF Writers
      <4>3. t # Stored(v, g)
        BY <2>11, <4>2 DEF Stored
      <4> QED  BY <4>1, <4>3
    <3>2. Len(t.to) < (Len(v.to) + Len(v.buf)) + Len(g)
      BY <2>9, <2>11, <3>1, DirectShort DEF FallsShort
    <3>3. (v.to = q.to \o q.buf /\ v.buf = <<>>) \/ (v = q /\ q.buf = <<>>)
      <4>1. q \in [buf : Seq(S), err : BOOLEAN, to : Seq(S)]
        BY <2>5 DEF Writers
      <4>2. v \in Flushed(q, FALSE)
        BY <2>3, <2>4
      <4>3. CASE q.buf = <<>>
        BY <2>6, <4>2, <4>3 DEF Flushed
      <4>4. CASE q.buf # <<>>
        <5>1. \/ v = [q EXCEPT !.buf = <<>>, !.to = @ \o q.buf]
              \/ \E n \in Cuts(Len(q.buf), FALSE) :
                    v = [buf |-> After(q.buf, n), err |-> TRUE, to |-> q.to \o First(q.buf, n)]
          BY <2>6, <4>2, <4>4 DEF Flushed
        <5>2. ASSUME NEW n, v = [buf |-> After(q.buf, n), err |-> TRUE, to |-> q.to \o First(q.buf, n)]
              PROVE  v.err
          BY <5>2
        <5> QED  BY <2>11, <4>1, <5>1, <5>2
      <4> QED  BY <4>3, <4>4
    <3>4. Len(v.to) + Len(v.buf) = Len(o) + (Len(b) + a)
      <4>1. PICK x \in Seq(S), y \in Seq(S) : q.to = x /\ q.buf = y
        BY <2>5, WriterParts
      <4>2. Len(x \o y) = Len(x) + Len(y) /\ Len(x) \in Nat /\ Len(y) \in Nat /\ Len(<<>>) = 0
        OBVIOUS
      <4>3. CASE v.to = q.to \o q.buf /\ v.buf = <<>>
        <5>1. v.to = x \o y /\ Len(v.buf) = 0
          BY <4>1, <4>2, <4>3
        <5>2. Len(x) = Len(o) /\ Len(y) = Len(b) + a
          BY <2>8, <4>1
        <5>3. Len(v.to) = Len(x) + Len(y)
          BY <4>2, <5>1
        <5> QED  BY <5>1, <5>2, <5>3
      <4>4. CASE v = q /\ q.buf = <<>>
        BY <2>8, <4>4
      <4> QED  BY <3>3, <4>3, <4>4
    <3>5. Len(o) \in Nat /\ Len(b) \in Nat /\ Len(t.to) \in Nat
      <4>1. t \in Writers(S)
        BY WrittenPuts
      <4> QED  BY <2>7, <4>1, WriterFacts
    <3>6. Len(t.to) < (Len(o) + (Len(b) + a)) + (Len(p) - a)
      BY <2>2, <3>2, <3>4
    <3> HIDE DEF Rest
    <3> QED  BY <2>1, <2>7, <3>5, <3>6
  <2> QED  BY <2>10, <2>11
<1> QED  BY <1>1, <1>2, <1>3 DEF Written

LEMMA WrittenRawShort ==
  ASSUME NEW S, NEW s \in Writers(S), NEW p \in Seq(S), NEW t \in WrittenRaw(s, p, FALSE)
  PROVE  FallsShort(s, Len(p), t)
<1>1. s.err \/ t \in Direct(s, p, FALSE) \/ t \in Written(s, p, FALSE)
  BY DEF WrittenRaw
<1> QED  BY <1>1, DirectShort, WrittenShort DEF FallsShort

LEMMA ShortParts ==
  ASSUME NEW S, NEW s \in Writers(S), NEW t \in Writers(S), NEW p \in Seq(S), Puts(s, p, t),
         FallsShort(s, Len(p), t), ~s.err, t.err, NEW o \in Parts(Sofar(t))
  PROVE  o \in Parts(Sofar(s)) \/ \E i \in 1..Len(p)-1 : o = p[i]
<1>1. PICK a \in Seq(S), b \in Seq(S) : a = Sofar(s) /\ b = Sofar(t)
  BY WriterFacts
<1>2. Starts(b, a \o p)
  BY <1>1 DEF Puts
<1>3. /\ Len(a \o p) = Len(a) + Len(p)
      /\ \A i \in 1..Len(a)+Len(p) : (a \o p)[i] = IF i <= Len(a) THEN a[i] ELSE p[i - Len(a)]
  BY ConcatProperties
<1>4. Len(b) < Len(a) + Len(p)
  <2>1. PICK c \in Seq(S), d \in Seq(S) : s.buf = c /\ s.to = d /\ a = d \o c
    BY <1>1, WriterParts
  <2>2. Len(a) = Len(d) + Len(c)
    BY <2>1
  <2>3. b = t.to
    BY <1>1 DEF Sofar
  <2> QED  BY <2>1, <2>2, <2>3 DEF FallsShort
<1>5. PICK j \in 1..Len(b) : o = b[j]
  BY <1>1 DEF Parts
<1>6. Len(a) \in Nat /\ Len(b) \in Nat /\ Len(p) \in Nat
  BY <1>1
<1>7. j \in 1..Len(a)+Len(p) /\ b[j] = (a \o p)[j]
  BY <1>2, <1>4, <1>5, <1>6 DEF Starts
<1>8. CASE j <= Len(a)
  <2>1. j \in 1..Len(a) /\ o = a[j]
    BY <1>3, <1>5, <1>6, <1>7, <1>8
  <2> QED  BY <1>1, <2>1 DEF Parts
<1>9. CASE ~(j <= Len(a))
  <2>1. j - Len(a) \in 1..Len(p)-1 /\ o = p[j - Len(a)]
    BY <1>3, <1>4, <1>5, <1>6, <1>7, <1>9
  <2> QED  BY <2>1
<1> QED  BY <1>8, <1>9

\* The cells of an item up to its end, but for the last one.
LEMMA EndsLater ==
  ASSUME NEW p, NEW x, NEW k, NEW m \in Nat, NEW f \in Nat, Piece(p, x, k, m, f), m = f + Len(p),
         NEW i \in 1..Len(p)-1
  PROVE  p[i].i # p[i].n
<1>1. Len(p) \in Nat
  <2> HIDE DEF Outs
  <2> QED  BY DEF Piece
<1>2. i \in 1..Len(p) /\ i < Len(p)
  BY <1>1
<1>3. p[i].n = m /\ p[i].i = f + i
  <2> HIDE DEF Outs
  <2> QED  BY <1>2 DEF Piece
<1> QED  BY <1>1, <1>2, <1>3

LEMMA FailsBefore ==
  ASSUME StreamInv, ControlInv, DispatchInv, wr \in Writers(Outs), Write, item.of = "reply", open,
         ~wr.err, wr'.err, NEW o \in Parts(Sofar(wr')), o.i = o.n
  PROVE  o \in Parts(Sofar(wr))
<1>1. ItemOK(item) /\ dpc \in Writing /\ script.ws \in BOOLEAN /\ ReaderTypeOK /\ (~open) = FALSE
      /\ wr' \in Writers(Outs)
  BY WriteAdds DEF ControlInv, StreamInv, WindowInv, Adds
<1> HIDE DEF Outs
<1>2. PICK f \in Nat, h \in Nat, b \in Nat :
        /\ f = FramedBy(item) /\ h = HeadOf(item) /\ b = item.body.n /\ All(item) = (f + h) + b
        /\ h <= WSize
  BY <1>1, AllOf, ItemSizes
<1>3. h > 0
  <2>1. H \in Nat \ {0}
    BY WireAssumption
  <2> QED  BY <1>2, <2>1 DEF HeadOf
<1>4. ASSUME NEW p \in Seq(Outs), NEW g \in Nat, Piece(p, item.of, item.k, All(item), g),
             All(item) = g + Len(p), Puts(wr, p, wr'), FallsShort(wr, Len(p), wr')
      PROVE  o \in Parts(Sofar(wr))
  <2>1. All(item) \in Nat
    <3>1. (f + h) + b \in Nat
      OBVIOUS
    <3> QED  BY <1>2, <3>1
  <2>2. \A i \in 1..Len(p)-1 : o # p[i]
    BY <1>4, <2>1, EndsLater
  <2> QED  BY <1>1, <1>4, <2>2, ShortParts
<1>5. CASE dpc = "head" /\ wr' \in WriteHead(wr, item) /\ o \in Made(item, Far)
  <2>1. b = 0
    <3>1. All(item) <= f + h
      BY <1>2, <1>5 DEF Made, Far
    <3> QED  BY <1>2, <3>1
  <2>2. PICK p : p = Fields(item, f, h)
    OBVIOUS
  <2>3. p \in Seq(Outs) /\ Piece(p, item.of, item.k, All(item), f) /\ Len(p) = h
    <3>1. Piece(p, item.of, item.k, All(item), f) /\ Len(p) = h
      BY <1>1, <2>2, FieldsPiece
    <3> QED  BY <3>1 DEF Piece
  <2>4. wr' \in Peeked(wr, p, FALSE)
    BY <1>1, <1>2, <1>5, <2>2 DEF WriteHead
  <2>5. Puts(wr, p, wr') /\ FallsShort(wr, Len(p), wr')
    BY <1>2, <2>3, <2>4, PeekedPuts, PeekedShort
  <2> QED  BY <1>2, <1>4, <2>1, <2>3, <2>5
<1>6. CASE wr' \in Written(wr, BodyOf(item), ~open) \/ wr' \in WrittenRaw(wr, BodyOf(item), ~open)
  <2>1. PICK p : p = BodyOf(item)
    OBVIOUS
  <2>2. PICK g \in Nat : g = f + h
    BY <1>2
  <2>3. p \in Seq(Outs) /\ Piece(p, item.of, item.k, All(item), g) /\ Len(p) = b
    BY <1>1, <1>2, <2>1, <2>2, BodyPiece DEF Piece
  <2>4. wr' \in Written(wr, p, FALSE) \/ wr' \in WrittenRaw(wr, p, FALSE)
    BY <1>1, <1>6, <2>1
  <2>5. Puts(wr, p, wr') /\ FallsShort(wr, Len(p), wr')
    BY <2>3, <2>4, WrittenPuts, WrittenRawPuts, WrittenShort, WrittenRawShort
  <2> QED  BY <1>2, <1>4, <2>2, <2>3, <2>5
<1>7. CASE o \notin Made(item, Far)
  <2>1. Parts(Sofar(wr')) \subseteq Parts(Sofar(wr)) \cup Made(item, Far)
    BY WriteAdds DEF Adds
  <2> QED  BY <1>7, <2>1
<1>8. CASE dpc = "frame" /\ o \in Made(item, Far)
  <2>1. All(item) <= f
    BY <1>2, <1>8 DEF Made, Far
  <2> QED  BY <1>2, <1>3, <2>1
<1> QED  BY <1>5, <1>6, <1>7, <1>8 DEF Write, WriteBody

-----------------------------------------------------------------------------
(* A packet that was put together was sent *)

\* Cell x of packet p is in a frame up to j.
InFrames(s, j, p, x) ==
    \E i \in 1..j : /\ Carries(s, i) /\ s.frames[i].packet = p
                    /\ s.frames[i].from < x /\ x <= s.frames[i].from + s.frames[i].n

\* The packets up to the one of frame j, and of that one what the frames gave so far.
Holding(s, j) ==
    /\ \A x \in 1..s.frames[j].from + s.frames[j].n : InFrames(s, j, s.frames[j].packet, x)
    /\ \A p \in 1..s.frames[j].packet - 1 : InFrames(s, j, p, H + s.packets[p].body)

LEMMA HoldingGoes ==
  ASSUME NEW s \in Scripts, s.ws, NEW k, NEW f \in 0..Len(s.frames), InStep(s, k, f),
         NEW j \in 1..f, Carries(s, j), \A i \in Before(s, j) : Holding(s, i)
  PROVE  Holding(s, j)
<1>1. H \in Nat \ {0} /\ Len(s.frames) \in Nat
  BY WireAssumption, ScriptFacts
<1>2. \A i \in 1..f : s.frames[i].packet \in Nat /\ s.frames[i].from \in Nat /\ s.frames[i].n \in Nat
  <2>1. ASSUME NEW i \in 1..f
        PROVE  s.frames[i].packet \in Nat /\ s.frames[i].from \in Nat /\ s.frames[i].n \in Nat
    <3>1. i \in 1..Len(s.frames)
      BY <1>1
    <3> QED  BY <3>1, ScriptFacts, FrameFacts
  <2> QED  BY <2>1
<1>3. PICK p \in Nat, o \in Nat, n \in Nat :
        p = s.frames[j].packet /\ o = s.frames[j].from /\ n = s.frames[j].n
  BY <1>2
<1>4. ASSUME NEW x \in Nat, o < x, x <= o + n PROVE InFrames(s, j, p, x)
  BY <1>3, <1>4 DEF InFrames
<1>5. ASSUME NEW i \in Before(s, j), NEW q, NEW x, InFrames(s, i, q, x) PROVE InFrames(s, j, q, x)
  <2>1. i \in 1..j-1
    BY DEF Before
  <2>2. \A h \in 1..i : h \in 1..j
    BY <2>1
  <2> QED  BY <1>5, <2>2 DEF InFrames
<1>6. CASE Before(s, j) = {} /\ Begins(s, j)
  <2>1. p = 1 /\ o = 0
    BY <1>3, <1>6 DEF Begins
  <2>2. \A x \in 1..o + n : InFrames(s, j, p, x)
    BY <1>4, <2>1
  <2>3. 1..p - 1 = {}
    BY <2>1
  <2> QED  BY <1>3, <2>2, <2>3 DEF Holding
<1>7. ASSUME NEW i \in Before(s, j), GoesOn(s, i, j) PROVE Holding(s, j)
  <2>1. i \in 1..f /\ Carries(s, i)
    BY <1>1 DEF Before
  <2>2. PICK q \in Nat, a \in Nat, m \in Nat :
          q = s.frames[i].packet /\ a = s.frames[i].from /\ m = s.frames[i].n
    BY <1>2, <2>1
  <2>3. \A x \in 1..a + m : InFrames(s, j, q, x)
    BY <1>5, <2>2 DEF Holding
  <2>4. \A d \in 1..q - 1 : InFrames(s, j, d, H + s.packets[d].body)
    BY <1>5, <2>2 DEF Holding
  <2>5. CASE s.frames[i].fin
    <3>1. p = q + 1 /\ o = 0 /\ a + m = H + s.packets[q].body
      BY <1>3, <1>7, <2>1, <2>2, <2>5 DEF GoesOn, InStep
    <3>2. \A x \in 1..o + n : InFrames(s, j, p, x)
      BY <1>4, <3>1
    <3>3. ASSUME NEW d \in 1..p - 1 PROVE InFrames(s, j, d, H + s.packets[d].body)
      <4>1. CASE d = q
        <5>1. q \in 0..Len(s.packets)
          BY <1>1, <2>1, <2>2, ScriptFacts
        <5>2. q \in 1..Len(s.packets)
          BY <4>1, <5>1
        <5>3. s.packets[q].body \in Nat
          BY <5>2, PacketFacts
        <5>4. PICK b \in Nat : b = s.packets[q].body /\ a + m = H + b
          BY <3>1, <5>3
        <5>5. H + b \in 1..H + b
          BY <1>1
        <5> QED  BY <2>3, <4>1, <5>4, <5>5
      <4>2. CASE d # q
        <5>1. d \in 1..q - 1
          BY <3>1, <4>2
        <5> QED  BY <2>4, <5>1
      <4> QED  BY <4>1, <4>2
    <3> QED  BY <1>3, <3>2, <3>3 DEF Holding
  <2>6. CASE ~s.frames[i].fin
    <3>1. p = q /\ o = a + m
      BY <1>3, <1>7, <2>2, <2>6 DEF GoesOn
    <3>2. ASSUME NEW x \in 1..o + n PROVE InFrames(s, j, p, x)
      <4>1. CASE x <= o
        BY <2>3, <3>1, <4>1
      <4>2. CASE o < x
        BY <1>4, <4>2
      <4> QED  BY <4>1, <4>2
    <3>3. \A d \in 1..p - 1 : InFrames(s, j, d, H + s.packets[d].body)
      BY <2>4, <3>1
    <3> QED  BY <1>3, <3>2, <3>3 DEF Holding
  <2> QED  BY <2>5, <2>6
<1>8. \/ Before(s, j) = {} /\ Begins(s, j)
      \/ \E i \in Before(s, j) : GoesOn(s, i, j)
  BY DEF InStep
<1> QED  BY <1>6, <1>7, <1>8

LEMMA HoldingAll ==
  ASSUME NEW s \in Scripts, s.ws, NEW k, NEW f \in 0..Len(s.frames), InStep(s, k, f),
         NEW i \in Before(s, f + 1)
  PROVE  Holding(s, i)
<1> DEFINE T == {d \in Nat : \A j \in 1..d : j <= f /\ Carries(s, j) => Holding(s, j)}
<1>0. Len(s.frames) \in Nat
  BY ScriptFacts
<1>1. 0 \in T
  OBVIOUS
<1>2. ASSUME NEW d \in Nat, d \in T PROVE d + 1 \in T
  <2>1. ASSUME NEW j \in 1..d+1, j <= f, Carries(s, j) PROVE Holding(s, j)
    <3>1. j \in 1..f
      BY <2>1
    <3>2. ASSUME NEW h \in Before(s, j) PROVE Holding(s, h)
      <4>1. h \in 1..j-1 /\ Carries(s, h)
        BY DEF Before
      <4>2. h \in 1..d /\ h <= f
        BY <2>1, <4>1
      <4> QED  BY <1>2, <4>1, <4>2
    <3> QED  BY <2>1, <3>1, <3>2, HoldingGoes
  <2> QED  BY <2>1
<1> HIDE DEF T
<1>3. \A d \in Nat : d \in T
  BY <1>1, <1>2, EveryNumber
<1>4. i \in 1..f /\ Carries(s, i)
  BY <1>0 DEF Before
<1>5. f \in T /\ i <= f /\ i \in 1..f
  BY <1>0, <1>3, <1>4
<1> QED  BY <1>4, <1>5 DEF T

\* The last cell of packet k is among the first n of the stream.
Arrived(s, k, n) == \E e \in 1..n : Uncovered(StreamOf(s)[e]) = LastCell(s, k)

LEMMA FramesArrive ==
  ASSUME NEW s \in Scripts, s.ws, NEW f \in 1..Len(s.frames), NEW k \in 1..Len(s.packets),
         InFrames(s, f, k, H + s.packets[k].body)
  PROVE  Arrived(s, k, Off(s, f + 1))
<1>1. PICK i \in 1..f : /\ s.frames[i].packet = k
                        /\ s.frames[i].from < H + s.packets[k].body
                        /\ H + s.packets[k].body <= s.frames[i].from + s.frames[i].n
  BY DEF InFrames
<1>2. Len(s.frames) \in Nat
  BY ScriptFacts
<1>3. i \in 1..Len(s.frames)
  BY <1>2
<1>4. PICK x \in Nat, e \in Nat, m \in Nat, n \in Nat, o \in Nat :
        /\ x = H + s.packets[k].body /\ e = Ext(s.frames[i].n) /\ m = Mask(s.frames[i])
        /\ n = s.frames[i].n /\ o = s.frames[i].from
  <2>1. H \in Nat /\ s.packets[k].body \in Nat
    BY WireAssumption, PacketFacts
  <2>2. H + s.packets[k].body \in Nat
    BY <2>1
  <2>3. s.frames[i].from \in Nat
    BY <1>3, FrameFacts
  <2> QED  BY <1>3, <2>2, <2>3, Sizes
<1>5. PICK y \in 1..n : o + y = x
  <2>1. o < x /\ x <= o + n
    BY <1>1, <1>4
  <2>2. x - o \in 1..n /\ o + (x - o) = x
    BY <2>1
  <2> QED  BY <2>2
<1>6. PICK c : c = Frame(s, i)[2 + e + m + y] /\ Uncovered(c) = LastCell(s, k)
  <2> DEFINE v == IF s.frames[i].masked THEN i ELSE 0
  <2>1. Frame(s, i)[2 + e + m + y] = Chunk(s.frames[i], v)[y]
    <3>1. \A d \in 1..s.frames[i].n :
            Frame(s, i)[2 + Ext(s.frames[i].n) + Mask(s.frames[i]) + d] = Chunk(s.frames[i], v)[d]
      BY <1>3, FrameCells
    <3> QED  BY <1>4, <3>1
  <2>2. Uncovered(Chunk(s.frames[i], v)[y]) = Chunk(s.frames[i], 0)[y]
    BY <1>4, ChunkCells
  <2>3. k # 0
    OBVIOUS
  <2>4. Chunk(s.frames[i], 0)[y] = PacketCell(k, x, 0)
    BY <1>1, <1>4, <1>5, <2>3 DEF Chunk, Seqn
  <2> QED  BY <1>4, <2>1, <2>2, <2>4 DEF LastCell
<1>7. /\ i + 1 \in 1..Len(Items(s)) /\ Items(s)[i + 1] = Frame(s, i) /\ (i + 1) - 1 = i
      /\ Len(Frame(s, i)) = 2 + e + m + n
  <2>1. Len(Items(s)) = 1 + Len(s.frames) /\ Items(s)[i + 1] = Frame(s, i)
    BY <1>3, FrameItems
  <2>2. Len(Frame(s, i)) = 2 + e + m + n
    BY <1>3, <1>4, FrameCells
  <2>3. PICK l \in Nat : l = Len(s.frames) /\ i \in 1..l
    BY <1>2, <1>3
  <2>4. i + 1 \in 1..1 + l /\ (i + 1) - 1 = i
    BY <2>3
  <2> QED  BY <2>1, <2>2, <2>3, <2>4
<1>8. PICK z \in Nat : z = 2 + e + m + y /\ z \in 1..2 + e + m + n
  <2>1. 2 + e + m + y \in 1..2 + e + m + n
    BY <1>5
  <2> QED  BY <2>1
<1>9. PICK b : b = Off(s, i) + z /\ StreamOf(s)[b] = c /\ b \in 1..Len(StreamOf(s))
  <2>1. PICK j \in 1..Len(Items(s)) : j = i + 1 /\ j - 1 = i /\ Items(s)[j] = Frame(s, i)
    BY <1>7
  <2>2. z \in 1..Len(Items(s)[j])
    BY <1>7, <1>8, <2>1
  <2>3. Off(s, j - 1) + z \in 1..Len(StreamOf(s)) /\ StreamOf(s)[Off(s, j - 1) + z] = Items(s)[j][z]
    BY <2>2, OffCells
  <2>4. Items(s)[j][z] = c
    BY <1>6, <1>8, <2>1
  <2> QED  BY <2>1, <2>3, <2>4
<1>10. b <= Off(s, f + 1) /\ Off(s, f + 1) \in Nat
  <2>1. Off(s, i) \in Nat /\ Off(s, i + 1) \in Nat /\ Off(s, f + 1) \in Nat
    BY <1>2, <1>3, FrameRoom
  <2>2. Off(s, i + 1) = Off(s, i) + 2 + e + m + n
    BY <1>3, <1>4, FrameRoom
  <2>3. Off(s, i + 1) <= Off(s, f + 1)
    <3>1. CASE i = f
      BY <2>1, <3>1
    <3>2. CASE i < f
      <4>1. i + 1 \in 1..Len(s.frames) + 1 /\ f + 1 \in 1..Len(s.frames) + 1 /\ i + 1 < f + 1
        BY <1>2, <3>2
      <4>2. Off(s, i + 1) < Off(s, f + 1)
        BY <4>1, FrameRoom
      <4> QED  BY <2>1, <4>2
    <3> QED  BY <3>1, <3>2
  <2>4. PICK u \in Nat, v \in Nat, t \in Nat :
          u = Off(s, i) /\ v = Off(s, i + 1) /\ t = Off(s, f + 1)
    BY <2>1
  <2>5. b = u + z /\ v = u + 2 + e + m + n /\ v <= t /\ z <= 2 + e + m + n
    BY <1>8, <1>9, <2>2, <2>3, <2>4
  <2>6. b <= t
    BY <2>5
  <2> QED  BY <2>4, <2>6
<1>11. b \in 1..Off(s, f + 1)
  <2>1. b \in Nat /\ b >= 1
    BY <1>9, ScriptFacts
  <2> QED  BY <1>10, <2>1
<1> QED  BY <1>6, <1>9, <1>11 DEF Arrived

LEMMA EndsAre ==
  ASSUME NEW s \in Scripts, NEW n \in 1..Len(Items(s))
  PROVE  Off(s, n) \in Ends(s)
  BY DEF Ends, Off, Upto

LEMMA MessageArrives ==
  ASSUME script \in Scripts, script.ws, NEW f \in 1..Len(script.frames), NEW k \in 1..Len(script.packets),
         InStep(script, k, f), Gathered(f, k)
  PROVE  Arrived(script, k, Off(script, f + 1))
<1>1. PICK i \in Before(script, f + 1) :
        IF script.frames[i].fin THEN k = script.frames[i].packet ELSE k = script.frames[i].packet - 1
  BY DEF Gathered
<1>2. Len(script.frames) \in Nat /\ k \in Nat /\ H \in Nat \ {0} /\ script.packets[k].body \in Nat
  <2>1. k \in Nat /\ script.packets[k].body \in Nat
    BY PacketFacts
  <2>2. Len(script.frames) \in Nat
    BY ScriptFacts
  <2> QED  BY <2>1, <2>2, WireAssumption
<1>3. f \in 0..Len(script.frames)
  BY <1>2
<1>4. Holding(script, i)
  BY <1>3, HoldingAll
<1>5. i \in 1..f /\ Carries(script, i)
  BY <1>2 DEF Before
<1>6. InFrames(script, i, k, H + script.packets[k].body)
  <2>1. CASE script.frames[i].fin
    <3>1. script.frames[i].from + script.frames[i].n = H + script.packets[k].body
      BY <1>1, <1>5, <2>1 DEF InStep
    <3>2. PICK x : x = H + script.packets[k].body /\ x \in 1..x
      <4>1. PICK b \in Nat : b = script.packets[k].body
        BY <1>2
      <4>2. H + b \in 1..H + b
        BY <1>2
      <4> QED  BY <4>1, <4>2
    <3>3. \A y \in 1..script.frames[i].from + script.frames[i].n : InFrames(script, i, k, y)
      BY <1>1, <1>4, <2>1 DEF Holding
    <3> QED  BY <3>1, <3>2, <3>3
  <2>2. CASE ~script.frames[i].fin
    <3>1. script.frames[i].packet \in Nat
      <4>1. i \in 1..Len(script.frames)
        BY <1>2, <1>5
      <4> QED  BY <4>1, FrameFacts
    <3>2. k \in 1..script.frames[i].packet - 1
      BY <1>1, <1>2, <2>2, <3>1
    <3> QED  BY <1>4, <3>2 DEF Holding
  <2> QED  BY <2>1, <2>2
<1>7. InFrames(script, f, k, H + script.packets[k].body)
  <2>1. \A h \in 1..i : h \in 1..f
    BY <1>5
  <2> QED  BY <1>6, <2>1 DEF InFrames
<1> QED  BY <1>7, FramesArrive

LEMMA PacketArrives ==
  ASSUME NEW s \in Scripts, ~s.ws, NEW k \in 1..Len(s.packets)
  PROVE  Arrived(s, k, Off(s, k))
<1>1. k \in Nat /\ H \in Nat \ {0} /\ s.packets[k].body \in Nat
  BY WireAssumption, PacketFacts
<1>2. PICK i \in Nat : i = H + s.packets[k].body /\ i \in 1..H + s.packets[k].body
  <2>1. PICK b \in Nat : b = s.packets[k].body
    BY <1>1
  <2>2. H + b \in 1..H + b /\ H + b \in Nat
    BY <1>1
  <2> QED  BY <2>1, <2>2
<1>3. StreamOf(s)[Off(s, k - 1) + i] = Packet(s, k)[i]
  BY <1>2, PacketIsThere
<1>4. Packet(s, k)[i] = LastCell(s, k)
  BY <1>2 DEF Packet, Seqn, LastCell
<1>5. Uncovered(LastCell(s, k)) = LastCell(s, k)
  BY DEF LastCell, PacketCell, Cell, Uncovered
<1>6. Off(s, k) = Off(s, k - 1) + i /\ Off(s, k - 1) \in Nat /\ Off(s, k) \in Nat
  <2>1. Len(s.packets) \in Nat /\ k - 1 \in 0..Len(s.packets) /\ k \in 0..Len(s.packets)
    BY <1>1, PacketRoom
  <2> QED  BY <1>2, <2>1, PacketRoom
<1>7. Off(s, k - 1) + i \in 1..Off(s, k)
  BY <1>1, <1>2, <1>6
<1> QED  BY <1>3, <1>4, <1>5, <1>7 DEF Arrived

\* What reaches its handler was sent, up to where the reader is.
LEMMA OperateArrives ==
  ASSUME ConnInv, WholeInv, InStep(script, got, frame), pc = "operate"
  PROVE  /\ got \in 1..Len(script.packets) /\ At \in Ends(script)
         /\ Arrived(script, got, At)
<1>1. script \in Scripts /\ script.ws \in BOOLEAN
  BY DEF ConnInv, StreamInv, ControlInv
<1>2. got \in 1..Len(script.packets)
  BY DEF WholeInv, TakenInv
<1>3. CASE script.ws
  <2>1. frame \in 0..Len(script.frames) /\ frame # 0 /\ (frame > 0 => At = Off(script, frame + 1))
    BY <1>3 DEF WholeInv, AlignInv, Unread, Halted, Exits, Fetching
  <2>2. Len(script.frames) \in Nat
    BY <1>1, ScriptFacts
  <2>3. frame \in 1..Len(script.frames) /\ At = Off(script, frame + 1)
    BY <2>1, <2>2
  <2>4. Gathered(frame, got)
    BY <1>3 DEF WholeInv, JoinInv, Between
  <2>5. Arrived(script, got, At)
    BY <1>1, <1>2, <1>3, <2>3, <2>4, MessageArrives
  <2>6. frame + 1 \in 1..Len(Items(script))
    BY <1>1, <1>3, <2>2, <2>3, FrameItems
  <2>7. At \in Ends(script)
    BY <1>1, <2>3, <2>6, EndsAre
  <2> QED  BY <1>2, <2>5, <2>7
<1>4. CASE ~script.ws
  <2>1. At = Off(script, got)
    BY <1>4 DEF WholeInv, TcpInv
  <2>2. Len(Items(script)) = Len(script.packets)
    BY <1>1, <1>4, ItemsAre
  <2>3. At \in Ends(script)
    BY <1>1, <1>2, <2>1, <2>2, EndsAre
  <2> QED  BY <1>1, <1>2, <1>4, <2>1, <2>3, PacketArrives
<1> QED  BY <1>1, <1>3, <1>4

-----------------------------------------------------------------------------
(* A client that waits, on an open connection *)

Patient == ~impatient /\ InStep(script, got, frame)
Live == Patient /\ open

Replied(k) == \E o \in Parts(wr.to) : LastOf(k, o)

\* Who sends on, or ends, has its replies.
ClientMoved == (Send \/ Finish) /\ UNCHANGED <<script, stream, open>>
ClientRests == UNCHANGED <<script, stream, sent, ended, impatient>> /\ (open' => open)

LEMMA ClientMoves ==
  ASSUME StreamInv, ControlInv, MessageInv, BoolInv, [Next]_vars
  PROVE  ClientMoved \/ ClientRests
<1>0. ended \in BOOLEAN /\ open \in BOOLEAN /\ WindowInv
  BY DEF BoolInv, ControlInv, StreamInv
<1>1. CASE Send \/ Finish
  BY <1>1 DEF Send, Finish, ClientMoved, control, readerVars
<1>2. CASE Close \/ PushTo \/ Lend
  BY <1>2 DEF Close, PushTo, Lend, Reuse, client, control, readerVars, ClientRests
<1>3. CASE Dispatcher \/ UNCHANGED vars
  <2>1. UNCHANGED <<readerVars, client>> /\ (open' = open \/ open' = FALSE)
    BY <1>3 DEF Dispatcher, Wait, Get, Write, Flush, Shut, Drain, control, vars
  <2> QED  BY <2>1 DEF client, readerVars, ClientRests
<1>4. CASE \/ TakeHead \/ TakeBody \/ TakeLine \/ TakeFirst \/ TakeSecond \/ TakeExt \/ TakeKey
           \/ TakePayload
  <2>1. held /\ UNCHANGED <<client, open>>
    BY <1>4, TakesMove
  <2>2. CASE \/ \E n \in Nat \ {0} : Popping(n)
             \/ LineFills /\ Receive
    <3>1. UNCHANGED <<stream, sent>>
      <4>1. CASE LineFills /\ Receive
        BY <1>0, <2>1, <4>1, ReceiveStays DEF Filling
      <4>2. CASE \E n \in Nat \ {0} : Popping(n)
        BY <1>0, <2>1, <4>2, PoppingStays
      <4> QED  BY <2>2, <4>1, <4>2
    <3> QED  BY <2>1, <3>1 DEF client, ClientRests
  <2>3. CASE (\E n \in Nat \ {0} : Pop(n)) \/ ReadLine \/ LineFails
    <3>1. UNCHANGED <<stream, sent>>
      BY <2>3 DEF Pop, ReadLine, LineFails
    <3> QED  BY <2>1, <3>1 DEF client, ClientRests
  <2> QED  BY <1>4, <2>2, <2>3, TakesMove
<1>5. CASE \/ Unmask \/ Leave \/ SetProto \/ Operate \/ AuthReply \/ Signal \/ Upgrade
           \/ HandleFrame \/ CountFrame \/ WritePong \/ TakeMessage
  <2>1. UNCHANGED <<stream, sent>>
    BY <1>5 DEF Unmask, Scribble, Leave, SetProto, Operate, AuthReply, Signal, Upgrade, HandleFrame,
                CountFrame, WritePong, TakeMessage, readerVars, windowVars
  <2>2. UNCHANGED client
    BY <1>5 DEF Unmask, Leave, SetProto, Operate, AuthReply, Signal, Upgrade, HandleFrame,
                CountFrame, WritePong, TakeMessage, Elsewhere
  <2>3. open' = open \/ open' = FALSE
    BY <1>5 DEF Unmask, Leave, SetProto, Operate, AuthReply, Signal, Upgrade, HandleFrame,
                CountFrame, WritePong, TakeMessage, Goto, Fail, Panic
  <2> QED  BY <1>0, <2>1, <2>2, <2>3 DEF client, ClientRests
<1> QED  BY <1>1, <1>2, <1>3, <1>4, <1>5 DEF Next, ReadLoop, Environment

\* Packets and frames are counted one by one.
LEMMA CountsMove ==
  ASSUME StreamInv, ControlInv, MessageInv, BoolInv, QuietInv, AlignInv, [Next]_vars
  PROVE  /\ got' = got \/ (got' = got + 1 /\ (TakeHead \/ TakeMessage))
         /\ frame' = frame \/ (frame' = frame + 1 /\ TakeFirst)
<1>1. CASE Environment \/ Dispatcher \/ UNCHANGED vars
  BY <1>1, OthersLeave
<1>2. CASE TakeHead
  BY <1>2 DEF TakeHead, Popping, Receive, reading, message
<1>3. CASE TakeBody \/ TakeSecond \/ TakeExt \/ TakeKey \/ TakePayload
  BY <1>3 DEF TakeBody, TakeSecond, TakeExt, TakeKey, TakePayload, Popping, Receive, reading, message
<1>4. CASE TakeLine
  BY <1>4 DEF TakeLine, Receive, reading, message
<1>5. CASE TakeFirst
  <2>1. got' = got
    BY <1>5 DEF TakeFirst, Popping, Receive, reading
  <2>2. frame' = frame \/ frame' = frame + 1
    <3>1. CASE Popping(1)
      BY <3>1 DEF Popping, Receive, reading, message
    <3>2. CASE ~Popping(1) /\ pc' \in Halted
      BY <1>5, <3>2 DEF TakeFirst, Goto, Halted, Exits
    <3>3. CASE ~Popping(1) /\ ~(pc' \in Halted)
      BY <1>5, <3>3, TakeFirstAligns
    <3> QED  BY <3>1, <3>2, <3>3
  <2> QED  BY <1>5, <2>1, <2>2
<1>6. CASE TakeMessage
  BY <1>6 DEF TakeMessage, message
<1>7. CASE \/ Unmask \/ Leave \/ SetProto \/ Operate \/ AuthReply \/ Signal \/ Upgrade
           \/ HandleFrame \/ CountFrame \/ WritePong
  BY <1>7 DEF Unmask, Leave, SetProto, Operate, AuthReply, Signal, Upgrade, HandleFrame,
              CountFrame, WritePong, reading, message
<1> QED  BY <1>1, <1>2, <1>3, <1>4, <1>5, <1>6, <1>7 DEF Next, ReadLoop

\* Patience, once lost, does not come back, and a closed connection stays closed.
LEMMA LiveBefore ==
  ASSUME ConnInv, WholeInv, [Next]_vars
  PROVE  /\ script' = script
         /\ Patient' => Patient /\ ~impatient'
         /\ Live' => Live /\ open'
         /\ (open' => open) /\ (impatient => impatient')
<1>1. /\ StreamInv /\ ControlInv /\ MessageInv /\ BoolInv /\ RingInv /\ SignalInv /\ DispatchInv
      /\ FrameInv /\ QuietInv /\ AlignInv /\ got \in Nat /\ frame \in Nat
  BY DEF ConnInv, WholeInv
<1>2. script' = script /\ (open' => open) /\ (impatient => impatient')
  <2>1. ClientMoved \/ ClientRests
    BY <1>1, ClientMoves
  <2>2. CASE ClientMoved
    <3>1. impatient' = (impatient \/ Outstanding)
      BY <2>2 DEF ClientMoved, Send, Finish
    <3>2. UNCHANGED <<script, open>>
      BY <2>2 DEF ClientMoved
    <3> HIDE DEF Outstanding
    <3> QED  BY <3>1, <3>2
  <2>3. CASE ClientRests
    BY <2>3 DEF ClientRests
  <2> QED  BY <2>1, <2>2, <2>3
<1>3. InStep(script, got', frame') => InStep(script, got, frame)
  <2>1. got' \in Nat /\ got <= got' /\ frame' \in Nat /\ frame <= frame'
    BY <1>1, CountsMove
  <2> QED  BY <1>1, <2>1, InStepShrinks
<1>4. InStep(script, got, frame)' = InStep(script, got', frame')
  BY <1>2
<1>5. Patient' => Patient /\ ~impatient'
  BY <1>2, <1>3, <1>4 DEF Patient
<1> QED  BY <1>2, <1>5 DEF Live

\* A request is at its handler after it was counted, and answered there at first.
LEMMA RequestTurns ==
  ASSUME StreamInv, ControlInv, MessageInv, [Next]_vars
  PROVE  /\ pc' = "reply" => pc = "reply" \/ (Operate /\ ~authed)
         /\ pc' \in {"body", "operate"} => pc \in {"body", "operate"} \/ got' = got + 1
<1> DEFINE Here == {"reply", "body", "operate"}
<1>1. ASSUME NEW x, Fail(x) PROVE pc' \notin Here
  BY <1>1, ExitStarts DEF Fail, ControlInv
<1>2. ASSUME NEW n, Popping(n) PROVE pc' = pc \/ pc' \notin Here
  BY <1>1, <1>2 DEF Popping, Receive, control
<1>3. CASE Environment \/ Dispatcher \/ UNCHANGED vars
  BY <1>3, OthersMove
<1>4. CASE TakeHead
  BY <1>1, <1>2, <1>4 DEF TakeHead, Goto
<1>5. CASE TakeBody
  BY <1>1, <1>2, <1>5 DEF TakeBody, Goto
<1>6. CASE TakeLine
  <2>1. pc' \notin Here
    <3>1. \A p : Goto(p) => pc' = p
      BY DEF Goto
    <3>2. pc = "line"
      BY <1>6 DEF TakeLine
    <3> QED  BY <1>1, <1>6, <3>1, <3>2, LineTurns DEF control
  <2> QED  BY <2>1
<1>7. CASE TakeFirst \/ TakeSecond \/ TakeExt \/ TakeKey \/ TakePayload
  <2>1. pc \notin Here
    BY <1>7 DEF TakeFirst, TakeSecond, TakeExt, TakeKey, TakePayload
  <2>2. \A i \in 1..4 : Stage(i) \notin Here
    BY StageIsWanted
  <2>3. pc' \notin Here
    BY <1>1, <1>2, <1>7, <2>1, <2>2 DEF TakeFirst, TakeSecond, TakeExt, TakeKey, TakePayload, Goto
  <2> QED  BY <2>3
<1>8. CASE Operate
  <2>1. pc = "operate" /\ (pc' = "reply" => ~authed)
    BY <1>1, <1>8 DEF Operate, Goto
  <2> QED  BY <1>8, <2>1
<1>9. CASE \/ SetProto \/ AuthReply \/ Signal \/ Upgrade \/ Unmask \/ HandleFrame \/ CountFrame
           \/ WritePong
  <2>1. pc' \notin Here
    BY <1>1, <1>9 DEF SetProto, AuthReply, Signal, Upgrade, Unmask, HandleFrame, CountFrame, WritePong,
                      Goto
  <2> QED  BY <2>1
<1>10. CASE TakeMessage
  <2>1. pc' # "reply" /\ got' = got + 1
    <3>1. Goto("operate") \/ Panic \/ Fail("pack") \/ Fail("head")
      BY <1>10 DEF TakeMessage
    <3> QED  BY <1>1, <1>10, <3>1 DEF TakeMessage, Goto, Panic
  <2> QED  BY <2>1
<1>11. CASE Leave
  <2>1. pc' \notin Here
    <3>1. pc \in {"close", "putrb", "finish"} /\ pc' = Following(pc)
      BY <1>11 DEF Leave
    <3> QED  BY <1>11, <3>1, ExitGoesOn DEF ControlInv
  <2> QED  BY <2>1
<1> QED  BY <1>3, <1>4, <1>5, <1>6, <1>7, <1>8, <1>9, <1>10, <1>11 DEF Next, ReadLoop

LEMMA StartsParts ==
  ASSUME NEW S, NEW a \in Seq(S), NEW b \in Seq(S), Starts(a, b)
  PROVE  Parts(a) \subseteq Parts(b)
<1>1. Len(a) \in Nat /\ Len(b) \in Nat /\ Len(a) <= Len(b)
  BY DEF Starts
<1>2. ASSUME NEW j \in 1..Len(a) PROVE j \in 1..Len(b) /\ a[j] = b[j]
  BY <1>1 DEF Starts
<1> QED  BY <1>2 DEF Parts

LEMMA RepliedStays ==
  ASSUME wr \in Writers(Outs), wr' \in Writers(Outs), NEW closed, Keeps(wr, wr', closed), NEW k, Replied(k)
  PROVE  Replied(k)'
<1> HIDE DEF Outs
<1>1. PICK a \in Seq(Outs), b \in Seq(Outs) : a = wr.to /\ b = wr'.to
  BY WriterFacts
<1>2. Starts(a, b)
  BY <1>1 DEF Keeps
<1>3. Parts(wr.to) \subseteq Parts(wr'.to)
  BY <1>1, <1>2, StartsParts
<1> QED  BY <1>3 DEF Replied, LastOf

LEMMA OutstandingIs ==
  ASSUME StreamInv, sent \in Nat
  PROVE  Outstanding <=> \E k \in 1..Len(script.packets) :
                            Answered(k) /\ Arrived(script, k, sent) /\ ~Replied(k)
<1>1. ASSUME NEW k PROVE (\A j \in 1..Len(wr.to) : ~LastOf(k, wr.to[j])) <=> ~Replied(k)
  BY DEF Replied, Parts
<1>2. stream = StreamOf(script)
  BY DEF StreamInv
<1>3. ASSUME NEW k
      PROVE  (\E e \in 1..sent : [stream[e] EXCEPT !.x = 0] = LastCell(script, k)) <=> Arrived(script, k, sent)
  BY <1>2 DEF Arrived, Uncovered
<1> QED  BY <1>1, <1>3 DEF Outstanding

\* While a client is patient, what it sent last is the one thing it waits for.
SendInv ==
    ~impatient =>
        \A k \in 1..Len(script.packets), e \in 1..sent :
            Answered(k) /\ Uncovered(StreamOf(script)[e]) = LastCell(script, k) =>
                \/ Replied(k)
                \/ ~ended /\ \A d \in Ends(script) : d >= e => d >= sent

LEMMA SendStep ==
  ASSUME ConnInv, WholeInv, SendInv, [Next]_vars
  PROVE  SendInv'
<1>1. /\ StreamInv /\ ControlInv /\ MessageInv /\ BoolInv /\ DispatchInv /\ wr \in Writers(Outs)
      /\ script \in Scripts /\ sent \in Nat
  <2>1. StreamInv /\ wr \in Writers(Outs)
    BY DEF ConnInv, FrameInv
  <2>2. sent \in Nat
    BY <2>1, AtIsInStream DEF StreamInv
  <2> QED  BY <2>1, <2>2 DEF ConnInv, StreamInv
<1> HIDE DEF Outs
<1>2. wr' \in Writers(Outs) /\ Keeps(wr, wr', ~open)
  BY <1>1, WriterAdds DEF Adds
<1>3. ClientMoved \/ ClientRests
  BY <1>1, ClientMoves
<1>4. script' = script /\ (\A k : Answered(k)' = Answered(k))
  <2>1. script' = script
    BY <1>3 DEF ClientMoved, ClientRests
  <2> QED  BY <2>1 DEF Answered
<1> SUFFICES ASSUME ~impatient', NEW k \in 1..Len(script.packets), NEW e \in 1..sent', Answered(k),
                    Uncovered(StreamOf(script)[e]) = LastCell(script, k)
             PROVE  Replied(k)' \/ (~ended' /\ \A d \in Ends(script) : d >= e => d >= sent')
  BY <1>4 DEF SendInv
<1>5. CASE ClientRests
  <2>1. UNCHANGED <<sent, ended, impatient>>
    BY <1>5 DEF ClientRests
  <2>2. Replied(k) \/ (~ended /\ \A d \in Ends(script) : d >= e => d >= sent)
    BY <2>1 DEF SendInv
  <2>3. Replied(k) => Replied(k)'
    BY <1>1, <1>2, RepliedStays
  <2> QED  BY <2>1, <2>2, <2>3
<1>6. ASSUME ClientMoved, e <= sent PROVE Replied(k)'
  <2>1. ~Outstanding
    <3>1. impatient' = (impatient \/ Outstanding)
      BY <1>6 DEF ClientMoved, Send, Finish
    <3> HIDE DEF Outstanding
    <3> QED  BY <3>1
  <2>2. Arrived(script, k, sent)
    <3>1. sent' \in Nat \/ sent' = sent
      BY <1>1, <1>6, EndsInStream DEF ClientMoved, Send, Finish, readerVars
    <3>2. e \in 1..sent
      BY <1>1, <1>6, <3>1
    <3> QED  BY <3>2 DEF Arrived
  <2>3. Replied(k)
    BY <1>1, <2>1, <2>2, OutstandingIs
  <2> QED  BY <1>1, <1>2, <2>3, RepliedStays
<1>7. CASE ClientMoved /\ ~(e <= sent)
  <2>1. Send
    <3>1. CASE Finish
      BY <1>1, <1>7, <3>1 DEF Finish, readerVars
    <3> QED  BY <1>7, <3>1 DEF ClientMoved
  <2>2. ~ended' /\ sent' \in Ends(script) /\ \A d \in Ends(script) : d > sent => d >= sent'
    BY <2>1 DEF Send
  <2>3. ASSUME NEW d \in Ends(script), d >= e PROVE d >= sent'
    <3>1. d \in Nat /\ sent' \in Nat
      BY <1>1, <2>2, EndsInStream
    <3>2. d > sent
      BY <1>1, <1>7, <2>3, <3>1
    <3> QED  BY <2>2, <3>2
  <2> QED  BY <2>2, <2>3
<1> QED  BY <1>3, <1>5, <1>6, <1>7

\* Who is past the handshake is answered, with all that comes.
AuthInv == InStep(script, got, frame) /\ (authed \/ pc = "reply") => Answered(got)

LEMMA AuthStep ==
  ASSUME ConnInv, WholeInv, AuthInv, [Next]_vars
  PROVE  AuthInv'
<1>1. /\ StreamInv /\ ControlInv /\ MessageInv /\ BoolInv /\ QuietInv /\ AlignInv
      /\ got \in Nat /\ frame \in Nat /\ TakenInv
  BY DEF ConnInv, WholeInv
<1>2. /\ got' = got \/ (got' = got + 1 /\ (TakeHead \/ TakeMessage))
      /\ frame' = frame \/ (frame' = frame + 1 /\ TakeFirst)
  BY <1>1, CountsMove
<1>3. script' = script
  BY LiveBefore
<1>4. InStep(script, got', frame') => InStep(script, got, frame)
  <2>1. got' \in Nat /\ got <= got' /\ frame' \in Nat /\ frame <= frame'
    BY <1>1, <1>2
  <2> QED  BY <1>1, <2>1, InStepShrinks
<1> SUFFICES ASSUME InStep(script, got, frame), authed' \/ pc' = "reply"
             PROVE  Answered(got)'
  <2>1. InStep(script, got, frame)' = InStep(script, got', frame')
    BY <1>3
  <2> QED  BY <1>4, <2>1 DEF AuthInv
<1>5. Answered(got) => Answered(got)'
  <2>1. 1..got \subseteq 1..got'
    BY <1>1, <1>2
  <2> QED  BY <1>3, <2>1 DEF Answered
<1>6. CASE authed \/ pc = "reply"
  BY <1>5, <1>6 DEF AuthInv
<1>7. CASE ~authed /\ pc # "reply" /\ Operate
  <2>1. proto.op = "auth" /\ got' = got
    BY <1>7 DEF Operate, Goto, reading
  <2>2. pc = "operate"
    BY <1>7 DEF Operate
  <2>3. got \in 1..Len(script.packets) /\ proto.op = script.packets[got].op
    BY <1>1, <2>2 DEF TakenInv
  <2>4. got \in 1..got
    BY <2>3
  <2> QED  BY <1>3, <2>1, <2>3, <2>4 DEF Answered
<1>8. CASE ~authed /\ pc # "reply" /\ ~Operate
  <2>1. authed' = authed
    BY <1>1, <1>8, AuthedStays DEF AuthReply
  <2>2. pc' # "reply"
    BY <1>1, <1>8, RequestTurns
  <2> QED  BY <1>8, <2>1, <2>2
<1> QED  BY <1>6, <1>7, <1>8

\* What is written is the reply in the first slot, until the slot is freed.
ItemInv == dpc \in Writing /\ item.of = "reply" => slots # <<>> /\ item = Reply(Head(slots))

LEMMA HeadStays ==
  ASSUME NEW S, NEW s \in Seq(S), s # <<>>, NEW p \in S
  PROVE  Append(s, p) # <<>> /\ Head(Append(s, p)) = Head(s)
  OBVIOUS

LEMMA ItemStep ==
  ASSUME StreamInv, ControlInv, MessageInv, RingInv, SignalInv, DispatchInv, ItemInv, [Next]_vars
  PROVE  ItemInv'
<1>1. CASE Get
  <2>1. CASE slots = <<>>
    BY <1>1, <2>1 DEF Get, DGoto, Writing, ItemInv
  <2>2. CASE slots # <<>>
    <3>1. item' = Reply(Head(slots)) /\ slots' = slots
      BY <1>1, <2>2 DEF Get, Begin, channel
    <3> QED  BY <2>2, <3>1 DEF ItemInv, Reply
  <2> QED  BY <2>1, <2>2
<1>2. CASE Wait
  <2>1. dpc' \in {"get", "exit"} \/ item'.of = "push"
    <3>1. Head(signal).of \in {"ready", "finish", "push"}
      BY <1>2, FirstSignal DEF Wait
    <3>2. \/ DGoto("get")
          \/ DGoto("exit")
          \/ Begin(Push(Head(signal).k))
      BY <1>2, <3>1 DEF Wait
    <3> QED  BY <3>2 DEF DGoto, Begin, Push
  <2> QED  BY <2>1 DEF ItemInv, Writing
<1>3. CASE Write
  <2>1. dpc \in Writing /\ item' = item
    BY <1>3, WriteGoesOn DEF Write
  <2>2. UNCHANGED slots \/ dpc' \in {"get", "flush"}
    BY <1>3, WriteGoesOn DEF Done, DGoto
  <2> QED  BY <2>1, <2>2 DEF ItemInv, Writing
<1>4. CASE Flush \/ Shut \/ Drain
  BY <1>4 DEF Flush, Shut, Drain, DGoto, ItemInv, Writing
<1>5. CASE AuthReply
  <2>1. dpc' = "wait" \/ UNCHANGED <<dpc, item, slots>>
    BY <1>5 DEF AuthReply, channel
  <2> QED  BY <2>1 DEF ItemInv, Writing
<1>6. CASE ~(Get \/ Wait \/ Write \/ Flush \/ Shut \/ Drain \/ AuthReply)
  <2>1. UNCHANGED <<dpc, item>>
    BY <1>6 DEF Next, Environment, ReadLoop, Dispatcher, Send, Finish, Close, PushTo, Lend, SetProto,
                TakeHead, TakeBody, TakeLine, Operate, Signal, Upgrade, TakeFirst, TakeSecond, TakeExt,
                TakeKey, TakePayload, Unmask, HandleFrame, CountFrame, WritePong, TakeMessage, Leave,
                Popping, Receive, Elsewhere, vars, dispatch, writing
  <2>2. UNCHANGED slots \/ \E p \in Requests : slots' = Append(slots, p)
    BY <1>6, RingMoves
  <2>3. CASE UNCHANGED slots
    BY <2>1, <2>3 DEF ItemInv
  <2>4. ASSUME slots # <<>>, NEW p \in Requests, slots' = Append(slots, p)
        PROVE  slots' # <<>> /\ Head(slots') = Head(slots)
    <3> HIDE DEF Requests
    <3> QED  BY <2>4, HeadStays DEF RingInv
  <2>5. slots # <<>> => slots' # <<>> /\ Head(slots') = Head(slots)
    BY <2>2, <2>4
  <2> QED  BY <2>1, <2>5 DEF ItemInv, Reply
<1> QED  BY <1>1, <1>2, <1>3, <1>4, <1>5, <1>6

\* The last cell of a reply is written for a request that was counted; for the
\* last of them once its slot is free, or its handshake over.
LastInv ==
    Live => \A o \in Parts(Sofar(wr)) :
        o.of = "reply" /\ o.i = o.n =>
            \/ o.k < got
            \/ o.k = got /\ slots = <<>> /\ pc \notin {"body", "operate", "reply"}

\* While a reply is due, its client sends nothing more and the reader reads nothing.
Waiting == {"signal", "set", "head", "first"}

WaitInv ==
    Live /\ slots # <<>> =>
        /\ Len(slots) = 1 /\ slots[1].k = got /\ got \in 1..Len(script.packets) /\ Answered(got)
        /\ pc \in Waiting
        /\ next = sent /\ w = r /\ ~ended
        /\ Arrived(script, got, sent)
        /\ \/ slots[1].body = Nil
           \/ Announces(script, got) => Contents(slots[1].body) = Body(script, got)

LEMMA NothingToRead ==
  ASSUME WindowInv, QuietInv, open, ~ended, next = sent, w = r,
         NEW n \in Nat \ {0}, n <= Size
  PROVE  ~Popping(n) /\ ~Pop(n)
<1>1. Buffered = 0 /\ Size \in Nat /\ Size >= 1 /\ rerr = None /\ sent - next = 0
  BY AtIsInStream, SizeIsPositive DEF Buffered, QuietInv, Over
<1>2. ~Pop(n)
  BY <1>1 DEF Pop
<1>3. ~Receive
  <2>1. ~Fill(FALSE)
    <3>1. ~(Buffered >= Size)
      BY <1>1
    <3>2. (IF sent - next < Size - Buffered THEN sent - next ELSE Size - Buffered) = 0
      BY <1>1
    <3> QED  BY <3>1, <3>2 DEF Fill
  <2> QED  BY <2>1 DEF Receive
<1>4. ~PopFails(n)
  BY <1>1 DEF PopFails, PeekFails, Fits
<1> QED  BY <1>2, <1>3, <1>4 DEF Popping

LEMMA WaitMoves ==
  ASSUME ConnInv, WholeInv, WaitInv, LastInv, Num > 1, [Next]_vars, slots # <<>>, Live, Live'
  PROVE  /\ UNCHANGED <<script, ended, sent, next, r, w, buf, got>> /\ pc' \in Waiting
         /\ slots' = slots \/ slots' = Tail(slots)
<1>1. /\ StreamInv /\ ControlInv /\ MessageInv /\ DispatchInv /\ BoolInv /\ WindowInv /\ QuietInv
      /\ wr \in Writers(Outs) /\ sent \in Nat /\ RingInv
  <2>1. StreamInv /\ wr \in Writers(Outs) /\ WindowInv
    BY DEF ConnInv, FrameInv, StreamInv
  <2>2. sent \in Nat
    BY <2>1, AtIsInStream
  <2> QED  BY <2>1, <2>2 DEF ConnInv, WholeInv
<1> HIDE DEF Outs
<1>2. /\ Len(slots) = 1 /\ got \in 1..Len(script.packets) /\ Answered(got) /\ pc \in Waiting
      /\ next = sent /\ w = r /\ ~ended /\ Arrived(script, got, sent)
  BY DEF WaitInv
<1>3. open /\ ~impatient /\ open' /\ ~impatient' /\ held
  <2>1. open /\ ~impatient
    BY DEF Live, Patient
  <2>2. open' /\ ~impatient'
    BY LiveBefore DEF Live
  <2>3. held
    BY <1>1, <1>2 DEF ControlInv, Waiting, Exits
  <2> QED  BY <2>1, <2>2, <2>3
<1>4. slots' = slots \/ slots' = Tail(slots)
  <2>1. pc # "operate"
    BY <1>2 DEF Waiting
  <2> QED  BY <1>1, <2>1, RingMoves
<1> SUFFICES UNCHANGED <<script, ended, sent, next, r, w, buf, got>> /\ pc' \in Waiting
  BY <1>4
<1>5. CASE Send \/ Finish
  <2>1. ~Replied(got)
    <3> SUFFICES ASSUME NEW o \in Parts(wr.to), LastOf(got, o) PROVE FALSE
      BY DEF Replied
    <3>1. o \in Parts(Sofar(wr))
      BY <1>1, ToIsSofar
    <3>2. o.of = "reply" /\ o.k = got /\ o.i = o.n
      BY DEF LastOf
    <3>3. got < got
      BY <3>1, <3>2 DEF LastInv
    <3> QED  BY <1>2, <3>3
  <2>2. Outstanding
    BY <1>1, <1>2, <2>1, OutstandingIs
  <2>3. impatient' = (impatient \/ Outstanding)
    BY <1>5 DEF Send, Finish
  <2> HIDE DEF Outstanding
  <2> QED  BY <1>3, <2>2, <2>3
<1>6. CASE Close
  BY <1>3, <1>6 DEF Close
<1>7. CASE PushTo
  BY <1>2, <1>7 DEF PushTo, readerVars, windowVars, client, control, reading
<1>8. CASE Lend
  BY <1>3, <1>8 DEF Lend, Reuse
<1>9. CASE Dispatcher \/ UNCHANGED vars
  <2>1. UNCHANGED <<readerVars, client, pc, reading>>
    BY <1>9 DEF Dispatcher, Wait, Get, Write, Flush, Shut, Drain, control, vars
  <2> QED  BY <1>2, <2>1 DEF readerVars, windowVars, client, reading
<1>10. CASE SetProto
  <2>1. HasSlot
    BY <1>2, WireAssumption DEF HasSlot
  <2>2. pc' \in {"first", "head"}
    BY <1>10, <2>1 DEF SetProto, Goto
  <2> QED  BY <1>10, <2>2 DEF SetProto, Elsewhere, readerVars, windowVars, client, reading, Waiting
<1>11. CASE Signal
  BY <1>11 DEF Signal, Goto, readerVars, windowVars, client, reading, Waiting
<1>12. CASE TakeHead
  <2>1. H \in Nat \ {0} /\ H <= Size
    BY WireAssumption
  <2>2. ~Popping(H) /\ ~Pop(H)
    BY <1>1, <1>2, <1>3, <2>1, NothingToRead
  <2> QED  BY <1>12, <2>2 DEF TakeHead
<1>13. CASE TakeFirst
  <2>1. ~Popping(1) /\ ~Pop(1)
    BY <1>1, <1>2, <1>3, SizeIsPositive, NothingToRead
  <2> QED  BY <1>13, <2>1 DEF TakeFirst, ReadByte
<1>14. ~(\/ TakeBody \/ Operate \/ AuthReply \/ TakeLine \/ Upgrade \/ TakeSecond \/ TakeExt \/ TakeKey
         \/ TakePayload \/ Unmask \/ HandleFrame \/ CountFrame \/ WritePong \/ TakeMessage \/ Leave)
  BY <1>2 DEF Waiting, TakeBody, Operate, AuthReply, TakeLine, Upgrade, TakeSecond, TakeExt, TakeKey,
              TakePayload, Unmask, HandleFrame, CountFrame, WritePong, TakeMessage, Leave
<1> QED  BY <1>5, <1>6, <1>7, <1>8, <1>9, <1>10, <1>11, <1>12, <1>13, <1>14 DEF Next, Environment, ReadLoop

LEMMA OnlyOne ==
  ASSUME NEW S, NEW s \in Seq(S), Len(s) = 1
  PROVE  Tail(s) = <<>> /\ Head(s) = s[1]
<1>1. s # <<>>
  OBVIOUS
<1>2. Head(s) = s[1] /\ Tail(s) \in Seq(S) /\ Len(Tail(s)) = 0
  BY <1>1
<1>3. Tail(s) = <<>>
  <2>1. PICK t \in Seq(S) : t = Tail(s) /\ Len(t) = 0
    BY <1>2
  <2>2. t # <<>> => Len(t) \in Nat \ {0}
    BY EmptySeq
  <2> QED  BY <2>1, <2>2
<1> QED  BY <1>2, <1>3

LEMMA OnlyOperate ==
  ASSUME ControlInv, MessageInv, DispatchInv, [Next]_vars, slots = <<>>, slots' # <<>>
  PROVE  Operate /\ authed
<1>1. pc = "operate" /\ pc' = "signal" /\ authed
  BY RingMoves
<1>2. ~(Environment \/ Dispatcher \/ UNCHANGED vars)
  BY <1>1, OthersMove
<1>3. ~(\/ SetProto \/ TakeHead \/ TakeBody \/ AuthReply \/ Signal \/ TakeLine \/ Upgrade
        \/ TakeFirst \/ TakeSecond \/ TakeExt \/ TakeKey \/ TakePayload \/ Unmask
        \/ HandleFrame \/ CountFrame \/ WritePong \/ TakeMessage \/ Leave)
  BY <1>1 DEF SetProto, TakeHead, TakeBody, AuthReply, Signal, TakeLine, Upgrade, TakeFirst, TakeSecond,
              TakeExt, TakeKey, TakePayload, Unmask, HandleFrame, CountFrame, WritePong, TakeMessage,
              Leave
<1> QED  BY <1>1, <1>2, <1>3 DEF Next, ReadLoop

\* What is filled into the ring ends what its client sent: nothing waits behind it.
LEMMA NothingBehind ==
  ASSUME ConnInv, WholeInv, SendInv, AuthInv, LastInv, Live, authed, pc = "operate"
  PROVE  /\ got \in 1..Len(script.packets) /\ Answered(got)
         /\ next = sent /\ w = r /\ ~ended /\ Arrived(script, got, sent)
<1>1. InStep(script, got, frame) /\ ~impatient
  BY DEF Live, Patient
<1>2. /\ got \in 1..Len(script.packets) /\ At \in Ends(script)
      /\ Arrived(script, got, At)
  BY <1>1, OperateArrives
<1>3. Answered(got)
  BY <1>1 DEF AuthInv
<1>4. wr \in Writers(Outs) /\ WindowInv
  BY DEF ConnInv, FrameInv, StreamInv
<1>5. /\ At \in Nat /\ At <= next /\ next \in Nat /\ next <= sent /\ sent \in Nat
      /\ r \in Nat /\ w \in Nat /\ At = next - Buffered
  BY <1>4, AtIsInStream
<1> HIDE DEF Outs
<1>6. ~Replied(got)
  <2> SUFFICES ASSUME NEW o \in Parts(wr.to), LastOf(got, o) PROVE FALSE
    BY DEF Replied
  <2>1. o \in Parts(Sofar(wr))
    BY <1>4, ToIsSofar
  <2>2. o.of = "reply" /\ o.k = got /\ o.i = o.n
    BY DEF LastOf
  <2>3. got < got
    BY <2>1, <2>2 DEF LastInv
  <2> QED  BY <1>2, <2>3
<1>7. PICK e \in 1..At : Uncovered(StreamOf(script)[e]) = LastCell(script, got)
  BY <1>2 DEF Arrived
<1>8. e \in 1..sent /\ At >= e
  BY <1>5, <1>7
<1>9. ~ended /\ \A d \in Ends(script) : d >= e => d >= sent
  BY <1>1, <1>2, <1>3, <1>6, <1>7, <1>8 DEF SendInv
<1>10. At >= sent
  BY <1>2, <1>8, <1>9
<1>11. At = sent /\ next = sent
  <2> HIDE DEF At, Buffered
  <2> QED  BY <1>5, <1>10
<1>12. w = r
  <2>1. At = next - (w - r)
    BY DEF At
  <2> HIDE DEF At, Buffered
  <2> QED  BY <1>5, <1>11, <2>1
<1> QED  BY <1>2, <1>3, <1>9, <1>11, <1>12

LEMMA WaitStep ==
  ASSUME ConnInv, WholeInv, SendInv, AuthInv, LastInv, WaitInv, Num > 1, [Next]_vars
  PROVE  WaitInv'
<1> SUFFICES ASSUME Live', slots' # <<>>
             PROVE  /\ Len(slots') = 1 /\ slots'[1].k = got' /\ got' \in 1..Len(script'.packets)
                    /\ Answered(got)' /\ pc' \in Waiting
                    /\ next' = sent' /\ w' = r' /\ ~ended' /\ Arrived(script', got', sent')
                    /\ \/ slots'[1].body = Nil
                       \/ Announces(script', got') =>
                             Contents(slots[1].body)' = Body(script', got')
  BY DEF WaitInv
<1>1. ConnInv /\ ControlInv /\ MessageInv /\ DispatchInv /\ RingInv
  BY DEF ConnInv
<1>2. Live /\ script' = script
  BY LiveBefore
<1>3. CASE slots # <<>>
  <2>1. /\ UNCHANGED <<script, ended, sent, next, r, w, buf, got>> /\ pc' \in Waiting
        /\ slots' = slots \/ slots' = Tail(slots)
    BY <1>2, <1>3, WaitMoves
  <2>2. slots' = slots
    <3>1. Len(slots) = 1
      BY <1>2, <1>3 DEF WaitInv
    <3>2. Tail(slots) = <<>>
      <4> HIDE DEF Requests
      <4> QED  BY <1>1, <3>1, OnlyOne DEF RingInv
    <3> QED  BY <2>1, <3>2
  <2>3. Answered(got)' = Answered(got)
    BY <2>1 DEF Answered
  <2>4. Contents(slots[1].body)' = Contents(slots[1].body)
    BY <2>1, <2>2 DEF Contents, Chars
  <2> HIDE DEF Contents, Answered
  <2> QED  BY <1>2, <1>3, <2>1, <2>2, <2>3, <2>4 DEF WaitInv
<1>4. CASE slots = <<>>
  <2>1. Operate /\ authed /\ pc = "operate"
    BY <1>1, <1>4, OnlyOperate DEF Operate
  <2>2. PICK p : /\ slots' = Append(slots, p) /\ pc' = "signal"
                 /\ p = proto \/ p = [proto EXCEPT !.body = Nil]
    BY <2>1 DEF Operate, Goto
  <2>3. UNCHANGED <<readerVars, client, reading>>
    BY <2>1 DEF Operate
  <2>4. UNCHANGED <<script, ended, sent, next, r, w, buf, got, frame, proto>>
    BY <2>3 DEF readerVars, windowVars, client, reading, message
  <2>5. /\ got \in 1..Len(script.packets) /\ Answered(got)
        /\ next = sent /\ w = r /\ ~ended /\ Arrived(script, got, sent)
    BY <1>2, <2>1, NothingBehind
  <2>6. slots' = <<p>> /\ Len(slots') = 1 /\ slots'[1] = p
    BY <1>4, <2>2
  <2>7. proto.k = got /\ (Announces(script, got) => Contents(proto.body) = Body(script, got))
    BY <1>2, <2>1 DEF Live, Patient, WholeInv, TakenInv
  <2>8. p.k = got /\ (p.body = Nil \/ p.body = proto.body)
    BY <1>1, <2>2, <2>7 DEF MessageInv, Slots
  <2>9. Answered(got)' = Answered(got)
    BY <2>4 DEF Answered
  <2>10. p.body = proto.body => Contents(slots[1].body)' = Contents(proto.body)
    BY <2>4, <2>6 DEF Contents, Chars
  <2>11. pc' \in Waiting
    BY <2>2 DEF Waiting
  <2> HIDE DEF Contents, Answered, Waiting
  <2> QED  BY <2>4, <2>5, <2>6, <2>7, <2>8, <2>9, <2>10, <2>11
<1> QED  BY <1>3, <1>4

\* The cells of a reply that is due carry what was asked, and its last one ends it.
LEMMA FreshIs ==
  ASSUME ConnInv, WholeInv, ItemInv, WaitInv, Live, [Next]_vars, NEW o \in Fresh
  PROVE  /\ o.of = "reply" /\ o.k = got
         /\ \/ AuthReply /\ o.c = Clear
            \/ Write /\ item.of = "reply" /\ o \in Made(item, Far)
<1>1. InStep(script, got, frame)
  BY DEF Live, Patient
<1>2. CASE AuthReply
  <2>1. Fresh = Plain(proto.k)
    BY <1>2 DEF Fresh
  <2>2. proto.k = got
    BY <1>1, <1>2 DEF AuthReply, WholeInv, TakenInv
  <2>3. o \in Plain(got)
    BY <2>1, <2>2
  <2>4. o.of = "reply" /\ o.k = got /\ o.c = Clear
    <3> HIDE DEF Outs
    <3> QED  BY <2>3 DEF Plain
  <2> QED  BY <1>2, <2>4
<1>3. CASE Write /\ ~AuthReply
  <2>1. item.of = "reply" /\ o \in Made(item, Far)
    BY <1>3 DEF Fresh
  <2>2. slots # <<>> /\ item = Reply(Head(slots))
    <3>1. dpc \in Writing
      BY <1>3 DEF Write, Writing
    <3> QED  BY <2>1, <3>1 DEF ItemInv
  <2>3. slots[1].k = got /\ Len(slots) = 1
    BY <2>2 DEF WaitInv
  <2>4. Head(slots) = slots[1]
    <3> HIDE DEF Requests
    <3> QED  BY <2>3, OnlyOne DEF ConnInv, RingInv
  <2>5. item.k = got
    BY <2>2, <2>3, <2>4 DEF Reply
  <2>6. o.of = "reply" /\ o.k = got
    <3> HIDE DEF Outs
    <3> QED  BY <2>1, <2>5 DEF Made
  <2> QED  BY <1>3, <2>1, <2>6
<1> QED  BY <1>2, <1>3 DEF Fresh

\* Only a new reply brings new cells of a reply.
LEMMA CellsCome ==
  ASSUME ConnInv, [Next]_vars, NEW o \in Parts(Sofar(wr)'), o.of = "reply", o \notin Fresh
  PROVE  o \in Parts(Sofar(wr))
<1>1. StreamInv /\ ControlInv /\ MessageInv /\ DispatchInv /\ wr \in Writers(Outs)
  BY DEF ConnInv, FrameInv
<1> HIDE DEF Outs
<1>2. Parts(Sofar(wr')) \subseteq Parts(Sofar(wr)) \cup (Fresh \cup Elsewise)
  BY <1>1, WriterAdds DEF Adds
<1>3. o \notin Elsewise
  BY DEF Elsewise
<1>4. o \in Parts(Sofar(wr'))
  OBVIOUS
<1> QED  BY <1>2, <1>3, <1>4

LEMMA LastStep ==
  ASSUME ConnInv, WholeInv, ItemInv, LastInv, WaitInv, Num > 1, [Next]_vars
  PROVE  LastInv'
<1>0. /\ StreamInv /\ ControlInv /\ MessageInv /\ BoolInv /\ QuietInv /\ AlignInv /\ DispatchInv /\ RingInv
      /\ wr \in Writers(Outs) /\ got \in Nat
  BY DEF ConnInv, WholeInv, FrameInv
<1> HIDE DEF Outs
<1> SUFFICES ASSUME Live', NEW o \in Parts(Sofar(wr)'), o.of = "reply", o.i = o.n
             PROVE  \/ o.k < got'
                    \/ o.k = got' /\ slots' = <<>> /\ pc' \notin {"body", "operate", "reply"}
  BY DEF LastInv
<1>1. Live /\ open
  BY LiveBefore DEF Live
<1>2. got' = got \/ (got' = got + 1 /\ (TakeHead \/ TakeMessage))
  BY <1>0, CountsMove
<1>3. /\ pc' = "reply" => pc = "reply" \/ Operate
      /\ pc' \in {"body", "operate"} => pc \in {"body", "operate"} \/ got' = got + 1
  BY <1>0, RequestTurns
<1>4. CASE o \notin Parts(Sofar(wr))
  <2>0. o \in Fresh
    BY <1>4, CellsCome
  <2>1. /\ o.k = got
        /\ AuthReply \/ (Write /\ item.of = "reply" /\ o \in Made(item, Far))
    BY <1>1, <2>0, FreshIs
  <2>2. CASE AuthReply
    <3>1. UNCHANGED <<got, slots>> /\ pc' \notin {"body", "operate", "reply"}
      <4>1. Fail("write") \/ pc' = "set"
        BY <2>2 DEF AuthReply
      <4>2. Exit[1] \in {"putrb", "close"}
        BY <1>0, ExitStarts DEF ControlInv
      <4> QED  BY <2>2, <4>1, <4>2 DEF AuthReply, reading, channel, Fail
    <3>2. slots = <<>>
      BY <1>0, <2>2 DEF AuthReply, ControlInv, RingInv
    <3> QED  BY <2>1, <3>1, <3>2
  <2>3. CASE Write /\ item.of = "reply" /\ o \in Made(item, Far)
    <3>0. ~wr'.err
      <4> SUFFICES ASSUME wr'.err PROVE FALSE
        OBVIOUS
      <4>1. ~wr.err
        <5>1. wr.err => wr' = wr
          BY <1>0, WriterAdds DEF Adds
        <5> QED  BY <1>4, <5>1
      <4>2. o \in Parts(Sofar(wr'))
        OBVIOUS
      <4> QED  BY <1>0, <1>1, <1>4, <2>3, <4>1, <4>2, FailsBefore
    <3>1. slots' = Tail(slots)
      BY <1>0, <2>3, <3>0, LastIsDone
    <3>2. UNCHANGED <<pc, got>>
      BY <2>3 DEF Write, control, reading
    <3>3. slots # <<>>
      BY <2>3 DEF ItemInv, Write, Writing
    <3>4. Len(slots) = 1 /\ pc \in Waiting
      BY <1>1, <3>3 DEF WaitInv
    <3>5. Tail(slots) = <<>>
      <4> HIDE DEF Requests
      <4> QED  BY <1>0, <3>4, OnlyOne DEF RingInv
    <3> QED  BY <2>1, <3>1, <3>2, <3>4, <3>5 DEF Waiting
  <2> QED  BY <2>1, <2>2, <2>3
<1>5. CASE o \in Parts(Sofar(wr))
  <2>2. \/ o.k < got
        \/ o.k = got /\ slots = <<>> /\ pc \notin {"body", "operate", "reply"}
    BY <1>1, <1>5 DEF LastInv
  <2>3. o.k \in Nat
    <3>1. PICK a \in Seq(Outs) : a = Sofar(wr)
      BY <1>0, WriterFacts
    <3>2. o \in Outs
      BY <1>5, <3>1, ElementOfSeq DEF Parts
    <3> QED  BY <3>2 DEF Outs
  <2>4. CASE o.k < got \/ got' = got + 1
    BY <1>0, <1>2, <2>2, <2>3, <2>4
  <2>5. CASE o.k = got /\ slots = <<>> /\ pc \notin {"body", "operate", "reply"} /\ got' = got
    <3>1. ~Operate
      BY <2>5 DEF Operate
    <3>2. slots' = <<>>
      BY <1>0, <2>5, <3>1, OnlyOperate
    <3>3. got' # got + 1
      BY <1>0, <2>5
    <3> QED  BY <1>3, <2>5, <3>1, <3>2, <3>3
  <2> QED  BY <1>2, <2>2, <2>4, <2>5
<1> QED  BY <1>4, <1>5

\* A cell of a reply is where it was in the request.
Right(o) ==
    o.of = "reply" /\ o.c # Clear /\ Announces(script, o.k) =>
        o.c = Cell("body", o.k, o.i - (o.n - script.packets[o.k].body), 0)

RightInv ==
    Patient =>
        /\ \A o \in Parts(wr.to) : Right(o)
        /\ Live => \A o \in Parts(Sofar(wr)) : Right(o)

LEMMA FreshIsRight ==
  ASSUME ConnInv, WholeInv, ItemInv, WaitInv, Live, [Next]_vars, NEW o \in Fresh
  PROVE  Right(o)
<1>1. /\ o.of = "reply" /\ o.k = got
      /\ \/ AuthReply /\ o.c = Clear
         \/ Write /\ item.of = "reply" /\ o \in Made(item, Far)
  BY FreshIs
<1> SUFFICES ASSUME o.c # Clear, Announces(script, got)
             PROVE  o.c = Cell("body", got, o.i - (o.n - script.packets[got].body), 0)
  BY <1>1 DEF Right
<1>2. Write /\ item.of = "reply" /\ o \in Made(item, Far)
  BY <1>1
<1>3. dpc \in Writing /\ slots # <<>> /\ item = Reply(Head(slots))
  BY <1>2 DEF ItemInv, Write, Writing
<1>4. /\ Len(slots) = 1 /\ slots[1].k = got /\ got \in 1..Len(script.packets)
      /\ slots[1].body = Nil \/ Contents(slots[1].body) = Body(script, got)
  BY <1>3 DEF WaitInv
<1>5. Head(slots) = slots[1] /\ slots[1] \in Requests
  <2>1. slots \in Seq(Requests)
    BY DEF ConnInv, RingInv
  <2> HIDE DEF Requests
  <2>2. Head(slots) = slots[1]
    BY <1>4, <2>1, OnlyOne
  <2>3. 1 \in 1..Len(slots)
    BY <1>4
  <2>4. slots[1] \in Requests
    BY <2>1, <2>3, ElementOfSeq
  <2> QED  BY <2>2, <2>4
<1>6. PICK b : b = slots[1].body /\ b = item.body /\ BodyOK(b)
  BY <1>3, <1>5 DEF Reply, Requests
<1>7. ItemOK(item) /\ ReaderTypeOK /\ script.ws \in BOOLEAN /\ script \in Scripts
  BY <1>3 DEF ConnInv, DispatchInv, StreamInv, WindowInv, ControlInv
<1> HIDE DEF Outs
<1>8. PICK j \in 1..b.n : o.i = (FramedBy(item) + HeadOf(item)) + j /\ o.c = Contents(b)[j]
  BY <1>2, <1>6 DEF Made
<1>9. o.n = All(item)
  BY <1>2 DEF Made
<1>10. b # Nil
  <2>1. Nil.n = 0
    BY NilIsBody
  <2> QED  BY <1>8, <2>1
<1>11. Contents(b) = Body(script, got)
  BY <1>4, <1>6, <1>10
<1>12. b.n = script.packets[got].body /\ b.n \in Nat
  <2>1. Len(Contents(b)) = b.n
    BY <1>6, <1>7, ContentsTyped
  <2>2. script.packets[got].body \in Nat
    BY <1>4, <1>7, PacketFacts
  <2>3. Len(Body(script, got)) = script.packets[got].body
    BY <2>2 DEF Body, Seqn
  <2> QED  BY <1>11, <2>1, <2>2, <2>3
<1>13. o.c = Cell("body", got, j, 0)
  BY <1>8, <1>11, <1>12 DEF Body, Seqn
<1>14. PICK f \in Nat, n \in Nat : f = FramedBy(item) + HeadOf(item) /\ n = b.n /\ o.n = f + n /\ o.i = f + j
  BY <1>6, <1>7, <1>8, <1>9, AllOf
<1>15. o.i - (o.n - n) = j
  <2>1. (f + j) - ((f + n) - n) = j
    OBVIOUS
  <2> QED  BY <1>14, <2>1
<1> QED  BY <1>12, <1>13, <1>14, <1>15

LEMMA RightStep ==
  ASSUME ConnInv, WholeInv, ItemInv, WaitInv, RightInv, [Next]_vars
  PROVE  RightInv'
<1>0. /\ StreamInv /\ ControlInv /\ MessageInv /\ DispatchInv /\ wr \in Writers(Outs)
  BY DEF ConnInv, FrameInv
<1> HIDE DEF Outs
<1>1. script' = script /\ (Patient' => Patient) /\ (Live' => Live)
  BY LiveBefore
<1>2. ASSUME NEW o PROVE Right(o)' = Right(o)
  BY <1>1 DEF Right
<1> SUFFICES ASSUME Patient'
             PROVE  /\ \A o \in Parts(wr.to)' : Right(o)
                    /\ Live' => \A o \in Parts(Sofar(wr)') : Right(o)
  BY <1>2 DEF RightInv
<1>3. wr' \in Writers(Outs) /\ (wr.err => wr' = wr) /\ (~open => wr'.to = wr.to)
  BY <1>0, WriterAdds DEF Adds, Keeps
<1>4. ASSUME Live, NEW o \in Parts(Sofar(wr)') PROVE Right(o)
  <2>1. CASE o \in Fresh
    BY <1>4, <2>1, FreshIsRight
  <2>2. CASE o.of # "reply"
    BY <2>2 DEF Right
  <2>3. CASE o.of = "reply" /\ o \notin Fresh
    <3>1. o \in Parts(Sofar(wr))
      BY <2>3, CellsCome
    <3> QED  BY <1>1, <1>4, <3>1 DEF RightInv
  <2> QED  BY <2>1, <2>2, <2>3
<1>5. ASSUME NEW o \in Parts(wr.to)' PROVE Right(o)
  <2>1. CASE Live
    <3>1. Parts(wr'.to) \subseteq Parts(Sofar(wr'))
      BY <1>3, ToIsSofar
    <3>2. o \in Parts(Sofar(wr)')
      BY <3>1
    <3> QED  BY <1>4, <2>1, <3>2
  <2>2. CASE ~Live
    <3>1. wr'.to = wr.to
      BY <1>1, <1>3, <2>2 DEF Live
    <3>2. o \in Parts(wr.to)
      BY <3>1
    <3> QED  BY <1>1, <3>2 DEF RightInv
  <2> QED  BY <2>1, <2>2
<1> QED  BY <1>1, <1>4, <1>5

\* All that the echo needs.
EchoInv == SendInv /\ AuthInv /\ ItemInv /\ LastInv /\ WaitInv /\ RightInv

LEMMA EchoInit ==
  ASSUME Init
  PROVE  EchoInv
<1>1. /\ wr = NewWriter /\ sent = 0 /\ ~authed /\ pc # "reply" /\ dpc = "none" /\ slots = <<>>
  BY DEF Init
<1>2. wr.to = <<>> /\ Sofar(wr) = <<>>
  BY <1>1 DEF NewWriter, Sofar
<1>3. Parts(wr.to) = {} /\ Parts(Sofar(wr)) = {}
  BY <1>2 DEF Parts
<1>4. SendInv /\ AuthInv /\ ItemInv
  BY <1>1 DEF SendInv, AuthInv, ItemInv, Writing
<1>5. LastInv /\ WaitInv /\ RightInv
  BY <1>1, <1>3 DEF LastInv, WaitInv, RightInv
<1> QED  BY <1>4, <1>5 DEF EchoInv

LEMMA EchoStep ==
  ASSUME ConnInv, WholeInv, EchoInv, Num > 1, [Next]_vars
  PROVE  EchoInv'
<1>1. SendInv /\ AuthInv /\ ItemInv /\ LastInv /\ WaitInv /\ RightInv
  BY DEF EchoInv
<1>2. SendInv'
  BY <1>1, SendStep
<1>3. AuthInv'
  BY <1>1, AuthStep
<1>4. ItemInv'
  BY <1>1, ItemStep DEF ConnInv
<1>5. LastInv'
  BY <1>1, LastStep
<1>6. WaitInv'
  BY <1>1, WaitStep
<1>7. RightInv'
  BY <1>1, RightStep
<1> QED  BY <1>2, <1>3, <1>4, <1>5, <1>6, <1>7 DEF EchoInv

\* Over a ring of more than one slot (init rounds its size up to a power of two,
\* ring.go:31, and CliProto is 5, conf.go:97: there are 8), a client that waits for
\* its replies gets back the bodies it sent, although they lie in the read buffer
\* that the reader goes on to use (ReadTCP keeps slices of it): no reply is ever
\* written from a part of the buffer that was filled anew.
THEOREM ConnectionEchoesIntact ==
  ASSUME Num > 1
  PROVE  Spec => []EchoIntact
<1>1. Init => EchoInv
  BY EchoInit
<1>2. EchoInv /\ ConnInv /\ WholeInv /\ [Next]_vars => EchoInv'
  BY EchoStep
<1>3. EchoInv => EchoIntact
  <2> SUFFICES ASSUME EchoInv, ~impatient, InStep(script, got, frame), NEW j \in 1..Len(wr.to)
               PROVE  wr.to[j].of = "reply" /\ wr.to[j].c # Clear /\ Announces(script, wr.to[j].k) =>
                        LET n == script.packets[wr.to[j].k].body
                        IN  wr.to[j].c = Cell("body", wr.to[j].k, wr.to[j].i - (wr.to[j].n - n), 0)
    BY DEF EchoIntact
  <2>1. wr.to[j] \in Parts(wr.to)
    BY DEF Parts
  <2>2. Right(wr.to[j])
    BY <2>1 DEF EchoInv, RightInv, Patient
  <2> QED  BY <2>2 DEF Right
<1> QED  BY <1>1, <1>2, <1>3, ConnInvariance, WholeInvariance, PTL DEF Spec

-----------------------------------------------------------------------------
(* A line without what ends it *)

\* What ReadLine leaves of a line whose last cell is its line feed.
BareLength(x) == IF Len(x) > 1 /\ x[Len(x) - 1].t = "cr" THEN Len(x) - 2 ELSE Len(x) - 1
Bare(x) == First(x, BareLength(x))

LEMMA BareCells ==
  ASSUME NEW S, NEW x \in Seq(S), Len(x) > 0
  PROVE  /\ BareLength(x) \in 0..Len(x)-1 /\ Bare(x) \in Seq(S) /\ Len(Bare(x)) = BareLength(x)
         /\ \A i \in 1..BareLength(x) : Bare(x)[i] = x[i]
         /\ \A i \in 1..Len(x) : i <= BareLength(x) \/ i = Len(x) \/ (i = Len(x) - 1 /\ x[i].t = "cr")
<1>1. PICK n \in Nat : n = Len(x)
  OBVIOUS
<1>2. BareLength(x) \in 0..n-1
  BY <1>1 DEF BareLength
<1>3. \A i \in 1..n : i <= BareLength(x) \/ i = n \/ (i = n - 1 /\ x[i].t = "cr")
  BY <1>1 DEF BareLength
<1>4. PICK m \in 0..n-1 : m = BareLength(x)
  BY <1>2
<1>5. Bare(x) = [i \in 1..m |-> x[i]]
  BY <1>1, <1>4 DEF Bare, First
<1>6. \A i \in 1..m : x[i] \in S
  BY <1>1, <1>4
<1>7. m \in Nat
  BY <1>1
<1>8. Bare(x) \in Seq(S) /\ Len(Bare(x)) = m
  BY <1>5, <1>6, <1>7
<1>9. \A i \in 1..m : Bare(x)[i] = x[i]
  BY <1>5
<1> QED  BY <1>1, <1>2, <1>3, <1>4, <1>8, <1>9

\* Of a line that has a cell that is not blank, the blank ends are cut off.
LEMMA TrimmedCells ==
  ASSUME NEW S, NEW l \in Seq(S), NEW p \in 1..Len(l), ~Blank(l[p])
  PROVE  \E a \in 1..p, b \in p..Len(l) :
            /\ ~Blank(l[a]) /\ \A i \in 1..Len(l) : ~Blank(l[i]) => a <= i
            /\ Trimmed(l) = SubSeq(l, a, b) /\ Len(Trimmed(l)) = (b - a) + 1
            /\ \A i \in 1..(b - a) + 1 : Trimmed(l)[i] = l[(a + i) - 1]
<1> DEFINE kept == {i \in 1..Len(l) : ~Blank(l[i])}
           a == CHOOSE i \in kept : \A j \in kept : i <= j
           b == CHOOSE i \in kept : \A j \in kept : i >= j
<1>1. PICK n \in Nat : n = Len(l)
  OBVIOUS
<1>2. p \in kept /\ kept \subseteq Nat
  OBVIOUS
<1>3. a \in kept /\ \A j \in kept : a <= j
  <2>1. \E i \in kept : \A j \in kept : i <= j
    BY <1>2, LeastNumber
  <2> HIDE DEF kept
  <2> QED  BY <2>1
<1>4. b \in kept /\ \A j \in kept : b >= j
  <2> DEFINE T == {n - i : i \in kept}
  <2>1. T \subseteq Nat /\ T # {}
    BY <1>1, <1>2
  <2>2. PICK d \in T : \A e \in T : d <= e
    BY <2>1, LeastNumber
  <2>3. PICK i \in kept : d = n - i
    BY <2>2
  <2>4. \A j \in kept : j \in Nat /\ n - j \in T
    BY <1>2
  <2> HIDE DEF T, kept
  <2>5. \A j \in kept : i >= j
    BY <1>1, <2>2, <2>3, <2>4
  <2> QED  BY <2>3, <2>5
<1>5. Trimmed(l) = SubSeq(l, a, b)
  BY <1>2 DEF Trimmed
<1> HIDE DEF a, b
<1>6. a \in 1..p /\ b \in p..Len(l) /\ ~Blank(l[a])
  BY <1>1, <1>2, <1>3, <1>4
<1>7. Len(SubSeq(l, a, b)) = (b - a) + 1 /\ \A i \in 1..(b - a) + 1 : SubSeq(l, a, b)[i] = l[(a + i) - 1]
  BY <1>1, <1>6, SubSeqProperties
<1>8. \A i \in 1..Len(l) : ~Blank(l[i]) => a <= i
  BY <1>3
<1> QED  BY <1>5, <1>6, <1>7, <1>8

LEMMA FieldHas ==
  ASSUME NEW S, NEW l \in Seq(S), IsField(Trimmed(l))
  PROVE  \E a \in 1..Len(l), p \in 1..Len(l) :
            /\ ~Blank(l[a]) /\ \A i \in 1..Len(l) : ~Blank(l[i]) => a <= i
            /\ l[a].t # "colon" /\ l[p].t = "colon"
<1>1. PICK n \in Nat : n = Len(l)
  OBVIOUS
<1>2. PICK j \in 1..n : ~Blank(l[j])
  <2> SUFFICES ASSUME \A j \in 1..n : Blank(l[j]) PROVE FALSE
    OBVIOUS
  <2>1. Trimmed(l) = <<>>
    BY <1>1 DEF Trimmed
  <2> QED  BY <2>1 DEF IsField
<1>3. PICK a \in 1..j, b \in j..n :
        /\ ~Blank(l[a]) /\ \A i \in 1..n : ~Blank(l[i]) => a <= i
        /\ Len(Trimmed(l)) = (b - a) + 1
        /\ \A i \in 1..(b - a) + 1 : Trimmed(l)[i] = l[(a + i) - 1]
  BY <1>1, <1>2, TrimmedCells
<1>4. 1 \in 1..(b - a) + 1 /\ (a + 1) - 1 = a /\ a \in 1..n
  BY <1>1, <1>2
<1>5. l[a].t # "colon"
  <2>1. Trimmed(l)[1] = l[a]
    BY <1>3, <1>4
  <2> QED  BY <2>1 DEF IsField
<1>6. PICK i \in 1..(b - a) + 1 : Trimmed(l)[i].t = "colon"
  BY <1>3 DEF IsField
<1>7. (a + i) - 1 \in 1..n /\ l[(a + i) - 1].t = "colon"
  BY <1>1, <1>2, <1>3, <1>6
<1> QED  BY <1>1, <1>3, <1>4, <1>5, <1>7

LEMMA HasField ==
  ASSUME NEW S, NEW l \in Seq(S), NEW a \in 1..Len(l), NEW p \in 1..Len(l),
         ~Blank(l[a]), \A i \in 1..Len(l) : ~Blank(l[i]) => a <= i,
         l[a].t # "colon", l[p].t = "colon"
  PROVE  IsField(Trimmed(l)) /\ Trimmed(l) # <<>>
<1>1. PICK n \in Nat : n = Len(l)
  OBVIOUS
<1>2. ~Blank(l[p])
  BY DEF Blank
<1>3. PICK c \in 1..p, b \in p..n :
        /\ ~Blank(l[c]) /\ \A i \in 1..n : ~Blank(l[i]) => c <= i
        /\ Len(Trimmed(l)) = (b - c) + 1
        /\ \A i \in 1..(b - c) + 1 : Trimmed(l)[i] = l[(c + i) - 1]
  BY <1>1, <1>2, TrimmedCells
<1>4. c = a
  BY <1>1, <1>3
<1>5. 1 \in 1..(b - a) + 1 /\ (a + 1) - 1 = a
  BY <1>1, <1>3, <1>4
<1>6. (p - a) + 1 \in 1..(b - a) + 1 /\ (a + ((p - a) + 1)) - 1 = p
  BY <1>1, <1>3, <1>4
<1>7. Trimmed(l)[1] = l[a] /\ Trimmed(l)[(p - a) + 1] = l[p]
  BY <1>3, <1>4, <1>5, <1>6
<1>8. Trimmed(l)[1].t # "colon" /\ \E i \in 1..Len(Trimmed(l)) : Trimmed(l)[i].t = "colon"
  BY <1>3, <1>4, <1>6, <1>7
<1>9. Trimmed(l) # <<>>
  <2>1. Len(Trimmed(l)) # 0
    BY <1>1, <1>3
  <2> QED  BY <2>1
<1> QED  BY <1>8, <1>9 DEF IsField

\* What a line is with its end, it is without.
LEMMA BareIsField ==
  ASSUME NEW S, NEW x \in Seq(S), Len(x) > 0, x[Len(x)].t = "lf", IsField(Trimmed(x))
  PROVE  IsField(Trimmed(Bare(x))) /\ Trimmed(Bare(x)) # <<>>
<1>1. PICK n \in Nat : n = Len(x)
  OBVIOUS
<1>2. PICK m \in 0..n-1 : m = BareLength(x)
  BY <1>1, BareCells
<1>3. /\ Bare(x) \in Seq(S) /\ Len(Bare(x)) = m /\ \A i \in 1..m : Bare(x)[i] = x[i]
      /\ \A i \in 1..n : i <= m \/ i = n \/ (i = n - 1 /\ x[i].t = "cr")
  BY <1>1, <1>2, BareCells
<1>4. PICK a \in 1..n, p \in 1..n :
        /\ ~Blank(x[a]) /\ \A i \in 1..n : ~Blank(x[i]) => a <= i
        /\ x[a].t # "colon" /\ x[p].t = "colon"
  BY <1>1, FieldHas
<1>5. p <= m
  BY <1>1, <1>3, <1>4
<1>6. a <= p
  BY <1>4 DEF Blank
<1>7. a \in 1..m /\ p \in 1..m
  BY <1>1, <1>2, <1>5, <1>6
<1>8. /\ ~Blank(Bare(x)[a]) /\ Bare(x)[a].t # "colon" /\ Bare(x)[p].t = "colon"
  BY <1>3, <1>4, <1>7
<1>9. ASSUME NEW i \in 1..m, ~Blank(Bare(x)[i]) PROVE a <= i
  <2>1. i \in 1..n /\ Bare(x)[i] = x[i]
    BY <1>1, <1>2, <1>3
  <2> QED  BY <1>4, <1>9, <2>1
<1> QED  BY <1>3, <1>7, <1>8, <1>9, HasField

LEMMA BareIsRequestLine ==
  ASSUME NEW S, NEW x \in Seq(S), Len(x) > 0, x[Len(x)].t = "lf", IsRequestLine(x)
  PROVE  IsRequestLine(Bare(x))
<1>1. PICK n \in Nat : n = Len(x)
  OBVIOUS
<1>2. PICK m \in 0..n-1 : m = BareLength(x)
  BY <1>1, BareCells
<1>3. /\ Len(Bare(x)) = m /\ \A i \in 1..m : Bare(x)[i] = x[i]
      /\ \A i \in 1..n : i <= m \/ i = n \/ (i = n - 1 /\ x[i].t = "cr")
  BY <1>1, <1>2, BareCells
<1>4. \A i \in 1..n : Blank(x[i]) => i \in 1..m
  BY <1>1, <1>2, <1>3 DEF Blank
<1>5. \A i \in 1..m : i \in 1..n
  BY <1>1, <1>2
<1>6. {i \in 1..m : Blank(Bare(x)[i])} = {i \in 1..n : Blank(x[i])}
  BY <1>3, <1>4, <1>5
<1> QED  BY <1>1, <1>3, <1>6 DEF IsRequestLine

LEMMA BareIsBlank ==
  ASSUME NEW S, NEW x \in Seq(S), Len(x) > 0,
         \A i \in 1..Len(x)-1 : x[i].t = "sp" \/ (x[i].t = "cr" /\ i = Len(x) - 1)
  PROVE  Trimmed(Bare(x)) = <<>>
<1>1. PICK n \in Nat : n = Len(x)
  OBVIOUS
<1>2. PICK m \in 0..n-1 : m = BareLength(x)
  BY <1>1, BareCells
<1>3. /\ Len(Bare(x)) = m /\ \A i \in 1..m : Bare(x)[i] = x[i]
  BY <1>1, <1>2, BareCells
<1>4. ASSUME NEW i \in 1..m PROVE Blank(Bare(x)[i])
  <2>1. i \in 1..n-1
    BY <1>1, <1>2
  <2>2. x[i].t = "sp"
    <3>1. ASSUME x[i].t = "cr", i = n - 1 PROVE FALSE
      <4>1. m = n - 2
        BY <1>1, <1>2, <2>1, <3>1 DEF BareLength
      <4> QED  BY <1>1, <1>2, <3>1, <4>1
    <3> QED  BY <1>1, <2>1, <3>1
  <2> QED  BY <1>3, <2>2 DEF Blank
<1>5. {i \in 1..m : ~Blank(Bare(x)[i])} = {}
  BY <1>4
<1> QED  BY <1>3, <1>5 DEF Trimmed

-----------------------------------------------------------------------------
(* The lines of the request in the stream of a websocket *)

RequestLines(s) == [k \in 1..Len(s.lines) |-> RequestLine(s, k)]

\* Where line k + 1 begins.
Start(s, k) == Upto(RequestLines(s), k)

LEMMA LinesAre ==
  ASSUME NEW s \in Scripts
  PROVE  /\ RequestLines(s) \in Seq(Seq(SaneCells(s))) /\ Len(RequestLines(s)) = Len(s.lines)
         /\ Len(s.lines) \in Nat /\ Request(s) = FlattenSeq(RequestLines(s))
         /\ \A k \in 1..Len(s.lines) : RequestLines(s)[k] = RequestLine(s, k)
<1>1. Len(s.lines) \in Nat
  BY ScriptFacts DEF ScriptType
<1>2. Request(s) = FlattenSeq(RequestLines(s))
  BY DEF Request, RequestLines, Seqn
<1>3. \A k \in 1..Len(s.lines) : RequestLine(s, k) \in Seq(SaneCells(s))
  BY LineIsSane
<1> DEFINE S == Seq(SaneCells(s))
<1> HIDE DEF S
<1>4. RequestLines(s) \in Seq(S) /\ Len(RequestLines(s)) = Len(s.lines)
  BY <1>1, <1>3 DEF RequestLines, S
<1>5. \A k \in 1..Len(s.lines) : RequestLines(s)[k] = RequestLine(s, k)
  BY DEF RequestLines
<1> QED  BY <1>1, <1>2, <1>4, <1>5 DEF S

LEMMA LineIs ==
  ASSUME NEW s \in Scripts, NEW k \in 1..Len(s.lines)
  PROVE  /\ RequestLine(s, k) \in Seq(SaneCells(s)) /\ Len(RequestLine(s, k)) = Len(s.lines[k])
         /\ \A i \in 1..Len(s.lines[k]) : RequestLine(s, k)[i].t = s.lines[k][i]
<1>1. RequestLine(s, k) \in Seq(SaneCells(s))
  BY LineIsSane
<1>2. Len(s.lines[k]) \in Nat
  BY ScriptFacts DEF ScriptType
<1>3. RequestLine(s, k) = [i \in 1..Len(s.lines[k]) |-> Cell(s.lines[k][i], k, i, 0)]
  BY DEF RequestLine, Seqn
<1> QED  BY <1>1, <1>2, <1>3 DEF Cell

LEMMA StartSteps ==
  ASSUME NEW s \in Scripts, s.ws
  PROVE  /\ Start(s, 0) = 0 /\ Start(s, Len(s.lines)) = Off(s, 1)
         /\ \A k \in 0..Len(s.lines) : Start(s, k) \in Nat /\ Start(s, k) <= Off(s, 1)
         /\ \A k \in 1..Len(s.lines) : /\ Start(s, k) = Start(s, k - 1) + Len(s.lines[k])
                                       /\ Len(s.lines[k]) \in Nat
         /\ Off(s, 1) \in Nat
<1> DEFINE seqs == RequestLines(s)
           n == Len(s.lines)
<1>1. /\ seqs \in Seq(Seq(SaneCells(s))) /\ Len(seqs) = n /\ n \in Nat
      /\ Request(s) = FlattenSeq(seqs) /\ \A k \in 1..n : seqs[k] = RequestLine(s, k)
  BY LinesAre
<1> HIDE DEF seqs
<1>2. /\ Upto(seqs, 0) = 0
      /\ \A k \in 0..n : Upto(seqs, k) \in Nat
      /\ \A k \in 1..n : Upto(seqs, k) = Upto(seqs, k - 1) + Len(seqs[k])
      /\ Upto(seqs, n) = Len(FlattenSeq(seqs))
  BY <1>1, UptoSteps
<1>3. \A k \in 1..n : Len(seqs[k]) = Len(s.lines[k]) /\ Len(s.lines[k]) \in Nat
  BY <1>1, LineIs, ScriptFacts DEF ScriptType
<1>4. Off(s, 1) = Len(Request(s))
  <2>1. 1 \in 1..Len(Items(s)) /\ Items(s)[1] = Request(s)
    BY FrameItems
  <2>2. Off(s, 1) = Off(s, 1 - 1) + Len(Items(s)[1]) /\ Off(s, 0) = 0 /\ Len(Items(s)[1]) \in Nat
    BY <2>1, OffSteps
  <2> QED  BY <2>1, <2>2
<1>5. ASSUME NEW k \in 0..n PROVE Upto(seqs, k) <= Upto(seqs, n)
  <2>1. n \in k..Len(seqs) /\ k \in 0..Len(seqs)
    BY <1>1
  <2> QED  BY <1>1, <2>1, UptoGrows
<1> QED  BY <1>1, <1>2, <1>3, <1>4, <1>5 DEF Start, seqs

LEMMA LineIsThere ==
  ASSUME NEW s \in Scripts, s.ws, NEW k \in 1..Len(s.lines), NEW i \in 1..Len(s.lines[k])
  PROVE  StreamOf(s)[Start(s, k - 1) + i] = RequestLine(s, k)[i]
<1> DEFINE seqs == RequestLines(s)
           e == Start(s, k - 1) + i
<1>1. /\ seqs \in Seq(Seq(SaneCells(s))) /\ Len(seqs) = Len(s.lines)
      /\ Request(s) = FlattenSeq(seqs) /\ seqs[k] = RequestLine(s, k)
  BY LinesAre
<1>2. i \in 1..Len(seqs[k])
  BY <1>1, LineIs
<1> HIDE DEF seqs
<1>3. /\ Upto(seqs, k - 1) + i \in 1..Len(FlattenSeq(seqs))
      /\ FlattenSeq(seqs)[Upto(seqs, k - 1) + i] = seqs[k][i]
  BY <1>1, <1>2, UptoCells
<1>4. e \in 1..Len(Request(s)) /\ Request(s)[e] = RequestLine(s, k)[i]
  BY <1>1, <1>3 DEF Start, seqs
<1> HIDE DEF e
<1>5. 1 \in 1..Len(Items(s)) /\ Items(s)[1] = Request(s)
  BY FrameItems
<1>6. StreamOf(s)[Off(s, 1 - 1) + e] = Request(s)[e]
  <2>1. e \in 1..Len(Items(s)[1])
    BY <1>4, <1>5
  <2>2. StreamOf(s)[Off(s, 1 - 1) + e] = Items(s)[1][e]
    BY <1>5, <2>1, OffCells
  <2> QED  BY <1>5, <2>2
<1>7. Off(s, 1 - 1) = 0
  BY OffSteps
<1>8. e \in Nat
  BY <1>4
<1>9. Off(s, 1 - 1) + e = e
  BY <1>7, <1>8
<1> QED  BY <1>4, <1>6, <1>9 DEF e

\* A request as Upgrade wants it, line by line.
LEMMA GoodLines ==
  ASSUME NEW s \in Scripts, GoodRequest(s)
  PROVE  /\ Len(s.lines) \in Nat /\ Len(s.lines) > 1
         /\ \A k \in 1..Len(s.lines) :
                /\ Len(s.lines[k]) \in Nat \ {0}
                /\ \A i \in 1..Len(s.lines[k]) :
                        RequestLine(s, k)[i].t = "lf" <=> i = Len(s.lines[k])
         /\ IsRequestLine(Bare(RequestLine(s, 1)))
         /\ \A k \in 2..Len(s.lines)-1 : /\ IsField(Trimmed(Bare(RequestLine(s, k))))
                                         /\ Trimmed(Bare(RequestLine(s, k))) # <<>>
         /\ Trimmed(Bare(RequestLine(s, Len(s.lines)))) = <<>>
<1> DEFINE S == SaneCells(s)
<1>1. PICK n \in Nat : n = Len(s.lines)
  BY ScriptFacts DEF ScriptType
<1>2. n > 1
  BY <1>1 DEF GoodRequest
<1>3. ASSUME NEW k \in 1..n
      PROVE  /\ Len(s.lines[k]) \in Nat \ {0}
             /\ RequestLine(s, k) \in Seq(S) /\ Len(RequestLine(s, k)) = Len(s.lines[k])
             /\ \A i \in 1..Len(s.lines[k]) :
                    /\ RequestLine(s, k)[i].t = s.lines[k][i]
                    /\ RequestLine(s, k)[i].t = "lf" <=> i = Len(s.lines[k])
  <2>1. s.lines[k] \in Seq(Letters)
    BY <1>1, ScriptFacts DEF ScriptType
  <2>2. s.lines[k] # <<>> /\ \A i \in 1..Len(s.lines[k]) : s.lines[k][i] = "lf" <=> i = Len(s.lines[k])
    BY <1>1 DEF GoodRequest
  <2>3. Len(s.lines[k]) \in Nat \ {0}
    BY <2>1, <2>2
  <2>4. /\ RequestLine(s, k) \in Seq(S) /\ Len(RequestLine(s, k)) = Len(s.lines[k])
        /\ \A i \in 1..Len(s.lines[k]) : RequestLine(s, k)[i].t = s.lines[k][i]
    BY <1>1, LineIs
  <2> QED  BY <2>2, <2>3, <2>4
<1> HIDE DEF S
<1>4. ASSUME NEW k \in 1..n
      PROVE  /\ RequestLine(s, k) \in Seq(S) /\ Len(RequestLine(s, k)) > 0
             /\ RequestLine(s, k)[Len(RequestLine(s, k))].t = "lf"
  <2>1. PICK m \in Nat : m = Len(s.lines[k]) /\ m # 0
    BY <1>3
  <2>2. RequestLine(s, k)[m].t = "lf" /\ Len(RequestLine(s, k)) = m
    BY <1>3, <2>1
  <2> QED  BY <1>3, <2>1, <2>2
<1>5. IsRequestLine(Bare(RequestLine(s, 1)))
  <2>1. IsRequestLine(RequestLine(s, 1)) /\ 1 \in 1..n
    BY <1>2 DEF GoodRequest
  <2> QED  BY <1>4, <2>1, BareIsRequestLine
<1>6. ASSUME NEW k \in 2..n-1
      PROVE  IsField(Trimmed(Bare(RequestLine(s, k)))) /\ Trimmed(Bare(RequestLine(s, k))) # <<>>
  <2>1. IsField(Trimmed(RequestLine(s, k))) /\ k \in 1..n
    BY <1>1 DEF GoodRequest
  <2> QED  BY <1>4, <2>1, BareIsField
<1>7. Trimmed(Bare(RequestLine(s, n))) = <<>>
  <2> DEFINE x == RequestLine(s, n)
  <2>1. n \in 1..n
    BY <1>2
  <2>2. PICK m \in Nat : m = Len(s.lines[n]) /\ m # 0 /\ Len(x) = m
    BY <1>3, <2>1
  <2>3. \A i \in 1..m : x[i].t = s.lines[n][i]
    BY <1>3, <2>1, <2>2
  <2>4. \A i \in 1..m-1 : s.lines[n][i] = "sp" \/ (s.lines[n][i] = "cr" /\ i = m - 1)
    BY <1>1, <2>2 DEF GoodRequest
  <2> HIDE DEF x
  <2>5. \A i \in 1..Len(x)-1 : x[i].t = "sp" \/ (x[i].t = "cr" /\ i = Len(x) - 1)
    BY <2>2, <2>3, <2>4
  <2>6. x \in Seq(S) /\ Len(x) > 0
    BY <1>4, <2>1 DEF x
  <2> QED  BY <2>5, <2>6, BareIsBlank DEF x
<1>8. \A k \in 1..n : /\ Len(s.lines[k]) \in Nat \ {0}
                      /\ \A i \in 1..Len(s.lines[k]) :
                            RequestLine(s, k)[i].t = "lf" <=> i = Len(s.lines[k])
  BY <1>3
<1>9. \A k \in 2..n-1 : IsField(Trimmed(Bare(RequestLine(s, k)))) /\ Trimmed(Bare(RequestLine(s, k))) # <<>>
  BY <1>6
<1> QED  BY <1>1, <1>2, <1>5, <1>7, <1>8, <1>9

\* The request is sent in one piece.
SentInv == script.ws => sent = 0 \/ sent >= Off(script, 1)

LEMMA SentStep ==
  ASSUME StreamInv, ControlInv, MessageInv, BoolInv, SentInv, [Next]_vars
  PROVE  SentInv'
<1>1. ClientMoved \/ ClientRests
  BY ClientMoves
<1>2. script' = script /\ Off(script, 1)' = Off(script, 1)
  BY <1>1 DEF ClientMoved, ClientRests, Off
<1>3. CASE UNCHANGED sent
  BY <1>2, <1>3 DEF SentInv
<1>4. CASE Send /\ script.ws
  <2>1. script \in Scripts /\ sent' \in Ends(script)
    BY <1>4 DEF StreamInv, Send
  <2>2. PICK k \in 1..Len(Items(script)) : sent' = Off(script, k)
    BY <2>1 DEF Ends, Off, Upto
  <2>3. Len(Items(script)) \in Nat
    BY <2>1, OffSteps
  <2>4. 1 \in 0..Len(Items(script)) /\ k \in 0..Len(Items(script)) /\ 1 <= k
    BY <2>3
  <2>5. Off(script, 1) <= Off(script, k) /\ Off(script, 1) \in Nat /\ Off(script, k) \in Nat
    BY <2>1, <2>4, OffSteps
  <2>6. sent' >= Off(script, 1)
    BY <2>2, <2>5
  <2> QED  BY <1>2, <2>6 DEF SentInv
<1>5. sent' = sent \/ Send
  BY <1>1 DEF ClientMoved, ClientRests, Finish, readerVars
<1> QED  BY <1>2, <1>3, <1>4, <1>5 DEF SentInv

LEMMA FirstGrows ==
  ASSUME NEW S, NEW x \in Seq(S), NEW n \in Nat, NEW d \in Nat, n + d <= Len(x)
  PROVE  First(x, n) \o [i \in 1..d |-> x[n + i]] = First(x, n + d)
<1>1. PICK l \in Nat : l = Len(x)
  OBVIOUS
<1> DEFINE a == First(x, n)
           b == [i \in 1..d |-> x[n + i]]
           c == First(x, n + d)
<1>2. /\ a = [i \in 1..n |-> x[i]] /\ c = [i \in 1..n + d |-> x[i]]
  BY <1>1 DEF First
<1>3. (\A i \in 1..n + d : x[i] \in S) /\ (\A i \in 1..n : x[i] \in S) /\ (\A i \in 1..d : x[n + i] \in S)
  BY <1>1
<1>4. a \in Seq(S) /\ Len(a) = n
  BY <1>2, <1>3
<1>5. b \in Seq(S) /\ Len(b) = d
  BY <1>3
<1>6. c \in Seq(S) /\ Len(c) = n + d
  <2>1. n + d \in Nat
    OBVIOUS
  <2> QED  BY <1>2, <1>3, <2>1
<1>7. (\A i \in 1..n : a[i] = x[i]) /\ (\A i \in 1..n + d : c[i] = x[i])
  BY <1>2
<1>8. \A i \in 1..d : b[i] = x[n + i]
  OBVIOUS
<1> HIDE DEF a, b, c
<1>9. a \o b \in Seq(S) /\ Len(a \o b) = n + d
  BY <1>4, <1>5
<1>10. ASSUME NEW i \in 1..n + d PROVE (a \o b)[i] = c[i]
  <2>1. CASE i <= n
    <3>1. i \in 1..n
      BY <2>1
    <3>2. (a \o b)[i] = a[i]
      BY <1>4, <1>5, <3>1, TwoParts
    <3> QED  BY <1>7, <3>1, <3>2
  <2>2. CASE i > n
    <3>1. i - n \in 1..d /\ n + (i - n) = i
      BY <2>2
    <3>2. (a \o b)[n + (i - n)] = b[i - n]
      BY <1>4, <1>5, <3>1, TwoParts
    <3> QED  BY <1>7, <1>8, <3>1, <3>2
  <2>3. i <= n \/ i > n
    <3>1. i \in Int /\ n \in Int
      OBVIOUS
    <3> QED  BY <3>1
  <2> QED  BY <2>1, <2>2, <2>3
<1>11. a \o b = c
  BY <1>6, <1>9, <1>10
<1> QED  BY <1>11 DEF a, b, c

-----------------------------------------------------------------------------
(* How far the reader is in the request *)

\* Behind n cells of line k, which are put together; a carriage return before the
\* line feed is not among them.
AtLine(k, n) ==
    /\ line = First(RequestLine(script, k), n)
    /\ At = Start(script, k - 1) + n
    /\ n > 0 /\ n = Len(script.lines[k]) - 1 => RequestLine(script, k)[n].t # "cr"

\* The window, of b cells, goes on where n cells of line k are read.
OnLine(k, n, b) ==
    \A j \in 1..b : n + j <= Len(script.lines[k])
        => buf[(r + j) - 1] = RequestLine(script, k)[n + j]

\* What is read of it goes behind what was.
Grows(k, n, d) ==
    First(RequestLine(script, k), n) \o Chars(r, r + d) = First(RequestLine(script, k), n + d)

\* What the window holds of a line.
LEMMA WindowOnLine ==
  ASSUME StreamInv, held, script.ws, NEW k \in 1..Len(script.lines), NEW n \in Nat,
         NEW l \in Nat, l = Len(script.lines[k]), n < l, At = Start(script, k - 1) + n,
         NEW b \in Nat, b = w - r
  PROVE  OnLine(k, n, b)
<1> DEFINE x == RequestLine(script, k)
<1>1. /\ WindowInv /\ script \in Scripts /\ stream = StreamOf(script)
      /\ At \in Nat /\ r \in Nat /\ w \in Nat /\ next \in Nat
  BY AtIsInStream DEF StreamInv
<1>2. ASSUME NEW j \in 1..b, n + j <= l PROVE buf[(r + j) - 1] = x[n + j]
  <2>1. (r + j) - 1 \in r..w-1
    BY <1>1
  <2>2. buf[(r + j) - 1] = stream[next - w + ((r + j) - 1) + 1]
    BY <1>1, <2>1 DEF WindowInv, WindowIsStream
  <2>3. next - w + ((r + j) - 1) + 1 = At + j
    BY <1>1 DEF At
  <2>4. n + j \in 1..l
    BY <1>2
  <2>5. StreamOf(script)[Start(script, k - 1) + (n + j)] = x[n + j]
    BY <1>1, <2>4, LineIsThere
  <2>6. Start(script, k - 1) + (n + j) = At + j
    <3>1. k - 1 \in 0..Len(script.lines)
      BY <1>1, ScriptFacts DEF ScriptType
    <3>2. Start(script, k - 1) \in Nat
      BY <1>1, <3>1, StartSteps
    <3> HIDE DEF At
    <3> QED  BY <1>2, <3>2
  <2> HIDE DEF x, At
  <2> QED  BY <1>1, <2>2, <2>3, <2>5, <2>6
<1> QED  BY <1>2 DEF OnLine

LEMMA LineGrows ==
  ASSUME StreamInv, held, script.ws, NEW k \in 1..Len(script.lines), NEW n \in Nat,
         NEW l \in Nat, l = Len(script.lines[k]), n < l, At = Start(script, k - 1) + n,
         NEW b \in Nat, b = w - r, NEW d \in 0..b, n + d <= l
  PROVE  Grows(k, n, d)
<1> DEFINE x == RequestLine(script, k)
<1>1. script \in Scripts /\ r \in Nat
  BY AtIsInStream DEF StreamInv
<1>2. \A j \in 1..b : n + j <= l => buf[(r + j) - 1] = x[n + j]
  <2>1. OnLine(k, n, b)
    BY WindowOnLine
  <2> QED  BY <2>1 DEF OnLine
<1>3. x \in Seq(SaneCells(script)) /\ Len(x) = l
  BY <1>1, LineIs
<1> HIDE DEF x
<1>4. First(x, n) \o Chars(r, r + d) = First(x, n + d)
  <2>1. (r + d) - r = d
    BY <1>1
  <2>2. Chars(r, r + d) = [i \in 1..d |-> buf[r + i - 1]]
    BY <2>1 DEF Chars
  <2>3. \A i \in 1..d : buf[r + i - 1] = x[n + i]
    <3> SUFFICES ASSUME NEW i \in 1..d PROVE buf[r + i - 1] = x[n + i]
      OBVIOUS
    <3>1. i \in 1..b /\ n + i <= l /\ r + i - 1 = (r + i) - 1
      BY <1>1
    <3> QED  BY <1>2, <3>1
  <2>4. Chars(r, r + d) = [i \in 1..d |-> x[n + i]]
    BY <2>2, <2>3
  <2>5. d \in Nat
    OBVIOUS
  <2>6. First(x, n) \o [i \in 1..d |-> x[n + i]] = First(x, n + d)
    BY <1>3, <2>5, FirstGrows
  <2> QED  BY <2>4, <2>6
<1> QED  BY <1>4 DEF x, Grows

\* What ReadLine returns: the rest of the line, or what is there of it so far.
LEMMA LineIsRead ==
  ASSUME StreamInv, ControlInv, BoolInv, QuietInv, SentInv, held, open, script.ws,
         GoodRequest(script), NEW k \in 1..Len(script.lines),
         NEW n \in 0..Len(script.lines[k])-1, AtLine(k, n), ReadLine
  PROVE  \/ /\ ~More /\ Joined(line) = Bare(RequestLine(script, k)) /\ At' = Start(script, k)
         \/ /\ More
            /\ \E m \in 0..Len(script.lines[k])-1 :
                /\ Joined(line) = First(RequestLine(script, k), m)
                /\ At' = Start(script, k - 1) + m
                /\ m > 0 /\ m = Len(script.lines[k]) - 1 => RequestLine(script, k)[m].t # "cr"
<1> DEFINE x == RequestLine(script, k)
<1>1. /\ WindowInv /\ ReaderTypeOK /\ script \in Scripts /\ stream = StreamOf(script)
      /\ At \in Nat /\ r \in Nat /\ w \in Nat /\ next \in Nat /\ r <= w /\ sent \in Nat
      /\ next <= sent
  BY AtIsInStream DEF StreamInv, WindowInv
<1>2. PICK l \in Nat : l = Len(script.lines[k]) /\ l # 0
  BY <1>1, GoodLines
<1>3. PICK b \in Nat : b = w - r
  BY <1>1
<1>4. n \in Nat /\ n < l
  BY <1>2
<1>5. /\ \A i \in 1..l : x[i].t = "lf" <=> i = l
      /\ x \in Seq(SaneCells(script)) /\ Len(x) = l
  BY <1>1, <1>2, GoodLines, LineIs
<1>6. line = First(x, n) /\ At = Start(script, k - 1) + n /\ (n > 0 /\ n = l - 1 => x[n].t # "cr")
  BY <1>2 DEF AtLine
<1>7. /\ \A j \in 1..b : n + j <= l => buf[(r + j) - 1] = x[n + j]
      /\ \A d \in 0..b : n + d <= l => First(x, n) \o Chars(r, r + d) = First(x, n + d)
  <2>1. /\ l = Len(script.lines[k]) /\ n < l /\ At = Start(script, k - 1) + n
        /\ b = w - r /\ n \in Nat /\ l \in Nat /\ b \in Nat
    BY <1>2, <1>3, <1>4, <1>6
  <2> HIDE DEF At
  <2>2. \A j \in 1..b : n + j <= l => buf[(r + j) - 1] = x[n + j]
    <3>1. OnLine(k, n, b)
      BY <2>1, WindowOnLine
    <3> QED  BY <2>1, <3>1 DEF OnLine
  <2>3. ASSUME NEW d \in 0..b, n + d <= l PROVE First(x, n) \o Chars(r, r + d) = First(x, n + d)
    <3>1. Grows(k, n, d)
      BY <2>1, <2>3, LineGrows
    <3> QED  BY <3>1 DEF Grows
  <2> QED  BY <2>2, <2>3
<1> HIDE DEF x
<1>8. UNCHANGED <<next, w>>
  BY DEF ReadLine
<1>9. /\ Start(script, k - 1) \in Nat /\ Start(script, k) = Start(script, k - 1) + l
      /\ Start(script, k) <= Off(script, 1) /\ Off(script, 1) \in Nat
  <2>1. Len(script.lines) \in Nat
    BY <1>1, ScriptFacts DEF ScriptType
  <2>2. k \in 0..Len(script.lines) /\ k - 1 \in 0..Len(script.lines)
    BY <2>1
  <2> QED  BY <1>1, <1>2, <2>2, StartSteps
<1>10. CASE LineFeeds # {}
  <2>1. /\ EndOfLine \in LineFeeds /\ r' = EndOfLine + 1
        /\ \A i \in LineFeeds : EndOfLine <= i
    <3>1. LineFeeds \subseteq Nat
      BY <1>1 DEF LineFeeds
    <3>2. \E i \in LineFeeds : \A j \in LineFeeds : i <= j
      BY <1>10, <3>1, LeastNumber
    <3> QED  BY <1>10, <3>2 DEF EndOfLine, ReadLine
  <2>2. EndOfLine \in r..w-1 /\ buf[EndOfLine].t = "lf"
    BY <2>1 DEF LineFeeds
  <2>3. PICK j \in 1..b : EndOfLine = (r + j) - 1
    <3>1. (EndOfLine - r) + 1 \in 1..b /\ EndOfLine = (r + ((EndOfLine - r) + 1)) - 1
      BY <1>1, <1>3, <2>2
    <3> QED  BY <3>1
  <2>4. n + j = l
    <3>1. CASE n + j < l
      <4>1. n + j \in 1..l /\ x[n + j].t = "lf"
        BY <1>4, <1>7, <2>2, <2>3, <3>1
      <4> QED  BY <1>5, <3>1, <4>1
    <3>2. CASE n + j > l
      <4>1. l - n \in 1..b /\ n + (l - n) = l /\ l \in 1..l
        BY <1>2, <1>4, <2>3, <3>2
      <4>2. buf[(r + (l - n)) - 1].t = "lf"
        BY <1>5, <1>7, <4>1
      <4>3. (r + (l - n)) - 1 \in LineFeeds
        <5>1. (r + (l - n)) - 1 \in r..w-1
          BY <1>1, <1>3, <4>1
        <5> QED  BY <4>2, <5>1 DEF LineFeeds
      <4> QED  BY <1>1, <1>4, <2>1, <2>3, <3>2, <4>3
    <3> QED  BY <1>4, <3>1, <3>2
  <2>5. At' = Start(script, k)
    <3>1. At' = At + j
      BY <1>1, <1>8, <2>1, <2>3 DEF At
    <3>2. PICK a \in Nat : a = Start(script, k - 1)
      BY <1>9
    <3>3. At = a + n /\ Start(script, k) = a + l /\ n + j = l /\ j \in Nat
      BY <1>6, <1>9, <2>4, <3>2
    <3> HIDE DEF At
    <3> QED  BY <1>4, <3>1, <3>3
  <2>6. Joined(line) = First(x, n) \o Chomp(r, EndOfLine)
    BY <1>6, <1>10 DEF Joined, Line
  <2>7. Joined(line) = First(x, BareLength(x))
    <3>1. CASE j > 1 /\ x[l - 1].t = "cr"
      <4>1. PICK p \in 1..b : /\ n + p = l - 1 /\ (r + p) - 1 = EndOfLine - 1 /\ EndOfLine > r
                              /\ n + p <= l
        <5>1. /\ j - 1 \in 1..b /\ n + (j - 1) = l - 1 /\ (r + (j - 1)) - 1 = EndOfLine - 1
              /\ EndOfLine > r /\ n + (j - 1) <= l
          BY <1>1, <1>4, <2>3, <2>4, <3>1
        <5> QED  BY <5>1
      <4>2. buf[EndOfLine - 1].t = "cr"
        <5>1. buf[(r + p) - 1] = x[n + p]
          BY <1>7, <4>1
        <5> QED  BY <3>1, <4>1, <5>1
      <4>3. PICK d \in 0..b : n + d = l - 2 /\ EndOfLine - 1 = r + d /\ l > 1 /\ n + d <= l
        <5>1. p - 1 \in 0..b /\ n + (p - 1) = l - 2 /\ EndOfLine - 1 = r + (p - 1) /\ l > 1
              /\ n + (p - 1) <= l
          BY <1>1, <1>4, <4>1
        <5> QED  BY <5>1
      <4>4. Chomp(r, EndOfLine) = Chars(r, r + d)
        BY <4>1, <4>2, <4>3 DEF Chomp
      <4>5. First(x, n) \o Chars(r, r + d) = First(x, n + d)
        BY <1>7, <4>3
      <4>6. BareLength(x) = l - 2
        BY <1>5, <3>1, <4>3 DEF BareLength
      <4> QED  BY <2>6, <4>3, <4>4, <4>5, <4>6
    <3>2. CASE ~(j > 1 /\ x[l - 1].t = "cr")
      <4>1. Chomp(r, EndOfLine) = Chars(r, EndOfLine)
        <5>1. CASE j = 1
          <6>1. ~(EndOfLine > r)
            BY <1>1, <2>3, <5>1
          <6> QED  BY <6>1 DEF Chomp
        <5>2. CASE j > 1
          <6>1. PICK p \in 1..b : n + p = l - 1 /\ (r + p) - 1 = EndOfLine - 1 /\ n + p <= l
            <7>1. /\ j - 1 \in 1..b /\ n + (j - 1) = l - 1 /\ (r + (j - 1)) - 1 = EndOfLine - 1
                  /\ n + (j - 1) <= l
              BY <1>1, <1>4, <2>3, <2>4, <5>2
            <7> QED  BY <7>1
          <6>2. buf[(r + p) - 1] = x[n + p]
            BY <1>7, <6>1
          <6>3. buf[EndOfLine - 1].t # "cr"
            BY <3>2, <5>2, <6>1, <6>2
          <6> QED  BY <6>3 DEF Chomp
        <5> QED  BY <5>1, <5>2
      <4>2. PICK d \in 0..b : n + d = l - 1 /\ EndOfLine = r + d /\ n + d <= l
        <5>1. j - 1 \in 0..b /\ n + (j - 1) = l - 1 /\ EndOfLine = r + (j - 1) /\ n + (j - 1) <= l
          BY <1>1, <1>4, <2>3, <2>4
        <5> QED  BY <5>1
      <4>3. First(x, n) \o Chars(r, r + d) = First(x, n + d)
        BY <1>7, <4>2
      <4>4. BareLength(x) = l - 1
        <5>1. l > 1 => x[l - 1].t # "cr"
          <6>1. CASE j = 1
            BY <1>4, <1>6, <2>4, <6>1
          <6>2. CASE j > 1
            BY <3>2, <6>2
          <6> QED  BY <6>1, <6>2
        <5> QED  BY <1>2, <1>5, <5>1 DEF BareLength
      <4> QED  BY <2>6, <4>1, <4>2, <4>3, <4>4
    <3> QED  BY <3>1, <3>2
  <2>8. ~More
    BY <1>10 DEF More
  <2> QED  BY <2>5, <2>7, <2>8 DEF Bare, x
<1>11. CASE LineFeeds = {}
  <2>1. n + b < l
    <3> SUFFICES ASSUME ~(n + b < l) PROVE FALSE
      OBVIOUS
    <3>1. l - n \in 1..b /\ n + (l - n) = l /\ l \in 1..l
      BY <1>2, <1>4
    <3>2. buf[(r + (l - n)) - 1].t = "lf"
      BY <1>5, <1>7, <3>1
    <3>3. (r + (l - n)) - 1 \in LineFeeds
      <4>1. (r + (l - n)) - 1 \in r..w-1
        BY <1>1, <1>3, <3>1
      <4> QED  BY <3>2, <4>1 DEF LineFeeds
    <3> QED  BY <1>11, <3>3
  <2>2. b > 0
    BY <1>3, <1>11, SizeIsPositive DEF ReadLine, Buffered
  <2>3. rerr = None
    <3> SUFFICES ASSUME rerr # None PROVE FALSE
      OBVIOUS
    <3>1. next = sent
      BY DEF QuietInv, Over
    <3>2. At = sent - b
      BY <1>1, <1>3, <3>1 DEF At
    <3>3. sent > 0
      BY <1>1, <1>3, <2>2, <3>2
    <3>4. sent >= Off(script, 1)
      BY <3>3 DEF SentInv
    <3> HIDE DEF At
    <3> QED  BY <1>1, <1>4, <1>6, <1>9, <2>1, <3>2, <3>4
  <2>4. More /\ r' = LineTo /\ Line = Chars(r, LineTo)
    BY <1>11, <2>3 DEF More, ReadLine, Line
  <2>5. PICK d \in 0..b : LineTo = r + d /\ (d = b => buf[(r + b) - 1].t # "cr") /\ (d = b \/ d = b - 1)
    <3>1. w = r + b /\ w - 1 = (r + b) - 1
      BY <1>1, <1>3
    <3>2. CASE buf[w - 1].t = "cr"
      <4>1. LineTo = w - 1
        BY <3>2 DEF LineTo
      <4>2. b - 1 \in 0..b /\ w - 1 = r + (b - 1) /\ b - 1 # b
        BY <1>1, <2>2, <3>1
      <4> QED  BY <4>1, <4>2
    <3>3. CASE buf[w - 1].t # "cr"
      <4>1. LineTo = w
        BY <3>3 DEF LineTo
      <4>2. b \in 0..b
        BY <2>2
      <4> QED  BY <3>1, <3>3, <4>1, <4>2
    <3> QED  BY <3>2, <3>3
  <2> DEFINE m == n + d
  <2>6. m \in 0..l-1 /\ n + d <= l
    BY <1>4, <2>1, <2>5
  <2>7. Joined(line) = First(x, m)
    <3>1. Joined(line) = First(x, n) \o Chars(r, r + d)
      BY <1>6, <2>4, <2>5 DEF Joined
    <3> QED  BY <1>7, <2>6, <3>1
  <2>8. At' = Start(script, k - 1) + m
    <3>1. At' = At + d
      BY <1>1, <1>8, <2>4, <2>5 DEF At
    <3> HIDE DEF At
    <3> QED  BY <1>4, <1>6, <1>9, <3>1
  <2>9. m > 0 /\ m = l - 1 => x[m].t # "cr"
    <3> SUFFICES ASSUME m = l - 1 PROVE x[m].t # "cr"
      OBVIOUS
    <3>1. d = b
      BY <1>4, <2>1, <2>5
    <3>2. b \in 1..b /\ n + b <= l
      BY <1>4, <2>1, <2>2
    <3>3. buf[(r + b) - 1] = x[n + b]
      BY <1>7, <3>2
    <3> QED  BY <2>5, <3>1, <3>3
  <2> HIDE DEF m
  <2> QED  BY <1>2, <2>4, <2>6, <2>7, <2>8, <2>9 DEF x
<1> QED  BY <1>10, <1>11

\* A client that keeps to the protocol and waits, while its connection is open.
Welcome == WellBehaved(script) /\ ~impatient /\ open

LEMMA WelcomeBefore ==
  ASSUME ConnInv, WholeInv, [Next]_vars
  PROVE  Welcome' => Welcome
<1>1. script' = script /\ (open' => open) /\ (impatient => impatient')
  BY LiveBefore
<1>2. WellBehaved(script)' => WellBehaved(script)
  BY <1>1
<1> QED  BY <1>1, <1>2 DEF Welcome

LineInv ==
    Welcome /\ script.ws =>
        /\ pc = "line" => /\ lines < Len(script.lines)
                          /\ \E n \in 0..Len(script.lines[lines + 1])-1 : AtLine(lines + 1, n)
        /\ frame = 0 /\ pc \in {"upgrade", "set", "first"} => At = Off(script, 1)

\* What follows a line that is read in full.
LEMMA LineEnds ==
  ASSUME ConnInv, Welcome, script.ws, TakeLine, ~(LineFills /\ Receive), ~(LineFails /\ Fail("read")),
         ~More, NEW k \in 1..Len(script.lines), k = lines + 1,
         Joined(line) = Bare(RequestLine(script, k))
  PROVE  /\ line' = <<>> /\ lines' = k /\ why' = why
         /\ pc' = IF k < Len(script.lines) THEN "line" ELSE "upgrade"
<1> DEFINE l == Joined(line)
           end == lines > 0 /\ Trimmed(l) = <<>>
<1>1. /\ script \in Scripts /\ GoodRequest(script) /\ script.sub /\ lines \in Nat
  BY DEF ConnInv, StreamInv, Welcome, WellBehaved, GoodRequest
<1>2. /\ Len(script.lines) \in Nat /\ Len(script.lines) > 1
      /\ IsRequestLine(Bare(RequestLine(script, 1)))
      /\ \A j \in 2..Len(script.lines)-1 : /\ IsField(Trimmed(Bare(RequestLine(script, j))))
                                           /\ Trimmed(Bare(RequestLine(script, j))) # <<>>
      /\ Trimmed(Bare(RequestLine(script, Len(script.lines)))) = <<>>
  BY <1>1, GoodLines
<1>3. /\ line' = <<>> /\ lines' = lines + 1
      /\ (CASE lines = 0 /\ ~IsRequestLine(l) -> Fail("request")
            [] lines = 0 /\ IsRequestLine(l) -> Goto("line")
            [] end /\ script.sub -> Goto("upgrade")
            [] end /\ ~script.sub -> Fail("path")
            [] lines > 0 /\ ~end ->
                 IF IsField(Trimmed(l)) THEN Goto("line") ELSE Fail("request"))
  BY DEF TakeLine
<1>4. CASE lines = 0
  <2>1. IsRequestLine(l) /\ ~end /\ k < Len(script.lines) /\ ~(lines > 0)
    BY <1>2, <1>4
  <2> HIDE DEF l, end
  <2>2. Goto("line")
    BY <1>3, <1>4, <2>1
  <2> QED  BY <1>3, <2>1, <2>2 DEF Goto
<1>5. CASE lines > 0 /\ k < Len(script.lines)
  <2>1. k \in 2..Len(script.lines)-1
    BY <1>1, <1>2, <1>5
  <2>2. IsField(Trimmed(l)) /\ ~end /\ lines # 0
    BY <1>2, <1>5, <2>1
  <2> HIDE DEF l, end
  <2>3. Goto("line")
    BY <1>3, <1>5, <2>2
  <2> QED  BY <1>3, <1>5, <2>3 DEF Goto
<1>6. CASE lines > 0 /\ k = Len(script.lines)
  <2>1. end /\ lines # 0
    BY <1>2, <1>6
  <2> HIDE DEF l, end
  <2>2. Goto("upgrade")
    BY <1>1, <1>3, <1>6, <2>1
  <2> QED  BY <1>2, <1>3, <1>6, <2>2 DEF Goto
<1>7. lines = 0 \/ (lines > 0 /\ (k < Len(script.lines) \/ k = Len(script.lines)))
  BY <1>1, <1>2
<1> QED  BY <1>4, <1>5, <1>6, <1>7

LEMMA TakeLineServes ==
  ASSUME ConnInv, WholeInv, SentInv, LineInv, Welcome, script.ws, TakeLine
  PROVE  /\ pc' = "line" => /\ lines' < Len(script.lines)
                            /\ \E n \in 0..Len(script.lines[lines' + 1])-1 : AtLine(lines + 1, n)'
         /\ pc' = "upgrade" => At' = Off(script, 1)
         /\ pc' \in {"line", "upgrade"} \cup Halted
         /\ why' \in {why, "read"}
<1>0. /\ StreamInv /\ ControlInv /\ BoolInv /\ QuietInv /\ held /\ pc = "line" /\ open
      /\ script \in Scripts /\ GoodRequest(script) /\ lines \in Nat /\ script' = script
      /\ ended \in BOOLEAN /\ open \in BOOLEAN
  BY DEF ConnInv, WholeInv, StreamInv, ControlInv, BoolInv, TakeLine, Exits, Welcome, WellBehaved,
         Receive, Elsewhere, client
<1>1. /\ Len(script.lines) \in Nat
      /\ \A j \in 1..Len(script.lines) : Len(script.lines[j]) \in Nat \ {0}
  BY <1>0, GoodLines
<1> DEFINE k == lines + 1
<1>2. k \in 1..Len(script.lines)
  BY <1>0, <1>1 DEF LineInv
<1>3. PICK n \in 0..Len(script.lines[k])-1 : AtLine(k, n)
  BY <1>0 DEF LineInv
<1>4. CASE LineFills /\ Receive
  <2>1. At' = At /\ UNCHANGED <<control, reading>>
    BY <1>0, <1>4, ReceiveStays DEF Filling
  <2>2. UNCHANGED <<lines, line, pc, why>>
    BY <2>1 DEF control, reading, request
  <2>3. AtLine(lines + 1, n)'
    <3>1. /\ line' = First(RequestLine(script, lines' + 1), n)
          /\ At' = Start(script, (lines' + 1) - 1) + n
          /\ n > 0 /\ n = Len(script.lines[lines' + 1]) - 1
                => RequestLine(script, lines' + 1)[n].t # "cr"
      BY <1>3, <2>1, <2>2 DEF AtLine
    <3> HIDE DEF At
    <3> QED  BY <1>0, <3>1 DEF AtLine
  <2>4. pc' = "line" /\ lines' < Len(script.lines) /\ n \in 0..Len(script.lines[lines' + 1])-1
    BY <1>0, <1>2, <1>3, <2>2
  <2> QED  BY <2>2, <2>3, <2>4
<1>5. CASE LineFails /\ Fail("read")
  <2>1. pc' \in Halted /\ why' = "read"
    BY <1>0, <1>5, ExitStarts DEF Fail, Halted, Exits, ControlInv
  <2>2. pc' \notin {"line", "upgrade"}
    BY <2>1 DEF Halted, Exits
  <2> QED  BY <2>1, <2>2
<1>6. CASE ~(LineFills /\ Receive) /\ ~(LineFails /\ Fail("read"))
  <2>1. ReadLine
    BY <1>6 DEF TakeLine
  <2>2. CASE More
    <3>1. line' = Joined(line) /\ lines' = lines /\ pc' = "line" /\ why' = why
      BY <1>6, <2>2 DEF TakeLine, Goto
    <3>2. PICK m \in 0..Len(script.lines[k])-1 :
            /\ Joined(line) = First(RequestLine(script, k), m)
            /\ At' = Start(script, k - 1) + m
            /\ m > 0 /\ m = Len(script.lines[k]) - 1 => RequestLine(script, k)[m].t # "cr"
      BY <1>0, <1>2, <1>3, <2>1, <2>2, LineIsRead
    <3>3. AtLine(lines + 1, m)'
      <4>1. /\ line' = First(RequestLine(script, lines' + 1), m)
            /\ At' = Start(script, (lines' + 1) - 1) + m
            /\ m > 0 /\ m = Len(script.lines[lines' + 1]) - 1
                  => RequestLine(script, lines' + 1)[m].t # "cr"
        BY <3>1, <3>2
      <4> HIDE DEF At
      <4> QED  BY <1>0, <4>1 DEF AtLine
    <3>4. lines' < Len(script.lines) /\ m \in 0..Len(script.lines[lines' + 1])-1
      BY <1>0, <1>1, <1>2, <3>1, <3>2
    <3> QED  BY <3>1, <3>3, <3>4
  <2>3. CASE ~More
    <3>1. Joined(line) = Bare(RequestLine(script, k)) /\ At' = Start(script, k)
      BY <1>0, <1>2, <1>3, <2>1, <2>3, LineIsRead
    <3>2. /\ line' = <<>> /\ lines' = k /\ why' = why
          /\ pc' = IF k < Len(script.lines) THEN "line" ELSE "upgrade"
      BY <1>2, <1>6, <2>3, <3>1, LineEnds
    <3>3. CASE k < Len(script.lines)
      <4>1. lines' < Len(script.lines) /\ lines' + 1 \in 1..Len(script.lines)
        BY <1>0, <1>1, <3>2, <3>3
      <4>2. Len(script.lines[lines' + 1]) \in Nat \ {0}
        BY <1>1, <4>1
      <4>3. 0 \in 0..Len(script.lines[lines' + 1])-1
        BY <4>2
      <4>4. AtLine(lines + 1, 0)'
        <5>1. First(RequestLine(script, lines' + 1), 0) = <<>>
          BY DEF First
        <5>2. Start(script, k) = Start(script, (lines' + 1) - 1) + 0
          <6>1. (lines' + 1) - 1 = k /\ k \in 0..Len(script.lines)
            BY <1>0, <1>1, <1>2, <3>2
          <6>2. Start(script, k) \in Nat
            BY <1>0, <6>1, StartSteps
          <6> HIDE DEF k
          <6> QED  BY <6>1, <6>2
        <5> HIDE DEF At, k
        <5> QED  BY <1>0, <3>1, <3>2, <5>1, <5>2 DEF AtLine
      <4> QED  BY <3>2, <3>3, <4>1, <4>3, <4>4
    <3>4. CASE k = Len(script.lines)
      <4>1. Start(script, k) = Off(script, 1)
        BY <1>0, <3>4, StartSteps
      <4> QED  BY <3>1, <3>2, <3>4, <4>1
    <3> QED  BY <1>1, <1>2, <3>3, <3>4
  <2> QED  BY <2>2, <2>3
<1> QED  BY <1>4, <1>5, <1>6

LEMMA LineStep ==
  ASSUME ConnInv, WholeInv, SentInv, LineInv, [Next]_vars
  PROVE  LineInv'
<1>0. /\ StreamInv /\ ControlInv /\ MessageInv /\ BoolInv /\ QuietInv /\ AlignInv
      /\ script \in Scripts /\ WindowInv /\ ended \in BOOLEAN /\ open \in BOOLEAN
  BY DEF ConnInv, WholeInv, StreamInv, BoolInv, ControlInv
<1>1. script' = script /\ AlignInv'
  BY <1>0, LiveBefore, AlignStep
<1> SUFFICES ASSUME Welcome, script.ws
             PROVE  /\ pc' = "line" => /\ lines' < Len(script.lines)
                                       /\ \E n \in 0..Len(script.lines[lines' + 1])-1 : AtLine(lines + 1, n)'
                    /\ frame' = 0 /\ pc' \in {"upgrade", "set", "first"} => At' = Off(script, 1)
  <2>1. Welcome' => Welcome
    BY WelcomeBefore
  <2>2. Off(script, 1)' = Off(script, 1)
    BY <1>1 DEF Off
  <2> HIDE DEF Welcome, At
  <2> QED  BY <1>1, <2>1, <2>2 DEF LineInv
<1>2. CASE TakeLine
  <2>1. /\ pc' = "line" => /\ lines' < Len(script.lines)
                           /\ \E n \in 0..Len(script.lines[lines' + 1])-1 : AtLine(lines + 1, n)'
        /\ pc' = "upgrade" => At' = Off(script, 1)
        /\ pc' \in {"line", "upgrade"} \cup Halted
    BY <1>2, TakeLineServes
  <2>2. pc' \notin {"set", "first"}
    BY <2>1 DEF Halted, Exits
  <2> QED  BY <2>1, <2>2
<1>3. CASE ~TakeLine
  <2>1. UNCHANGED <<lines, line>>
    BY <1>3, LinesStay DEF request
  <2>2. \/ UNCHANGED <<frame, pc>> /\ At' = At
        \/ /\ pc' # "line"
           /\ frame' = 0 /\ pc' \in {"upgrade", "set", "first"} =>
                frame = 0 /\ pc \in {"upgrade", "set", "first"} /\ At' = At
    <3>1. CASE Environment \/ Dispatcher \/ UNCHANGED vars
      BY <3>1, OthersLeave DEF At
    <3>2. CASE \/ Unmask \/ Leave \/ SetProto \/ Operate \/ AuthReply \/ Signal \/ Upgrade
               \/ HandleFrame \/ CountFrame \/ WritePong \/ TakeMessage
      <4>1. /\ UNCHANGED <<frame, next, r, w>>
            /\ pc' \notin {"line", "upgrade"} /\ pc \notin {"line"}
            /\ pc \in Halted => pc' \in Halted
        BY <1>0, <3>2, OtherTurns
      <4>2. At' = At
        BY <4>1 DEF At
      <4>3. frame = 0 => pc \in {"upgrade", "set", "first"} \cup Halted
        BY <1>0, <4>1 DEF AlignInv, Unread
      <4>4. pc' \in Halted => pc' \notin {"upgrade", "set", "first"}
        BY DEF Halted, Exits
      <4> QED  BY <4>1, <4>2, <4>3, <4>4
    <3>3. CASE TakeSecond \/ TakeExt \/ TakeKey \/ TakePayload
      <4>1. UNCHANGED frame /\ pc \in Fetching
        BY <1>0, <3>3, TakeStagesAlign DEF TakeSecond, TakeExt, TakeKey, TakePayload, Fetching
      <4>2. frame # 0 /\ frame \in Nat
        <5>1. pc \notin Unread \cup Halted
          BY <4>1 DEF Fetching, Unread, Halted, Exits
        <5> QED  BY <5>1 DEF AlignInv, WholeInv
      <4>3. pc' # "line"
        BY <1>1, <4>1, <4>2 DEF AlignInv
      <4> QED  BY <4>1, <4>2, <4>3
    <3>4. CASE TakeFirst
      <4>1. held /\ pc = "first" /\ frame \in Nat
        BY <1>0, <3>4 DEF TakeFirst, ControlInv, Exits, WholeInv
      <4>2. CASE Popping(1)
        <5>1. UNCHANGED frame /\ At' = At /\ (pc' = pc \/ pc' \in Halted)
          <6>1. ASSUME NEW x, Fail(x) PROVE pc' \in Halted
            BY <1>0, <6>1, ExitStarts DEF Fail, Halted, Exits, ControlInv
          <6> QED  BY <1>0, <4>1, <4>2, <6>1, PoppingStays DEF reading, message, control
        <5>2. pc' \in Halted => pc' \notin {"line", "upgrade", "set", "first"}
          BY DEF Halted, Exits
        <5> QED  BY <5>1, <5>2
      <4>3. CASE ~Popping(1) /\ pc' \in Halted
        BY <4>3 DEF Halted, Exits
      <4>4. CASE ~Popping(1) /\ ~(pc' \in Halted)
        BY <1>0, <3>4, <4>4, TakeFirstAligns
      <4> QED  BY <4>2, <4>3, <4>4
    <3>5. CASE TakeHead \/ TakeBody
      BY <1>0, <3>5 DEF TakeHead, TakeBody, AlignInv
    <3> QED  BY <1>3, <3>1, <3>2, <3>3, <3>4, <3>5 DEF Next, ReadLoop
  <2>3. ASSUME pc = "line", pc' = "line", At' = At, NEW n, AtLine(lines + 1, n)
        PROVE  AtLine(lines + 1, n)'
    <3> HIDE DEF At
    <3> QED  BY <1>1, <2>1, <2>3 DEF AtLine
  <2>4. CASE UNCHANGED <<frame, pc>> /\ At' = At
    <3>1. pc' = "line" => /\ lines' < Len(script.lines)
                          /\ \E n \in 0..Len(script.lines[lines' + 1])-1 : AtLine(lines + 1, n)'
      <4> SUFFICES ASSUME pc' = "line"
                   PROVE  /\ lines' < Len(script.lines)
                          /\ \E n \in 0..Len(script.lines[lines' + 1])-1 : AtLine(lines + 1, n)'
        OBVIOUS
      <4>1. lines < Len(script.lines)
        BY <2>4 DEF LineInv
      <4>2. PICK n \in 0..Len(script.lines[lines + 1])-1 : AtLine(lines + 1, n)
        BY <2>4 DEF LineInv
      <4>3. AtLine(lines + 1, n)'
        BY <2>3, <2>4, <4>2
      <4> QED  BY <2>1, <4>1, <4>2, <4>3
    <3>2. frame' = 0 /\ pc' \in {"upgrade", "set", "first"} => At' = Off(script, 1)
      <4> HIDE DEF At, Off, Welcome
      <4> QED  BY <2>4 DEF LineInv
    <3> QED  BY <3>1, <3>2
  <2>5. CASE ~(UNCHANGED <<frame, pc>> /\ At' = At)
    <3> HIDE DEF At, Off, Welcome
    <3> QED  BY <2>2, <2>5 DEF LineInv
  <2> QED  BY <2>4, <2>5
<1> QED  BY <1>2, <1>3

-----------------------------------------------------------------------------
(* Frames in a row that end no message *)

Counting == Framing \cup {"count"}

\* The frames that are counted.
Counted == IF pc \in Counting THEN frame - 1 ELSE frame

CountInv ==
    Welcome /\ script.ws /\ pc \notin Halted =>
        /\ frames \in 0..Counted
        /\ \A m \in (Counted - frames) + 1..Counted : ~Ending(script.frames[m])
        /\ pc \in {"pong", "pongbody", "count"} => ~Ending(F)

LEMMA CountRests ==
  ASSUME CountInv, Welcome, script.ws, UNCHANGED <<script, frame, frames>>,
         pc \notin Halted, pc' \in Counting <=> pc \in Counting,
         pc' \in {"pong", "pongbody", "count"} => pc \in {"pong", "pongbody", "count"}
  PROVE  CountInv'
<1>1. Counted' = Counted /\ F' = F
  BY DEF Counted, F
<1>2. \A f : Ending(f)' = Ending(f)
  BY DEF Ending
<1>3. /\ frames \in 0..Counted
      /\ \A m \in (Counted - frames) + 1..Counted : ~Ending(script.frames[m])
      /\ pc \in {"pong", "pongbody", "count"} => ~Ending(F)
  BY DEF CountInv
<1>4. (\A m \in (Counted - frames) + 1..Counted : ~Ending(script.frames[m]))'
  BY <1>1, <1>3 DEF Ending
<1>5. pc' \in {"pong", "pongbody", "count"} => ~Ending(F)'
  BY <1>1, <1>3 DEF Ending
<1> HIDE DEF Counted, F, Ending
<1> QED  BY <1>1, <1>3, <1>4, <1>5 DEF CountInv

LEMMA HandleFrameCounts ==
  ASSUME ControlInv, MessageInv, CountInv, Welcome, script.ws, frame \in Nat, HandleFrame
  PROVE  CountInv'
<1>1. /\ UNCHANGED <<script, frame>> /\ pc = "frame" /\ F' = F /\ F = script.frames[frame]
      /\ frames' = IF pc' = "message" THEN 0 ELSE frames
  BY DEF HandleFrame, Elsewhere, client, F
<1>2. ASSUME NEW x, Fail(x) PROVE pc' \in Halted
  BY <1>2, ExitStarts DEF Fail, Halted, Exits, ControlInv
<1>3. \/ pc' = "message" \/ pc' \in Halted
      \/ pc' = "count" /\ ~Ending(F)
      \/ pc' = "pong" /\ ~Ending(F)
  <2>1. \/ Goto("message") \/ \E x : Fail(x)
        \/ Goto("count") /\ ~Ending(F)
        \/ Goto("pong") /\ ~Ending(F)
    BY DEF HandleFrame, Ending
  <2> QED  BY <1>2, <2>1 DEF Goto
<1>4. /\ frames \in 0..frame - 1
      /\ \A m \in ((frame - 1) - frames) + 1..frame - 1 : ~Ending(script.frames[m])
  <2>1. Counted = frame - 1 /\ pc \notin Halted
    BY <1>1 DEF Counted, Counting, Framing, Halted, Exits
  <2> QED  BY <2>1 DEF CountInv
<1>5. CASE pc' = "message"
  <2>1. Counted' = frame /\ frames' = 0
    BY <1>1, <1>5 DEF Counted, Counting, Framing
  <2>2. 0 \in 0..frame /\ (frame - 0) + 1..frame = {}
    OBVIOUS
  <2>3. pc' \notin {"pong", "pongbody", "count"}
    BY <1>5
  <2> HIDE DEF Counted
  <2> QED  BY <1>1, <2>1, <2>2, <2>3 DEF CountInv
<1>6. CASE pc' \in {"count", "pong"} /\ ~Ending(F)
  <2>1. Counted' = frame - 1 /\ frames' = frames
    BY <1>1, <1>6 DEF Counted, Counting, Framing
  <2>2. ~Ending(F)'
    BY <1>1, <1>6 DEF Ending
  <2>3. (\A m \in (Counted - frames) + 1..Counted : ~Ending(script.frames[m]))'
    BY <1>1, <1>4, <2>1 DEF Ending
  <2> HIDE DEF Counted, Ending, F
  <2> QED  BY <1>1, <1>4, <2>1, <2>2, <2>3 DEF CountInv
<1>7. CASE pc' \in Halted
  BY <1>7 DEF CountInv
<1> QED  BY <1>3, <1>5, <1>6, <1>7

LEMMA CountFrameCounts ==
  ASSUME ControlInv, CountInv, Welcome, script.ws, frame \in Nat, frame \in 1..Len(script.frames),
         Len(script.frames) \in Nat, CountFrame
  PROVE  CountInv' /\ why' = why
<1>1. UNCHANGED <<script, frame>> /\ pc = "count" /\ F = script.frames[frame]
  BY DEF CountFrame, Elsewhere, client, F
<1>2. /\ frames \in 0..frame - 1
      /\ \A m \in ((frame - 1) - frames) + 1..frame - 1 : ~Ending(script.frames[m])
      /\ ~Ending(script.frames[frame])
  <2>1. Counted = frame - 1 /\ pc \notin Halted
    BY <1>1 DEF Counted, Counting, Framing, Halted, Exits
  <2> QED  BY <1>1, <2>1 DEF CountInv
<1>3. \A m \in frame - frames..frame : ~Ending(script.frames[m])
  <2> SUFFICES ASSUME NEW m \in frame - frames..frame PROVE ~Ending(script.frames[m])
    OBVIOUS
  <2>1. m = frame \/ m \in ((frame - 1) - frames) + 1..frame - 1
    BY <1>2
  <2> QED  BY <1>2, <2>1
<1>4. frames <= MaxRead
  <2>1. ShortMessages(script)
    BY DEF Welcome, WellBehaved
  <2>2. frame - frames \in 1..Len(script.frames) /\ frame - frames <= frame
    BY <1>2
  <2>3. frame - (frame - frames) <= MaxRead
    BY <1>3, <2>1, <2>2 DEF ShortMessages
  <2> QED  BY <1>2, <2>3
<1>5. Goto("first") /\ frames' = frames + 1
  <2>1. ~(frames > MaxRead)
    BY <1>2, <1>4, WireAssumption
  <2> QED  BY <2>1 DEF CountFrame
<1>6. Counted' = frame /\ pc' \notin {"pong", "pongbody", "count"}
  BY <1>1, <1>5 DEF Goto, Counted, Counting, Framing
<1>7. frames' \in 0..frame /\ (frame - frames') + 1 = frame - frames
  BY <1>2, <1>5
<1>8. (\A m \in (Counted - frames) + 1..Counted : ~Ending(script.frames[m]))'
  BY <1>1, <1>3, <1>6, <1>7 DEF Ending
<1>9. why' = why
  BY <1>5 DEF Goto
<1> HIDE DEF Counted
<1> QED  BY <1>6, <1>7, <1>8, <1>9 DEF CountInv

LEMMA CountStep ==
  ASSUME ConnInv, WholeInv, CountInv, [Next]_vars
  PROVE  CountInv'
<1>0. /\ StreamInv /\ ControlInv /\ MessageInv /\ BoolInv /\ QuietInv /\ AlignInv
      /\ script \in Scripts /\ frame \in Nat /\ ended \in BOOLEAN /\ open \in BOOLEAN
  BY DEF ConnInv, WholeInv, StreamInv, BoolInv, ControlInv
<1>1. script' = script /\ (Welcome' => Welcome)
  BY LiveBefore, WelcomeBefore
<1> SUFFICES ASSUME Welcome, script.ws, ~(pc' \in Halted) PROVE CountInv'
  BY <1>1 DEF CountInv
<1>h. ASSUME NEW x, Fail(x) PROVE FALSE
  BY <1>0, <1>h, ExitStarts DEF Fail, Halted, Exits, ControlInv
<1>r. ASSUME UNCHANGED <<frame, frames>>, pc \notin Halted, pc' \in Counting <=> pc \in Counting,
             pc' \in {"pong", "pongbody", "count"} => pc \in {"pong", "pongbody", "count"}
      PROVE  CountInv'
  BY <1>1, <1>r, CountRests
<1>2. CASE Environment \/ Dispatcher \/ UNCHANGED vars
  <2>1. UNCHANGED <<pc, frame>>
    BY <1>2, OthersLeave
  <2>2. UNCHANGED frames
    BY <1>2 DEF Environment, Dispatcher, Send, Finish, Close, PushTo, Lend, Wait, Get, Write, Flush,
                Shut, Drain, vars, reading, message
  <2> QED  BY <1>r, <2>1, <2>2
<1>3. CASE \/ Unmask \/ Leave \/ SetProto \/ Operate \/ AuthReply \/ Signal \/ Upgrade
           \/ WritePong \/ TakeMessage
  <2>1. UNCHANGED <<frame, frames>>
    BY <1>3 DEF Unmask, Leave, SetProto, Operate, AuthReply, Signal, Upgrade, WritePong, TakeMessage,
                Elsewhere, reading, message
  <2>2. pc \notin Halted
    BY <1>0, <1>3, OtherTurns
  <2>3. CASE Unmask
    <3>1. pc = "unmask" /\ pc' = "frame"
      BY <2>3 DEF Unmask, Goto
    <3> QED  BY <1>r, <2>1, <2>2, <3>1 DEF Counting, Framing
  <2>4. CASE WritePong
    <3>1. pc \in {"pong", "pongbody"} /\ pc' \in {"pongbody", "count"}
      BY <1>h, <2>4 DEF WritePong, Goto
    <3> QED  BY <1>r, <2>1, <2>2, <3>1 DEF Counting, Framing
  <2>5. CASE Leave \/ SetProto \/ Operate \/ AuthReply \/ Signal \/ Upgrade \/ TakeMessage
    <3>1. pc \notin Counting
      BY <2>5 DEF Leave, SetProto, Operate, AuthReply, Signal, Upgrade, TakeMessage, Counting, Framing
    <3>2. pc' \in {"first", "head", "reply", "signal", "set", "operate"}
      <4>1. CASE Leave
        <5>1. pc \in {"close", "putrb", "finish"}
          BY <4>1 DEF Leave
        <5> QED  BY <2>2, <5>1 DEF Halted, Exits
      <4>2. CASE SetProto \/ Operate \/ AuthReply \/ Signal \/ Upgrade
        BY <1>0, <1>h, <4>2 DEF SetProto, Operate, AuthReply, Signal, Upgrade, Goto, ControlInv
      <4>3. CASE TakeMessage
        <5>1. Goto("operate") \/ Panic \/ \E x : Fail(x)
          BY <4>3 DEF TakeMessage
        <5>2. ~Panic
          BY DEF Panic, Halted
        <5> QED  BY <1>h, <5>1, <5>2 DEF Goto
      <4> QED  BY <2>5, <4>1, <4>2, <4>3
    <3> QED  BY <1>r, <2>1, <2>2, <3>1, <3>2 DEF Counting, Framing
  <2> QED  BY <1>3, <2>3, <2>4, <2>5
<1>4. CASE HandleFrame
  BY <1>0, <1>4, HandleFrameCounts
<1>5. CASE CountFrame
  <2>1. pc = "count" /\ frame # 0
    <3>1. pc = "count"
      BY <1>5 DEF CountFrame
    <3> QED  BY <1>0, <3>1 DEF AlignInv, Unread, Halted, Exits
  <2>2. Len(script.frames) \in Nat /\ frame \in 1..Len(script.frames)
    BY <1>0, <2>1, ScriptFacts DEF AlignInv
  <2> QED  BY <1>0, <1>5, <2>2, CountFrameCounts
<1>6. CASE TakeLine
  <2>1. pc = "line" /\ UNCHANGED <<frame, frames>> /\ pc' \in {"line", "upgrade"} \cup Halted
    <3>1. Dry => Dry'
      BY <1>0, OverStays
    <3> QED  BY <1>0, <1>6, <3>1, TakeLineAligns DEF message, TakeLine
  <2>2. pc \notin Halted
    BY <2>1 DEF Halted, Exits
  <2> QED  BY <1>r, <2>1, <2>2 DEF Counting, Framing
<1>7. CASE TakeSecond \/ TakeExt \/ TakeKey \/ TakePayload
  <2>1. pc \in Fetching /\ UNCHANGED <<frame, frames>>
    BY <1>0, <1>7, TakeStagesAlign DEF TakeSecond, TakeExt, TakeKey, TakePayload, Fetching
  <2>2. pc' \in {"second", "ext", "key", "payload", "unmask", "frame"}
    <3>1. ASSUME NEW n, Popping(n) PROVE pc' = pc
      BY <1>h, <3>1 DEF Popping, Receive, control
    <3>2. \A i \in 1..4 : Stage(i) \in {"ext", "key", "payload", "unmask", "frame"}
      BY StageIsWanted
    <3> QED  BY <1>7, <2>1, <3>1, <3>2 DEF TakeSecond, TakeExt, TakeKey, TakePayload, Goto, Fetching
  <2>3. pc \notin Halted /\ pc \in Counting
    BY <2>1 DEF Halted, Exits, Fetching, Counting, Framing
  <2> QED  BY <1>r, <2>1, <2>2, <2>3 DEF Counting, Framing
<1>8. CASE TakeFirst
  <2>1. pc = "first" /\ held
    BY <1>0, <1>8 DEF TakeFirst, ControlInv, Exits
  <2>2. CASE Popping(1)
    <3>1. pc' = pc /\ UNCHANGED <<frame, frames>>
      BY <1>h, <2>2 DEF Popping, Receive, control, reading, message
    <3>2. pc \notin Halted
      BY <2>1 DEF Halted, Exits
    <3> QED  BY <1>r, <3>1, <3>2
  <2>3. CASE ~Popping(1)
    <3>1. frame' = frame + 1 /\ pc' = "second" /\ UNCHANGED frames
      BY <1>0, <1>8, <2>3, TakeFirstAligns
    <3>2. Counted = frame /\ Counted' = frame /\ pc \notin Halted
      BY <1>0, <2>1, <3>1 DEF Counted, Counting, Framing, Halted, Exits
    <3>3. pc' \notin {"pong", "pongbody", "count"}
      BY <3>1
    <3>4. frames \in 0..frame /\ \A m \in (frame - frames) + 1..frame : ~Ending(script.frames[m])
      BY <3>2 DEF CountInv
    <3>5. (\A m \in (Counted - frames) + 1..Counted : ~Ending(script.frames[m]))'
      BY <1>1, <3>1, <3>2, <3>4 DEF Ending
    <3> HIDE DEF Counted
    <3> QED  BY <3>1, <3>2, <3>3, <3>4, <3>5 DEF CountInv
  <2> QED  BY <2>2, <2>3
<1>9. CASE TakeHead \/ TakeBody
  BY <1>0, <1>9 DEF TakeHead, TakeBody, AlignInv
<1> QED  BY <1>2, <1>3, <1>4, <1>5, <1>6, <1>7, <1>8, <1>9 DEF Next, ReadLoop

-----------------------------------------------------------------------------
(* A client that keeps to the protocol is not turned away *)

GotInv == Welcome /\ ~script.ws => got <= Len(script.packets)

LEMMA WelcomeIsLive ==
  ASSUME StreamInv, WholeInv, GotInv, Welcome
  PROVE  Live /\ InStep(script, got, frame)
<1>1. /\ Len(script.packets) \in Nat /\ Len(script.frames) \in Nat /\ got \in Nat /\ frame \in Nat
  BY ScriptFacts DEF StreamInv, WholeInv
<1>2. InStep(script, Len(script.packets), Len(script.frames))
  BY DEF Welcome, WellBehaved
<1>3. CASE script.ws
  <2>1. \A j \in 1..frame : j \in 1..Len(script.frames)
    BY <1>1, <1>3 DEF WholeInv, AlignInv
  <2>2. InStep(script, got, frame)
    BY <1>2, <1>3, <2>1 DEF InStep
  <2> QED  BY <2>2 DEF Live, Patient, Welcome
<1>4. CASE ~script.ws
  <2>1. \A j \in 1..got : j \in 1..Len(script.packets)
    BY <1>1, <1>4 DEF GotInv
  <2>2. InStep(script, got, frame)
    BY <1>2, <1>4, <2>1 DEF InStep
  <2> QED  BY <2>2 DEF Live, Patient, Welcome
<1> QED  BY <1>3, <1>4

LEMMA GotStep ==
  ASSUME ConnInv, WholeInv, GotInv, [Next]_vars
  PROVE  GotInv'
<1>0. /\ StreamInv /\ ControlInv /\ MessageInv /\ BoolInv /\ QuietInv /\ AlignInv /\ TcpInv
      /\ script \in Scripts /\ got \in Nat
  BY DEF ConnInv, WholeInv, StreamInv
<1>1. script' = script /\ (Welcome' => Welcome)
  BY LiveBefore, WelcomeBefore
<1> SUFFICES ASSUME Welcome, ~script.ws PROVE got' <= Len(script.packets)
  BY <1>1 DEF GotInv
<1>2. got <= Len(script.packets) /\ InStep(script, got, frame)
  BY <1>0, WelcomeIsLive DEF GotInv
<1>3. CASE got' = got
  BY <1>2, <1>3
<1>4. CASE TakeHead /\ got' = got + 1
  <2>1. pc = "head" /\ held
    BY <1>0, <1>4 DEF TakeHead, ControlInv, Exits
  <2>2. Pop(H)
    <3>1. Popping(H) => got' = got
      BY DEF Popping, Receive, reading
    <3> QED  BY <1>0, <1>4, <3>1 DEF TakeHead
  <2>3. got + 1 \in 1..Len(script.packets)
    BY <1>0, <1>2, <2>1, <2>2, HeadIsThere
  <2>4. Len(script.packets) \in Nat
    BY <1>0, ScriptFacts
  <2> QED  BY <1>4, <2>3, <2>4
<1>5. CASE TakeMessage
  BY <1>0, <1>5 DEF TakeMessage, ControlInv
<1> QED  BY <1>0, <1>3, <1>4, <1>5, CountsMove

\* What a good packet says of itself.
LEMMA GoodPacket ==
  ASSUME NEW s \in Scripts, WellBehaved(s), NEW k \in 1..Len(s.packets)
  PROVE  /\ s.packets[k].pack = H + s.packets[k].body /\ s.packets[k].pack \in 0..MaxPack
         /\ s.packets[k].head = H /\ s.packets[k].body \in Nat
         /\ ~s.ws => s.packets[k].body <= Size
<1>1. s.packets[k].body \in Nat /\ H \in Nat /\ MaxPack \in Nat
  BY PacketFacts, HeaderSize, WireAssumption
<1>2. /\ s.packets[k].pack = H + s.packets[k].body /\ s.packets[k].pack <= MaxPack
      /\ s.packets[k].head = H
      /\ ~s.ws => s.packets[k].body <= Size
  BY DEF WellBehaved, GoodPackets, Announces
<1> QED  BY <1>1, <1>2

LEMMA PoppingServes ==
  ASSUME NEW n, Popping(n), Fits(n)
  PROVE  why' \in {why, "read"}
  BY DEF Popping, Receive, Fail, control

\* The ring has a slot for the next request.
LEMMA SetProtoServes ==
  ASSUME RingInv, WaitInv, Live, Num > 1, SetProto
  PROVE  why' = why
<1>1. Len(slots) < Num
  <2>1. CASE slots = <<>>
    <3>1. Len(slots) = 0
      BY <2>1
    <3> QED  BY <3>1, WireAssumption
  <2>2. CASE slots # <<>>
    BY <2>2 DEF WaitInv
  <2> QED  BY <2>1, <2>2
<1> QED  BY <1>1 DEF SetProto, HasSlot, Goto

LEMMA TakeHeadServes ==
  ASSUME ConnInv, WholeInv, GotInv, Welcome, TakeHead
  PROVE  why' \in {why, "read"}
<1>0. /\ StreamInv /\ ControlInv /\ TcpInv /\ AlignInv /\ held /\ pc = "head" /\ got \in Nat
      /\ script \in Scripts /\ ~script.ws
  BY DEF ConnInv, WholeInv, ControlInv, AlignInv, StreamInv, TakeHead, Exits
<1>1. InStep(script, got, frame) /\ WellBehaved(script)
  BY <1>0, WelcomeIsLive DEF Welcome
<1>2. CASE Popping(H)
  BY <1>2, HeaderSize, PoppingServes DEF Fits
<1>3. CASE ~Popping(H)
  <2> DEFINE k == got + 1
             h == Header(Chars(r, r + H))
  <2>1. Pop(H)
    BY <1>3 DEF TakeHead
  <2>2. k \in 1..Len(script.packets) /\ Chars(r, r + H) = First(Packet(script, k), H)
    BY <1>0, <1>1, <2>1, HeadIsThere
  <2>3. h = [k |-> k, op |-> script.packets[k].op, pack |-> script.packets[k].pack,
             head |-> script.packets[k].head]
    BY <1>0, <2>2, HeaderIsWhole
  <2>4. script.packets[k].pack \in 0..MaxPack /\ script.packets[k].head = H
    BY <1>0, <1>1, <2>2, GoodPacket
  <2>5. h.pack \in 0..MaxPack /\ h.head = H
    BY <2>3, <2>4
  <2>6. (CASE TooLarge(h) -> Fail("pack")
           [] ~TooLarge(h) /\ h.head # H -> Fail("head")
           [] OTHER -> Goto(IF h.pack > H THEN "body" ELSE "operate"))
    BY <1>3 DEF TakeHead
  <2> HIDE DEF h, k
  <2>7. ~TooLarge(h)
    BY <2>5, WireAssumption DEF TooLarge
  <2>8. Goto(IF h.pack > H THEN "body" ELSE "operate")
    BY <2>5, <2>6, <2>7
  <2> QED  BY <2>8 DEF Goto
<1> QED  BY <1>2, <1>3

LEMMA TakeBodyServes ==
  ASSUME ConnInv, WholeInv, GotInv, Welcome, TakeBody
  PROVE  why' \in {why, "read"}
<1>0. /\ StreamInv /\ TcpInv /\ AlignInv /\ pc = "body" /\ script \in Scripts /\ ~script.ws
  BY DEF ConnInv, WholeInv, AlignInv, StreamInv, TakeBody
<1>1. InStep(script, got, frame) /\ WellBehaved(script)
  BY <1>0, WelcomeIsLive DEF Welcome
<1>2. proto.k = got /\ got \in 1..Len(script.packets)
  BY <1>0, <1>1 DEF TcpInv
<1> DEFINE n == script.packets[proto.k].pack - H
<1>3. Fits(n)
  <2>1. /\ script.packets[got].pack = H + script.packets[got].body
        /\ script.packets[got].body \in Nat /\ script.packets[got].body <= Size
    BY <1>0, <1>1, <1>2, GoodPacket
  <2> QED  BY <1>2, <2>1, HeaderSize DEF Fits
<1>4. Popping(n) \/ Goto("operate")
  BY DEF TakeBody
<1> HIDE DEF n
<1> QED  BY <1>3, <1>4, PoppingServes DEF Goto

\* There is a frame where the next one is looked for, and its client may send it.
LEMMA FrameIsThere ==
  ASSUME ConnInv, WholeInv, LineInv, Welcome, TakeFirst, ReadByte
  PROVE  /\ buf[r].t = "first" /\ buf[r].k \in 1..Len(script.frames)
         /\ script.frames[buf[r].k].op # "reserved"
<1>0. /\ StreamInv /\ WindowInv /\ AlignInv /\ held /\ pc = "first" /\ script \in Scripts /\ script.ws
      /\ frame \in Nat /\ stream = StreamOf(script)
  BY DEF ConnInv, WholeInv, StreamInv, ControlInv, TakeFirst, Exits
<1>1. PICK l \in Nat : l = Len(script.frames)
  BY <1>0, ScriptFacts
<1>2. At = Off(script, frame + 1) /\ frame \in 0..l
  <2>1. pc \notin Fetching \cup Halted
    BY <1>0 DEF Fetching, Halted, Exits
  <2>2. frame = 0 => At = Off(script, 0 + 1)
    BY <1>0 DEF LineInv
  <2> HIDE DEF At, Off
  <2> QED  BY <1>0, <1>1, <2>1, <2>2 DEF AlignInv
<1>3. Pop(1)
  BY DEF ReadByte
<1>4. At + 1 <= Len(stream) /\ buf[r + 1 - 1] = stream[At + 1]
  <2>1. \A i \in 1..1 : buf[r + i - 1] = stream[At + i]
    BY <1>0, <1>3, AtPops
  <2>2. At + 1 <= Len(stream)
    BY <1>0, <1>3, AtPops
  <2> HIDE DEF At
  <2> QED  BY <2>1, <2>2
<1>5. r + 1 - 1 = r
  <2>1. r \in Nat
    BY <1>0, AtIsInStream
  <2> QED  BY <2>1
<1> DEFINE j == frame + 1
<1>6. j \in 1..l
  <2>1. Off(script, l + 1) = Len(stream) /\ Off(script, frame + 1) \in Nat
    <3>1. \A i \in 0..l + 1 : Off(script, i) \in Nat
      BY <1>0, <1>1, FrameRoom
    <3>2. Off(script, l + 1) = Len(StreamOf(script))
      BY <1>0, <1>1, FrameRoom
    <3>3. frame + 1 \in 0..l + 1
      BY <1>0, <1>1, <1>2
    <3> HIDE DEF Off
    <3> QED  BY <1>0, <3>1, <3>2, <3>3
  <2>2. frame # l
    <3> HIDE DEF Off, At
    <3> QED  BY <1>2, <1>4, <2>1
  <2> QED  BY <1>0, <1>1, <1>2, <2>2
<1>7. stream[At + 1] = Cell("first", j, 1, 0)
  <2>1. Len(Items(script)) = 1 + l
    BY <1>0, <1>1, FrameItems
  <2>2. \A i \in 1..l : Items(script)[i + 1] = Frame(script, i)
    BY <1>0, <1>1, FrameItems
  <2>3. Items(script)[j + 1] = Frame(script, j)
    BY <1>6, <2>2
  <2>4. Frame(script, j)[1] = Cell("first", j, 1, 0)
    BY <1>0, <1>1, <1>6, FrameCells
  <2>5. Len(Frame(script, j)) \in Nat /\ Len(Frame(script, j)) >= 2
    <3> DEFINE f == script.frames[j]
    <3>1. Len(Frame(script, j)) = 2 + Ext(f.n) + Mask(f) + f.n
      BY <1>0, <1>1, <1>6, FrameCells
    <3>2. f.n \in Nat /\ Ext(f.n) \in Nat /\ Mask(f) \in Nat
      BY <1>0, <1>1, <1>6, Sizes
    <3> HIDE DEF f
    <3> QED  BY <3>1, <3>2
  <2>6. j + 1 \in 1..Len(Items(script)) /\ (j + 1) - 1 = frame + 1
    BY <1>0, <1>1, <1>6, <2>1
  <2>7. 1 \in 1..Len(Items(script)[j + 1])
    BY <2>3, <2>5
  <2>8. StreamOf(script)[Off(script, (j + 1) - 1) + 1] = Items(script)[j + 1][1]
    BY <1>0, <2>6, <2>7, OffCells
  <2> HIDE DEF j, Off, At
  <2> QED  BY <1>0, <1>2, <2>3, <2>4, <2>6, <2>8
<1>8. buf[r] = Cell("first", j, 1, 0)
  BY <1>4, <1>5, <1>7
<1>9. buf[r].t = "first" /\ buf[r].k = j
  BY <1>8 DEF Cell
<1>10. script.frames[j].op # "reserved"
  BY <1>0, <1>1, <1>6 DEF Welcome, WellBehaved
<1> HIDE DEF j
<1> QED  BY <1>1, <1>6, <1>9, <1>10

LEMMA TakeFirstServes ==
  ASSUME ConnInv, WholeInv, LineInv, Welcome, TakeFirst
  PROVE  why' \in {why, "read"}
<1>1. CASE Popping(1)
  BY <1>1, WireAssumption, SizeIsPositive, PoppingServes DEF Fits
<1>2. CASE ~Popping(1)
  <2>1. ReadByte /\ (IF buf[r].t = "first" /\ script.frames[buf[r].k].op # "reserved"
                     THEN frame' = buf[r].k /\ Goto("second")
                     ELSE Fail("bits") /\ UNCHANGED frame)
    BY <1>2 DEF TakeFirst
  <2>2. Goto("second")
    BY <2>1, FrameIsThere
  <2> QED  BY <2>2 DEF Goto
<1> QED  BY <1>1, <1>2

\* No part of a frame is larger than the buffer.
LEMMA TakeStagesServe ==
  ASSUME ConnInv, WholeInv, Welcome, TakeSecond \/ TakeExt \/ TakeKey \/ TakePayload
  PROVE  why' \in {why, "read"}
<1>0. /\ pc \in Fetching /\ script.ws /\ script \in Scripts /\ frame \in 1..Len(script.frames)
  BY DEF ConnInv, StreamInv, ControlInv, MessageInv, TakeSecond, TakeExt, TakeKey, TakePayload,
         Framing, Fetching
<1>1. F.n \in Nat /\ F.n <= Size
  <2>1. F.n \in Nat
    BY <1>0, FrameFacts DEF F
  <2>2. F.n <= Size
    BY <1>0 DEF F, Welcome, WellBehaved
  <2> QED  BY <2>1, <2>2
<1>2. Fits(1) /\ Fits(Ext(F.n)) /\ Fits(F.n)
  BY <1>1, WireAssumption, SizeIsPositive DEF Fits, Ext
<1>3. ASSUME NEW p, Goto(p) PROVE why' = why
  BY <1>3 DEF Goto
<1>4. \/ Popping(1) \/ Popping(Ext(F.n)) \/ Popping(F.n)
      \/ Goto(Stage(1)) \/ Goto(Stage(2)) \/ Goto(Stage(3)) \/ Goto(Stage(4))
  BY DEF TakeSecond, TakeExt, TakeKey, TakePayload
<1>5. ASSUME NEW n, Popping(n), Fits(n) PROVE why' \in {why, "read"}
  BY <1>5, PoppingServes
<1> HIDE DEF Popping, Goto, Fits, F
<1> QED  BY <1>2, <1>3, <1>4, <1>5

LEMMA HandleFrameServes ==
  ASSUME ConnInv, Welcome, HandleFrame
  PROVE  why' \in {why, "closed"}
<1>0. pc = "frame" /\ script.ws /\ frame \in 1..Len(script.frames)
  BY DEF ConnInv, ControlInv, MessageInv, HandleFrame, Framing
<1>1. F.op \in {"data", "cont", "ping", "pong", "close"}
  BY <1>0 DEF F, Welcome, WellBehaved
<1>2. CASE F.op \in {"data", "cont"}
  BY <1>2 DEF HandleFrame, Goto, ConnInv, MessageInv
<1>3. CASE F.op \in {"ping", "pong", "close"}
  BY <1>3 DEF HandleFrame, Goto, Fail
<1> QED  BY <1>1, <1>2, <1>3

\* A message is a packet whose header is in order.
LEMMA TakeMessageServes ==
  ASSUME ConnInv, WholeInv, GotInv, Welcome, TakeMessage
  PROVE  why' = why
<1>0. /\ StreamInv /\ ControlInv /\ JoinInv /\ pc = "message" /\ script.ws /\ script \in Scripts
      /\ ReaderTypeOK /\ BodyOK(part) /\ WellBehaved(script)
  BY DEF ConnInv, WholeInv, StreamInv, WindowInv, ControlInv, MessageInv, TakeMessage, Welcome
<1>1. InStep(script, got, frame)
  BY <1>0, WelcomeIsLive DEF WholeInv
<1> DEFINE k == got + 1
           h == Header(First(Contents(part), H))
<1>2. k \in 1..Len(script.packets) /\ Contents(part) = Packet(script, k)
  BY <1>0, <1>1 DEF JoinInv
<1>3. h = [k |-> k, op |-> script.packets[k].op, pack |-> script.packets[k].pack,
           head |-> script.packets[k].head]
  BY <1>0, <1>2, HeaderIsWhole
<1>4. h.pack \in 0..MaxPack /\ h.head = H
  BY <1>0, <1>2, <1>3, GoodPacket
<1>5. ~(part.n < H)
  <2>1. Len(Contents(part)) = part.n
    BY <1>0, ContentsTyped
  <2>2. Len(Packet(script, k)) = H + script.packets[k].body /\ script.packets[k].body \in Nat
    BY <1>0, <1>2, PacketIsSane
  <2> HIDE DEF k
  <2> QED  BY <1>2, <2>1, <2>2, HeaderSize
<1>6. ~(h.pack < 0 \/ TooLarge(h)) /\ ~(h.pack \in 0..MaxPack /\ h.head # H)
  <2> HIDE DEF h
  <2> QED  BY <1>4, WireAssumption DEF TooLarge
<1>7. (CASE h.pack < 0 \/ TooLarge(h) -> Fail("pack")
         [] h.pack \in 0..MaxPack /\ h.head # H -> Fail("head")
         [] OTHER -> \/ (h.pack > H => MayReach(part, h.pack)) /\ Goto("operate")
                     \/ h.pack > H /\ ~Reaches(part, h.pack) /\ Panic)
  BY <1>5 DEF TakeMessage
<1> HIDE DEF h
<1>8. Goto("operate") \/ Panic
  BY <1>6, <1>7
<1> QED  BY <1>8 DEF Goto, Panic

\* The reader goroutine gives a client up for one of these.
Reasons == {"none", "read", "closed", "write"}

ServedInv == Welcome => why \in Reasons

LEMMA ServedStep ==
  ASSUME ConnInv, WholeInv, EchoInv, SentInv, LineInv, CountInv, GotInv, ServedInv, Num > 1,
         [Next]_vars
  PROVE  ServedInv'
<1>0. /\ StreamInv /\ ControlInv /\ MessageInv /\ RingInv /\ WaitInv /\ AlignInv
      /\ script \in Scripts /\ frame \in Nat
  BY DEF ConnInv, WholeInv, EchoInv, StreamInv
<1> SUFFICES ASSUME Welcome PROVE why' \in Reasons
  BY WelcomeBefore DEF ServedInv
<1>1. why \in Reasons
  BY DEF ServedInv
<1>2. Live /\ script.accept
  BY <1>0, WelcomeIsLive DEF Welcome, WellBehaved
<1>3. ASSUME NEW w1 \in Reasons, why' \in {why, w1} PROVE why' \in Reasons
  BY <1>1, <1>3
<1>4. CASE Environment \/ Dispatcher \/ UNCHANGED vars
  <2>1. why' = why
    BY <1>4 DEF Environment, Dispatcher, Send, Finish, Close, PushTo, Lend, Wait, Get, Write, Flush,
                Shut, Drain, vars, control
  <2> QED  BY <1>1, <2>1
<1>5. CASE Unmask \/ Leave \/ Signal
  <2>1. why' = why
    BY <1>5 DEF Unmask, Leave, Signal, Goto
  <2> QED  BY <1>1, <2>1
<1>6. CASE SetProto
  BY <1>0, <1>1, <1>2, <1>6, SetProtoServes
<1>7. CASE TakeHead \/ TakeBody
  BY <1>3, <1>7, TakeHeadServes, TakeBodyServes DEF Reasons
<1>8. CASE Operate
  <2>1. why' = why
    BY <1>0, <1>2, <1>8 DEF Operate, Goto, ControlInv
  <2> QED  BY <1>1, <2>1
<1>9. CASE AuthReply \/ WritePong
  <2>1. why' \in {why, "write"}
    BY <1>9 DEF AuthReply, WritePong, Fail, Goto
  <2> QED  BY <1>3, <2>1 DEF Reasons
<1>10. CASE TakeLine
  <2>1. script.ws
    BY <1>0, <1>10 DEF TakeLine, ControlInv
  <2>2. why' \in {why, "read"}
    BY <1>10, <2>1, TakeLineServes
  <2> QED  BY <1>3, <2>2 DEF Reasons
<1>11. CASE Upgrade
  <2>1. script.upgrade
    BY <1>0, <1>11 DEF Upgrade, ControlInv, Welcome, WellBehaved, GoodRequest
  <2>2. why' \in {why, "write"}
    BY <1>11, <2>1 DEF Upgrade, Fail, Goto
  <2> QED  BY <1>3, <2>2 DEF Reasons
<1>12. CASE TakeFirst
  BY <1>3, <1>12, TakeFirstServes DEF Reasons
<1>13. CASE TakeSecond \/ TakeExt \/ TakeKey \/ TakePayload
  BY <1>3, <1>13, TakeStagesServe DEF Reasons
<1>14. CASE HandleFrame
  BY <1>3, <1>14, HandleFrameServes DEF Reasons
<1>15. CASE CountFrame
  <2>1. pc = "count" /\ script.ws /\ frame # 0
    <3>1. pc = "count" /\ script.ws
      BY <1>0, <1>15 DEF CountFrame, ControlInv
    <3> QED  BY <1>0, <3>1 DEF AlignInv, Unread, Halted, Exits
  <2>2. Len(script.frames) \in Nat /\ frame \in 1..Len(script.frames)
    BY <1>0, <2>1, ScriptFacts DEF AlignInv
  <2>3. why' = why
    BY <1>0, <1>15, <2>1, <2>2, CountFrameCounts
  <2> QED  BY <1>1, <2>3
<1>16. CASE TakeMessage
  BY <1>1, <1>16, TakeMessageServes
<1> QED  BY <1>4, <1>5, <1>6, <1>7, <1>8, <1>9, <1>10, <1>11, <1>12, <1>13, <1>14, <1>15, <1>16
        DEF Next, ReadLoop

LEMMA ServedInit ==
  ASSUME Init
  PROVE  SentInv /\ LineInv /\ CountInv /\ GotInv /\ ServedInv
<1>1. /\ script \in Scripts /\ sent = 0 /\ frame = 0 /\ frames = 0 /\ got = 0 /\ lines = 0
      /\ line = <<>> /\ why = "none" /\ pc = (IF script.ws THEN "line" ELSE "set")
      /\ r = 0 /\ w = 0 /\ next = 0
  BY DEF Init, ReaderInit
<1>2. SentInv
  BY <1>1 DEF SentInv
<1>3. GotInv
  <2>1. Len(script.packets) \in Nat
    BY <1>1, ScriptFacts
  <2> QED  BY <1>1, <2>1 DEF GotInv
<1>4. ServedInv
  BY <1>1 DEF ServedInv, Reasons
<1>5. CountInv
  <2> SUFFICES ASSUME script.ws PROVE CountInv
    BY DEF CountInv
  <2>1. pc = "line" /\ Counted = 0
    BY <1>1 DEF Counted, Counting, Framing
  <2>2. frames \in 0..Counted
    BY <1>1, <2>1
  <2>3. \A m \in (Counted - frames) + 1..Counted : FALSE
    BY <1>1, <2>1
  <2> HIDE DEF Counted
  <2> QED  BY <2>1, <2>2, <2>3 DEF CountInv
<1>6. LineInv
  <2> SUFFICES ASSUME Welcome, script.ws
               PROVE  /\ lines < Len(script.lines)
                      /\ \E n \in 0..Len(script.lines[lines + 1])-1 : AtLine(lines + 1, n)
    BY <1>1 DEF LineInv
  <2>1. GoodRequest(script)
    BY DEF Welcome, WellBehaved
  <2>2. Len(script.lines) \in Nat /\ Len(script.lines) > 1
    BY <1>1, <2>1, GoodLines
  <2>3. Len(script.lines[1]) \in Nat \ {0}
    <3>1. \A k \in 1..Len(script.lines) : Len(script.lines[k]) \in Nat \ {0}
      BY <1>1, <2>1, GoodLines
    <3> QED  BY <2>2, <3>1
  <2>4. AtLine(1, 0)
    BY <1>1, <2>2, StartSteps DEF AtLine, At, First
  <2>5. 0 \in 0..Len(script.lines[lines + 1])-1 /\ lines + 1 = 1
    BY <1>1, <2>3
  <2> QED  BY <1>1, <2>2, <2>4, <2>5
<1> QED  BY <1>2, <1>3, <1>4, <1>5, <1>6

\* Over a ring of more than one slot, a client that keeps to the protocol and waits
\* for its replies is never turned away while its connection is open: not by the
\* ring (ring.go:69), the sizes of the packets (protocol.go:86, 174), the limit on frames
\* (conn.go:169), the request of a websocket (request.go:33, 84) or a part larger than
\* the buffer (bufio.go:119), however its stream is cut.
THEOREM ConnectionServes ==
  ASSUME Num > 1
  PROVE  Spec => []WellBehavedIsServed
<1>1. Init => EchoInv /\ SentInv /\ LineInv /\ CountInv /\ GotInv /\ ServedInv
  BY EchoInit, ServedInit
<1>2. EchoInv /\ ConnInv /\ WholeInv /\ [Next]_vars => EchoInv'
  BY EchoStep
<1>3. SentInv /\ ConnInv /\ [Next]_vars => SentInv'
  BY SentStep DEF ConnInv
<1>4. LineInv /\ SentInv /\ ConnInv /\ WholeInv /\ [Next]_vars => LineInv'
  BY LineStep
<1>5. CountInv /\ ConnInv /\ WholeInv /\ [Next]_vars => CountInv'
  BY CountStep
<1>6. GotInv /\ ConnInv /\ WholeInv /\ [Next]_vars => GotInv'
  BY GotStep
<1>7. ASSUME EchoInv, SentInv, LineInv, CountInv, GotInv, ServedInv, ConnInv, WholeInv, [Next]_vars
      PROVE  ServedInv'
  BY <1>7, ServedStep
<1>8. ServedInv => WellBehavedIsServed
  BY DEF ServedInv, Reasons, Welcome, WellBehavedIsServed
<1> QED  BY <1>1, <1>2, <1>3, <1>4, <1>5, <1>6, <1>7, <1>8, ConnInvariance, WholeInvariance, PTL
        DEF Spec
=============================================================================
