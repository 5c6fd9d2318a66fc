------------------------------- MODULE Layout -------------------------------
(***************************************************************************)
(* What a connection carries (api/protocol/protocol.go, pkg/websocket).    *)
(* A client follows a script:                                              *)
(*   ws        over a websocket, after a request of these                  *)
(*   lines     sequences of characters, asking for                         *)
(*   sub       the path /sub, with                                         *)
(*   upgrade   the headers Upgrade asks for                                *)
(*   packets   [op, pack, head, body]: the operation, the two length       *)
(*             fields, and how many cells the body has                     *)
(*   frames    [op, fin, masked, packet, from, n]: n cells of a packet     *)
(*   accept    logic takes the token                                       *)
(*   pushes    the lengths of the messages pushed to it, packed by job     *)
(*                                                                         *)
(* A cell [t, k, i, x] is the i-th of its kind of line, frame or packet k, *)
(* under the masking key of frame x, or under none.                        *)
(***************************************************************************)
EXTENDS Integers, Sequences, SequencesExt

CONSTANTS
    H,              \* cells of the fixed header (_rawHeaderSize)
    Short, Long     \* longest length of 7 bits, and of 16

Cell(t, k, i, x) == [t |-> t, k |-> k, i |-> i, x |-> x]
Spoilt == Cell("junk", 0, 0, 0)
Clear == Cell("field", 0, 0, 0)

Seqn(n, cell(_)) == [i \in 1..n |-> cell(i)]

\* Cells for the extended length of a frame.
Ext(n) == CASE n <= Short -> 0 [] n <= Long -> 1 [] OTHER -> 2

PacketCell(k, i, x) == IF i <= H THEN Cell("head", k, i, x) ELSE Cell("body", k, i - H, x)

Packet(script, k) == Seqn(H + script.packets[k].body, LAMBDA i : PacketCell(k, i, 0))

Body(script, k) == Seqn(script.packets[k].body, LAMBDA i : Cell("body", k, i, 0))

RequestLine(script, k) ==
    Seqn(Len(script.lines[k]), LAMBDA i : Cell(script.lines[k][i], k, i, 0))

Frame(script, k) ==
    LET f == script.frames[k]
        x == IF f.masked THEN k ELSE 0
    IN  <<Cell("first", k, 1, 0), Cell("second", k, 1, 0)>>
        \o Seqn(Ext(f.n), LAMBDA i : Cell("ext", k, i, 0))
        \o (IF f.masked THEN <<Cell("key", k, 1, 0)>> ELSE <<>>)
        \o Seqn(f.n, LAMBDA i : IF f.packet = 0 THEN Cell("body", 0, i, x)
                                ELSE PacketCell(f.packet, f.from + i, x))

\* What a script is made of.
Letters == {"char", "sp", "colon", "cr", "lf"}
Ops == {"auth", "echo", "beat", "other"}
FrameOps == {"data", "cont", "ping", "pong", "close", "reserved", "unknown"}
Kinds == Letters \cup {"first", "second", "ext", "key", "head", "body", "junk"}

ScriptType ==
    [ws : BOOLEAN, sub : BOOLEAN, upgrade : BOOLEAN, accept : BOOLEAN, pushes : Seq(Nat),
     lines : Seq(Seq(Letters)),
     packets : Seq([op : Ops, pack : Int, head : Int, body : Nat]),
     frames : Seq([op : FrameOps, fin : BOOLEAN, masked : BOOLEAN, packet : Nat, from : Nat,
                   n : Nat])]

Request(script) == FlattenSeq(Seqn(Len(script.lines), LAMBDA k : RequestLine(script, k)))

\* What the client sends, in the pieces it sends it.
Items(script) ==
    IF script.ws
    THEN <<Request(script)>> \o Seqn(Len(script.frames), LAMBDA k : Frame(script, k))
    ELSE Seqn(Len(script.packets), LAMBDA k : Packet(script, k))

StreamOf(script) == FlattenSeq(Items(script))

\* The ends of the pieces in the stream.
Ends(script) ==
    LET items == Items(script)
    IN  {Len(FlattenSeq(SubSeq(items, 1, n))) : n \in 1..Len(items)}

\* The last cell of packet k.
LastCell(script, k) == PacketCell(k, H + script.packets[k].body, 0)

-----------------------------------------------------------------------------
(* What the server sends: items of cells [of, k, i, n, c], the i-th of n   *)
(* cells of a reply, a push or a pong, with the content c.                 *)

Out(of, k, i, n, c) == [of |-> of, k |-> k, i |-> i, n |-> n, c |-> c]

\* A frame's head: two bytes, which are one cell, and the extended length.
FrameHead(n) == 1 + Ext(n)
=============================================================================
