------------------------------- MODULE MCWire -------------------------------
EXTENDS Wire

Pk(op, body) == [op |-> op, pack |-> H + body, head |-> H, body |-> body]
Fr(op, fin, masked, p, from, n) ==
    [op |-> op, fin |-> fin, masked |-> masked, packet |-> p, from |-> from, n |-> n]

\* A good script over TCP; lines and frames are for the others.
TCP(packets, pushes) ==
    [ws |-> FALSE, lines |-> <<>>, sub |-> TRUE, upgrade |-> TRUE, packets |-> packets,
     frames |-> <<>>, accept |-> TRUE, pushes |-> pushes]

Plain == <<<<"sp", "sp", "lf">>, <<"lf">>>>
Longer == <<<<"char", "sp", "sp", "cr", "lf">>, <<"sp", "char", "colon", "char", "cr", "lf">>, <<"sp", "cr", "lf">>>>

WS(packets, fs, pushes) ==
    [ws |-> TRUE, lines |-> Plain, sub |-> TRUE, upgrade |-> TRUE, packets |-> packets,
     frames |-> fs, accept |-> TRUE, pushes |-> pushes]

Auth == Fr("data", TRUE, FALSE, 1, 0, H)

MCScripts == {
    TCP(<<Pk("other", 1), Pk("auth", 0), Pk("echo", 4)>>, <<3, 6>>),
    TCP(<<Pk("auth", 1), Pk("echo", 2), Pk("beat", 0)>>, <<>>),
    TCP(<<Pk("auth", 0), Pk("echo", 1), Pk("echo", 0), Pk("other", 1)>>, <<>>),
    [TCP(<<Pk("auth", 0)>>, <<>>) EXCEPT !.accept = FALSE],
    [TCP(<<Pk("auth", 0), Pk("other", 0)>>, <<>>) EXCEPT !.packets[2].pack = MaxPack + 1],
    [TCP(<<Pk("auth", 0), Pk("other", 0)>>, <<>>) EXCEPT !.packets[2].pack = 0],
    [TCP(<<Pk("auth", 0)>>, <<>>) EXCEPT !.packets[1].head = H + 1],
    WS(<<Pk("auth", 0)>>, <<Auth, Fr("ping", TRUE, TRUE, 0, 0, 1)>>, <<1>>),
    WS(<<Pk("auth", 0), Pk("echo", 2)>>, <<Auth, Fr("data", TRUE, TRUE, 2, 0, 4)>>, <<3>>),
    WS(<<Pk("auth", 0), Pk("echo", 2)>>,
       <<Auth, Fr("ping", TRUE, TRUE, 0, 0, 1), Fr("data", TRUE, TRUE, 2, 0, 4)>>, <<>>),
    WS(<<Pk("auth", 1), Pk("echo", 4)>>,
       <<Fr("data", TRUE, TRUE, 1, 0, 3), Fr("data", FALSE, TRUE, 2, 0, 2),
         Fr("cont", FALSE, FALSE, 2, 2, 1), Fr("cont", TRUE, TRUE, 2, 3, 3)>>, <<>>),
    WS(<<Pk("auth", 0), Pk("beat", 0)>>,
       <<Auth, Fr("data", FALSE, FALSE, 2, 0, 0), Fr("pong", TRUE, TRUE, 0, 0, 1),
         Fr("data", TRUE, TRUE, 2, 0, 2), Fr("close", TRUE, FALSE, 0, 0, 0)>>, <<>>),
    WS(<<Pk("auth", 0)>>, <<Fr("ping", TRUE, FALSE, 0, 0, 0), Fr("pong", TRUE, FALSE, 0, 0, 0),
       Fr("ping", TRUE, FALSE, 0, 0, 0), Auth>>, <<>>),
    WS(<<Pk("auth", 0)>>, <<Fr("reserved", TRUE, FALSE, 0, 0, 0)>>, <<>>),
    WS(<<Pk("auth", 0)>>, <<Fr("unknown", TRUE, FALSE, 0, 0, 0)>>, <<>>),
    WS(<<Pk("auth", 0)>>, <<Fr("data", TRUE, FALSE, 1, 0, 1)>>, <<>>),
    WS(<<Pk("auth", 3)>>, <<Fr("data", TRUE, FALSE, 1, 0, Size + 1)>>, <<>>),
    [WS(<<Pk("auth", 0)>>, <<Auth>>, <<>>) EXCEPT !.packets[1].pack = H + 1],
    [WS(<<Pk("auth", 0)>>, <<Fr("data", FALSE, FALSE, 1, 0, 1), Fr("cont", TRUE, FALSE, 1, 1, 1)>>,
        <<>>) EXCEPT !.packets[1].pack = H + 1],
    [WS(<<Pk("auth", 0)>>, <<Auth>>, <<>>) EXCEPT !.packets[1].head = H + 1],
    [WS(<<Pk("auth", 0)>>, <<Auth>>, <<>>) EXCEPT !.packets[1].pack = MaxPack + 1],
    [WS(<<>>, <<>>, <<>>) EXCEPT !.lines = Longer],
    [WS(<<>>, <<>>, <<>>) EXCEPT !.lines = Longer, !.sub = FALSE],
    [WS(<<>>, <<>>, <<>>) EXCEPT !.upgrade = FALSE],
    [WS(<<>>, <<>>, <<>>) EXCEPT !.lines = <<<<"char", "sp", "lf">>>>],
    [WS(<<>>, <<>>, <<>>) EXCEPT !.lines = <<<<"sp", "sp", "lf">>, <<"colon", "lf">>>>]}

MCCells ==
    [t : {"char", "sp", "colon", "cr", "lf", "first", "second", "ext", "key", "head", "body", "junk"},
     k : 0..5, i : 0..6, x : -1..5]
MCJunk == Spoilt
=============================================================================
