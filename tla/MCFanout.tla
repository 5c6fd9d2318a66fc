------------------------------ MODULE MCFanout ------------------------------
(* Two clients in one bucket; three messages to their room, one to both     *)
(* keys, one to all.                                                         *)
EXTENDS Fanout, TLC

CONSTANTS c1, c2, k1, k2, r

TheKeys == c1 :> k1 @@ c2 :> k2
OneBucket == [k \in Keys |-> 1]
Ask(t, ks) == [type |-> t, keys |-> ks, room |-> r]
FiveRequests ==
    [i \in 1..3 |-> Ask("room", <<>>)] \o <<Ask("keys", <<k1, k2>>), Ask("all", <<>>)>>
=============================================================================
