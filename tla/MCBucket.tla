------------------------------ MODULE MCBucket ------------------------------
(* Three connections: c1 and c2 log in with the same key from different     *)
(* addresses, c3 with a key of its own from the address of c1.              *)
EXTENDS Bucket, TLC

CONSTANTS c1, c2, c3, k1, k2, ip1, ip2

MCChannels == {c1, c2, c3}
MCKeys == {k1, k2}
MCIPs == {ip1, ip2}
MCKeyOf == (c1 :> k1) @@ (c2 :> k1) @@ (c3 :> k2)
MCIPOf == (c1 :> ip1) @@ (c2 :> ip2) @@ (c3 :> ip1)

RoomSymmetry == Permutations(Rooms)
=============================================================================
