----------------------------- MODULE MCMapping -----------------------------
(***************************************************************************)
(* A connection to one comet, and another to another comet: of the same    *)
(* client, of another device of the user, or with the key and no user.     *)
(***************************************************************************)
EXTENDS Mapping

CONSTANTS a, b, s1, s2, k1, k2, m1

MCServer == [c \in {a, b} |-> IF c = a THEN s1 ELSE s2]

MCTokens ==
    [c \in {a, b} |->
        {[key |-> k1, mid |-> m1]} \cup
            IF c = a THEN {} ELSE {[key |-> k2, mid |-> m1], [key |-> k1, mid |-> None]}]
=============================================================================
