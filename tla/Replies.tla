------------------------------ MODULE Replies ------------------------------
(***************************************************************************)
(* What a session promises its client, whatever happens on the server:     *)
(* requests are numbered as they come, at most Num of them wait for their  *)
(* answer, a request is shown to the side that writes answers only when    *)
(* its answer is complete, and answers leave in the order of the requests, *)
(* each once.  Module Session implements it with two goroutines, a ring    *)
(* and a channel.                                                          *)
(***************************************************************************)
EXTENDS Naturals, Sequences

CONSTANTS
    Num,        \* most requests that wait for their answer
    Answers     \* the kinds of answers

VARIABLES
    accepted,   \* requests accepted so far
    pending     \* their answers that were not yet written, oldest first

vars == <<accepted, pending>>

Init == accepted = 0 /\ pending = <<>>

Accept ==
    /\ Len(pending) < Num
    /\ \E a \in Answers : pending' = Append(pending, [n |-> accepted, op |-> a])
    /\ accepted' = accepted + 1

Write ==
    /\ pending # <<>>
    /\ pending' = Tail(pending)
    /\ UNCHANGED accepted

Next == Accept \/ Write

Spec == Init /\ [][Next]_vars
=============================================================================
