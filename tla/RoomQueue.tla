----------------------------- MODULE RoomQueue -----------------------------
(***************************************************************************)
(* What job does with the messages of a room: one queue per room, emptied  *)
(* into batches that go out in the order the messages were accepted.  A    *)
(* mark in the queue sends an incomplete batch; a mark that finds no batch *)
(* closes the room, and what was accepted behind it is lost.               *)
(***************************************************************************)
EXTENDS Naturals, Sequences

CONSTANTS
    Rooms,
    Msgs,
    Mark,       \* not a message
    Limit       \* messages in a batch

VARIABLES
    queue,      \* accepted, for each room
    batch,      \* taken from the queue
    sent        \* the last batch that went out of each room

vars == <<queue, batch, sent>>

Init ==
    /\ queue = [r \in Rooms |-> <<>>]
    /\ batch = [r \in Rooms |-> <<>>]
    /\ sent = [r \in Rooms |-> <<>>]

Accept(r, m) ==
    /\ queue' = [queue EXCEPT ![r] = Append(@, m)]
    /\ UNCHANGED <<batch, sent>>

Take(r) ==
    /\ queue[r] # <<>>
    /\ Head(queue[r]) # Mark
    /\ Len(batch[r]) < Limit
    /\ batch' = [batch EXCEPT ![r] = Append(@, Head(queue[r]))]
    /\ queue' = [queue EXCEPT ![r] = Tail(@)]
    /\ UNCHANGED sent

TakeMark(r) ==
    /\ queue[r] # <<>>
    /\ Head(queue[r]) = Mark
    /\ batch[r] # <<>>
    /\ queue' = [queue EXCEPT ![r] = Tail(@)]
    /\ UNCHANGED <<batch, sent>>

Send(r) ==
    /\ batch[r] # <<>>
    /\ sent' = [sent EXCEPT ![r] = batch[r]]
    /\ batch' = [batch EXCEPT ![r] = <<>>]
    /\ UNCHANGED queue

Close(r) ==
    /\ queue[r] # <<>>
    /\ Head(queue[r]) = Mark
    /\ batch[r] = <<>>
    /\ queue' = [queue EXCEPT ![r] = <<>>]
    /\ UNCHANGED <<batch, sent>>

Next ==
    \E r \in Rooms :
        \/ \E m \in Msgs \cup {Mark} : Accept(r, m)
        \/ Take(r) \/ TakeMark(r) \/ Send(r) \/ Close(r)

Spec == Init /\ [][Next]_vars
=============================================================================
