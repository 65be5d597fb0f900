----------------------------- MODULE BoundedFifo -----------------------------
(***************************************************************************)
(* What a ring promises its two threads: a first-in first-out queue of at  *)
(* most Capacity values.  A put is refused only when the queue is full, a  *)
(* get on an empty queue leaves everything alone.                          *)
(***************************************************************************)
EXTENDS Naturals, Sequences

CONSTANTS
    Values,         \* what is stored
    Capacity        \* how many values fit

VARIABLES
    queue,          \* the values stored and not yet taken, oldest first
    taken,          \* the value the last successful get returned, as a 0/1-sequence
    accepted        \* what the last completed put returned

vars == <<queue, taken, accepted>>

Init == queue = <<>> /\ taken = <<>> /\ accepted = TRUE

Put(v) ==
    /\ Len(queue) < Capacity
    /\ queue' = Append(queue, v)
    /\ accepted' = TRUE
    /\ taken' = taken

Refuse ==
    /\ Len(queue) = Capacity
    /\ accepted' = FALSE
    /\ UNCHANGED <<queue, taken>>

Get ==
    /\ queue # <<>>
    /\ queue' = Tail(queue)
    /\ taken' = <<Head(queue)>>
    /\ accepted' = accepted

Next == Refuse \/ Get \/ \E v \in Values : Put(v)

Spec == Init /\ [][Next]_vars
==============================================================================
