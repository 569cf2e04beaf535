----------------------------- MODULE DropOldest -----------------------------
(***************************************************************************)
(* What the event queues promise: a first-in first-out queue of bounded    *)
(* length that, when full, loses its oldest event and never another.       *)
(***************************************************************************)
EXTENDS Naturals, Sequences

CONSTANTS Capacity, Event

VARIABLE queue

Room == IF Len(queue) = Capacity THEN Tail(queue) ELSE queue

Push(event) == queue' = Append(Room, event)

Pop == queue # <<>> /\ queue' = Tail(queue)

Init == queue = <<>>

Next == Pop \/ \E event \in Event : Push(event)

Spec == Init /\ [][Next]_queue
=============================================================================
