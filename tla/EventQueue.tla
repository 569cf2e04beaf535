----------------------------- MODULE EventQueue -----------------------------
(***************************************************************************)
(* The ring buffer of usb.c in which the monitor thread leaves insertions  *)
(* and removals for the main thread.  A queue is a record, and the         *)
(* functions of the code are operators on it; the caller holds usb_mutex.  *)
(***************************************************************************)
EXTENDS Integers, Sequences

CONSTANTS
  USB_EVENT_QUEUE_LEN,   \* slots of a queue, MAX_USB_CHANNELS * 2 in the code
  NoEvent                \* a slot that holds no event

ASSUME QueueLenAssumption == USB_EVENT_QUEUE_LEN \in Nat \ {0}

Slots == 0 .. USB_EVENT_QUEUE_LEN - 1

Queues(Event) ==
  [events : [Slots -> Event \cup {NoEvent}], head : Slots, tail : Slots,
   count : 0 .. USB_EVENT_QUEUE_LEN]

\* Faulty variant of NextSlot: no wrap-around.
NextSlotUnbounded(slot) == slot + 1

NextSlot(slot) == (slot + 1) % USB_EVENT_QUEUE_LEN

queue_init ==
  [events |-> [slot \in Slots |-> NoEvent], head |-> 0, tail |-> 0, count |-> 0]

Full(q) == q.count >= USB_EVENT_QUEUE_LEN

\* Faulty variant of queue_push: a full queue forgets to move its head on.
queue_push_overwriting(q, event) ==
  [events |-> [q.events EXCEPT ![q.tail] = event],
   head   |-> q.head,
   tail   |-> NextSlot(q.tail),
   count  |-> IF Full(q) THEN q.count ELSE q.count + 1]

\* A full queue gives up its oldest event.
queue_push(q, event) ==
  [events |-> [q.events EXCEPT ![q.tail] = event],
   head   |-> IF Full(q) THEN NextSlot(q.head) ELSE q.head,
   tail   |-> NextSlot(q.tail),
   count  |-> IF Full(q) THEN q.count ELSE q.count + 1]

\* queue_pop hands out the oldest event.  Its slot is not read again before it
\* is written, so the model blanks it: reading it would yield NoEvent.
Oldest(q) == q.events[q.head]

\* Faulty variant of queue_pop: the event is looked at and left.
queue_pop_keeping(q) == q

queue_pop(q) ==
  [events |-> [q.events EXCEPT ![q.head] = NoEvent],
   head   |-> NextSlot(q.head),
   tail   |-> q.tail,
   count  |-> q.count - 1]

-----------------------------------------------------------------------------
\* The events of a queue from the oldest to the newest.
Contents(q) ==
  [i \in 1 .. q.count |-> q.events[(q.head + (i - 1)) % USB_EVENT_QUEUE_LEN]]

\* The three numbers are in step, and no blank slot lies between head and tail.
Sound(q, Event) ==
  /\ q \in Queues(Event)
  /\ q.tail = (q.head + q.count) % USB_EVENT_QUEUE_LEN
  /\ \A i \in 1 .. q.count : Contents(q)[i] \in Event
=============================================================================
