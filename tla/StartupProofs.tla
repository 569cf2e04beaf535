--------------------------- MODULE StartupProofs ---------------------------
(***************************************************************************)
(* Theorems about Startup, for any number of channels and sockets, queues  *)
(* of any length and any failures of load_master.  Those that assume Calm  *)
(* are about a patient operator, the others about any.                     *)
(***************************************************************************)
EXTENDS Startup, SequenceTheorems, FiniteSetTheorems, TLAPS

-----------------------------------------------------------------------------
(* The ring buffer of EventQueue keeps the promise of DropOldest: what a   *)
(* push and a pop do to the contents of a queue.                           *)

\* What DropOldest does to make room.
MakeRoom(s) == IF Len(s) = USB_EVENT_QUEUE_LEN THEN Tail(s) ELSE s

\* The slot k steps after slot h, as long as k is at most one lap.
Ahead(h, k) ==
  IF h + k < USB_EVENT_QUEUE_LEN THEN h + k ELSE h + k - USB_EVENT_QUEUE_LEN

\* The remainder of the code is Ahead.
LEMMA OneLap ==
  ASSUME NEW h \in Slots, NEW k \in 0 .. USB_EVENT_QUEUE_LEN
  PROVE  (h + k) % USB_EVENT_QUEUE_LEN = Ahead(h, k) /\ Ahead(h, k) \in Slots
<1>1. USB_EVENT_QUEUE_LEN \in Nat \ {0}
  BY QueueLenAssumption
<1> QED
  BY <1>1 DEF Slots, Ahead

\* One step ahead.
LEMMA OneStep ==
  ASSUME NEW h \in Slots
  PROVE  NextSlot(h) = Ahead(h, 1) /\ NextSlot(h) \in Slots
<1>1. 1 \in 0 .. USB_EVENT_QUEUE_LEN
  BY QueueLenAssumption
<1> QED
  BY <1>1, OneLap DEF NextSlot

\* Steps add up, a whole lap leads back, and shorter ways apart do not meet.
LEMMA Steps ==
  ASSUME NEW h \in Slots
  PROVE  /\ \A k \in 0 .. USB_EVENT_QUEUE_LEN - 1 :
              /\ Ahead(Ahead(h, k), 1) = Ahead(h, k + 1)
              /\ Ahead(Ahead(h, 1), k) = Ahead(h, k + 1)
         /\ Ahead(h, USB_EVENT_QUEUE_LEN) = h
         /\ Ahead(h, 0) = h
         /\ \A k, m \in 0 .. USB_EVENT_QUEUE_LEN :
              k < m /\ m < k + USB_EVENT_QUEUE_LEN => Ahead(h, k) # Ahead(h, m)
<1>1. USB_EVENT_QUEUE_LEN \in Nat \ {0}
  BY QueueLenAssumption
<1> QED
  BY <1>1 DEF Slots, Ahead

\* The parts of a queue.
LEMMA Parts ==
  ASSUME NEW Items, NEW q, Sound(q, Items)
  PROVE  /\ q.head \in Slots /\ q.tail \in Slots
         /\ q.count \in 0 .. USB_EVENT_QUEUE_LEN
         /\ q.events \in [Slots -> Items \cup {NoEvent}]
         /\ q.tail = Ahead(q.head, q.count)
<1>1. q \in Queues(Items) /\ q.tail = (q.head + q.count) % USB_EVENT_QUEUE_LEN
  BY DEF Sound
<1>2. /\ q.head \in Slots /\ q.tail \in Slots
      /\ q.count \in 0 .. USB_EVENT_QUEUE_LEN
      /\ q.events \in [Slots -> Items \cup {NoEvent}]
  BY <1>1 DEF Queues
<1> QED
  BY <1>1, <1>2, OneLap

\* Each event of the contents by its slot.
LEMMA ContentsAt ==
  ASSUME NEW q, q.head \in Slots, q.count \in 0 .. USB_EVENT_QUEUE_LEN, NEW i \in 1 .. q.count
  PROVE  /\ Contents(q)[i] = q.events[Ahead(q.head, i - 1)]
         /\ Ahead(q.head, i - 1) \in Slots
<1>1. USB_EVENT_QUEUE_LEN \in Nat /\ i - 1 \in 0 .. USB_EVENT_QUEUE_LEN
  BY QueueLenAssumption
<1>2. (q.head + (i - 1)) % USB_EVENT_QUEUE_LEN = Ahead(q.head, i - 1)
  BY <1>1, OneLap
<1>3. Contents(q)[i] = q.events[(q.head + (i - 1)) % USB_EVENT_QUEUE_LEN]
  BY DEF Contents
<1> QED
  BY <1>1, <1>2, <1>3, OneLap

\* Contents is a sequence of events.
LEMMA ContentsSeq ==
  ASSUME NEW Items, NEW q, Sound(q, Items)
  PROVE  /\ Contents(q) \in Seq(Items)
         /\ Len(Contents(q)) = q.count
<1>1. q.count \in Nat
  BY Parts, QueueLenAssumption
<1>2. Contents(q) \in [1 .. q.count -> Items]
  BY DEF Sound, Contents
<1> QED
  BY <1>1, <1>2, SeqDef

\* An empty queue holds no events.
LEMMA InitQueue ==
  ASSUME NEW Items
  PROVE  Sound(queue_init, Items) /\ Contents(queue_init) = <<>>
<1>1. USB_EVENT_QUEUE_LEN \in Nat \ {0} /\ 0 \in Slots
  BY QueueLenAssumption DEF Slots
<1>2. queue_init \in Queues(Items)
  BY <1>1 DEF queue_init, Queues
<1>3. (0 + 0) % USB_EVENT_QUEUE_LEN = 0
  BY <1>1, OneLap, Steps
<1>4. Sound(queue_init, Items)
  BY <1>1, <1>2, <1>3 DEF Sound, queue_init
<1>5. Len(Contents(queue_init)) = 0 /\ Contents(queue_init) \in Seq(Items)
  BY <1>4, ContentsSeq DEF queue_init
<1> QED
  BY <1>4, <1>5, EmptySeq

\* A push appends the event, after the oldest one was given up if need be.
LEMMA PushQueue ==
  ASSUME NEW Items, NEW q, Sound(q, Items), NEW event \in Items
  PROVE  /\ Sound(queue_push(q, event), Items)
         /\ Contents(queue_push(q, event)) = Append(MakeRoom(Contents(q)), event)
<1> DEFINE r == queue_push(q, event)
           L == USB_EVENT_QUEUE_LEN
           Old(i) == IF q.count = L THEN i + 1 ELSE i
<1>1. L \in Nat \ {0}
  BY QueueLenAssumption
<1>2. /\ q.head \in Slots /\ q.tail \in Slots /\ q.count \in 0 .. L
      /\ q.events \in [Slots -> Items \cup {NoEvent}]
      /\ q.tail = Ahead(q.head, q.count)
  BY Parts
<1>3. /\ r.events = [q.events EXCEPT ![q.tail] = event]
      /\ r.head = IF q.count = L THEN NextSlot(q.head) ELSE q.head
      /\ r.tail = NextSlot(q.tail)
      /\ r.count = IF q.count = L THEN L ELSE q.count + 1
      /\ r = [events |-> r.events, head |-> r.head, tail |-> r.tail, count |-> r.count]
  BY <1>1, <1>2 DEF queue_push, Full
<1>4. r.head \in Slots /\ r.tail \in Slots /\ r.count \in 1 .. L
  BY <1>1, <1>2, <1>3, OneStep
<1>5. r \in Queues(Items)
  <2>1. r.events \in [Slots -> Items \cup {NoEvent}]
    BY <1>2, <1>3
  <2> HIDE DEF r
  <2> QED
    BY <1>3, <1>4, <2>1 DEF Queues
<1>6. r.tail = Ahead(q.head, q.count + 1) \/ (q.count = L /\ r.tail = r.head)
  <2>1. CASE q.count = L
    BY <2>1, <1>2, <1>3, Steps
  <2>2. CASE q.count # L
    <3>1. q.count \in 0 .. L - 1
      BY <2>2, <1>1, <1>2
    <3> QED
      BY <3>1, <1>2, <1>3, OneStep, Steps
  <2> QED
    BY <2>1, <2>2
<1>7. r.tail = (r.head + r.count) % L
  <2>1. r.tail = Ahead(r.head, r.count)
    <3>1. CASE q.count = L
      BY <3>1, <1>2, <1>3, <1>4, Steps
    <3>2. CASE q.count # L
      BY <3>2, <1>3, <1>6
    <3> QED
      BY <3>1, <3>2
  <2>2. r.count \in 0 .. L
    BY <1>1, <1>4
  <2> QED
    BY <2>1, <2>2, <1>4, OneLap
<1>8. ASSUME NEW i \in 1 .. r.count
      PROVE  /\ i = r.count => Contents(r)[i] = event
             /\ i # r.count => Old(i) \in 1 .. q.count /\ Contents(r)[i] = Contents(q)[Old(i)]
  <2>1. r.count \in 0 .. L /\ i \in 1 .. L /\ i - 1 \in 0 .. L - 1
    BY <1>1, <1>4
  <2>2. Contents(r)[i] = r.events[Ahead(r.head, i - 1)] /\ Ahead(r.head, i - 1) \in Slots
    BY <1>4, <2>1, ContentsAt
  <2>3. Ahead(r.head, i - 1) = Ahead(q.head, Old(i) - 1)
    <3>1. CASE q.count = L
      <4>1. Ahead(Ahead(q.head, 1), i - 1) = Ahead(q.head, (i - 1) + 1)
        BY <2>1, <1>2, Steps
      <4>2. r.head = Ahead(q.head, 1) /\ (i - 1) + 1 = Old(i) - 1
        BY <3>1, <2>1, <1>2, <1>3, OneStep
      <4> QED
        BY <4>1, <4>2
    <3>2. CASE q.count # L
      BY <3>2, <1>3
    <3> QED
      BY <3>1, <3>2
  <2>4. ASSUME i = r.count
        PROVE  Contents(r)[i] = event
    <3>1. Old(i) - 1 = q.count
      BY <2>4, <1>1, <1>2, <1>3
    <3> QED
      BY <3>1, <2>2, <2>3, <1>2, <1>3
  <2>5. ASSUME i # r.count
        PROVE  Old(i) \in 1 .. q.count /\ Contents(r)[i] = Contents(q)[Old(i)]
    <3>1. /\ Old(i) \in 1 .. q.count
          /\ Old(i) - 1 \in 0 .. L
          /\ Old(i) - 1 < q.count /\ q.count < Old(i) - 1 + L
      BY <2>5, <2>1, <1>1, <1>2, <1>3
    <3>2. Ahead(q.head, Old(i) - 1) # q.tail
      <4> HIDE DEF Old
      <4> QED
        BY <3>1, <1>2, Steps
    <3>3. r.events[Ahead(r.head, i - 1)] = q.events[Ahead(q.head, Old(i) - 1)]
      BY <3>2, <2>2, <2>3, <1>2, <1>3
    <3>4. Contents(q)[Old(i)] = q.events[Ahead(q.head, Old(i) - 1)]
      <4> HIDE DEF Old
      <4> QED
        BY <3>1, <1>2, ContentsAt
    <3> QED
      BY <3>1, <3>3, <3>4, <2>2
  <2> QED
    BY <2>4, <2>5
<1> HIDE DEF r, Old
<1>9. Sound(r, Items)
  <2>1. ASSUME NEW i \in 1 .. r.count
        PROVE  Contents(r)[i] \in Items
    BY <1>8 DEF Sound
  <2> QED
    BY <1>5, <1>7, <2>1 DEF Sound
<1>10. Contents(q) \in Seq(Items) /\ Len(Contents(q)) = q.count
  BY ContentsSeq
<1>11. Contents(r) \in Seq(Items) /\ Len(Contents(r)) = r.count
  BY <1>9, ContentsSeq
<1> DEFINE room == MakeRoom(Contents(q))
<1>12. /\ room \in Seq(Items)
       /\ Len(room) = r.count - 1
       /\ \A i \in 1 .. r.count - 1 : room[i] = Contents(q)[Old(i)]
  <2>1. CASE q.count = L
    <3>1. Contents(q) # <<>>
      BY <2>1, <1>1, <1>10, EmptySeq
    <3>2. room = Tail(Contents(q))
      BY <2>1, <1>10 DEF MakeRoom
    <3>3. Len(Tail(Contents(q))) = r.count - 1
      BY <2>1, <3>1, <1>1, <1>3, <1>10, HeadTailProperties
    <3> QED
      BY <2>1, <3>1, <3>2, <3>3, <1>10, HeadTailProperties DEF Old
  <2>2. CASE q.count # L
    <3>1. room = Contents(q)
      BY <2>2, <1>10 DEF MakeRoom
    <3>2. q.count = r.count - 1
      BY <2>2, <1>1, <1>2, <1>3
    <3> QED
      BY <2>2, <3>1, <3>2, <1>10 DEF Old
  <2> QED
    BY <2>1, <2>2
<1>13. /\ Append(room, event) \in Seq(Items)
       /\ Len(Append(room, event)) = r.count
       /\ \A i \in 1 .. r.count - 1 : Append(room, event)[i] = room[i]
       /\ Append(room, event)[r.count] = event
  <2>1. Len(room) + 1 = r.count /\ r.count - 1 = Len(room)
    BY <1>12, <1>4, <1>1
  <2> HIDE DEF room
  <2> QED
    BY <2>1, <1>12, AppendProperties
<1>14. \A i \in 1 .. r.count : Contents(r)[i] = Append(room, event)[i]
  <2>1. SUFFICES ASSUME NEW i \in 1 .. r.count
                 PROVE  Contents(r)[i] = Append(room, event)[i]
    OBVIOUS
  <2>2. i # r.count => i \in 1 .. r.count - 1
    BY <1>4, <1>1
  <2> HIDE DEF room
  <2> QED
    BY <2>2, <1>8, <1>12, <1>13
<1> QED
  BY <1>9, <1>11, <1>13, <1>14, SeqEqual DEF r

\* A pop hands out the first event and leaves the others.
LEMMA PopQueue ==
  ASSUME NEW Items, NEW q, Sound(q, Items), q.count > 0
  PROVE  /\ Oldest(q) \in Items
         /\ Sound(queue_pop(q), Items)
         /\ Contents(q) # <<>>
         /\ Contents(queue_pop(q)) = Tail(Contents(q))
<1> DEFINE r == queue_pop(q)
           L == USB_EVENT_QUEUE_LEN
<1>1. L \in Nat \ {0}
  BY QueueLenAssumption
<1>2. /\ q.head \in Slots /\ q.tail \in Slots /\ q.count \in 1 .. L
      /\ q.events \in [Slots -> Items \cup {NoEvent}]
      /\ q.tail = Ahead(q.head, q.count)
  BY <1>1, Parts
<1>3. /\ r.events = [q.events EXCEPT ![q.head] = NoEvent]
      /\ r.head = NextSlot(q.head)
      /\ r.tail = q.tail
      /\ r.count = q.count - 1
      /\ r = [events |-> r.events, head |-> r.head, tail |-> r.tail, count |-> r.count]
  BY DEF queue_pop
<1>4. r.head \in Slots /\ r.tail \in Slots /\ r.count \in 0 .. L - 1
  BY <1>1, <1>2, <1>3, OneStep
<1>5. r \in Queues(Items)
  <2>1. r.events \in [Slots -> Items \cup {NoEvent}] /\ r.count \in 0 .. L
    BY <1>1, <1>2, <1>3, <1>4
  <2> HIDE DEF r
  <2> QED
    BY <1>3, <1>4, <2>1 DEF Queues
<1>6. r.head = Ahead(q.head, 1)
  BY <1>2, <1>3, OneStep
<1>7. r.tail = (r.head + r.count) % L
  <2>1. Ahead(Ahead(q.head, 1), r.count) = Ahead(q.head, r.count + 1)
    BY <1>2, <1>4, Steps
  <2>2. r.count + 1 = q.count /\ r.count \in 0 .. L
    BY <1>1, <1>2, <1>3, <1>4
  <2> QED
    BY <2>1, <2>2, <1>2, <1>3, <1>4, <1>6, OneLap
<1>8. ASSUME NEW i \in 1 .. r.count
      PROVE  i + 1 \in 1 .. q.count /\ Contents(r)[i] = Contents(q)[i + 1]
  <2>1. /\ r.count \in 0 .. L /\ i - 1 \in 0 .. L - 1 /\ (i - 1) + 1 = i
        /\ i + 1 \in 1 .. q.count /\ (i + 1) - 1 = i
        /\ 0 \in 0 .. L /\ i \in 0 .. L /\ 0 < i /\ i < 0 + L /\ q.count \in 0 .. L
    BY <1>1, <1>2, <1>3, <1>4
  <2>2. Contents(r)[i] = r.events[Ahead(r.head, i - 1)] /\ Ahead(r.head, i - 1) \in Slots
    BY <1>4, <2>1, ContentsAt
  <2>3. Ahead(r.head, i - 1) = Ahead(q.head, i)
    BY <2>1, <1>2, <1>6, Steps
  <2>4. Contents(q)[i + 1] = q.events[Ahead(q.head, (i + 1) - 1)]
    BY <1>2, <2>1, ContentsAt
  <2>5. Ahead(q.head, i) # q.head
    BY <1>2, <2>1, Steps
  <2> HIDE DEF r
  <2> QED
    BY <2>1, <2>2, <2>3, <2>4, <2>5, <1>2, <1>3
<1> HIDE DEF r
<1>9. Sound(r, Items)
  BY <1>5, <1>7, <1>8 DEF Sound
<1>10. /\ Contents(q) \in Seq(Items) /\ Len(Contents(q)) = q.count
       /\ Contents(q) # <<>>
  BY <1>2, ContentsSeq, EmptySeq
<1>11. Contents(r) \in Seq(Items) /\ Len(Contents(r)) = r.count
  BY <1>9, ContentsSeq
<1>12. /\ Tail(Contents(q)) \in Seq(Items)
       /\ Len(Tail(Contents(q))) = r.count
       /\ \A i \in 1 .. r.count : Tail(Contents(q))[i] = Contents(q)[i + 1]
  BY <1>2, <1>3, <1>10, HeadTailProperties
<1>13. Oldest(q) \in Items
  <2>1. 1 \in 1 .. q.count /\ 1 - 1 = 0 /\ q.count \in 0 .. L
    BY <1>1, <1>2
  <2>2. Contents(q)[1] = Oldest(q)
    BY <2>1, <1>2, ContentsAt, Steps DEF Oldest
  <2> QED
    BY <2>1, <2>2 DEF Sound
<1>14. Contents(r) = Tail(Contents(q))
  BY <1>8, <1>11, <1>12, SeqEqual
<1> QED
  BY <1>9, <1>10, <1>13, <1>14 DEF r

-----------------------------------------------------------------------------
(* Start-up itself. *)

\* The parts of the typing that the actions of Startup disturb.
LEMMA StartTypes ==
  ASSUME StartInv
  PROVE  /\ SharedTypeOK /\ SticksTypeOK /\ MonitorTypeOK
         /\ channel_number \in Channel
         /\ taken \in Event \cup {NoEvent}
         /\ Sound(inserted_queue, Event)
         /\ removed_queue \in 0 .. USB_EVENT_QUEUE_LEN
         /\ MAX_USB_CHANNELS \in Nat /\ USB_EVENT_QUEUE_LEN \in Nat
         /\ phase # "insert_master" => taken.device_name \in Names /\ taken.device_path \in Paths
  BY HubAssumption, QueueLenAssumption
  DEF StartInv, TypeOK, TakenIsEvent, Event, MAX_USB_CHANNELS

\* The channel after the one in hand.
LEMMA NextChannel ==
  ASSUME channel_number \in Devices
  PROVE  channel_number + 1 \in Channel
<1>1. MAX_USB_CHANNELS \in Nat
  BY HubAssumption DEF MAX_USB_CHANNELS
<1> QED
  BY <1>1 DEF Devices, Channel

\* The initial states satisfy the invariant.
LEMMA StartInit == Init => StartInv
<1> SUFFICES ASSUME Init PROVE StartInv
  OBVIOUS
<1>1. Sound(inserted_queue, Event) /\ inserted_queue \in Queues(Event)
  BY InitQueue DEF Init, Sound
<1>2. MAX_USB_CHANNELS \in Nat \ {0} /\ 0 \in Devices /\ 0 \in Channel
  BY HubAssumption DEF MAX_USB_CHANNELS, Devices, Channel
<1>3. SharedTypeOK /\ SticksTypeOK /\ MonitorTypeOK
  BY DEF Init, SharedTypeOK, ChannelState, SticksInit, SticksTypeOK, MonitorInit, MonitorTypeOK,
         NoDevices
<1>4. TypeOK
  BY <1>1, <1>2, <1>3, QueueLenAssumption DEF Init, TypeOK, NotAsked
<1>5. PortsApart
  BY DEF Init, PortsApart
<1> QED
  BY <1>1, <1>2, <1>4, <1>5 DEF Init, StartInv, TakenIsEvent, ChannelIsAsked

-----------------------------------------------------------------------------
\* A step of load_master and what follows up to the mapping.
LEMMA LoadInv ==
  ASSUME StartInv, UNCHANGED <<monitorVars, asked>>,
         MountMaster \/ EmptyRam \/ CopyMaster \/ SyncMaster \/ UnmountMaster \/ Process \/ MasterRemoved
  PROVE  StartInv'
<1> USE StartTypes
<1>1. SharedTypeOK' /\ SticksTypeOK' /\ MonitorTypeOK'
  BY DEF MountMaster, EmptyRam, CopyMaster, SyncMaster, UnmountMaster, Process, MasterRemoved, Load,
         SetState, SharedTypeOK, ChannelState, SticksTypeOK, MonitorTypeOK, sharedVars, stickVars,
         monitorVars
<1>2. /\ taken' = taken /\ channel_number' = channel_number /\ device_path' = device_path
      /\ inserted_queue' = inserted_queue /\ asked' = asked
      /\ phase # "insert_master" /\ phase \notin MapSteps
  BY DEF MountMaster, EmptyRam, CopyMaster, SyncMaster, UnmountMaster, Process, MasterRemoved, Load,
         SetState, sharedVars, queueVars, MapSteps
<1>3. /\ phase' \in LoadSteps \cup {"remove_master", "map", "stopped"}
      /\ ram' \in {"old", "empty", "partial", "master"}
      /\ removed_queue' \in 0 .. USB_EVENT_QUEUE_LEN
  BY DEF StartInv, TypeOK, MountMaster, EmptyRam, CopyMaster, SyncMaster, UnmountMaster, Process,
         MasterRemoved, Load, queueVars, LoadSteps
<1>4. phase # "ready" /\ ChannelIsAsked' /\ TakenIsEvent' /\ PortsApart'
  BY <1>2, <1>3 DEF StartInv, ChannelIsAsked, TakenIsEvent, PortsApart, LoadSteps, Event,
     MountMaster, EmptyRam, CopyMaster, SyncMaster, UnmountMaster, Process, MasterRemoved, Load
<1>5. TypeOK'
  BY <1>1, <1>2, <1>3 DEF StartInv, TypeOK, MapSteps
<1> QED
  BY <1>2, <1>4, <1>5 DEF StartInv

\* An event is popped from the queue.
LEMMA TakeInv ==
  ASSUME StartInv, UNCHANGED <<monitorVars, asked>>, TakeMaster \/ TakeAnswer
  PROVE  StartInv'
<1> USE StartTypes
<1>1. /\ taken' \in Event
      /\ Sound(inserted_queue', Event) /\ inserted_queue' \in Queues(Event)
      /\ removed_queue' = removed_queue
  BY PopQueue DEF TakeMaster, TakeAnswer, TakeInsertion, Sound
<1>2. SharedTypeOK' /\ SticksTypeOK' /\ MonitorTypeOK'
  BY DEF TakeMaster, TakeAnswer, SetState, SharedTypeOK, ChannelState, SticksTypeOK, MonitorTypeOK,
         sharedVars, stickVars, monitorVars
<1>3. /\ channel_number' = channel_number /\ device_path' = device_path /\ ram' = ram
      /\ phase' \in {"mount", "answer"} /\ phase # "ready" /\ asked' = asked
  BY DEF TakeMaster, TakeAnswer, SetState, sharedVars
<1>4. TypeOK'
  BY <1>1, <1>2, <1>3 DEF StartInv, TypeOK, LoadSteps, MapSteps
<1>5. Sound(inserted_queue, Event)'
  BY <1>1 DEF Sound, Contents
<1> QED
  BY <1>1, <1>3, <1>4, <1>5 DEF StartInv, TakenIsEvent, ChannelIsAsked, PortsApart, Event

\* A step of the mapping that neither pops an event nor assigns a socket.
LEMMA PromptInv ==
  ASSUME StartInv, UNCHANGED <<monitorVars, asked>>, Skip \/ Reject \/ ShowReady
  PROVE  StartInv'
<1> USE StartTypes
<1>1. phase \in MapSteps /\ channel_number \in Devices
  BY DEF StartInv, ChannelIsAsked, Skip, Reject, ShowReady, MapSteps
<1>2. SharedTypeOK' /\ SticksTypeOK' /\ MonitorTypeOK'
  BY DEF Skip, Reject, ShowReady, NextPrompt, SetState, SharedTypeOK, ChannelState, SticksTypeOK,
         MonitorTypeOK, stickVars, monitorVars
<1>3. /\ device_path' = device_path /\ taken' = taken /\ ram' = ram
      /\ inserted_queue' = inserted_queue /\ removed_queue' = removed_queue /\ asked' = asked
  BY DEF Skip, Reject, ShowReady, NextPrompt, SetState, queueVars
<1>4. /\ phase' \in {"map", "ready"} /\ channel_number' \in Channel
      /\ phase' = "map" => channel_number' \in Devices
  BY <1>1, NextChannel DEF Skip, Reject, ShowReady, NextPrompt
<1>5. TypeOK'
  BY <1>2, <1>3, <1>4 DEF StartInv, TypeOK, MapSteps
<1>6. taken \in Event
  BY <1>1 DEF StartInv, TakenIsEvent, MapSteps
<1> QED
  BY <1>3, <1>4, <1>5, <1>6 DEF StartInv, TakenIsEvent, ChannelIsAsked, PortsApart, Event

\* A socket is assigned only if no channel has it.
LEMMA AssignInv ==
  ASSUME StartInv, UNCHANGED <<monitorVars, asked>>, Assign
  PROVE  StartInv'
<1> USE StartTypes
<1>1. /\ channel_number \in Devices
      /\ taken \in Event /\ taken.device_name \in Names /\ taken.device_path \in Paths
  BY DEF StartInv, ChannelIsAsked, TakenIsEvent, Assign
<1>2. SharedTypeOK' /\ SticksTypeOK' /\ MonitorTypeOK'
  BY <1>1 DEF Assign, SharedTypeOK, SticksTypeOK, MonitorTypeOK, stickVars, monitorVars
<1>3. TypeOK'
  BY <1>2 DEF StartInv, TypeOK, Assign, queueVars, MapSteps
<1>4. PortsApart'
  <2>1. \A d \in Devices : device_path[d] # taken.device_path
    BY DEF Assign, ChannelsAt
  <2>2. device_path' = [device_path EXCEPT ![channel_number] = taken.device_path]
    BY DEF Assign
  <2>3. device_path \in [Devices -> Paths \cup {NoPath}]
    BY DEF SharedTypeOK
  <2> QED
    BY <1>1, <2>1, <2>2, <2>3 DEF StartInv, PortsApart
<1> QED
  BY <1>1, <1>3, <1>4 DEF StartInv, TakenIsEvent, ChannelIsAsked, Assign, queueVars, Event

-----------------------------------------------------------------------------
\* The monitor queues only what it has read from a socket.
LEMMA WatchInv ==
  ASSUME StartInv, UNCHANGED <<mainVars, asked>>, Watch
  PROVE  StartInv'
<1> USE StartTypes
<1>1. SticksTypeOK' /\ device_path' = device_path
  BY DEF Watch, QueueInsertion, QueueRemoval, Insert, Remove, Scan, TakeMutex, ClearChannel,
         ReleaseMutex, InsertFull, SticksTypeOK, stickVars, sharedVars
<1>2. SharedTypeOK'
  <2>1. ASSUME NEW path \in Paths, QueueInsertion(path)
        PROVE  SharedTypeOK'
    <3>1. usb_devices[path] \in Names
      BY <2>1 DEF QueueInsertion, Insert, Insertions, Occupied, MonitorTypeOK
    <3> QED
      BY <2>1, <3>1 DEF QueueInsertion, Insert, SharedTypeOK, ChannelState
  <2>2. ASSUME NEW path \in Paths, QueueRemoval(path)
        PROVE  SharedTypeOK'
    BY <2>2 DEF QueueRemoval, Remove, sharedVars, SharedTypeOK
  <2>3. CASE ClearChannel
    BY <2>3 DEF ClearChannel, SharedTypeOK, ChannelState
  <2>4. CASE Scan \/ TakeMutex \/ ReleaseMutex \/ \E path \in Paths : InsertFull(path)
    BY <2>4 DEF Scan, TakeMutex, ReleaseMutex, InsertFull, sharedVars, SharedTypeOK
  <2> QED
    BY <2>1, <2>2, <2>3, <2>4 DEF Watch
<1>3. MonitorTypeOK'
  <2>1. CASE \E path \in Paths : QueueInsertion(path) \/ QueueRemoval(path)
    BY <2>1 DEF QueueInsertion, QueueRemoval, Insert, Remove, MonitorTypeOK, sharedVars, Removals,
       Occupied
  <2>2. CASE Scan
    BY <2>2 DEF Scan, MonitorTypeOK, SticksTypeOK
  <2>3. CASE TakeMutex \/ ClearChannel \/ ReleaseMutex \/ \E path \in Paths : InsertFull(path)
    BY <2>3 DEF TakeMutex, ClearChannel, ReleaseMutex, InsertFull, MonitorTypeOK, NoDevices
  <2> QED
    BY <2>1, <2>2, <2>3 DEF Watch
<1>4. Sound(inserted_queue', Event) /\ removed_queue' \in 0 .. USB_EVENT_QUEUE_LEN
  <2>1. ASSUME NEW path \in Paths, QueueInsertion(path)
        PROVE  Sound(inserted_queue', Event) /\ removed_queue' = removed_queue
    <3>1. [device_name |-> usb_devices[path], device_path |-> path] \in Event
      BY <2>1 DEF QueueInsertion, Insert, Insertions, Occupied, MonitorTypeOK, Event
    <3> QED
      BY <2>1, <3>1, PushQueue DEF QueueInsertion
  <2>2. ASSUME NEW path \in Paths, QueueRemoval(path)
        PROVE  inserted_queue' = inserted_queue /\ removed_queue' \in 0 .. USB_EVENT_QUEUE_LEN
    BY <2>2 DEF QueueRemoval
  <2> QED
    BY <2>1, <2>2 DEF Watch, queueVars
<1>5. Sound(inserted_queue, Event)' /\ inserted_queue' \in Queues(Event)
  BY <1>4 DEF Sound, Contents
<1>6. /\ phase' = phase /\ channel_number' = channel_number /\ taken' = taken /\ ram' = ram
      /\ asked' = asked
  BY DEF mainVars
<1>7. TypeOK'
  BY <1>1, <1>2, <1>3, <1>4, <1>5, <1>6 DEF StartInv, TypeOK
<1> QED
  BY <1>1, <1>5, <1>6, <1>7 DEF StartInv, TakenIsEvent, ChannelIsAsked, PortsApart, Event

\* The operator only moves sticks.
LEMMA OperatorInv ==
  ASSUME StartInv, OperatorStep
  PROVE  StartInv'
<1> USE StartTypes
<1>1. SticksTypeOK'
  BY DEF OperatorStep, PlugStick, PullStick, Plug, Unplug, SticksTypeOK
<1>2. asked' \in [Paths -> Devices \cup {NotAsked}]
  BY DEF OperatorStep, PlugStick, PullStick, StartInv, TypeOK, ChannelIsAsked, MapSteps
<1>3. /\ UNCHANGED <<state, halt, device_name, device_path>>
      /\ UNCHANGED <<monitor, usb_devices, loaded, leaving>>
      /\ UNCHANGED <<phase, channel_number, taken, ram, inserted_queue, removed_queue>>
  BY DEF OperatorStep, sharedVars, monitorVars, mainVars, queueVars
<1>4. SharedTypeOK' /\ MonitorTypeOK'
  BY <1>3 DEF SharedTypeOK, MonitorTypeOK
<1>5. Sound(inserted_queue, Event)'
  BY <1>3 DEF Sound, Contents, Event
<1>6. TypeOK'
  BY <1>1, <1>2, <1>3, <1>4 DEF StartInv, TypeOK
<1> QED
  BY <1>3, <1>5, <1>6 DEF StartInv, TakenIsEvent, ChannelIsAsked, PortsApart, Event

\* Every step preserves the invariant.
LEMMA StartStep == StartInv /\ [Next]_vars => StartInv'
<1> SUFFICES ASSUME StartInv, [Next]_vars PROVE StartInv'
  OBVIOUS
<1>1. CASE MainStep
  BY <1>1, LoadInv, TakeInv, PromptInv, AssignInv DEF MainStep, MainNext
<1>2. CASE MonitorStep
  BY <1>2, WatchInv DEF MonitorStep
<1>3. CASE OperatorStep
  BY <1>3, OperatorInv
<1>4. CASE UNCHANGED vars
  BY <1>4 DEF vars, sharedVars, stickVars, monitorVars, mainVars, queueVars, StartInv, TypeOK,
     SharedTypeOK, SticksTypeOK, MonitorTypeOK, TakenIsEvent, ChannelIsAsked, PortsApart, Sound,
     Contents, Event
<1> QED
  BY <1>1, <1>2, <1>3, <1>4 DEF Next

-----------------------------------------------------------------------------
\* The variables of start-up keep to their ranges, and the queue stays sound.
THEOREM StartTyping == Spec => []TypeOK
<1>1. StartInv => TypeOK
  BY DEF StartInv
<1> QED
  BY <1>1, StartInit, StartStep, PTL DEF Spec

\* No two channels are mapped to the same socket.
THEOREM PortsStayApart == Spec => []PortsApart
<1>1. StartInv => PortsApart
  BY DEF StartInv
<1> QED
  BY <1>1, StartInit, StartStep, PTL DEF Spec

\* The ring buffer, as the two threads use it, is a queue that loses its oldest
\* event when it is full, and nothing else.
THEOREM QueueKeepsOrder == Spec => InsertionsInOrder
<1>1. Init => Inserted!Init
  BY InitQueue DEF Init, Inserted!Init
<1>2. ASSUME StartInv, [Next]_vars
      PROVE  [Inserted!Next]_(Contents(inserted_queue))
  <2>0. MonitorTypeOK /\ Sound(inserted_queue, Event)
    BY <1>2, StartTypes
  <2>1. CASE inserted_queue' = inserted_queue
    BY <2>1 DEF Contents
  <2>2. CASE TakeInsertion
    <3>1. inserted_queue.count > 0 /\ inserted_queue' = queue_pop(inserted_queue)
      BY <2>2 DEF TakeInsertion
    <3>2. /\ Contents(inserted_queue) # <<>>
          /\ Contents(inserted_queue)' = Tail(Contents(inserted_queue))
      BY <2>0, <3>1, PopQueue DEF Contents
    <3> QED
      BY <3>2 DEF Inserted!Next, Inserted!Pop
  <2>3. ASSUME NEW path \in Paths, QueueInsertion(path)
        PROVE  Inserted!Next
    <3> DEFINE event == [device_name |-> usb_devices[path], device_path |-> path]
    <3>1. event \in Event
      BY <2>0, <2>3 DEF QueueInsertion, Insert, Insertions, Occupied, MonitorTypeOK, Event
    <3>2. inserted_queue' = queue_push(inserted_queue, event)
      BY <2>3 DEF QueueInsertion
    <3> HIDE DEF event
    <3>3. Contents(queue_push(inserted_queue, event))
            = Append(MakeRoom(Contents(inserted_queue)), event)
      BY <2>0, <3>1, PushQueue
    <3>4. Contents(inserted_queue)' = Contents(queue_push(inserted_queue, event))
      BY <3>2 DEF Contents
    <3> QED
      BY <3>1, <3>3, <3>4 DEF Inserted!Next, Inserted!Push, Inserted!Room, MakeRoom
  <2> QED
    BY <1>2, <2>1, <2>2, <2>3 DEF Next, MainStep, MainNext, MonitorStep, Watch, OperatorStep, vars,
       queueVars, TakeMaster, TakeAnswer, MountMaster, EmptyRam, CopyMaster, SyncMaster, UnmountMaster,
       Load, Process, MasterRemoved, Skip, Reject, Assign, ShowReady, QueueRemoval
<1> QED
  BY <1>1, <1>2, StartInit, StartStep, PTL DEF Spec, InsertionsInOrder, Inserted!Spec

-----------------------------------------------------------------------------
(* With a patient operator, who also has no more sockets than there are    *)
(* channels, one stick is moved at a time.                                 *)
Calm == Disturbances = {} /\ IsFiniteSet(Paths) /\ Cardinality(Paths) <= MAX_USB_CHANNELS

\* The socket has news for the monitor: its stick was moved since it was listed.
News(path) == loaded[path] # plugged[path]

\* An event in the queue is of a stick that is still there.
StillThere(event) == plugged[event.device_path] = event.device_name

\* Channels are mapped in turn, and the one in hand shows the prompt.
InTurn ==
  /\ phase \in {"insert_master", "remove_master", "stopped"} \cup LoadSteps => channel_number = 0
  /\ \A d \in Devices :
       d > channel_number \/ (d = channel_number /\ phase # "assigned") => device_path[d] = NoPath
  /\ phase \in MapSteps => state[channel_number] = "INDICATING"
  /\ phase = "assigned" =>
       /\ device_path[channel_number] = taken.device_path
       /\ device_name[channel_number] = taken.device_name

\* One move of a stick is under way at most: not yet seen, seen, queued or answered.
Quiet == inserted_queue.count = 0 /\ \A path \in Paths : ~News(path)

OneMove ==
  /\ \A p, q \in Paths : News(p) /\ News(q) => p = q
  /\ \A p \in Paths : News(p) => NoName \in {loaded[p], plugged[p]}
  /\ monitor # "scan" => \A p \in Paths : usb_devices[p] \in {loaded[p], plugged[p]}
  /\ inserted_queue.count \in {0, 1}
  /\ inserted_queue.count = 1 =>
       StillThere(Oldest(inserted_queue)) /\ \A path \in Paths : ~News(path)

\* Until the master is out no other socket has a stick.
MasterOnly ==
  \A path \in Paths : path # MasterPath => plugged[path] = NoName /\ loaded[path] = NoName

\* The way of the master, in and out.
MasterMoves ==
  /\ phase \in {"insert_master", "remove_master"} \cup LoadSteps =>
       MasterOnly /\ \A path \in Paths : News(path) =>
         (IF phase = "insert_master" THEN loaded[path] = NoName ELSE plugged[path] = NoName)
  /\ phase = "insert_master" => removed_queue = 0
  /\ phase \in LoadSteps => Quiet /\ removed_queue = 0
  /\ phase \in {"remove_master"} \cup LoadSteps =>
       inserted_queue.count = 0 /\ taken.device_path = MasterPath
  /\ phase = "remove_master" /\ removed_queue > 0 => plugged[MasterPath] = NoName

\* The way of an answer: the stick put in is that of the prompt.
AnswerMoves ==
  /\ phase = "map" =>
       /\ \A path \in Paths : News(path) /\ plugged[path] # NoName => asked[path] = channel_number
       /\ inserted_queue.count = 1 => asked[Oldest(inserted_queue).device_path] = channel_number
  /\ phase \in {"answer", "assigned"} =>
       /\ Quiet /\ monitor # "clear"
       /\ StillThere(taken) /\ asked[taken.device_path] = channel_number

LeavingKnown == IF monitor = "clear" THEN leaving \in Paths ELSE leaving = NoPath

CalmInv ==
  /\ InTurn /\ LeavingKnown
  /\ phase \notin {"ready", "stopped"} => OneMove /\ MasterMoves /\ AnswerMoves

\* The initial states satisfy it.
LEMMA CalmInit == Init => CalmInv
<1> SUFFICES ASSUME Init PROVE CalmInv
  OBVIOUS
<1>1. MAX_USB_CHANNELS \in Nat \ {0} /\ 0 \in Devices
  BY HubAssumption DEF MAX_USB_CHANNELS, Devices
<1>2. InTurn /\ LeavingKnown
  BY <1>1, NoneAssumption DEF Init, InTurn, LeavingKnown, MonitorInit, LoadSteps, MapSteps
<1>3. inserted_queue.count = 0 /\ \A path \in Paths : loaded[path] = NoName /\ plugged[path] = NoName
  BY DEF Init, queue_init, MonitorInit, SticksInit, NoDevices
<1>4. OneMove
  BY <1>3 DEF OneMove, News, Init, MonitorInit
<1>5. MasterMoves /\ AnswerMoves
  BY <1>3 DEF Init, MasterMoves, MasterOnly, AnswerMoves, News, LoadSteps
<1> QED
  BY <1>2, <1>4, <1>5 DEF CalmInv

\* The event pushed to an empty queue is the one that is popped.
LEMMA OnlyEvent ==
  ASSUME NEW q, Sound(q, Event), q.count = 0, NEW event \in Event
  PROVE  queue_push(q, event).count = 1 /\ Oldest(queue_push(q, event)) = event
<1>1. q.head \in Slots /\ q.tail = Ahead(q.head, q.count) /\ q.events \in [Slots -> Event \cup {NoEvent}]
  BY Parts
<1>2. Ahead(q.head, 0) = q.head
  BY <1>1, Steps
<1>3. ~Full(q)
  BY QueueLenAssumption DEF Full
<1> QED
  BY <1>1, <1>2, <1>3 DEF queue_push, Oldest

\* A pass over /sys/block lists every socket as it is.
LEMMA ScanSeesAll ==
  ASSUME Calm, StartInv, Scan
  PROVE  usb_devices' = plugged
<1>1. PICK seen \in SUBSET Occupied(plugged) :
        /\ \/ seen = Occupied(plugged)
           \/ seen # Occupied(plugged) /\ Cardinality(seen) = MAX_USB_CHANNELS
        /\ usb_devices' = [path \in Paths |-> IF path \in seen THEN plugged[path] ELSE NoName]
  BY DEF Scan
<1>2. seen \subseteq Paths /\ Occupied(plugged) \subseteq Paths
  BY DEF Occupied
<1>3. seen = Occupied(plugged)
  <2>1. Cardinality(seen) <= Cardinality(Paths) /\ (Cardinality(Paths) = Cardinality(seen) => Paths = seen)
    BY <1>2, FS_Subset DEF Calm
  <2>2. Cardinality(Paths) \in Nat /\ Cardinality(seen) \in Nat /\ MAX_USB_CHANNELS \in Nat
    BY <1>2, FS_Subset, FS_CardinalityType, StartTypes DEF Calm
  <2> QED
    BY <1>1, <1>2, <2>1, <2>2 DEF Calm
<1>4. plugged \in [Paths -> Names \cup {NoName}]
  BY StartTypes DEF SticksTypeOK
<1> QED
  BY <1>1, <1>3, <1>4 DEF Occupied

-----------------------------------------------------------------------------
\* The operator moves a stick when nothing else is under way.
LEMMA CalmOperator ==
  ASSUME Calm, StartInv, CalmInv, OperatorStep
  PROVE  CalmInv'
<1> USE StartTypes
<1>1. /\ UNCHANGED <<state, halt, device_name, device_path>>
      /\ UNCHANGED <<monitor, usb_devices, loaded, leaving>>
      /\ UNCHANGED <<phase, channel_number, taken, ram, inserted_queue, removed_queue>>
  BY DEF OperatorStep, sharedVars, monitorVars, mainVars, queueVars
<1>2. (InTurn /\ LeavingKnown)'
  BY <1>1 DEF CalmInv, InTurn, LeavingKnown
<1>3. CASE phase \in {"ready", "stopped"}
  BY <1>1, <1>2, <1>3 DEF CalmInv
<1>4. CASE phase \notin {"ready", "stopped"}
  <2>1. OneMove /\ MasterMoves /\ AnswerMoves
    BY <1>4 DEF CalmInv
  <2> DEFINE Allowed(path, n) ==
               /\ Settled(path) /\ plugged' = [plugged EXCEPT ![path] = n]
               /\ NoName \in {n, plugged[path]} /\ n # plugged[path]
               /\ \/ NothingPending
                  \/ phase = "insert_master" /\ path = MasterPath /\ n # NoName
                  \/ phase = "remove_master" /\ path = MasterPath /\ n = NoName
               /\ phase = "map" /\ n # NoName => asked' = [asked EXCEPT ![path] = channel_number]
  <2>2. \E path \in Paths : \E n \in Names \cup {NoName} : Allowed(path, n)
    <3>1. ASSUME NEW path \in Paths, NEW n \in Names, MayMove(path, "insert_master"), Plug(path, n),
                 asked' = [asked EXCEPT ![path] =
                             IF phase \in MapSteps THEN channel_number ELSE NotAsked]
          PROVE  Allowed(path, n)
      BY <1>4, <3>1, NoneAssumption DEF MayMove, Plug, Calm, MapSteps
    <3>2. ASSUME NEW path \in Paths, MayMove(path, "remove_master"), Unplug(path)
          PROVE  Allowed(path, NoName)
      BY <1>4, <3>2 DEF MayMove, Unplug, Calm, MapSteps
    <3> QED
      BY <3>1, <3>2 DEF OperatorStep, PlugStick, PullStick
  <2>3. PICK path \in Paths : \E n \in Names \cup {NoName} : Allowed(path, n)
    BY <2>2
  <2>4. PICK n \in Names \cup {NoName} : Allowed(path, n)
    BY <2>3
  <2> HIDE DEF Allowed
  <2>5. \A p \in Paths \ {path} : plugged'[p] = plugged[p]
    BY <2>4 DEF Allowed, SticksTypeOK
  <2>6. /\ plugged'[path] = n /\ loaded[path] = plugged[path] /\ NoName \in {n, plugged[path]}
        /\ monitor # "scan" => usb_devices[path] = plugged[path]
        /\ n # plugged[path]
    BY <2>4 DEF Allowed, SticksTypeOK, Settled
  <2>7. (\A p \in Paths : ~News(p)) /\ inserted_queue.count = 0
    <3>1. CASE NothingPending
      BY <3>1 DEF NothingPending, Settled, News
    <3>2. CASE phase \in {"insert_master", "remove_master"} /\ path = MasterPath
      <4>1. MasterOnly
        BY <2>1, <3>2 DEF MasterMoves
      <4>2. \A p \in Paths : ~News(p)
        BY <2>6, <3>2, <4>1 DEF MasterOnly, News
      <4>3. ASSUME inserted_queue.count = 1 PROVE FALSE
        <5>1. phase = "insert_master" /\ n # NoName
          BY <2>1, <2>4, <3>2, <4>3 DEF MasterMoves, Allowed, NothingPending
        <5>2. Oldest(inserted_queue) \in Event /\ StillThere(Oldest(inserted_queue))
          BY <2>1, <4>3, PopQueue DEF OneMove
        <5>3. Oldest(inserted_queue).device_path = MasterPath
          BY <4>1, <5>2, NoneAssumption DEF Event, StillThere, MasterOnly
        <5> QED
          BY <2>6, <3>2, <5>1, <5>2, <5>3, NoneAssumption DEF Event, StillThere
      <4> QED
        BY <2>1, <4>2, <4>3 DEF OneMove
    <3> QED
      BY <2>4, <3>1, <3>2 DEF Allowed
  <2>8. /\ \A p \in Paths : News(p)' => p = path
        /\ inserted_queue'.count = 0
        /\ \A p \in Paths : News(p)' => loaded'[p] = plugged[p] /\ NoName \in {plugged'[p], loaded'[p]}
    BY <1>1, <2>5, <2>6, <2>7 DEF News
  <2>9. OneMove'
    <3>1. monitor # "scan" => \A p \in Paths : usb_devices[p] = loaded[p]
      BY <2>1, <2>6, <2>7 DEF OneMove, News
    <3> QED
      BY <1>1, <2>8, <3>1 DEF OneMove
  <2>10. MasterMoves'
    <3>1. CASE phase = "map"
      BY <1>1, <3>1 DEF MasterMoves, LoadSteps
    <3>2. CASE phase # "map"
      <4>1. path = MasterPath /\ phase \in {"insert_master", "remove_master"}
            /\ (phase = "insert_master" <=> n # NoName)
        BY <2>4, <3>2 DEF Allowed, NothingPending
      <4>2. MasterOnly'
        BY <1>1, <2>1, <2>5, <4>1 DEF MasterMoves, MasterOnly
      <4> QED
        BY <1>1, <2>1, <2>6, <2>8, <4>1, <4>2 DEF MasterMoves, LoadSteps
    <3> QED
      BY <3>1, <3>2
  <2>11. AnswerMoves'
    <3>1. CASE phase = "map"
      <4>1. n # NoName => asked'[path] = channel_number
        BY <2>4, <3>1 DEF Allowed, StartInv, TypeOK
      <4> QED
        BY <1>1, <2>6, <2>8, <3>1, <4>1 DEF AnswerMoves
    <3>2. CASE phase # "map"
      BY <1>1, <2>4, <3>2 DEF Allowed, NothingPending, AnswerMoves
    <3> QED
      BY <3>1, <3>2
  <2> QED
    BY <1>1, <1>2, <2>9, <2>10, <2>11 DEF CalmInv
<1> QED
  BY <1>3, <1>4

-----------------------------------------------------------------------------
\* The monitor's steps that touch neither a socket's entry nor a queue.
LEMMA CalmLook ==
  ASSUME Calm, StartInv, CalmInv, UNCHANGED <<mainVars, asked, queueVars>>,
         phase # "stopped",
         Scan \/ TakeMutex \/ ReleaseMutex \/ \E path \in Paths : InsertFull(path)
  PROVE  CalmInv'
<1> USE StartTypes
<1>1. /\ UNCHANGED <<state, halt, device_name, device_path, plugged, loaded, leaving>>
      /\ UNCHANGED <<phase, channel_number, taken, asked, inserted_queue, removed_queue>>
      /\ monitor # "clear" /\ monitor' # "clear"
  BY DEF Scan, TakeMutex, ReleaseMutex, InsertFull, sharedVars, stickVars, mainVars, queueVars
<1>2. (InTurn /\ LeavingKnown)'
  BY <1>1 DEF CalmInv, InTurn, LeavingKnown
<1>3. ASSUME OneMove, monitor' # "scan"
      PROVE  \A p \in Paths : usb_devices'[p] \in {loaded[p], plugged[p]}
  <2>1. CASE Scan
    BY <2>1, ScanSeesAll
  <2>2. CASE TakeMutex \/ \E path \in Paths : InsertFull(path)
    BY <1>3, <2>2 DEF TakeMutex, InsertFull, OneMove
  <2> QED
    BY <1>3, <2>1, <2>2 DEF ReleaseMutex
<1>4. OneMove => OneMove'
  BY <1>1, <1>3 DEF OneMove, News, StillThere
<1>5. (MasterMoves => MasterMoves') /\ (AnswerMoves => AnswerMoves')
  BY <1>1 DEF MasterMoves, MasterOnly, AnswerMoves, News, StillThere, Quiet
<1> QED
  BY <1>1, <1>2, <1>4, <1>5 DEF CalmInv

\* What the monitor finds new is a stick that was put in, what it misses one that was
\* pulled.
LEMMA MovesAreNews ==
  ASSUME StartInv, OneMove, monitor = "diff", NEW path \in Paths
  PROVE  /\ path \in Insertions =>
              /\ News(path) /\ usb_devices[path] = plugged[path] /\ loaded[path] = NoName
              /\ plugged[path] \in Names
         /\ path \in Removals =>
              News(path) /\ usb_devices[path] = NoName /\ plugged[path] = NoName
  BY StartTypes, NoneAssumption DEF OneMove, Insertions, Removals, Occupied, News, SticksTypeOK

\* An insertion is queued; no other event is.
LEMMA CalmInsert ==
  ASSUME Calm, StartInv, CalmInv, UNCHANGED <<mainVars, asked>>, phase # "stopped",
         NEW path \in Paths, QueueInsertion(path)
  PROVE  CalmInv'
<1> USE StartTypes
<1>1. /\ UNCHANGED <<halt, device_path, plugged, leaving, usb_devices, monitor, removed_queue>>
      /\ UNCHANGED <<phase, channel_number, taken, asked>>
      /\ monitor = "diff" /\ path \in Insertions /\ usb_devices[path] \in Names
      /\ loaded' = [loaded EXCEPT ![path] = usb_devices[path]]
      /\ state' = [d \in Devices |-> IF device_path[d] = path THEN "READY" ELSE state[d]]
      /\ device_name' = [d \in Devices |->
           IF device_path[d] = path THEN usb_devices[path] ELSE device_name[d]]
  BY DEF QueueInsertion, Insert, ChannelsAt, stickVars, mainVars, Insertions, Occupied, MonitorTypeOK
<1>2. loaded'[path] = usb_devices[path] /\ \A p \in Paths \ {path} : loaded'[p] = loaded[p]
  BY <1>1 DEF MonitorTypeOK
<1>3. LeavingKnown'
  BY <1>1, <1>2, NoneAssumption DEF CalmInv, LeavingKnown
<1>4. CASE phase = "ready"
  BY <1>1, <1>3, <1>4 DEF CalmInv, InTurn, LoadSteps, MapSteps
<1>5. CASE phase # "ready"
  <2>1. OneMove /\ MasterMoves /\ AnswerMoves
    BY <1>5 DEF CalmInv
  <2>2. News(path) /\ usb_devices[path] = plugged[path] /\ loaded[path] = NoName
    BY <1>1, <2>1, MovesAreNews
  <2>3. inserted_queue.count = 0 /\ \A p \in Paths : News(p) => p = path
    BY <2>1, <2>2 DEF OneMove
  <2>4. \A p \in Paths : ~News(p)'
    BY <1>1, <1>2, <2>2, <2>3 DEF News
  <2> DEFINE event == [device_name |-> usb_devices[path], device_path |-> path]
  <2>5. event \in Event /\ event.device_name = plugged[path] /\ event.device_path = path
    BY <1>1, <2>2 DEF Event
  <2>6. inserted_queue' = queue_push(inserted_queue, event)
    BY DEF QueueInsertion
  <2> HIDE DEF event
  <2>7. inserted_queue'.count = 1 /\ Oldest(inserted_queue)' = event
    BY <2>3, <2>5, <2>6, OnlyEvent DEF Oldest
  <2>8. phase \in {"insert_master", "map"}
    <3>1. ~Quiet
      BY <2>2 DEF Quiet
    <3>2. phase # "remove_master"
      BY <1>1, <2>1, <2>2, NoneAssumption DEF MasterMoves
    <3> QED
      BY <1>5, <2>1, <3>1, <3>2 DEF StartInv, TypeOK, MasterMoves, AnswerMoves, MapSteps
  <2>9. OneMove'
    <3>1. monitor # "scan" => \A p \in Paths : usb_devices'[p] \in {loaded'[p], plugged'[p]}
      BY <1>1, <1>2, <2>1, <2>2 DEF OneMove
    <3>2. StillThere(Oldest(inserted_queue))'
      BY <1>1, <2>5, <2>7 DEF StillThere
    <3> QED
      BY <1>1, <2>4, <2>7, <3>1, <3>2 DEF OneMove
  <2>10. MasterMoves'
    <3>1. CASE phase = "insert_master"
      <4>1. path = MasterPath
        BY <1>1, <2>1, <2>2, <3>1, NoneAssumption DEF MasterMoves, MasterOnly
      <4>2. MasterOnly'
        BY <1>1, <1>2, <2>1, <3>1, <4>1 DEF MasterMoves, MasterOnly
      <4> QED
        BY <1>1, <2>1, <2>4, <3>1, <4>2 DEF MasterMoves, LoadSteps
    <3>2. CASE phase = "map"
      BY <1>1, <3>2 DEF MasterMoves, LoadSteps
    <3> QED
      BY <2>8, <3>1, <3>2
  <2>11. AnswerMoves'
    <3>1. phase = "map" => asked[event.device_path] = channel_number
      BY <1>1, <2>1, <2>2, <2>5, NoneAssumption DEF AnswerMoves
    <3> QED
      BY <1>1, <2>4, <2>7, <2>8, <3>1 DEF AnswerMoves
  <2>12. InTurn'
    BY <1>1, <2>8, NoneAssumption DEF CalmInv, InTurn, StartInv, ChannelIsAsked, LoadSteps, MapSteps
  <2> QED
    BY <1>3, <2>9, <2>10, <2>11, <2>12 DEF CalmInv
<1> QED
  BY <1>4, <1>5

\* A removal is queued, and its channel will be cleared, if it has one.
LEMMA CalmRemove ==
  ASSUME Calm, StartInv, CalmInv, UNCHANGED <<mainVars, asked>>, phase # "stopped",
         NEW path \in Paths, QueueRemoval(path)
  PROVE  CalmInv'
<1> USE StartTypes
<1>1. /\ UNCHANGED <<state, halt, device_name, device_path, plugged, usb_devices, inserted_queue>>
      /\ UNCHANGED <<phase, channel_number, taken, asked>>
      /\ monitor = "diff" /\ path \in Removals
      /\ loaded' = [loaded EXCEPT ![path] = NoName]
      /\ \/ monitor' = "clear" /\ leaving' = path
         \/ /\ UNCHANGED <<monitor, leaving>>
            /\ \A d \in ChannelsAt(path) : state[d] \in FailStates
  BY DEF QueueRemoval, Remove, sharedVars, stickVars, mainVars
<1>2. loaded'[path] = NoName /\ \A p \in Paths \ {path} : loaded'[p] = loaded[p]
  BY <1>1 DEF MonitorTypeOK
<1>3. InTurn' /\ LeavingKnown'
  BY <1>1 DEF CalmInv, InTurn, LeavingKnown
<1>4. CASE phase = "ready"
  BY <1>1, <1>3, <1>4 DEF CalmInv
<1>5. CASE phase # "ready"
  <2>1. OneMove /\ MasterMoves /\ AnswerMoves
    BY <1>5 DEF CalmInv
  <2>2. News(path) /\ usb_devices[path] = NoName /\ plugged[path] = NoName /\ loaded[path] # NoName
    BY <1>1, <2>1, MovesAreNews DEF News
  <2>3. inserted_queue.count = 0 /\ \A p \in Paths : News(p) => p = path
    BY <2>1, <2>2 DEF OneMove
  <2>4. \A p \in Paths : ~News(p)'
    BY <1>1, <1>2, <2>2, <2>3 DEF News
  <2>5. phase \in {"remove_master", "map"}
    <3>1. ~Quiet
      BY <2>2 DEF Quiet
    <3>2. phase # "insert_master"
      BY <2>1, <2>2 DEF MasterMoves
    <3> QED
      BY <1>5, <2>1, <3>1, <3>2 DEF StartInv, TypeOK, MasterMoves, AnswerMoves, MapSteps
  <2>6. OneMove'
    <3>1. monitor' # "scan" => \A p \in Paths : usb_devices'[p] \in {loaded'[p], plugged'[p]}
      BY <1>1, <1>2, <2>1, <2>2 DEF OneMove
    <3> QED
      BY <1>1, <2>3, <2>4, <3>1 DEF OneMove
  <2>7. MasterMoves'
    <3>1. CASE phase = "remove_master"
      <4>1. path = MasterPath
        BY <2>1, <2>2, <3>1 DEF MasterMoves, MasterOnly
      <4> QED
        BY <1>1, <1>2, <2>1, <2>2, <2>4, <3>1, <4>1 DEF MasterMoves, MasterOnly, LoadSteps
    <3>2. CASE phase = "map"
      BY <1>1, <3>2 DEF MasterMoves, LoadSteps
    <3> QED
      BY <2>5, <3>1, <3>2
  <2>8. AnswerMoves'
    BY <1>1, <2>3, <2>4, <2>5 DEF AnswerMoves
  <2> QED
    BY <1>3, <2>6, <2>7, <2>8 DEF CalmInv
<1> QED
  BY <1>4, <1>5

\* The channel of the stick that left is cleared.
LEMMA CalmClear ==
  ASSUME Calm, StartInv, CalmInv, UNCHANGED <<mainVars, asked, queueVars>>, phase # "stopped",
         ClearChannel
  PROVE  CalmInv'
<1> USE StartTypes
<1>1. /\ UNCHANGED <<halt, device_path, plugged, loaded, usb_devices>>
      /\ UNCHANGED <<phase, channel_number, taken, asked, inserted_queue, removed_queue>>
      /\ monitor = "clear" /\ monitor' = "diff" /\ leaving' = NoPath
      /\ state' = [d \in Devices |-> IF device_path[d] = leaving THEN "EMPTY" ELSE state[d]]
      /\ device_name' = [d \in Devices |->
           IF device_path[d] = leaving THEN NoName ELSE device_name[d]]
  BY DEF ClearChannel, ChannelsAt, stickVars, mainVars, queueVars
<1>2. leaving \in Paths
  BY <1>1 DEF CalmInv, LeavingKnown
<1>3. LeavingKnown'
  BY <1>1, <1>2, NoneAssumption DEF CalmInv, LeavingKnown
<1>4. OneMove => OneMove'
  BY <1>1 DEF OneMove, News, StillThere
<1>5. (MasterMoves => MasterMoves') /\ (AnswerMoves => AnswerMoves')
  BY <1>1 DEF MasterMoves, MasterOnly, AnswerMoves, News, StillThere, Quiet
<1>6. InTurn'
  <2>1. phase \notin {"answer", "assigned"}
    BY <1>1 DEF CalmInv, AnswerMoves
  <2>2. phase \in MapSteps => device_path[channel_number] = NoPath /\ channel_number \in Devices
    BY <2>1 DEF CalmInv, InTurn, MapSteps, StartInv, ChannelIsAsked
  <2> QED
    BY <1>1, <1>2, <2>1, <2>2, NoneAssumption DEF CalmInv, InTurn
<1> QED
  BY <1>1, <1>3, <1>4, <1>5, <1>6 DEF CalmInv

-----------------------------------------------------------------------------
\* load_master's steps after the master was taken, up to its removal.
LEMMA CalmLoad ==
  ASSUME Calm, StartInv, CalmInv, UNCHANGED <<monitorVars, asked>>,
         MountMaster \/ EmptyRam \/ CopyMaster \/ SyncMaster \/ UnmountMaster \/ Process
  PROVE  CalmInv'
<1> USE StartTypes
<1>1. /\ UNCHANGED <<halt, device_name, device_path, plugged>>
      /\ UNCHANGED <<monitor, usb_devices, loaded, leaving, asked>>
      /\ UNCHANGED <<channel_number, taken, inserted_queue, removed_queue>>
      /\ state' \in {state, [state EXCEPT ![0] = "READY"]}
      /\ phase \in LoadSteps /\ phase' \in LoadSteps \cup {"remove_master", "stopped"}
  BY DEF MountMaster, EmptyRam, CopyMaster, SyncMaster, UnmountMaster, Process, Load, SetState,
         sharedVars, stickVars, queueVars, monitorVars, LoadSteps
<1>2. /\ OneMove /\ MasterMoves /\ AnswerMoves /\ InTurn
      /\ phase \notin MapSteps /\ phase' \notin MapSteps \cup {"insert_master", "ready"}
  BY <1>1 DEF CalmInv, LoadSteps, MapSteps
<1>3. channel_number = 0 /\ \A d \in Devices : device_path[d] = NoPath
  BY <1>1, <1>2 DEF InTurn, Devices, LoadSteps
<1>4. InTurn' /\ LeavingKnown'
  BY <1>1, <1>2, <1>3, NoneAssumption
  DEF CalmInv, InTurn, LeavingKnown, LoadSteps, MapSteps
<1>5. OneMove'
  BY <1>1, <1>2 DEF OneMove, News, StillThere
<1>6. MasterMoves'
  BY <1>1, <1>2 DEF MasterMoves, MasterOnly, News, Quiet, LoadSteps
<1>7. AnswerMoves'
  BY <1>2 DEF AnswerMoves, MapSteps
<1> QED
  BY <1>4, <1>5, <1>6, <1>7 DEF CalmInv

\* The master is the stick in its socket.
LEMMA CalmTakeMaster ==
  ASSUME Calm, StartInv, CalmInv, UNCHANGED <<monitorVars, asked>>, TakeMaster
  PROVE  CalmInv'
<1> USE StartTypes
<1>1. /\ UNCHANGED <<halt, device_name, device_path, plugged>>
      /\ UNCHANGED <<monitor, usb_devices, loaded, leaving, asked>>
      /\ UNCHANGED <<channel_number, removed_queue>>
      /\ state' = [state EXCEPT ![0] = "COPYING"]
      /\ phase = "insert_master" /\ phase' = "mount"
      /\ inserted_queue.count > 0
      /\ taken' = Oldest(inserted_queue) /\ inserted_queue' = queue_pop(inserted_queue)
  BY DEF TakeMaster, TakeInsertion, SetState, stickVars, monitorVars
<1>2. OneMove /\ MasterMoves /\ AnswerMoves /\ InTurn
  BY <1>1 DEF CalmInv
<1>3. /\ inserted_queue.count = 1 /\ inserted_queue'.count = 0 /\ taken' \in Event
      /\ StillThere(taken') /\ \A path \in Paths : ~News(path)
  <2>1. Oldest(inserted_queue) \in Event
    BY <1>1, PopQueue
  <2>2. inserted_queue.count = 1
    BY <1>1, <1>2 DEF OneMove
  <2> QED
    BY <1>1, <1>2, <2>1, <2>2 DEF OneMove, queue_pop
<1>4. taken'.device_path = MasterPath
  BY <1>1, <1>2, <1>3, NoneAssumption DEF MasterMoves, MasterOnly, StillThere, Event
<1>5. channel_number = 0 /\ \A d \in Devices : device_path[d] = NoPath
  BY <1>1, <1>2 DEF InTurn, Devices
<1>6. InTurn' /\ LeavingKnown'
  BY <1>1, <1>2, <1>5, NoneAssumption
  DEF CalmInv, InTurn, LeavingKnown, LoadSteps, MapSteps
<1>7. Quiet'
  BY <1>1, <1>3 DEF Quiet, News
<1>8. OneMove'
  BY <1>1, <1>2, <1>3, <1>7 DEF OneMove, Quiet
<1>9. MasterMoves'
  BY <1>1, <1>2, <1>3, <1>4, <1>7 DEF MasterMoves, MasterOnly, LoadSteps, Quiet
<1>10. AnswerMoves'
  BY <1>1 DEF AnswerMoves
<1> QED
  BY <1>6, <1>8, <1>9, <1>10 DEF CalmInv

\* The master is out, and the first prompt follows.
LEMMA CalmMasterRemoved ==
  ASSUME Calm, StartInv, CalmInv, UNCHANGED <<monitorVars, asked>>, MasterRemoved
  PROVE  CalmInv'
<1> USE StartTypes
<1>1. /\ UNCHANGED <<halt, device_name, device_path, plugged>>
      /\ UNCHANGED <<monitor, usb_devices, loaded, leaving, asked>>
      /\ UNCHANGED <<channel_number, taken, inserted_queue>>
      /\ state' = [state EXCEPT ![0] = "INDICATING"]
      /\ phase = "remove_master" /\ phase' = "map" /\ removed_queue > 0
  BY DEF MasterRemoved, SetState, stickVars, monitorVars
<1>2. OneMove /\ MasterMoves /\ AnswerMoves /\ InTurn
  BY <1>1 DEF CalmInv
<1>3. channel_number = 0 /\ 0 \in Devices /\ \A d \in Devices : device_path[d] = NoPath
  BY <1>1, <1>2 DEF InTurn, Devices, StartInv, ChannelIsAsked
<1>4. InTurn' /\ LeavingKnown'
  BY <1>1, <1>2, <1>3, NoneAssumption
  DEF CalmInv, InTurn, LeavingKnown, LoadSteps, MapSteps, SharedTypeOK
<1>5. \A path \in Paths : plugged[path] = NoName
  BY <1>1, <1>2 DEF MasterMoves, MasterOnly
<1>6. OneMove'
  BY <1>1, <1>2 DEF OneMove, News, StillThere
<1>7. MasterMoves' /\ AnswerMoves'
  BY <1>1, <1>2, <1>5 DEF MasterMoves, AnswerMoves, LoadSteps
<1> QED
  BY <1>4, <1>6, <1>7 DEF CalmInv

-----------------------------------------------------------------------------
\* The mapping's steps.

\* A channel is done with while nothing is under way.
LEMMA CalmPrompt ==
  ASSUME Calm, StartInv, CalmInv, UNCHANGED <<monitorVars, asked>>,
         phase \in MapSteps, Quiet, NEW s \in {"EMPTY", "READY"}, NextPrompt(s),
         s = "READY" => phase = "assigned",
         UNCHANGED <<taken, ram, stickVars, queueVars>>
  PROVE  CalmInv'
<1> USE StartTypes
<1>1. /\ UNCHANGED <<halt, device_name, device_path, plugged, taken, asked>>
      /\ UNCHANGED <<monitor, usb_devices, loaded, leaving, inserted_queue, removed_queue>>
      /\ channel_number' = channel_number + 1
      /\ phase' = IF channel_number + 1 \in Devices THEN "map" ELSE "ready"
      /\ state' = [d \in Devices |->
           IF d = channel_number THEN s
           ELSE IF d = channel_number + 1 THEN "INDICATING" ELSE state[d]]
  BY DEF NextPrompt, stickVars, queueVars, monitorVars
<1>2. /\ OneMove /\ MasterMoves /\ AnswerMoves /\ InTurn /\ channel_number \in Devices
      /\ Devices \subseteq Int
  BY DEF CalmInv, MapSteps, StartInv, ChannelIsAsked, Devices
<1>3. InTurn' /\ LeavingKnown'
  BY <1>1, <1>2 DEF CalmInv, InTurn, LeavingKnown, LoadSteps, MapSteps
<1>4. OneMove'
  BY <1>1, <1>2 DEF OneMove, News, StillThere
<1>5. MasterMoves' /\ AnswerMoves'
  BY <1>1, <1>2 DEF MasterMoves, AnswerMoves, LoadSteps, Quiet, News
<1> QED
  BY <1>3, <1>4, <1>5 DEF CalmInv

LEMMA CalmMap ==
  ASSUME Calm, StartInv, CalmInv, UNCHANGED <<monitorVars, asked>>,
         (Skip /\ MaySkip) \/ ShowReady
  PROVE  CalmInv'
<1>1. CASE Skip /\ MaySkip
  <2>1. Quiet
    BY <1>1 DEF MaySkip, NothingPending, Settled, Quiet, News, Calm
  <2> QED
    BY <1>1, <2>1, CalmPrompt DEF Skip, MapSteps
<1>2. CASE ShowReady
  <2>1. Quiet
    BY <1>2 DEF ShowReady, CalmInv, AnswerMoves
  <2> QED
    BY <1>2, <2>1, CalmPrompt DEF ShowReady, MapSteps
<1> QED
  BY <1>1, <1>2

\* The answer is the stick that was put in for this prompt.
LEMMA CalmTakeAnswer ==
  ASSUME Calm, StartInv, CalmInv, UNCHANGED <<monitorVars, asked>>, TakeAnswer
  PROVE  CalmInv'
<1> USE StartTypes
<1>1. /\ UNCHANGED <<state, halt, device_name, device_path, plugged>>
      /\ UNCHANGED <<monitor, usb_devices, loaded, leaving, asked>>
      /\ UNCHANGED <<channel_number, removed_queue>>
      /\ phase = "map" /\ phase' = "answer" /\ monitor \in {"scan", "scanned"}
      /\ inserted_queue.count > 0
      /\ taken' = Oldest(inserted_queue) /\ inserted_queue' = queue_pop(inserted_queue)
  BY DEF TakeAnswer, TakeInsertion, MutexFree, sharedVars, stickVars, monitorVars
<1>2. OneMove /\ MasterMoves /\ AnswerMoves /\ InTurn
  BY <1>1 DEF CalmInv
<1>3. /\ inserted_queue.count = 1 /\ inserted_queue'.count = 0
      /\ StillThere(taken') /\ asked[taken'.device_path] = channel_number
      /\ \A path \in Paths : ~News(path)
  BY <1>1, <1>2 DEF OneMove, AnswerMoves, queue_pop
<1>4. InTurn' /\ LeavingKnown'
  BY <1>1, <1>2 DEF CalmInv, InTurn, LeavingKnown, LoadSteps, MapSteps
<1>5. Quiet'
  BY <1>1, <1>3 DEF Quiet, News
<1>6. OneMove'
  BY <1>1, <1>2, <1>5 DEF OneMove, Quiet
<1>7. StillThere(taken)'
  BY <1>1, <1>3 DEF StillThere
<1>8. MasterMoves' /\ AnswerMoves'
  BY <1>1, <1>3, <1>5, <1>7 DEF MasterMoves, AnswerMoves, LoadSteps
<1> QED
  BY <1>4, <1>6, <1>8 DEF CalmInv

\* The socket is refused, or assigned.
LEMMA CalmReject ==
  ASSUME Calm, StartInv, CalmInv, UNCHANGED <<monitorVars, asked>>, Reject
  PROVE  CalmInv'
<1> USE StartTypes
<1>1. /\ UNCHANGED <<halt, device_name, device_path, plugged, taken>>
      /\ UNCHANGED <<monitor, usb_devices, loaded, leaving, asked>>
      /\ UNCHANGED <<channel_number, inserted_queue, removed_queue>>
      /\ state' = [state EXCEPT ![channel_number] = "INDICATING"]
      /\ phase = "answer" /\ phase' = "map"
  BY DEF Reject, SetState, queueVars, stickVars, monitorVars
<1>2. OneMove /\ MasterMoves /\ AnswerMoves /\ InTurn /\ Quiet
  BY <1>1 DEF CalmInv, AnswerMoves
<1>3. InTurn' /\ LeavingKnown'
  BY <1>1, <1>2
  DEF CalmInv, InTurn, LeavingKnown, LoadSteps, MapSteps, SharedTypeOK
<1>4. OneMove'
  BY <1>1, <1>2 DEF OneMove, News, StillThere
<1>5. MasterMoves' /\ AnswerMoves'
  BY <1>1, <1>2 DEF MasterMoves, AnswerMoves, LoadSteps, Quiet, News
<1> QED
  BY <1>3, <1>4, <1>5 DEF CalmInv

LEMMA CalmAssign ==
  ASSUME Calm, StartInv, CalmInv, UNCHANGED <<monitorVars, asked>>, Assign
  PROVE  CalmInv'
<1> USE StartTypes
<1>1. /\ UNCHANGED <<state, halt, plugged, taken>>
      /\ UNCHANGED <<monitor, usb_devices, loaded, leaving, asked>>
      /\ UNCHANGED <<channel_number, inserted_queue, removed_queue>>
      /\ device_name' = [device_name EXCEPT ![channel_number] = taken.device_name]
      /\ device_path' = [device_path EXCEPT ![channel_number] = taken.device_path]
      /\ phase = "answer" /\ phase' = "assigned"
  BY DEF Assign, queueVars, stickVars, monitorVars
<1>2. /\ OneMove /\ MasterMoves /\ AnswerMoves /\ InTurn /\ Quiet
      /\ channel_number \in Devices /\ Devices \subseteq Int
  BY <1>1 DEF CalmInv, AnswerMoves, StartInv, ChannelIsAsked, Devices
<1>3. InTurn' /\ LeavingKnown'
  BY <1>1, <1>2 DEF CalmInv, InTurn, LeavingKnown, LoadSteps, MapSteps, SharedTypeOK
<1>4. OneMove'
  BY <1>1, <1>2 DEF OneMove, News, StillThere
<1>5. MasterMoves' /\ AnswerMoves'
  BY <1>1, <1>2 DEF MasterMoves, AnswerMoves, LoadSteps, Quiet, News, StillThere
<1> QED
  BY <1>3, <1>4, <1>5 DEF CalmInv

-----------------------------------------------------------------------------
\* Every step preserves it.
LEMMA CalmStep == Calm /\ StartInv /\ CalmInv /\ [Next]_vars => CalmInv'
<1> SUFFICES ASSUME Calm, StartInv, CalmInv, [Next]_vars PROVE CalmInv'
  OBVIOUS
<1>1. CASE MainStep
  BY <1>1, CalmLoad, CalmTakeMaster, CalmMasterRemoved, CalmMap, CalmTakeAnswer, CalmReject, CalmAssign
  DEF MainStep, MainNext
<1>2. CASE MonitorStep
  BY <1>2, CalmLook, CalmInsert, CalmRemove, CalmClear DEF MonitorStep, Watch
<1>3. CASE OperatorStep
  BY <1>3, CalmOperator
<1>4. CASE UNCHANGED vars
  BY <1>4 DEF vars, sharedVars, stickVars, monitorVars, mainVars, queueVars, CalmInv, InTurn,
     LeavingKnown, OneMove, MasterMoves, MasterOnly, AnswerMoves, News, Quiet, StillThere
<1> QED
  BY <1>1, <1>2, <1>3, <1>4 DEF Next

LEMMA CalmAlways == ASSUME Calm PROVE Spec => [](StartInv /\ CalmInv)
<1>1. Init => StartInv /\ CalmInv
  BY StartInit, CalmInit
<1>2. StartInv /\ CalmInv /\ [Next]_vars => (StartInv /\ CalmInv)'
  BY StartStep, CalmStep
<1> QED
  BY <1>1, <1>2, PTL DEF Spec

-----------------------------------------------------------------------------
\* For a patient operator a channel gets the socket of the stick that was put in for its
\* prompt, in whatever steps the monitor hands it on (server.c:550-562).
THEOREM AnswersArePaths ==
  ASSUME Calm
  PROVE  Spec => PathsAnswerPrompts
<1>1. StartInv /\ CalmInv /\ [Next]_vars =>
        [Assign => asked[taken.device_path] = channel_number]_vars
  BY DEF CalmInv, AnswerMoves, Assign
<1> QED
  BY <1>1, CalmAlways, PTL DEF Spec, PathsAnswerPrompts

\* The removal that ends the wait is that of the master (server.c:835-849).
THEOREM MasterLeaves ==
  ASSUME Calm
  PROVE  Spec => MasterIsOut
<1>1. StartInv /\ CalmInv /\ [Next]_vars =>
        [MasterRemoved => plugged[taken.device_path] # taken.device_name]_vars
  <2> SUFFICES ASSUME StartInv, CalmInv, MasterRemoved
               PROVE  plugged[taken.device_path] # taken.device_name
    OBVIOUS
  <2>1. phase = "remove_master" /\ removed_queue > 0
    BY DEF MasterRemoved
  <2>2. plugged[taken.device_path] = NoName
    BY <2>1 DEF CalmInv, MasterMoves
  <2>3. taken.device_name \in Names
    BY <2>1, StartTypes
  <2> QED
    BY <2>2, <2>3, NoneAssumption
<1> QED
  BY <1>1, CalmAlways, PTL DEF Spec, MasterIsOut
====
