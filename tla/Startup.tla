------------------------------ MODULE Startup ------------------------------
(***************************************************************************)
(* The server from power-on to its main loop (server.c): it reads the      *)
(* master stick to the RAM disk, waits until that is removed, and asks for *)
(* a stick in each socket in turn to learn which socket belongs to which   *)
(* channel.  The monitor thread runs all the while; what it sees reaches   *)
(* the main thread through the event queues.                               *)
(*                                                                         *)
(* As in Copier, what the code takes for granted about the operator holds  *)
(* with Disturbances = {}, and each element lifts one assumption.          *)
(***************************************************************************)
EXTENDS UsbMonitor, EventQueue

CONSTANTS
  MasterPath,     \* the socket the operator takes for slot 1
  MayFail,        \* steps of load_master and main that may fail
  Disturbances    \* the assumptions that are lifted

KnownDisturbances ==
  {"moves_while_loading",   \* sticks are moved while nothing, or the master, is asked for
   "hasty_operator"}        \* sticks are moved, or the button is pressed, while the
                            \* answer to a prompt is pending

ASSUME MasterPathAssumption == MasterPath \in Paths
ASSUME LoadFailAssumption ==
  MayFail \subseteq {"mkdir", "mount", "rm", "copy", "sync", "umount", "crc_file"}
ASSUME StartupDisturbances == Disturbances \subseteq KnownDisturbances

VARIABLES
  phase,            \* the step of the main thread
  channel_number,   \* the channel map_usb_port_numbers is asking for
  taken,            \* the event last popped: the master, then each answer
  ram,              \* what the RAM disk holds
  inserted_queue,   \* insertions, a queue of events
  removed_queue     \* how many removals are queued: nothing else about them is read

\* History: the channel that was asked for when the stick in a socket was put in.
VARIABLE asked

mainVars == <<phase, channel_number, taken, ram>>
queueVars == <<inserted_queue, removed_queue>>
vars == <<sharedVars, stickVars, monitorVars, mainVars, queueVars, asked>>

Event == [device_name : Names, device_path : Paths]
Channel == Devices \cup {MAX_USB_CHANNELS}
NotAsked == -1

LoadSteps == {"mount", "empty_ram", "copy", "sync", "umount", "process"}
MapSteps == {"map", "answer", "assigned"}

TypeOK ==
  /\ SharedTypeOK /\ SticksTypeOK /\ MonitorTypeOK
  /\ phase \in {"insert_master", "remove_master", "ready", "stopped"} \cup LoadSteps \cup MapSteps
  /\ channel_number \in Channel
  /\ taken \in Event \cup {NoEvent}
  /\ ram \in {"old", "empty", "partial", "master"}
  /\ inserted_queue \in Queues(Event)
  /\ removed_queue \in 0 .. USB_EVENT_QUEUE_LEN
  /\ asked \in [Paths -> Devices \cup {NotAsked}]

\* load_master has shown its prompt; no socket is mapped yet.
Init ==
  /\ state = [d \in Devices |-> IF d = 0 THEN "INDICATING" ELSE "EMPTY"]
  /\ halt = [d \in Devices |-> FALSE]
  /\ device_name = [d \in Devices |-> NoName]
  /\ device_path = [d \in Devices |-> NoPath]
  /\ SticksInit /\ MonitorInit
  /\ phase = "insert_master" /\ channel_number = 0
  /\ taken = NoEvent /\ ram = "old"
  /\ inserted_queue = queue_init /\ removed_queue = 0
  /\ asked = [path \in Paths |-> NotAsked]

-----------------------------------------------------------------------------
\* load_master.

SetState(d, s) ==
  /\ state' = [state EXCEPT ![d] = s]
  /\ UNCHANGED <<halt, device_name, device_path>>

\* usb_device_inserted: the oldest insertion, taken under usb_mutex.
TakeInsertion ==
  /\ MutexFree
  /\ inserted_queue.count > 0
  /\ taken' = Oldest(inserted_queue)
  /\ inserted_queue' = queue_pop(inserted_queue)
  /\ UNCHANGED removed_queue

TakeMaster ==
  /\ phase = "insert_master"
  /\ TakeInsertion
  /\ SetState(0, "COPYING")
  /\ phase' = "mount"
  /\ UNCHANGED <<channel_number, ram, stickVars>>

\* A failure leaves load_master at once; main does not look at its result.
Load(step, next) ==
  /\ phase = step
  /\ phase' = next
  /\ UNCHANGED <<channel_number, taken, sharedVars, queueVars>>

MountMaster ==
  LET name == taken.device_name
  IN  \/ /\ Load("mount", "empty_ram")
         /\ Present(name)
         /\ mounted' = [mounted EXCEPT ![name] = TRUE]
         /\ mount_dir' = [mount_dir EXCEPT ![name] = TRUE]
         /\ UNCHANGED <<ram, plugged, holds_master>>
      \/ /\ Load("mount", "process")
         /\ ~Present(name) \/ "mount" \in MayFail
         /\ mount_dir' = [mount_dir EXCEPT ![name] = TRUE]
         /\ UNCHANGED <<ram, plugged, holds_master, mounted>>
      \/ /\ Load("mount", "process")
         /\ "mkdir" \in MayFail
         /\ UNCHANGED <<ram, stickVars>>

EmptyRam ==
  /\ \/ Load("empty_ram", "copy") /\ ram' = "empty"
     \/ Load("empty_ram", "process") /\ "rm" \in MayFail /\ UNCHANGED ram
  /\ UNCHANGED stickVars

\* A directory that cannot be listed to its end counts as copied.
CopyMaster ==
  LET there == Present(taken.device_name)
      fails == ~there \/ "copy" \in MayFail
  IN  /\ \/ Load("copy", "sync") /\ there /\ ram' = "master"
         \/ (Load("copy", "sync") \/ Load("copy", "process")) /\ fails /\ ram' = "partial"
      /\ UNCHANGED stickVars

SyncMaster ==
  LET name == taken.device_name
  IN  /\ \/ Load("sync", "umount") /\ CanSync(name)
         \/ Load("sync", "process") /\ (SyncTrouble(name) \/ "sync" \in MayFail)
      /\ UNCHANGED <<ram, stickVars>>

UnmountMaster ==
  /\ \/ /\ Load("umount", "process")
        /\ mounted' = [mounted EXCEPT ![taken.device_name] = FALSE]
     \/ /\ Load("umount", "process")
        /\ "umount" \in MayFail
        /\ UNCHANGED mounted
  /\ UNCHANGED <<ram, plugged, holds_master, mount_dir>>

\* The MP3 files and their checksums; without a CRC file main returns.
Process ==
  /\ phase = "process"
  /\ \/ phase' = "remove_master" /\ SetState(0, "READY")
     \/ phase' = "stopped" /\ "crc_file" \in MayFail /\ UNCHANGED sharedVars
  /\ UNCHANGED <<channel_number, taken, ram, stickVars, queueVars>>

\* Faulty variant of MasterRemoved: main does not wait.
MasterRemovedUnseen ==
  /\ phase = "remove_master"
  /\ phase' = "map"
  /\ SetState(0, "INDICATING")
  /\ UNCHANGED <<channel_number, taken, ram, stickVars, queueVars>>

\* usb_device_removed: any removal ends the wait.  The first prompt follows.
MasterRemoved ==
  /\ phase = "remove_master"
  /\ MutexFree
  /\ removed_queue > 0
  /\ removed_queue' = removed_queue - 1
  /\ phase' = "map"
  /\ SetState(0, "INDICATING")
  /\ UNCHANGED <<channel_number, taken, ram, inserted_queue, stickVars>>

-----------------------------------------------------------------------------
\* map_usb_port_numbers.

\* Channel channel_number is done with and shows s; ask for the next one.
NextPrompt(s) ==
  /\ channel_number' = channel_number + 1
  /\ phase' = IF channel_number + 1 \in Devices THEN "map" ELSE "ready"
  /\ state' = [d \in Devices |->
       IF d = channel_number THEN s
       ELSE IF d = channel_number + 1 THEN "INDICATING" ELSE state[d]]
  /\ UNCHANGED <<halt, device_name, device_path>>

\* A short press of either button skips the channel.
Skip ==
  /\ phase = "map"
  /\ NextPrompt("EMPTY")
  /\ UNCHANGED <<taken, ram, stickVars, queueVars>>

\* Faulty variant of TakeAnswer: the answer is drained while the prompt is shown.
TakeAnswerDraining ==
  /\ phase = "map"
  /\ TakeInsertion
  /\ UNCHANGED <<phase, channel_number, ram, sharedVars, stickVars>>

TakeAnswer ==
  /\ phase = "map"
  /\ TakeInsertion
  /\ phase' = "answer"
  /\ UNCHANGED <<channel_number, ram, sharedVars, stickVars>>

\* "SOCKET IS ALREADY ASSIGNED": the same channel is asked for again.
Reject ==
  /\ phase = "answer"
  /\ ChannelsAt(taken.device_path) # {}
  /\ SetState(channel_number, "INDICATING")
  /\ phase' = "map"
  /\ UNCHANGED <<channel_number, taken, ram, stickVars, queueVars>>

\* Faulty variant of Assign: assigned sockets are not recognised.
AssignAnyway ==
  /\ phase = "answer"
  /\ device_name' = [device_name EXCEPT ![channel_number] = taken.device_name]
  /\ device_path' = [device_path EXCEPT ![channel_number] = taken.device_path]
  /\ phase' = "assigned"
  /\ UNCHANGED <<state, halt, channel_number, taken, ram, stickVars, queueVars>>

\* The channel gets its socket; usb_mutex is not held.
Assign ==
  /\ phase = "answer"
  /\ ChannelsAt(taken.device_path) = {}
  /\ device_name' = [device_name EXCEPT ![channel_number] = taken.device_name]
  /\ device_path' = [device_path EXCEPT ![channel_number] = taken.device_path]
  /\ phase' = "assigned"
  /\ UNCHANGED <<state, halt, channel_number, taken, ram, stickVars, queueVars>>

ShowReady ==
  /\ phase = "assigned"
  /\ NextPrompt("READY")
  /\ UNCHANGED <<taken, ram, stickVars, queueVars>>

MainNext ==
  \/ TakeMaster \/ MountMaster \/ EmptyRam \/ CopyMaster \/ SyncMaster \/ UnmountMaster
  \/ Process \/ MasterRemoved
  \/ Skip \/ TakeAnswer \/ Reject \/ Assign \/ ShowReady

-----------------------------------------------------------------------------
\* The monitor queues what it finds, under usb_mutex.

QueueInsertion(path) ==
  /\ Insert(path)
  /\ inserted_queue' =
       queue_push(inserted_queue, [device_name |-> usb_devices[path], device_path |-> path])
  /\ UNCHANGED removed_queue

QueueRemoval(path) ==
  /\ Remove(path)
  /\ removed_queue' =
       IF removed_queue = USB_EVENT_QUEUE_LEN THEN removed_queue ELSE removed_queue + 1
  /\ UNCHANGED inserted_queue

Watch ==
  \/ \E path \in Paths : QueueInsertion(path) \/ QueueRemoval(path)
  \/ /\ Scan \/ TakeMutex \/ ClearChannel \/ ReleaseMutex \/ \E path \in Paths : InsertFull(path)
     /\ UNCHANGED queueVars

-----------------------------------------------------------------------------
\* The operator.

Settled(path) ==
  /\ loaded[path] = plugged[path]
  /\ monitor # "scan" => usb_devices[path] = plugged[path]
  /\ leaving # path

\* A prompt is shown and every stick put in so far has been dealt with.
NothingPending ==
  /\ phase = "map" /\ inserted_queue.count = 0
  /\ \A path \in Paths : Settled(path)

MaySkip == NothingPending \/ "hasty_operator" \in Disturbances

MayMove(path, from) ==
  /\ Settled(path)
  /\ \/ phase = from /\ path = MasterPath
     \/ NothingPending
     \/ phase = "ready"
     \/ phase \in MapSteps /\ "hasty_operator" \in Disturbances
     \/ phase \notin MapSteps \cup {"ready", "stopped"} /\ "moves_while_loading" \in Disturbances

NameIsFresh(n) ==
  /\ \A d \in Devices : device_name[d] # n
  /\ \A path \in Paths : n \notin {loaded[path], usb_devices[path]}

PlugStick ==
  \E path \in Paths, n \in Names :
    /\ MayMove(path, "insert_master") /\ NameIsFresh(n)
    /\ Plug(path, n)
    /\ asked' = [asked EXCEPT ![path] = IF phase \in MapSteps THEN channel_number ELSE NotAsked]

PullStick ==
  \E path \in Paths :
    /\ MayMove(path, "remove_master")
    /\ Unplug(path)
    /\ asked' = [asked EXCEPT ![path] = NotAsked]

-----------------------------------------------------------------------------
MainStep == ServerUp /\ MainNext /\ (Skip => MaySkip) /\ UNCHANGED <<monitorVars, asked>>

MonitorStep == ServerUp /\ phase # "stopped" /\ Watch /\ UNCHANGED <<mainVars, asked>>

OperatorStep ==
  (PlugStick \/ PullStick) /\ UNCHANGED <<sharedVars, monitorVars, mainVars, queueVars>>

Next == MainStep \/ MonitorStep \/ OperatorStep

Spec == Init /\ [][Next]_vars

\* Both threads of the server go on when they can; a press of the button, and
\* every move of a stick, is up to the operator.
Fairness == WF_vars(MainStep /\ ~Skip) /\ WF_vars(MonitorStep)

FairSpec == Spec /\ Fairness

-----------------------------------------------------------------------------
\* No two channels get the same socket: what Copier assumes of its PortMap,
\* although the check and the write are apart and the monitor reads in between.
PortsApart ==
  \A d, e \in Devices : device_path[d] = device_path[e] /\ device_path[d] # NoPath => d = e

\* Each channel is mapped to the socket whose stick was put in when that channel
\* was asked for, "to enable us to light the correct LEDs": no insertion that
\* was queued earlier is taken for the answer.
PathsAnswerPrompts ==
  [][Assign => asked[taken.device_path] = channel_number]_vars

\* A mapped channel that shows READY has its stick in the monitor's list, under its
\* name.  It does not stay so: map_usb_port_numbers has popped the insertion under
\* usb_mutex, but it fills in the channel without it, maybe after the stick has left.
ReadyMeansLoaded ==
  \A d \in Devices, path \in Paths :
    device_path[d] = path /\ state[d] = "READY" /\ leaving # path =>
      device_name[d] # NoName /\ loaded[path] = device_name[d]

\* "Waiting for master USB to be removed": the mapping begins without the master.
MasterIsOut ==
  [][MasterRemoved => plugged[taken.device_path] # taken.device_name]_vars

\* "Its entire contents are copied to the ramdrive": sockets are not mapped, and
\* nothing is duplicated, before the RAM disk holds the master.
MasterIsLoaded == phase \in MapSteps \cup {"ready"} => ram = "master"

\* The ring buffer keeps the promise of the event queues.
Inserted == INSTANCE DropOldest WITH
              queue <- Contents(inserted_queue), Capacity <- USB_EVENT_QUEUE_LEN

InsertionsInOrder == Inserted!Spec

\* A stick put in while its channel is asked for is mapped, unless the operator
\* pulls it or skips to the end.
AnswerIsTaken ==
  \A path \in Paths :
    (phase \in MapSteps /\ plugged[path] # NoName) ~>
      (ChannelsAt(path) # {} \/ plugged[path] = NoName \/ phase = "ready")

-----------------------------------------------------------------------------
\* The argument for PortsApart and InsertionsInOrder: events are taken from a
\* sound queue only, so that what is assigned is a socket.
TakenIsEvent == phase # "insert_master" => taken \in Event

ChannelIsAsked == phase # "ready" => channel_number \in Devices

StartInv ==
  /\ TypeOK /\ Sound(inserted_queue, Event)
  /\ TakenIsEvent /\ ChannelIsAsked /\ PortsApart
=============================================================================
