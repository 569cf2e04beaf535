----------------------------- MODULE UsbMonitor -----------------------------
(***************************************************************************)
(* The USB monitor thread of the server (usb.c): five times a second it    *)
(* lists the removable disks of /sys/block, takes usb_mutex, and brings    *)
(* usb_devices_loaded and the mapped channels in line with the list.  The  *)
(* event queues it also feeds are read by the start-up code only: Startup  *)
(* adds them to the actions of this module.                                *)
(***************************************************************************)
EXTENDS Sticks

VARIABLES
  monitor,       \* the step of the thread, "exited" when it ended the server
  usb_devices,   \* [Paths -> Names \cup {NoName}]: the list of the last scan
  loaded,        \* [Paths -> Names \cup {NoName}]: usb_devices_loaded
  leaving        \* the path of a removal whose channel is about to be cleared

monitorVars == <<monitor, usb_devices, loaded, leaving>>

MonitorTypeOK ==
  /\ monitor \in {"scan", "scanned", "diff", "clear", "exited"}
  /\ usb_devices \in [Paths -> Names \cup {NoName}]
  /\ loaded \in [Paths -> Names \cup {NoName}]
  /\ leaving \in Paths \cup {NoPath}

NoDevices == [path \in Paths |-> NoName]

MonitorInit ==
  /\ monitor = "scan"
  /\ usb_devices = NoDevices
  /\ loaded = NoDevices
  /\ leaving = NoPath

\* The paths with a device in a list.
Occupied(list) == {path \in Paths : list[path] # NoName}

ServerUp == monitor # "exited"
MutexFree == monitor \in {"scan", "scanned"}

\* Faulty variant of ChannelsAt: any mapped channel will do.
AnyMappedChannel(path) == {d \in Devices : device_path[d] # NoPath}

\* get_device_id_from_path: the channels mapped to a path (at most one).
ChannelsAt(path) == {d \in Devices : device_path[d] = path}

\* Faulty variant of device_is_loaded: compares only as far as the slot's name,
\* so that a vacant slot matches every name.
device_is_loaded_prefix(name) == \E path \in Paths : loaded[path] \in {name, NoName}

\* usb_devices_loaded has MAX_USB_CHANNELS slots and a vacant one has an empty
\* name, so the empty name is found as long as a slot is vacant.
device_is_loaded(name) ==
  IF name = NoName
  THEN Cardinality(Occupied(loaded)) < MAX_USB_CHANNELS
  ELSE \E path \in Paths : loaded[path] = name

-----------------------------------------------------------------------------
\* One pass over /sys/block; devices beyond the capacity are ignored.  A pass
\* that lists the paths already loaded changes nothing.
Scan ==
  /\ monitor = "scan"
  /\ \E seen \in SUBSET Occupied(plugged) :
       /\ \/ seen = Occupied(plugged) /\ Cardinality(seen) <= MAX_USB_CHANNELS
          \/ seen # Occupied(plugged) /\ Cardinality(seen) = MAX_USB_CHANNELS
       /\ seen # Occupied(loaded)
       /\ usb_devices' = [path \in Paths |-> IF path \in seen THEN plugged[path] ELSE NoName]
  /\ monitor' = "scanned"
  /\ UNCHANGED <<loaded, leaving, sharedVars, stickVars>>

TakeMutex ==
  /\ monitor = "scanned"
  /\ monitor' = "diff"
  /\ UNCHANGED <<usb_devices, loaded, leaving, sharedVars, stickVars>>

Insertions == Occupied(usb_devices) \ Occupied(loaded)
Removals == Occupied(loaded) \ Occupied(usb_devices)

\* A new path: take a vacant slot and make its channel READY under the new name.
Insert(path) ==
  /\ monitor = "diff"
  /\ path \in Insertions
  /\ Cardinality(Occupied(loaded)) < MAX_USB_CHANNELS
  /\ loaded' = [loaded EXCEPT ![path] = usb_devices[path]]
  /\ state' = [d \in Devices |-> IF d \in ChannelsAt(path) THEN "READY" ELSE state[d]]
  /\ device_name' =
       [d \in Devices |-> IF d \in ChannelsAt(path) THEN usb_devices[path] ELSE device_name[d]]
  /\ UNCHANGED <<monitor, usb_devices, leaving, halt, device_path, stickVars>>

\* add_to_devices_loaded_list without a vacant slot: exit(1).
InsertFull(path) ==
  /\ monitor = "diff"
  /\ path \in Insertions
  /\ Cardinality(Occupied(loaded)) = MAX_USB_CHANNELS
  /\ monitor' = "exited"
  /\ UNCHANGED <<usb_devices, loaded, leaving, sharedVars, stickVars>>

\* A path that is gone, handled after all insertions: free its slot, and look
\* whether its channel shows a failure that is to be kept.
Remove(path) ==
  /\ monitor = "diff"
  /\ Insertions = {}
  /\ path \in Removals
  /\ loaded' = [loaded EXCEPT ![path] = NoName]
  /\ IF \E d \in ChannelsAt(path) : state[d] \notin FailStates
     THEN monitor' = "clear" /\ leaving' = path
     ELSE UNCHANGED <<monitor, leaving>>
  /\ UNCHANGED <<usb_devices, sharedVars, stickVars>>

\* The write that follows the look at the channel's state.
ClearChannel ==
  /\ monitor = "clear"
  /\ state' = [d \in Devices |-> IF d \in ChannelsAt(leaving) THEN "EMPTY" ELSE state[d]]
  /\ device_name' = [d \in Devices |-> IF d \in ChannelsAt(leaving) THEN NoName ELSE device_name[d]]
  /\ monitor' = "diff"
  /\ leaving' = NoPath
  /\ UNCHANGED <<usb_devices, loaded, halt, device_path, stickVars>>

ReleaseMutex ==
  /\ monitor = "diff"
  /\ Insertions = {} /\ Removals = {}
  /\ monitor' = "scan"
  /\ usb_devices' = NoDevices
  /\ UNCHANGED <<loaded, leaving, sharedVars, stickVars>>

MonitorNext ==
  \/ Scan \/ TakeMutex \/ ClearChannel \/ ReleaseMutex
  \/ \E path \in Paths : Insert(path) \/ InsertFull(path) \/ Remove(path)
=============================================================================
