----------------------------- MODULE SharedData -----------------------------
(***************************************************************************)
(* The shared memory of the copier (globals.h): one ChannelInfoStruct per  *)
(* USB channel, mapped by the server process and by every client process,  *)
(* written by all of them and guarded by no lock.  A field of the struct   *)
(* is a function from device ids.  start_time and bytes_copied only feed   *)
(* the display and are left out.                                           *)
(***************************************************************************)
EXTENDS Integers, FiniteSets

CONSTANTS
  NUMBER_OF_HUBS,      \* hubs; each has its own button and LCD lines
  PORTS_PER_CHANNEL,   \* sockets of one hub
  Names,               \* kernel names of block devices (/dev/sda, /dev/sdb, ...)
  Paths,               \* USB port paths, one per physical socket
  NoName,              \* the empty device_name
  NoPath               \* the empty device_path

MAX_USB_CHANNELS == NUMBER_OF_HUBS * PORTS_PER_CHANNEL

ASSUME HubAssumption == NUMBER_OF_HUBS \in Nat \ {0} /\ PORTS_PER_CHANNEL \in Nat \ {0}
ASSUME NoneAssumption == NoName \notin Names /\ NoPath \notin Paths

Hubs == 0 .. NUMBER_OF_HUBS - 1
Devices == 0 .. MAX_USB_CHANNELS - 1

\* ChannelInfoStruct.hub_number, written once by the server's main.
hub_number(d) == d \div PORTS_PER_CHANNEL
FirstDevice(h) == h * PORTS_PER_CHANNEL
LastDevice(h) == FirstDevice(h) + PORTS_PER_CHANNEL - 1

\* ChannelStateEnum.
ChannelState ==
  {"EMPTY", "READY", "STARTING", "ERASING", "FORMATING", "PARTITIONING", "MOUNTING", "COPYING",
   "UNMOUNTING", "VERIFYING", "SUCCESS", "FAILED", "CRC_FAILED", "LED_TEST", "INDICATING"}

\* The states hub_main counts as "copying", and those run() starts a client from.
CopyingStates ==
  {"STARTING", "ERASING", "FORMATING", "PARTITIONING", "MOUNTING", "COPYING", "UNMOUNTING"}
BusyStates == CopyingStates \cup {"VERIFYING"}
FailStates == {"FAILED", "CRC_FAILED"}
StartableStates == {"READY", "SUCCESS"} \cup FailStates

VARIABLES
  state,         \* [Devices -> ChannelState]
  halt,          \* [Devices -> BOOLEAN]: the client of the channel is asked to stop
  device_name,   \* [Devices -> Names \cup {NoName}]
  device_path    \* [Devices -> Paths \cup {NoPath}]: set by the port mapping

sharedVars == <<state, halt, device_name, device_path>>

SharedTypeOK ==
  /\ state \in [Devices -> ChannelState]
  /\ halt \in [Devices -> BOOLEAN]
  /\ device_name \in [Devices -> Names \cup {NoName}]
  /\ device_path \in [Devices -> Paths \cup {NoPath}]

\* Shared memory once the ports are mapped as portmap and every stick is out.
SharedInit(portmap) ==
  /\ state = [d \in Devices |-> "EMPTY"]
  /\ halt = [d \in Devices |-> FALSE]
  /\ device_name = [d \in Devices |-> NoName]
  /\ device_path = portmap
=============================================================================
