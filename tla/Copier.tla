------------------------------- MODULE Copier -------------------------------
(***************************************************************************)
(* The running copier: the server's main thread and its USB monitor        *)
(* thread, the client processes it forks, and the operator who moves       *)
(* sticks and presses buttons.  The processes share memory without a lock, *)
(* so their steps interleave freely.                                       *)
(*                                                                         *)
(* What the code takes for granted about the operator, the kernel and      *)
(* timing is spelled out: with Disturbances = {} all of it is respected,   *)
(* and each element lifts one assumption.                                  *)
(***************************************************************************)
EXTENDS HubServer

CONSTANTS
  PortMap,        \* [Devices -> Paths \cup {NoPath}]: the outcome of the port mapping
  PullPaths,      \* the sockets a stick is ever pulled from (bounds the moves)
  Disturbances    \* the assumptions that are lifted

KnownDisturbances ==
  {"pull_while_working",   \* a stick is pulled while its client works
   "move_during_start",    \* sticks are moved while run() starts clients
   "slow_monitor",         \* sticks are moved, or a button pressed, before the monitor
                           \* has noticed the previous move
   "slow_child",           \* a forked child has not announced itself after 250 ms
   "name_reuse"}           \* the kernel gives a name again that the server still remembers

ASSUME PortMapAssumption ==
  /\ PortMap \in [Devices -> Paths \cup {NoPath}]
  /\ \A d, e \in Devices : PortMap[d] = PortMap[e] /\ PortMap[d] # NoPath => d = e
ASSUME PullPathsAssumption == PullPaths \subseteq Paths
ASSUME DisturbancesAssumption == Disturbances \subseteq KnownDisturbances

\* History: how far each client was when its hub was cancelled.
VARIABLE cancelled

vars == <<sharedVars, stickVars, clientVars, monitorVars, serverVars, cancelled>>

Init ==
  /\ SharedInit(PortMap) /\ SticksInit /\ ClientInit /\ MonitorInit /\ ServerInit
  /\ cancelled = [p \in Procs |-> "no"]

-----------------------------------------------------------------------------
\* The assumptions.

WorkedOn(path) == \E p \in Procs : Working(p) /\ device_path[chan[p]] = path

\* The monitor has noticed everything about the socket.
Settled(path) ==
  /\ loaded[path] = plugged[path]
  /\ monitor # "scan" => usb_devices[path] = plugged[path]
  /\ leaving # path

AllSettled == \A path \in Paths : Settled(path)

StartPending ==
  main \in RunSteps \/ \E h \in Hubs : button[h] = "short"

MayMove(path) ==
  /\ WorkedOn(path) => "pull_while_working" \in Disturbances
  /\ StartPending => "move_during_start" \in Disturbances
  /\ ~Settled(path) => "slow_monitor" \in Disturbances

MayPress == ~AllSettled => "slow_monitor" \in Disturbances

Remembered(n) ==
  \/ \E d \in Devices : device_name[d] = n
  \/ \E path \in Paths : n \in {loaded[path], usb_devices[path]}

NameIsFresh(n) == Remembered(n) => "name_reuse" \in Disturbances

ChildrenAnnounced == (\E p \in Procs : pc[p] = "child") => "slow_child" \in Disturbances

-----------------------------------------------------------------------------
\* The processes.

\* The operator's presses reach the main thread when it reads the buttons.
PollStep ==
  /\ ServerUp
  /\ \E presses \in [Hubs -> Press] :
       /\ (\E h \in Hubs : presses[h] = "short") => MayPress
       /\ Poll(presses)
  /\ UNCHANGED cancelled

MainStep ==
  /\ ServerUp
  /\ ServerNext
  /\ main = "run_wait" => ChildrenAnnounced
  /\ IF main = "visit" /\ busy[hub] /\ button[hub] = "long"
     THEN cancelled' =
            [p \in Procs |->
               IF ~Working(p) \/ hub_number(chan[p]) # hub THEN cancelled[p]
               ELSE IF pc[p] \in {"child", "exec", "init"} THEN "early"
               ELSE IF pc[p] = "passed" THEN "late"
               ELSE "running"]
     ELSE UNCHANGED cancelled

MonitorStep == MonitorNext /\ ServerUp /\ UNCHANGED <<clientVars, serverVars, cancelled>>

ClientStep(p) ==
  /\ ClientNext(p)
  /\ cancelled' = [cancelled EXCEPT ![p] = IF pc'[p] = "none" THEN "no" ELSE @]
  /\ UNCHANGED <<monitorVars, serverVars>>

PlugStick ==
  \E path \in Paths, n \in Names :
    /\ MayMove(path) /\ NameIsFresh(n)
    /\ Plug(path, n)
    /\ UNCHANGED <<sharedVars, clientVars, monitorVars, serverVars, cancelled>>

PullStick ==
  \E path \in PullPaths :
    /\ MayMove(path)
    /\ Unplug(path)
    /\ UNCHANGED <<sharedVars, clientVars, monitorVars, serverVars, cancelled>>

Next ==
  \/ PollStep \/ MainStep
  \/ MonitorStep
  \/ \E p \in Procs : ClientStep(p)
  \/ PlugStick \/ PullStick

Spec == Init /\ [][Next]_vars

\* The scheduler runs every thread and process that can go on, and every
\* command ends; the operator need not do anything.
Fairness ==
  /\ WF_vars(PollStep \/ MainStep)
  /\ WF_vars(MonitorStep)
  /\ \A p \in Procs : WF_vars(ClientStep(p))

FairSpec == Spec /\ Fairness

-----------------------------------------------------------------------------
\* Every variable keeps to its range, whatever is lifted or fails.
TypeOK ==
  /\ SharedTypeOK /\ SticksTypeOK /\ ClientTypeOK /\ MonitorTypeOK /\ ServerTypeOK
  /\ cancelled \in [Procs -> {"no", "early", "running", "late"}]

\* run() never starts a client on a channel that still has one at work,
\* although it goes only by a state that four parties write without a lock.
OneClientPerChannel ==
  \A p, q \in Procs : Working(p) /\ Working(q) /\ chan[p] = chan[q] => p = q

\* "The Server program creates an instance of the client program for each USB
\* drive": two clients never work on the same device.
OneClientPerDrive ==
  \A p, q \in Procs : Working(p) /\ Working(q) /\ dev[p] = dev[q] /\ dev[p] # NoName => p = q

\* hub_main shows the final summary of a hub only when none of its clients is
\* at work any more: the sweep over the unlocked states misses none.
DoneMeansDone ==
  [][\A h \in Hubs : Finish /\ h = hub =>
       \A p \in Procs : Working(p) => hub_number(chan[p]) # h]_vars

\* A green light on a socket means that the stick now in it holds the verified
\* master and is unmounted, that is, safe to pull.
GreenMeansVerified ==
  \A d \in Devices : state[d] = "SUCCESS" =>
    \A path \in Paths, n \in Names :
      device_path[d] = path /\ plugged[path] = n => holds_master[n] /\ ~mounted[n]

\* "Green: copy finished successfully".  That is said of the stick now in the socket,
\* once the monitor has noticed it, and not of one that was there before.
GreenIsOfThisStick ==
  \A d \in Devices : state[d] = "SUCCESS" =>
    \A path \in Paths, n \in Names :
      device_path[d] = path /\ plugged[path] = n /\ Settled(path) => holds_master[n]

\* A client that was past its start, and had not yet taken its last look at halt,
\* when its hub was cancelled never reports success: nothing withdraws its halt,
\* not even a restart of the hub.
CancelledNeverGreen ==
  [][\A p \in Procs :
       ClientStep(p) /\ state[chan[p]] # "SUCCESS" /\ state'[chan[p]] = "SUCCESS" =>
         cancelled[p] # "running"]_vars

\* A channel that shows work in progress has a client to finish that work.
ClientSignalsOutcome ==
  \A d \in Devices : state[d] \in BusyStates =>
    \E p \in Procs : Working(p) /\ chan[p] = d

\* "None: no USB drive found", says the table of LEDs, and "Amber: ready to copy".  A
\* socket whose stick is in the monitor's list is not shown as empty, and its channel
\* knows the stick by its present name.  run() writes EMPTY after it has released
\* usb_mutex, so this holds only as long as no stick is moved meanwhile.
LoadedStickIsShown ==
  \A d \in Devices : \A path \in Paths :
    device_path[d] = path /\ loaded[path] # NoName =>
      state[d] # "EMPTY" /\ device_name[d] = loaded[path]

\* run() "clears error lights from previous fails when the drive has been
\* removed": a failure shown by a socket with no stick does not survive its check.
RunClearsErrors ==
  [][\A path \in Paths :
       RunCheck /\ device_path[idx] = path /\ loaded[path] = NoName /\ state[idx] \in FailStates
         => main' = "run_clear"]_vars

\* The monitor "preserves FAILED/CRC_FAILED so the operator can see which slot
\* failed even after the stick is pulled": it never replaces a failure by EMPTY.  It
\* looks at the state first and writes later, and a client whose stick is pulled under
\* it may fail in between.
FailureStaysVisible ==
  [][ClearChannel => \A d \in ChannelsAt(leaving) : state[d] \notin FailStates]_vars

\* The hubs are separate: what the main thread does for one hub, its run() over
\* all channels included, touches no channel of another hub where a client works.
HubsDoNotInterfere ==
  [][\A p \in Procs : MainStep /\ Working(p) /\ hub_number(chan[p]) # hub =>
       state'[chan[p]] = state[chan[p]] /\ halt'[chan[p]] = halt[chan[p]]]_vars

\* A hub that was started comes back to waiting for its button.
HubFinishes == \A h \in Hubs : busy[h] ~> ~busy[h]

\* A channel that is asked to stop stops showing work in progress.
HaltedChannelSettles ==
  \A d \in Devices : (halt[d] /\ state[d] \in BusyStates) ~> (state[d] \notin BusyStates)

-----------------------------------------------------------------------------
\* The argument for OneClientPerChannel, for Disturbances = {} and a list with
\* room for every socket: the parts of an inductive invariant.

\* The names a socket goes by, in the world and in the server's memory.
NamesOf(path) ==
  ({plugged[path], loaded[path], usb_devices[path]}
     \cup {device_name[d] : d \in ChannelsAt(path)}) \ {NoName}

NamesApart == \A path, other \in Paths : path # other => NamesOf(path) \cap NamesOf(other) = {}

ChannelsNamed ==
  \A d \in Devices :
    /\ state[d] # "EMPTY" => device_name[d] # NoName
    /\ device_name[d] # NoName => device_path[d] \in Paths

\* Sockets that are worked on, or about to be, hold no news for the monitor.
WorkIsSettled ==
  /\ StartPending => AllSettled
  /\ \A p \in Procs : Working(p) => device_path[chan[p]] \in Paths /\ Settled(device_path[chan[p]])

\* The channel of a client at work shows it and goes by its loaded name.
Matched(d) ==
  /\ device_name[d] # NoName
  /\ device_path[d] \in Paths
  /\ loaded[device_path[d]] = device_name[d]

WorkIsShown ==
  \A p \in Procs : Working(p) =>
    /\ Matched(chan[p])
    /\ IF pc[p] = "child" THEN main = "run_wait" /\ idx = chan[p] ELSE state[chan[p]] \in BusyStates

\* What run() has found out about channel idx stays so until it acts on it.
RunIsRight ==
  /\ main = "run_clear" => \A p \in Procs : Working(p) => chan[p] # idx
  /\ main = "run_start" /\ state[idx] # "EMPTY" => Matched(idx)

WorkInv ==
  /\ device_path = PortMap
  /\ NamesApart /\ ChannelsNamed /\ WorkIsSettled /\ WorkIsShown /\ RunIsRight
  /\ OneClientPerChannel

-----------------------------------------------------------------------------
\* The arguments for CancelledNeverGreen and DoneMeansDone, on top of WorkInv.

\* A client cancelled after it withdrew old halts is, and stays, asked to stop, and
\* it has not taken its last look yet.
CancelHolds ==
  \A p \in Procs :
    /\ At(p, "none") => cancelled[p] = "no"
    /\ Working(p) /\ cancelled[p] = "running" =>
         pc[p] \notin {"child", "exec", "init", "passed"} /\ Halted(p)

\* No client at work is behind a count that has found none so far.
SweepIsRight ==
  main \in {"count", "conclude"} /\ ~in_progress =>
    \A p \in Procs : Working(p) /\ hub_number(chan[p]) = hub => main = "count" /\ chan[p] >= idx

-----------------------------------------------------------------------------
\* The arguments for what the lights say, on top of WorkInv.

\* The monitor's list and the channels agree.
ListIsRight ==
  /\ IF monitor = "clear"
     THEN /\ leaving \in Paths /\ loaded[leaving] = NoName
          /\ \A d \in ChannelsAt(leaving) : state[d] \notin FailStates
     ELSE leaving = NoPath
  /\ \A d \in Devices : state[d] \notin FailStates \cup {"EMPTY"} =>
       loaded[device_path[d]] # NoName \/ leaving = device_path[d]
  /\ main = "run_clear" /\ device_path[idx] \in Paths => loaded[device_path[idx]] = NoName

\* A client goes by the name of its channel once it has read it.
DevIsName ==
  \A p \in Procs :
    /\ pc[p] \in {"none", "child", "exec"} => dev[p] = NoName
    /\ Working(p) /\ pc[p] \notin {"child", "exec"} => dev[p] = device_name[chan[p]]

\* What verify() has established by each of its last steps.
VerifiedSoFar ==
  \A p \in Procs : ~Halted(p) \/ pc[p] = "passed" =>
    /\ pc[p] \in {"vsync", "vumount", "result", "passed"} => holds_master[dev[p]]
    /\ pc[p] \in {"result", "passed"} => ~mounted[dev[p]]

IndInv ==
  /\ WorkInv /\ CancelHolds /\ SweepIsRight
  /\ ListIsRight /\ LoadedStickIsShown /\ DevIsName /\ VerifiedSoFar
=============================================================================
