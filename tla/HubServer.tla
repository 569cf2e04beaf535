----------------------------- MODULE HubServer -----------------------------
(***************************************************************************)
(* The main thread of the server (server.c) once the ports are mapped: it  *)
(* collects the buttons, visits the hubs in turn, counts the states of the *)
(* channels of each, and starts, cancels or closes the copying of the hub. *)
(***************************************************************************)
EXTENDS Client, UsbMonitor

VARIABLES
  main,          \* the step of the main thread
  hub,           \* the hub hub_main is visiting
  idx,           \* the loop variable of hub_main's count and of run()
  in_progress,   \* a channel counted so far was copying or verifying
  busy,          \* [Hubs -> BOOLEAN]: channel_busy
  button         \* [Hubs -> Press]: the press read for each hub in this round

serverVars == <<main, hub, idx, in_progress, busy, button>>

Press == {"none", "short", "long"}
RunSteps == {"run_check", "run_clear", "run_start", "run_wait"}

ServerTypeOK ==
  /\ main \in {"poll", "visit", "count", "conclude"} \cup RunSteps
  /\ hub \in Hubs
  /\ idx \in Devices
  /\ in_progress \in BOOLEAN
  /\ busy \in [Hubs -> BOOLEAN]
  /\ button \in [Hubs -> Press]

NoPress == [h \in Hubs |-> "none"]

ServerInit ==
  /\ main = "poll" /\ hub = 0 /\ idx = 0
  /\ in_progress = FALSE
  /\ busy = [h \in Hubs |-> FALSE]
  /\ button = NoPress

-----------------------------------------------------------------------------
\* A round of the main loop begins: the one-shot presses of the buttons, one
\* per hub, are read and cleared.  A round with no press and no busy hub
\* changes nothing.
Poll(presses) ==
  /\ main = "poll"
  /\ \E h \in Hubs : busy[h] \/ presses[h] # "none"
  /\ button' = presses
  /\ main' = "visit"
  /\ UNCHANGED <<hub, idx, in_progress, busy, sharedVars, stickVars, clientVars, monitorVars>>

\* Faulty variant of LeaveHub: one hub too many is visited.
LeaveHubUnbounded ==
  /\ button' = [button EXCEPT ![hub] = "none"]
  /\ idx' = 0 /\ in_progress' = FALSE
  /\ main' = "visit" /\ hub' = hub + 1

\* hub_main returns: on to the next hub, or to the end of the round.
LeaveHub ==
  /\ button' = [button EXCEPT ![hub] = "none"]
  /\ idx' = 0 /\ in_progress' = FALSE
  /\ IF hub + 1 \in Hubs
     THEN main' = "visit" /\ hub' = hub + 1
     ELSE main' = "poll" /\ hub' = 0

\* Faulty variants of Terminate: only the first channel of the hub is asked to
\* stop, or the channels of every hub are.
TerminateFirst ==
  /\ main = "visit"
  /\ busy[hub] /\ button[hub] = "long"
  /\ halt' = [halt EXCEPT ![FirstDevice(hub)] = TRUE]
  /\ busy' = [busy EXCEPT ![hub] = FALSE]
  /\ LeaveHub
  /\ UNCHANGED <<state, device_name, device_path, stickVars, clientVars, monitorVars>>

TerminateEverything ==
  /\ main = "visit"
  /\ busy[hub] /\ button[hub] = "long"
  /\ halt' = [d \in Devices |-> TRUE]
  /\ busy' = [busy EXCEPT ![hub] = FALSE]
  /\ LeaveHub
  /\ UNCHANGED <<state, device_name, device_path, stickVars, clientVars, monitorVars>>

\* terminate(): ask every client of the hub to stop, and forget the job.  Each
\* client looks at its own flag only, so one step stands for the loop.
Terminate ==
  /\ main = "visit"
  /\ busy[hub] /\ button[hub] = "long"
  /\ halt' = [d \in Devices |-> halt[d] \/ hub_number(d) = hub]
  /\ busy' = [busy EXCEPT ![hub] = FALSE]
  /\ LeaveHub
  /\ UNCHANGED <<state, device_name, device_path, stickVars, clientVars, monitorVars>>

Idle ==
  /\ main = "visit"
  /\ ~busy[hub] /\ button[hub] # "short"
  /\ LeaveHub
  /\ UNCHANGED <<busy, sharedVars, stickVars, clientVars, monitorVars>>

StartHub ==
  /\ main = "visit"
  /\ ~busy[hub] /\ button[hub] = "short"
  /\ busy' = [busy EXCEPT ![hub] = TRUE]
  /\ main' = "run_check"
  /\ UNCHANGED <<hub, idx, in_progress, button, sharedVars, stickVars, clientVars, monitorVars>>

\* hub_main counts its channels before it looks at the button; the counts
\* matter only while the hub is busy and goes on, so only then are they taken.
StartCount ==
  /\ main = "visit"
  /\ busy[hub] /\ button[hub] # "long"
  /\ main' = "count" /\ idx' = FirstDevice(hub)
  /\ UNCHANGED <<hub, in_progress, busy, button, sharedVars, stickVars, clientVars, monitorVars>>

\* Faulty variant of Count: the loop ends one channel early.
CountShort ==
  /\ main = "count"
  /\ in_progress' = (in_progress \/ state[idx] \in BusyStates)
  /\ IF idx + 1 >= LastDevice(hub)
     THEN main' = "conclude" /\ UNCHANGED idx
     ELSE idx' = idx + 1 /\ UNCHANGED main
  /\ UNCHANGED <<hub, busy, button, sharedVars, stickVars, clientVars, monitorVars>>

\* One channel is counted; the states of the others go on changing meanwhile.
Count ==
  /\ main = "count"
  /\ in_progress' = (in_progress \/ state[idx] \in BusyStates)
  /\ IF idx = LastDevice(hub)
     THEN main' = "conclude" /\ UNCHANGED idx
     ELSE idx' = idx + 1 /\ UNCHANGED main
  /\ UNCHANGED <<hub, busy, button, sharedVars, stickVars, clientVars, monitorVars>>

\* Still copying or verifying: only the display changes.
Progress ==
  /\ main = "conclude"
  /\ in_progress
  /\ LeaveHub
  /\ UNCHANGED <<busy, sharedVars, stickVars, clientVars, monitorVars>>

\* Nothing in progress any more: show the summary and wait for the button again.
Finish ==
  /\ main = "conclude"
  /\ ~in_progress
  /\ busy' = [busy EXCEPT ![hub] = FALSE]
  /\ LeaveHub
  /\ UNCHANGED <<sharedVars, stickVars, clientVars, monitorVars>>

-----------------------------------------------------------------------------
\* run() looks at the channels of every hub: is the named device still loaded?
RunCheck ==
  /\ main = "run_check"
  /\ MutexFree
  /\ main' = IF device_is_loaded(device_name[idx]) THEN "run_start" ELSE "run_clear"
  /\ UNCHANGED <<hub, idx, in_progress, busy, button,
                 sharedVars, stickVars, clientVars, monitorVars>>

\* It was not: the write comes after usb_mutex has been released.
RunClear ==
  /\ main = "run_clear"
  /\ state' = [state EXCEPT ![idx] = "EMPTY"]
  /\ main' = "run_start"
  /\ UNCHANGED <<hub, idx, in_progress, busy, button, halt, device_name, device_path,
                 stickVars, clientVars, monitorVars>>

NextChannel ==
  IF idx + 1 \in Devices
  THEN main' = "run_check" /\ idx' = idx + 1 /\ UNCHANGED <<hub, in_progress, button>>
  ELSE LeaveHub

\* Faulty variant of ToBeStarted: whatever is not empty is started.
ToBeStartedUnlessEmpty(d) == hub_number(d) = hub /\ state[d] # "EMPTY"

ToBeStarted(d) == hub_number(d) = hub /\ state[d] \in StartableStates

RunSkip ==
  /\ main = "run_start"
  /\ ~ToBeStarted(idx)
  /\ NextChannel
  /\ UNCHANGED <<busy, sharedVars, stickVars, clientVars, monitorVars>>

\* start_process; when the fork fails, or no process is to be had, the channel
\* is left as it was.
RunStart ==
  /\ main = "run_start"
  /\ ToBeStarted(idx)
  /\ \/ \E p \in Procs : Fork(p, idx)
     \/ /\ "fork" \in MayFail \/ \A p \in Procs : pc[p] # "none"
        /\ UNCHANGED clientVars
  /\ main' = "run_wait"
  /\ UNCHANGED <<hub, idx, in_progress, busy, button, sharedVars, stickVars, monitorVars>>

\* The 250 ms pause after each start is over.
RunWait ==
  /\ main = "run_wait"
  /\ NextChannel
  /\ UNCHANGED <<busy, sharedVars, stickVars, clientVars, monitorVars>>

\* The rest of the round, once the presses are read.
ServerNext ==
  \/ Terminate \/ Idle \/ StartHub \/ StartCount \/ Count \/ Progress \/ Finish
  \/ RunCheck \/ RunClear \/ RunSkip \/ RunStart \/ RunWait
=============================================================================
