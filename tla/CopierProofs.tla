---------------------------- MODULE CopierProofs ----------------------------
(***************************************************************************)
(* Theorems about Copier, for any number of hubs, sockets, sticks and      *)
(* client processes and for any set of steps that may fail.                *)
(***************************************************************************)
EXTENDS Copier, FiniteSetTheorems, TLAPS

LEMMA DeviceFacts ==
  /\ MAX_USB_CHANNELS \in Nat \ {0}
  /\ 0 \in Devices /\ 0 \in Hubs
  /\ \A h \in Hubs : /\ FirstDevice(h) \in Nat
                     /\ LastDevice(h) \in Devices
                     /\ FirstDevice(h) <= LastDevice(h)
<1> USE HubAssumption
<1>1. /\ NUMBER_OF_HUBS \in Nat /\ NUMBER_OF_HUBS >= 1
      /\ PORTS_PER_CHANNEL \in Nat /\ PORTS_PER_CHANNEL >= 1
  OBVIOUS
<1>2. MAX_USB_CHANNELS \in Nat /\ MAX_USB_CHANNELS >= 1
  BY <1>1 DEF MAX_USB_CHANNELS
<1>3. 0 \in Devices /\ 0 \in Hubs
  BY <1>1, <1>2 DEF Devices, Hubs
<1>4. ASSUME NEW h \in Hubs
      PROVE  /\ FirstDevice(h) \in Nat
             /\ LastDevice(h) \in Devices
             /\ FirstDevice(h) <= LastDevice(h)
  <2>1. h \in Nat /\ h + 1 <= NUMBER_OF_HUBS
    BY <1>1 DEF Hubs
  <2>2. FirstDevice(h) \in Nat
    BY <1>1, <2>1 DEF FirstDevice
  <2>3. (h + 1) * PORTS_PER_CHANNEL <= NUMBER_OF_HUBS * PORTS_PER_CHANNEL
    BY <1>1, <2>1
  <2>4. (h + 1) * PORTS_PER_CHANNEL = FirstDevice(h) + PORTS_PER_CHANNEL
    BY <1>1, <2>1 DEF FirstDevice
  <2>5. LastDevice(h) \in Nat /\ LastDevice(h) <= MAX_USB_CHANNELS - 1
    BY <1>1, <1>2, <2>2, <2>3, <2>4 DEF LastDevice, MAX_USB_CHANNELS
  <2>. QED
    BY <1>1, <1>2, <2>2, <2>5 DEF LastDevice, Devices
<1>. QED
  BY <1>2, <1>3, <1>4

-----------------------------------------------------------------------------
\* The loop variable of hub_main's count stays among the channels of the hub.
CountInRange ==
  main \in {"count", "conclude"} => idx >= FirstDevice(hub) /\ idx <= LastDevice(hub)

TypeInv == TypeOK /\ CountInRange

LEMMA TypeInit == Init => TypeInv
<1> SUFFICES ASSUME Init PROVE TypeInv
  OBVIOUS
<1>1. SharedTypeOK
  BY PortMapAssumption DEF Init, SharedInit, SharedTypeOK, ChannelState
<1>2. SticksTypeOK
  BY DEF Init, SticksInit, SticksTypeOK
<1>3. ClientTypeOK
  BY DeviceFacts DEF Init, ClientInit, ClientTypeOK, ClientSteps
<1>4. MonitorTypeOK
  BY DEF Init, MonitorInit, MonitorTypeOK, NoDevices
<1>5. ServerTypeOK /\ CountInRange
  BY DeviceFacts DEF Init, ServerInit, ServerTypeOK, CountInRange, NoPress, Press
<1>6. cancelled \in [Procs -> {"no", "early", "running", "late"}]
  BY DEF Init
<1>. QED
  BY <1>1, <1>2, <1>3, <1>4, <1>5, <1>6 DEF TypeInv, TypeOK

\* A client's step leaves every variable it can write in its range.
LEMMA TypeClient ==
  ASSUME TypeInv, NEW p \in Procs, ClientStep(p)
  PROVE  TypeInv'
<1> USE DEF GoTo, Exit, SetState, At, SharedTypeOK, SticksTypeOK, ClientTypeOK, ChannelState,
            ClientSteps, sharedVars, stickVars
<1>1. SharedTypeOK /\ SticksTypeOK /\ ClientTypeOK
  BY DEF TypeInv, TypeOK
<1>2. 0 \in Devices
  BY DeviceFacts
<1> USE <1>1, <1>2
<1>3. SharedTypeOK' /\ SticksTypeOK' /\ ClientTypeOK'
  <2>1. CASE Child(p)         BY <2>1 DEF Child
  <2>2. CASE Exec(p)          BY <2>2 DEF Exec
  <2>3. CASE Initialise(p)    BY <2>3 DEF Initialise
  <2>4. CASE UnmountOld(p)    BY <2>4 DEF UnmountOld
  <2>5. CASE Format(p)        BY <2>5 DEF Format
  <2>6. CASE MakeMountPoint(p) BY <2>6 DEF MakeMountPoint
  <2>7. CASE Mount(p)         BY <2>7 DEF Mount
  <2>8. CASE StartCopy(p)     BY <2>8 DEF StartCopy
  <2>9. CASE Copy(p)          BY <2>9 DEF Copy
  <2>10. CASE Sync(p)         BY <2>10 DEF Sync
  <2>11. CASE Unmount(p)      BY <2>11 DEF Unmount
  <2>12. CASE StartVerify(p)  BY <2>12 DEF StartVerify
  <2>13. CASE VerifyMount(p)  BY <2>13 DEF VerifyMount
  <2>14. CASE Compare(p)      BY <2>14 DEF Compare
  <2>15. CASE VerifySync(p)   BY <2>15 DEF VerifySync
  <2>16. CASE VerifyUnmount(p) BY <2>16 DEF VerifyUnmount
  <2>17. CASE Result(p)       BY <2>17 DEF Result
  <2>18. CASE VerifyFailed(p) BY <2>18 DEF VerifyFailed
  <2>19. CASE Failed(p)       BY <2>19 DEF Failed
  <2>20. CASE FailedHalt(p)   BY <2>20 DEF FailedHalt
  <2>21. CASE Passed(p)       BY <2>21 DEF Passed
  <2>. QED
    BY <2>1, <2>2, <2>3, <2>4, <2>5, <2>6, <2>7, <2>8, <2>9, <2>10, <2>11, <2>12, <2>13, <2>14,
       <2>15, <2>16, <2>17, <2>18, <2>19, <2>20, <2>21 DEF ClientStep, ClientNext
<1>4. MonitorTypeOK' /\ ServerTypeOK' /\ CountInRange'
  BY DEF TypeInv, TypeOK, ClientStep, monitorVars, serverVars, MonitorTypeOK, ServerTypeOK,
         CountInRange
<1>5. cancelled' \in [Procs -> {"no", "early", "running", "late"}]
  BY DEF TypeInv, TypeOK, ClientStep
<1>. QED
  BY <1>3, <1>4, <1>5 DEF TypeInv, TypeOK

\* The monitor's step.
LEMMA TypeMonitor ==
  ASSUME TypeInv, MonitorStep
  PROVE  TypeInv'
<1> USE DEF SharedTypeOK, MonitorTypeOK, sharedVars, stickVars, ChannelState
<1>1. SharedTypeOK /\ SticksTypeOK /\ MonitorTypeOK
  BY DEF TypeInv, TypeOK
<1> USE <1>1
<1>2. SharedTypeOK' /\ MonitorTypeOK' /\ UNCHANGED stickVars
  <2>1. CASE Scan             BY <2>1 DEF Scan, SticksTypeOK
  <2>2. CASE TakeMutex        BY <2>2 DEF TakeMutex
  <2>3. CASE ClearChannel     BY <2>3 DEF ClearChannel
  <2>4. CASE ReleaseMutex     BY <2>4 DEF ReleaseMutex, NoDevices
  <2>5. ASSUME NEW path \in Paths, Insert(path)
        PROVE  SharedTypeOK' /\ MonitorTypeOK' /\ UNCHANGED stickVars
    BY <2>5 DEF Insert, Insertions, Occupied
  <2>6. ASSUME NEW path \in Paths, InsertFull(path)
        PROVE  SharedTypeOK' /\ MonitorTypeOK' /\ UNCHANGED stickVars
    BY <2>6 DEF InsertFull
  <2>7. ASSUME NEW path \in Paths, Remove(path)
        PROVE  SharedTypeOK' /\ MonitorTypeOK' /\ UNCHANGED stickVars
    BY <2>7 DEF Remove
  <2>. QED
    BY <2>1, <2>2, <2>3, <2>4, <2>5, <2>6, <2>7 DEF MonitorStep, MonitorNext
<1>3. SticksTypeOK' /\ ClientTypeOK' /\ ServerTypeOK' /\ CountInRange'
      /\ cancelled' \in [Procs -> {"no", "early", "running", "late"}]
  BY <1>2 DEF TypeInv, TypeOK, MonitorStep, clientVars, serverVars, SticksTypeOK, ClientTypeOK,
              ServerTypeOK, CountInRange
<1>. QED
  BY <1>2, <1>3 DEF TypeInv, TypeOK

\* hub_main returns to the next hub or to the end of the round.
LEMMA LeaveHubType ==
  ASSUME ServerTypeOK, LeaveHub, busy' \in [Hubs -> BOOLEAN]
  PROVE  ServerTypeOK' /\ CountInRange'
BY DeviceFacts DEF ServerTypeOK, LeaveHub, CountInRange, Press, RunSteps

LEMMA TypeMain ==
  ASSUME TypeInv, MainStep
  PROVE  TypeInv'
<1> USE DEF sharedVars, stickVars, clientVars, monitorVars
<1>1. SharedTypeOK /\ SticksTypeOK /\ ClientTypeOK /\ MonitorTypeOK /\ ServerTypeOK /\ CountInRange
  BY DEF TypeInv, TypeOK
<1>2. UNCHANGED <<stickVars, monitorVars>>
  BY DEF MainStep, ServerNext, Terminate, Idle, StartHub, StartCount, Count, Progress, Finish,
         RunCheck, RunClear, RunSkip, RunStart, RunWait
<1>3. SharedTypeOK' /\ ClientTypeOK' /\ ServerTypeOK' /\ CountInRange'
  <2> USE <1>1 DEF SharedTypeOK
  <2>1. CASE Terminate
    <3>1. LeaveHub /\ busy' \in [Hubs -> BOOLEAN]
      BY <2>1 DEF Terminate, ServerTypeOK
    <3>. QED
      BY <2>1, <3>1, LeaveHubType DEF Terminate, ClientTypeOK
  <2>2. CASE Idle \/ Progress
    <3>1. LeaveHub /\ busy' \in [Hubs -> BOOLEAN]
      BY <2>2 DEF Idle, Progress, ServerTypeOK
    <3>. QED
      BY <2>2, <3>1, LeaveHubType DEF Idle, Progress, ClientTypeOK
  <2>3. CASE Finish
    <3>1. LeaveHub /\ busy' \in [Hubs -> BOOLEAN]
      BY <2>3 DEF Finish, ServerTypeOK
    <3>. QED
      BY <2>3, <3>1, LeaveHubType DEF Finish, ClientTypeOK
  <2>4. CASE StartHub
    BY <2>4 DEF StartHub, ServerTypeOK, ClientTypeOK, CountInRange, RunSteps
  <2>5. CASE StartCount
    BY <2>5, DeviceFacts DEF StartCount, ServerTypeOK, ClientTypeOK, CountInRange, Devices, RunSteps
  <2>6. CASE Count
    BY <2>6, DeviceFacts DEF Count, ServerTypeOK, ClientTypeOK, CountInRange, Devices, RunSteps
  <2>7. CASE RunCheck
    BY <2>7 DEF RunCheck, ServerTypeOK, ClientTypeOK, CountInRange, RunSteps
  <2>8. CASE RunClear
    BY <2>8 DEF RunClear, ServerTypeOK, ClientTypeOK, CountInRange, RunSteps, ChannelState
  <2>9. ASSUME NextChannel, busy' = busy
        PROVE  ServerTypeOK' /\ CountInRange'
    <3>1. CASE idx + 1 \in Devices
      BY <2>9, <3>1 DEF NextChannel, ServerTypeOK, CountInRange, RunSteps
    <3>2. CASE idx + 1 \notin Devices
      <4>1. LeaveHub /\ busy' \in [Hubs -> BOOLEAN]
        BY <2>9, <3>2 DEF NextChannel, ServerTypeOK
      <4>. QED
        BY <4>1, LeaveHubType
    <3>. QED
      BY <3>1, <3>2
  <2>10. CASE RunSkip \/ RunWait
    BY <2>9, <2>10 DEF RunSkip, RunWait, ClientTypeOK
  <2>11. CASE RunStart
    <3>1. ServerTypeOK' /\ CountInRange' /\ SharedTypeOK'
      BY <2>11 DEF RunStart, ServerTypeOK, CountInRange, RunSteps
    <3>2. ClientTypeOK'
      BY <2>11 DEF RunStart, Fork, ClientTypeOK, ClientSteps, ServerTypeOK
    <3>. QED
      BY <3>1, <3>2
  <2>. QED
    BY <2>1, <2>2, <2>3, <2>4, <2>5, <2>6, <2>7, <2>8, <2>10, <2>11 DEF MainStep, ServerNext
<1>4. cancelled' \in [Procs -> {"no", "early", "running", "late"}]
  BY DEF MainStep, TypeInv, TypeOK
<1>. QED
  BY <1>1, <1>2, <1>3, <1>4 DEF TypeInv, TypeOK, SticksTypeOK, MonitorTypeOK

\* The steps of the operator.
LEMMA TypeOperator ==
  ASSUME TypeInv, PollStep \/ PlugStick \/ PullStick
  PROVE  TypeInv'
<1> USE DEF TypeInv, TypeOK, SharedTypeOK, SticksTypeOK, ClientTypeOK, MonitorTypeOK, ServerTypeOK,
            CountInRange, sharedVars, stickVars, clientVars, monitorVars, serverVars
<1>1. CASE PollStep   BY <1>1 DEF PollStep, Poll
<1>2. CASE PlugStick  BY <1>2 DEF PlugStick, Plug
<1>3. CASE PullStick
  BY <1>3, PullPathsAssumption DEF PullStick, Unplug
<1>. QED
  BY <1>1, <1>2, <1>3

LEMMA TypeStep == TypeInv /\ [Next]_vars => TypeInv'
<1> SUFFICES ASSUME TypeInv, [Next]_vars PROVE TypeInv'
  OBVIOUS
<1>1. CASE Next
  BY <1>1, TypeClient, TypeMonitor, TypeMain, TypeOperator DEF Next
<1>2. CASE UNCHANGED vars
  BY <1>2 DEF vars, TypeInv, TypeOK, SharedTypeOK, SticksTypeOK, ClientTypeOK, MonitorTypeOK,
              ServerTypeOK, CountInRange, sharedVars, stickVars, clientVars, monitorVars, serverVars
<1>. QED
  BY <1>1, <1>2

\* Every variable of the copier keeps to its range, whatever fails and whatever
\* the operator, the kernel and the scheduler do.
THEOREM Typing == Spec => []TypeOK
<1>1. TypeInv => TypeOK
  BY DEF TypeInv
<1>. QED
  BY <1>1, TypeInit, TypeStep, PTL DEF Spec

-----------------------------------------------------------------------------
\* From here on the assumptions of Copier hold and the list has a slot for
\* every socket.
Calm == Disturbances = {} /\ IsFiniteSet(Paths) /\ Cardinality(Paths) <= MAX_USB_CHANNELS

\* What a step of a client can touch.
LEMMA ClientFrame ==
  ASSUME TypeInv, NEW p \in Procs, ClientStep(p)
  PROVE  /\ UNCHANGED <<device_name, device_path, plugged>>
         /\ UNCHANGED <<monitor, usb_devices, loaded, leaving, main, hub, idx, button>>
         /\ \A q \in Procs \ {p} : pc'[q] = pc[q] /\ chan'[q] = chan[q]
         /\ \A d \in Devices \ {chan[p]} : state'[d] = state[d]
         /\ state'[chan[p]] # state[chan[p]] => Working(p) /\ state'[chan[p]] # "EMPTY"
         /\ pc'[p] # "child"
         /\ pc'[p] \in WorkingSteps =>
              /\ Working(p)
              /\ chan'[p] = chan[p]
              /\ pc[p] = "child" \/ state[chan[p]] \in BusyStates => state'[chan[p]] \in BusyStates
<1> DEFINE Frame ==
         /\ UNCHANGED <<device_name, device_path, plugged>>
         /\ \A q \in Procs \ {p} : pc'[q] = pc[q] /\ chan'[q] = chan[q]
         /\ \A d \in Devices \ {chan[p]} : state'[d] = state[d]
         /\ state'[chan[p]] # state[chan[p]] => Working(p) /\ state'[chan[p]] # "EMPTY"
         /\ pc'[p] # "child"
         /\ pc'[p] \in WorkingSteps =>
              /\ Working(p)
              /\ chan'[p] = chan[p]
              /\ pc[p] = "child" \/ state[chan[p]] \in BusyStates => state'[chan[p]] \in BusyStates
<1>1. SharedTypeOK /\ ClientTypeOK
  BY DEF TypeInv, TypeOK
<1>2. Frame
  <2> USE <1>1 DEF GoTo, Exit, SetState, At, SharedTypeOK, ClientTypeOK, Working, WorkingSteps,
                   ClientSteps, BusyStates, CopyingStates, sharedVars, stickVars
  <2>1. CASE Child(p)         BY <2>1 DEF Child
  <2>2. CASE Exec(p)          BY <2>2 DEF Exec
  <2>3. CASE Initialise(p)    BY <2>3 DEF Initialise
  <2>4. CASE UnmountOld(p)    BY <2>4 DEF UnmountOld
  <2>5. CASE Format(p)        BY <2>5 DEF Format
  <2>6. CASE MakeMountPoint(p) BY <2>6 DEF MakeMountPoint
  <2>7. CASE Mount(p)         BY <2>7 DEF Mount
  <2>8. CASE StartCopy(p)     BY <2>8 DEF StartCopy
  <2>9. CASE Copy(p)          BY <2>9 DEF Copy
  <2>10. CASE Sync(p)         BY <2>10 DEF Sync
  <2>11. CASE Unmount(p)      BY <2>11 DEF Unmount
  <2>12. CASE StartVerify(p)  BY <2>12 DEF StartVerify
  <2>13. CASE VerifyMount(p)  BY <2>13 DEF VerifyMount
  <2>14. CASE Compare(p)      BY <2>14 DEF Compare
  <2>15. CASE VerifySync(p)   BY <2>15 DEF VerifySync
  <2>16. CASE VerifyUnmount(p) BY <2>16 DEF VerifyUnmount
  <2>17. CASE Result(p)       BY <2>17 DEF Result
  <2>18. CASE VerifyFailed(p) BY <2>18 DEF VerifyFailed
  <2>19. CASE Failed(p)       BY <2>19 DEF Failed
  <2>20. CASE FailedHalt(p)   BY <2>20 DEF FailedHalt
  <2>21. CASE Passed(p)       BY <2>21 DEF Passed
  <2> HIDE DEF Frame
  <2>. QED
    BY <2>1, <2>2, <2>3, <2>4, <2>5, <2>6, <2>7, <2>8, <2>9, <2>10, <2>11, <2>12, <2>13, <2>14,
       <2>15, <2>16, <2>17, <2>18, <2>19, <2>20, <2>21 DEF ClientStep, ClientNext
<1>. QED
  BY <1>2 DEF ClientStep, monitorVars, serverVars

LEMMA WorkInit == Init => WorkInv
<1> SUFFICES ASSUME Init PROVE WorkInv
  OBVIOUS
<1> USE DEF Init, SharedInit, SticksInit, ClientInit, MonitorInit, ServerInit, NoDevices, NoPress
<1>1. \A p \in Procs : ~Working(p)
  BY DEF Working, WorkingSteps
<1>2. NamesApart
  BY DEF NamesApart, NamesOf, ChannelsAt
<1>3. ChannelsNamed
  BY DEF ChannelsNamed
<1>4. WorkIsSettled
  BY <1>1 DEF WorkIsSettled, StartPending, RunSteps
<1>. QED
  BY <1>1, <1>2, <1>3, <1>4 DEF WorkInv, WorkIsShown, RunIsRight, OneClientPerChannel

LEMMA WorkClient ==
  ASSUME TypeInv, WorkInv, NEW p \in Procs, ClientStep(p)
  PROVE  WorkInv'
<1>1. \A q \in Procs : chan[q] \in Devices
  BY DEF TypeInv, TypeOK, ClientTypeOK
<1>2. \A q \in Procs : Working(q)' =>
        /\ Working(q) /\ chan'[q] = chan[q]
        /\ pc'[q] = "child" => pc[q] = "child"
  BY ClientFrame DEF Working
<1>3. device_path' = PortMap /\ NamesApart' /\ WorkIsSettled'
  <2>1. /\ UNCHANGED <<device_name, device_path, plugged>>
        /\ UNCHANGED <<monitor, usb_devices, loaded, leaving, main, hub, idx, button>>
    BY ClientFrame
  <2>2. device_path' = PortMap
    BY <2>1 DEF WorkInv
  <2>3. \A path : NamesOf(path)' = NamesOf(path)
    BY <2>1 DEF NamesOf, ChannelsAt
  <2>4. NamesApart'
    BY <2>3 DEF WorkInv, NamesApart
  <2>5. \A path : Settled(path)' = Settled(path)
    BY <2>1 DEF Settled
  <2>6. StartPending' = StartPending
    BY <2>1 DEF StartPending
  <2>7. WorkIsSettled'
    BY <1>2, <2>1, <2>5, <2>6 DEF WorkInv, WorkIsSettled, AllSettled
  <2>. QED
    BY <2>2, <2>4, <2>7
<1>4. OneClientPerChannel'
  BY <1>2 DEF WorkInv, OneClientPerChannel
<1>5. ChannelsNamed'
  BY <1>1, ClientFrame DEF WorkInv, ChannelsNamed, WorkIsShown, Matched
<1>6. WorkIsShown'
  <2> SUFFICES ASSUME NEW q \in Procs, Working(q)'
               PROVE  /\ Matched(chan[q])'
                      /\ IF pc'[q] = "child" THEN main' = "run_wait" /\ idx' = chan'[q]
                                             ELSE state'[chan'[q]] \in BusyStates
    BY DEF WorkIsShown
  <2>1. Matched(chan[q])'
    BY <1>2, ClientFrame DEF WorkInv, WorkIsShown, Matched
  <2>2. CASE q = p
    BY <1>2, <2>1, <2>2, ClientFrame DEF WorkInv, WorkIsShown, Working
  <2>3. CASE q # p
    <3>1. state'[chan[q]] = state[chan[q]]
      BY <1>1, <1>2, <2>3, ClientFrame DEF WorkInv, OneClientPerChannel
    <3>. QED
      BY <1>2, <2>1, <2>3, <3>1, ClientFrame DEF WorkInv, WorkIsShown
  <2>. QED
    BY <2>2, <2>3
<1>7. RunIsRight'
  <2>1. main' = "run_clear" => \A q \in Procs : Working(q)' => chan'[q] # idx'
    BY <1>2, ClientFrame DEF WorkInv, RunIsRight
  <2>2. ASSUME main' = "run_start", state'[idx'] # "EMPTY"
        PROVE  Matched(idx)'
    <3>1. Matched(idx)
      <4>1. CASE chan[p] = idx /\ Working(p)
        BY <4>1 DEF WorkInv, WorkIsShown
      <4>2. CASE ~(chan[p] = idx /\ Working(p))
        <5>1. state'[idx] = state[idx]
          BY <4>2, ClientFrame DEF TypeInv, TypeOK, ServerTypeOK
        <5>. QED
          BY <2>2, <5>1, ClientFrame DEF WorkInv, RunIsRight
      <4>. QED
        BY <4>1, <4>2
    <3>. QED
      BY <3>1, ClientFrame DEF Matched
  <2>. QED
    BY <2>1, <2>2 DEF RunIsRight
<1>. QED
  BY <1>3, <1>4, <1>5, <1>6, <1>7 DEF WorkInv

-----------------------------------------------------------------------------
\* With room in the list for every socket, a scan sees every stick.
LEMMA ScanSeesAll ==
  ASSUME Calm, TypeInv, Scan
  PROVE  usb_devices' = plugged
<1>1. PICK seen \in SUBSET Occupied(plugged) :
        /\ \/ seen = Occupied(plugged)
           \/ seen # Occupied(plugged) /\ Cardinality(seen) = MAX_USB_CHANNELS
        /\ usb_devices' = [path \in Paths |-> IF path \in seen THEN plugged[path] ELSE NoName]
  BY DEF Scan
<1>2. seen \subseteq Paths /\ Occupied(plugged) \subseteq Paths
  BY DEF Occupied
<1>3. seen = Occupied(plugged)
  <2>1. Cardinality(seen) <= Cardinality(Paths) /\ (Cardinality(Paths) = Cardinality(seen) => Paths = seen)
    BY <1>2, FS_Subset DEF Calm
  <2>2. Cardinality(Paths) \in Nat /\ Cardinality(seen) \in Nat
    BY <1>2, FS_Subset, FS_CardinalityType DEF Calm
  <2>. QED
    BY <1>1, <1>2, <2>1, <2>2, DeviceFacts DEF Calm
<1>4. plugged \in [Paths -> Names \cup {NoName}]
  BY DEF TypeInv, TypeOK, SticksTypeOK
<1>. QED
  BY <1>1, <1>3, <1>4 DEF Occupied

\* What a step of the monitor can touch: nothing of a settled socket.
LEMMA MonitorFrame ==
  ASSUME Calm, TypeInv, MonitorStep
  PROVE  /\ UNCHANGED <<device_path, plugged, pc, chan, main, hub, idx, button>>
         /\ \A path \in Paths : Settled(path) =>
              /\ Settled(path)'
              /\ loaded'[path] = loaded[path]
              /\ \A d \in ChannelsAt(path) : state'[d] = state[d] /\ device_name'[d] = device_name[d]
         /\ \A path \in Paths : NamesOf(path)' \subseteq NamesOf(path)
         /\ ChannelsNamed => ChannelsNamed'
<1> USE DEF sharedVars, stickVars, clientVars, serverVars, SharedTypeOK, MonitorTypeOK
<1>1. SharedTypeOK /\ SticksTypeOK /\ MonitorTypeOK
  BY DEF TypeInv, TypeOK
<1>2. UNCHANGED <<device_path, plugged, pc, chan, main, hub, idx, button>>
  BY DEF MonitorStep, MonitorNext, Scan, TakeMutex, Insert, InsertFull, Remove, ClearChannel, ReleaseMutex
<1> DEFINE Kept == \A path \in Paths : Settled(path) =>
                     /\ Settled(path)'
                     /\ loaded'[path] = loaded[path]
                     /\ \A d \in ChannelsAt(path) : state'[d] = state[d] /\ device_name'[d] = device_name[d]
           Fewer == \A path \in Paths : NamesOf(path)' \subseteq NamesOf(path)
           Named == ChannelsNamed => ChannelsNamed'
<1>3. ASSUME Scan PROVE Kept /\ Fewer /\ Named
  <2>1. usb_devices' = plugged
    BY <1>3, ScanSeesAll
  <2>. QED
    BY <1>1, <1>2, <1>3, <2>1 DEF Scan, Settled, NamesOf, ChannelsAt, ChannelsNamed
<1>4. ASSUME TakeMutex PROVE Kept /\ Fewer /\ Named
  BY <1>1, <1>2, <1>4 DEF TakeMutex, Settled, NamesOf, ChannelsAt, ChannelsNamed
<1>5. ASSUME NEW path \in Paths, Insert(path)
      PROVE  Kept /\ Fewer /\ Named
  <2>1. Kept
    BY <1>1, <1>2, <1>5 DEF Insert, Insertions, Occupied, Settled, ChannelsAt
  <2>2. Fewer
    BY <1>1, <1>2, <1>5 DEF Insert, NamesOf, ChannelsAt
  <2>3. Named
    BY <1>1, <1>2, <1>5 DEF Insert, Insertions, Occupied, ChannelsAt, ChannelsNamed
  <2>. QED
    BY <2>1, <2>2, <2>3
<1>6. ASSUME NEW path \in Paths, InsertFull(path)
      PROVE  Kept /\ Fewer /\ Named
  BY <1>1, <1>2, <1>6 DEF InsertFull, Settled, NamesOf, ChannelsAt, ChannelsNamed
<1>7. ASSUME NEW path \in Paths, Remove(path)
      PROVE  Kept /\ Fewer /\ Named
  <2>1. Kept
    BY <1>1, <1>2, <1>7 DEF Remove, Removals, Occupied, Settled, ChannelsAt
  <2>2. Fewer
    BY <1>1, <1>2, <1>7 DEF Remove, NamesOf, ChannelsAt
  <2>3. Named
    BY <1>1, <1>2, <1>7 DEF Remove, ChannelsNamed
  <2>. QED
    BY <2>1, <2>2, <2>3
<1>8. ASSUME ClearChannel PROVE Kept /\ Fewer /\ Named
  <2>1. Kept
    BY <1>1, <1>2, <1>8, NoneAssumption DEF ClearChannel, Settled, ChannelsAt
  <2>2. Fewer
    BY <1>1, <1>2, <1>8 DEF ClearChannel, NamesOf, ChannelsAt
  <2>3. Named
    BY <1>1, <1>2, <1>8 DEF ClearChannel, ChannelsAt, ChannelsNamed
  <2>. QED
    BY <2>1, <2>2, <2>3
<1>9. ASSUME ReleaseMutex PROVE Kept /\ Fewer /\ Named
  BY <1>1, <1>2, <1>9 DEF ReleaseMutex, NoDevices, Settled, NamesOf, ChannelsAt, ChannelsNamed
<1> HIDE DEF Kept, Fewer, Named
<1>10. Kept /\ Fewer /\ Named
  BY <1>3, <1>4, <1>5, <1>6, <1>7, <1>8, <1>9 DEF MonitorStep, MonitorNext
<1>. QED
  BY <1>2, <1>10 DEF Kept, Fewer, Named

LEMMA WorkMonitor ==
  ASSUME Calm, TypeInv, WorkInv, MonitorStep
  PROVE  WorkInv'
<1>1. /\ device_path' = PortMap /\ OneClientPerChannel'
      /\ \A p \in Procs : Working(p)' = Working(p)
  BY MonitorFrame DEF WorkInv, OneClientPerChannel, Working
<1>2. NamesApart'
  BY MonitorFrame DEF WorkInv, NamesApart
<1>3. ChannelsNamed'
  BY MonitorFrame DEF WorkInv
<1>4. StartPending' = StartPending
  BY MonitorFrame DEF StartPending
<1>5. WorkIsSettled'
  BY <1>1, <1>4, MonitorFrame DEF WorkInv, WorkIsSettled, AllSettled
<1>6. \A d \in Devices : Matched(d) /\ Settled(device_path[d]) =>
        Matched(d)' /\ state'[d] = state[d]
  BY MonitorFrame DEF Matched, ChannelsAt
<1>7. WorkIsShown'
  <2>1. \A p \in Procs : chan[p] \in Devices
    BY DEF TypeInv, TypeOK, ClientTypeOK
  <2>. QED
    BY <1>1, <1>6, <2>1, MonitorFrame DEF WorkInv, WorkIsSettled, WorkIsShown
<1>8. RunIsRight'
  <2>1. main = "run_start" /\ state'[idx] # "EMPTY" => Matched(idx)'
    <3> SUFFICES ASSUME main = "run_start", state'[idx] # "EMPTY" PROVE Matched(idx)'
      OBVIOUS
    <3>1. idx \in Devices /\ idx' = idx
      BY MonitorFrame DEF TypeInv, TypeOK, ServerTypeOK
    <3>2. device_path[idx] \in Paths
      BY <1>3, <3>1, MonitorFrame DEF ChannelsNamed
    <3>3. Settled(device_path[idx])
      BY <3>2 DEF WorkInv, WorkIsSettled, StartPending, RunSteps, AllSettled
    <3>4. state'[idx] = state[idx]
      BY <3>1, <3>2, <3>3, MonitorFrame DEF ChannelsAt
    <3>. QED
      BY <1>6, <3>1, <3>3, <3>4 DEF WorkInv, RunIsRight
  <2>2. main = "run_clear" => \A p \in Procs : Working(p)' => chan'[p] # idx'
    BY <1>1, MonitorFrame DEF WorkInv, RunIsRight
  <2>. QED
    BY <2>1, <2>2, MonitorFrame DEF RunIsRight
<1>. QED
  BY <1>1, <1>2, <1>3, <1>5, <1>7, <1>8 DEF WorkInv

-----------------------------------------------------------------------------
\* What a step of the main thread can touch.
LEMMA MainFrame ==
  ASSUME TypeInv, MainStep
  PROVE  /\ UNCHANGED <<device_name, device_path, plugged>>
         /\ UNCHANGED <<monitor, usb_devices, loaded, leaving>>
         /\ StartPending' => StartPending
         /\ main # "run_clear" => UNCHANGED state
         /\ main = "run_clear" => state' = [state EXCEPT ![idx] = "EMPTY"] /\ UNCHANGED <<pc, chan>>
         /\ main' = "run_clear" => /\ main = "run_check" /\ idx' = idx /\ UNCHANGED <<pc, chan>>
                                   /\ ~device_is_loaded(device_name[idx])
         /\ main' = "run_start" => /\ idx' = idx
                                   /\ \/ main = "run_check" /\ device_is_loaded(device_name[idx])
                                      \/ main = "run_clear"
         /\ main = "run_wait" => ChildrenAnnounced
         /\ \/ UNCHANGED <<pc, chan>>
            \/ /\ main = "run_start" /\ ToBeStarted(idx)
               /\ main' = "run_wait" /\ idx' = idx
               /\ \E p \in Procs : Fork(p, idx)
<1> USE DEF sharedVars, stickVars, clientVars, monitorVars, RunSteps, StartPending
<1> DEFINE Goal ==
         /\ UNCHANGED <<device_name, device_path, plugged>>
         /\ UNCHANGED <<monitor, usb_devices, loaded, leaving>>
         /\ StartPending' => StartPending
         /\ main # "run_clear" => UNCHANGED state
         /\ main = "run_clear" => state' = [state EXCEPT ![idx] = "EMPTY"] /\ UNCHANGED <<pc, chan>>
         /\ main' = "run_clear" => /\ main = "run_check" /\ idx' = idx /\ UNCHANGED <<pc, chan>>
                                   /\ ~device_is_loaded(device_name[idx])
         /\ main' = "run_start" => /\ idx' = idx
                                   /\ \/ main = "run_check" /\ device_is_loaded(device_name[idx])
                                      \/ main = "run_clear"
         /\ \/ UNCHANGED <<pc, chan>>
            \/ /\ main = "run_start" /\ ToBeStarted(idx)
               /\ main' = "run_wait" /\ idx' = idx
               /\ \E p \in Procs : Fork(p, idx)
<1>1. button \in [Hubs -> Press]
  BY DEF TypeInv, TypeOK, ServerTypeOK
<1>2. ASSUME LeaveHub PROVE main' \in {"poll", "visit"} /\ (StartPending' => StartPending)
  BY <1>1, <1>2 DEF LeaveHub
<1>3. ASSUME NextChannel, main \in RunSteps
      PROVE  main' \in {"poll", "visit", "run_check"} /\ (StartPending' => StartPending)
  BY <1>2, <1>3 DEF NextChannel
<1>4. ASSUME Terminate PROVE Goal  BY <1>2, <1>4 DEF Terminate
<1>5. ASSUME Idle PROVE Goal       BY <1>2, <1>5 DEF Idle
<1>6. ASSUME StartHub PROVE Goal
  <2>1. hub \in Hubs
    BY DEF TypeInv, TypeOK, ServerTypeOK
  <2>. QED
    BY <1>6, <2>1 DEF StartHub
<1>7. ASSUME StartCount PROVE Goal BY <1>7 DEF StartCount
<1>8. ASSUME Count PROVE Goal      BY <1>8 DEF Count
<1>9. ASSUME Progress PROVE Goal   BY <1>2, <1>9 DEF Progress
<1>10. ASSUME Finish PROVE Goal    BY <1>2, <1>10 DEF Finish
<1>11. ASSUME RunCheck PROVE Goal  BY <1>11 DEF RunCheck
<1>12. ASSUME RunClear PROVE Goal  BY <1>12 DEF RunClear
<1>13. ASSUME RunSkip PROVE Goal   BY <1>3, <1>13 DEF RunSkip
<1>14. ASSUME RunStart PROVE Goal  BY <1>14 DEF RunStart
<1>15. ASSUME RunWait PROVE Goal   BY <1>3, <1>15 DEF RunWait
<1> HIDE DEF Goal
<1>16. Goal
  BY <1>4, <1>5, <1>6, <1>7, <1>8, <1>9, <1>10, <1>11, <1>12, <1>13, <1>14, <1>15
     DEF MainStep, ServerNext
<1>. QED
  BY <1>16 DEF Goal, MainStep

\* A channel goes by the name of a loaded stick only if that stick is in its socket.
LEMMA LoadedIsMatched ==
  ASSUME TypeInv, WorkInv, NEW d \in Devices, device_name[d] # NoName, device_is_loaded(device_name[d])
  PROVE  Matched(d)
<1>1. device_path[d] \in Paths
  BY DEF WorkInv, ChannelsNamed
<1>2. PICK path \in Paths : loaded[path] = device_name[d]
  BY DEF device_is_loaded
<1>3. device_name[d] \in NamesOf(path) /\ device_name[d] \in NamesOf(device_path[d])
  BY <1>1, <1>2 DEF NamesOf, ChannelsAt
<1>4. path = device_path[d]
  BY <1>1, <1>3 DEF WorkInv, NamesApart
<1>. QED
  BY <1>1, <1>2, <1>4 DEF Matched

LEMMA WorkMain ==
  ASSUME Calm, TypeInv, WorkInv, MainStep
  PROVE  WorkInv'
<1>1. idx \in Devices /\ (\A p \in Procs : chan[p] \in Devices) /\ state \in [Devices -> ChannelState]
      /\ pc \in [Procs -> ClientSteps] /\ chan \in [Procs -> Devices]
  BY DEF TypeInv, TypeOK, ServerTypeOK, ClientTypeOK, SharedTypeOK
<1>2. (\A path : Settled(path)' = Settled(path)) /\ (\A d : Matched(d)' = Matched(d))
  BY MainFrame DEF Settled, Matched
<1>3. device_path' = PortMap /\ NamesApart' /\ ChannelsNamed'
  <2>1. \A path : NamesOf(path)' = NamesOf(path)
    BY MainFrame DEF NamesOf, ChannelsAt
  <2>2. ChannelsNamed'
    BY <1>1, MainFrame DEF WorkInv, ChannelsNamed
  <2>. QED
    BY <2>1, <2>2, MainFrame DEF WorkInv, NamesApart
<1>4. CASE UNCHANGED <<pc, chan>>
  <2>1. \A p \in Procs : Working(p)' = Working(p)
    BY <1>4 DEF Working
  <2>2. WorkIsSettled'
    BY <1>2, <1>4, <2>1, MainFrame DEF WorkInv, WorkIsSettled, AllSettled
  <2>3. WorkIsShown'
    <3>1. \A p \in Procs : pc[p] # "child" \/ main # "run_wait"
      BY MainFrame DEF ChildrenAnnounced, Calm
    <3>2. \A p \in Procs : Working(p) => pc[p] # "child" /\ state'[chan[p]] = state[chan[p]]
      BY <1>1, <3>1, MainFrame DEF WorkInv, WorkIsShown, RunIsRight
    <3>. QED
      BY <1>2, <1>4, <2>1, <3>2 DEF WorkInv, WorkIsShown
  <2>4. RunIsRight'
    <3>1. ASSUME main' = "run_clear", NEW p \in Procs, Working(p), chan[p] = idx
          PROVE  FALSE
      BY <3>1, MainFrame DEF WorkInv, WorkIsShown, Matched, device_is_loaded
    <3>2. main' = "run_start" /\ state'[idx'] # "EMPTY" => Matched(idx)
      BY <1>1, MainFrame, LoadedIsMatched DEF WorkInv, ChannelsNamed
    <3>. QED
      BY <1>2, <1>4, <2>1, <3>1, <3>2, MainFrame DEF RunIsRight
  <2>5. OneClientPerChannel'
    BY <1>4, <2>1 DEF WorkInv, OneClientPerChannel
  <2>. QED
    BY <1>3, <2>2, <2>3, <2>4, <2>5 DEF WorkInv
<1>5. ASSUME NEW p \in Procs, Fork(p, idx), main = "run_start", main' = "run_wait", idx' = idx,
             ToBeStarted(idx)
      PROVE  WorkInv'
  <2>1. pc' = [pc EXCEPT ![p] = "child"] /\ chan' = [chan EXCEPT ![p] = idx] /\ pc[p] = "none"
    BY <1>5 DEF Fork, At
  <2>2. \A q \in Procs : q # p => Working(q)' = Working(q) /\ pc'[q] = pc[q] /\ chan'[q] = chan[q]
    BY <1>1, <2>1 DEF Working
  <2>3. pc'[p] = "child" /\ chan'[p] = idx
    BY <1>1, <2>1
  <2>4. UNCHANGED state /\ Matched(idx) /\ Settled(device_path[idx])
    <3>1. Matched(idx)
      BY <1>5 DEF WorkInv, RunIsRight, ToBeStarted, StartableStates, FailStates
    <3>. QED
      BY <1>5, <3>1, MainFrame DEF WorkInv, WorkIsSettled, StartPending, RunSteps, AllSettled, Matched
  <2>5. \A q \in Procs : Working(q) => pc[q] # "child" /\ chan[q] # idx
    BY <1>5 DEF WorkInv, WorkIsShown, ToBeStarted, StartableStates, FailStates, BusyStates, CopyingStates
  <2>6. WorkIsSettled'
    BY <1>2, <2>2, <2>3, <2>4, MainFrame DEF WorkInv, WorkIsSettled, AllSettled, Matched
  <2>7. WorkIsShown'
    BY <1>2, <1>5, <2>2, <2>3, <2>4, <2>5 DEF WorkInv, WorkIsShown
  <2>8. OneClientPerChannel'
    BY <2>2, <2>3, <2>5 DEF WorkInv, OneClientPerChannel
  <2>9. RunIsRight'
    BY <1>5 DEF RunIsRight
  <2>. QED
    BY <1>3, <2>6, <2>7, <2>8, <2>9 DEF WorkInv
<1>. QED
  BY <1>4, <1>5, MainFrame

-----------------------------------------------------------------------------
LEMMA WorkPoll ==
  ASSUME Calm, TypeInv, WorkInv, PollStep
  PROVE  WorkInv'
<1>1. /\ UNCHANGED <<sharedVars, stickVars, clientVars, monitorVars>>
      /\ main = "poll" /\ main' = "visit"
      /\ (\E h \in Hubs : button'[h] = "short") => AllSettled
  BY DEF PollStep, Poll, MayPress, Calm
<1>2. UNCHANGED <<state, device_name, device_path, plugged, pc, chan, monitor, usb_devices, loaded, leaving>>
  BY <1>1 DEF sharedVars, stickVars, clientVars, monitorVars
<1>3. /\ \A p : Working(p)' = Working(p)
      /\ \A path : Settled(path)' = Settled(path)
      /\ \A path : NamesOf(path)' = NamesOf(path)
  BY <1>2 DEF Working, Settled, NamesOf, ChannelsAt
<1>4. device_path' = PortMap /\ NamesApart' /\ ChannelsNamed' /\ OneClientPerChannel' /\ RunIsRight'
  BY <1>1, <1>2, <1>3 DEF WorkInv, NamesApart, ChannelsNamed, OneClientPerChannel, RunIsRight
<1>5. WorkIsSettled'
  BY <1>1, <1>2, <1>3 DEF WorkInv, WorkIsSettled, StartPending, RunSteps, AllSettled
<1>6. WorkIsShown'
  BY <1>1, <1>2, <1>3 DEF WorkInv, WorkIsShown, Matched
<1>. QED
  BY <1>4, <1>5, <1>6 DEF WorkInv

\* Plugging and pulling: the operator stays away from sockets that are worked
\* on, and from all of them while clients are being started.
LEMMA WorkSticks ==
  ASSUME Calm, TypeInv, WorkInv, PlugStick \/ PullStick
  PROVE  WorkInv'
<1>1. UNCHANGED <<sharedVars, clientVars, monitorVars, serverVars>>
  BY DEF PlugStick, PullStick
<1>2. UNCHANGED <<state, device_name, device_path, pc, chan, monitor, usb_devices, loaded, leaving, main, idx, button>>
  BY <1>1 DEF sharedVars, clientVars, monitorVars, serverVars
<1>3. PICK path \in Paths, n \in Names \cup {NoName} :
        /\ MayMove(path)
        /\ plugged' = [plugged EXCEPT ![path] = n]
        /\ n # NoName => ~Remembered(n) /\ ~Present(n)
  <2>1. CASE PlugStick
    BY <2>1 DEF PlugStick, Plug, NameIsFresh, Calm
  <2>2. CASE PullStick
    BY <2>2, PullPathsAssumption DEF PullStick, Unplug
  <2>. QED
    BY <2>1, <2>2
<1>4. ~WorkedOn(path) /\ ~StartPending
  BY <1>3 DEF MayMove, Calm
<1>5. plugged \in [Paths -> Names \cup {NoName}]
  BY DEF TypeInv, TypeOK, SticksTypeOK
<1>6. /\ \A p : Working(p)' = Working(p)
      /\ \A other \in Paths \ {path} : Settled(other)' = Settled(other) /\ NamesOf(other)' = NamesOf(other)
      /\ NamesOf(path)' \subseteq NamesOf(path) \cup {n}
      /\ StartPending' = StartPending
  BY <1>2, <1>3, <1>5 DEF Working, Settled, NamesOf, ChannelsAt, StartPending
<1>7. n = NoName \/ \A other \in Paths : n \notin NamesOf(other)
  BY <1>3 DEF Remembered, Present, NamesOf, ChannelsAt
<1>8. NamesApart'
  <2>1. NoName \notin NamesOf(path)'
    BY DEF NamesOf
  <2>2. ASSUME NEW one \in Paths, NEW other \in Paths, one # other
        PROVE  NamesOf(one)' \cap NamesOf(other)' = {}
    <3>1. NamesOf(one) \cap NamesOf(other) = {}
      BY <2>2 DEF WorkInv, NamesApart
    <3>. QED
      BY <1>6, <1>7, <2>1, <2>2, <3>1
  <2>. QED
    BY <2>2 DEF NamesApart
<1>9. device_path' = PortMap /\ ChannelsNamed' /\ OneClientPerChannel'
  BY <1>2, <1>6 DEF WorkInv, ChannelsNamed, OneClientPerChannel
<1>10. WorkIsSettled'
  BY <1>2, <1>4, <1>6 DEF WorkInv, WorkIsSettled, WorkedOn
<1>11. WorkIsShown'
  BY <1>2, <1>6 DEF WorkInv, WorkIsShown, Matched
<1>12. RunIsRight'
  BY <1>2, <1>4 DEF RunIsRight, StartPending, RunSteps
<1>. QED
  BY <1>8, <1>9, <1>10, <1>11, <1>12 DEF WorkInv

LEMMA WorkStutter == WorkInv /\ UNCHANGED vars => WorkInv'
<1> SUFFICES ASSUME WorkInv, UNCHANGED vars PROVE WorkInv'
  OBVIOUS
<1>1. UNCHANGED <<state, device_name, device_path, plugged, pc, chan, monitor, usb_devices, loaded, leaving,
                  main, idx, button>>
  BY DEF vars, sharedVars, stickVars, clientVars, monitorVars, serverVars
<1>2. NamesApart' /\ ChannelsNamed'
  <2>1. \A path : NamesOf(path)' = NamesOf(path)
    BY <1>1 DEF NamesOf, ChannelsAt
  <2>2. NamesApart'
    BY <2>1 DEF WorkInv, NamesApart
  <2>3. ChannelsNamed'
    BY <1>1 DEF WorkInv, ChannelsNamed
  <2>. QED
    BY <2>2, <2>3
<1>3. WorkIsSettled'
  BY <1>1 DEF WorkInv, WorkIsSettled, StartPending, AllSettled, Settled, Working
<1>4. WorkIsShown' /\ RunIsRight' /\ OneClientPerChannel'
  BY <1>1 DEF WorkInv, WorkIsShown, RunIsRight, OneClientPerChannel, Matched, Working
<1>. QED
  BY <1>1, <1>2, <1>3, <1>4 DEF WorkInv

LEMMA WorkStep ==
  ASSUME Calm
  PROVE  TypeInv /\ WorkInv /\ [Next]_vars => WorkInv'
BY WorkClient, WorkMonitor, WorkMain, WorkPoll, WorkSticks, WorkStutter DEF Next

\* Where the assumptions of Copier hold and the list has a slot for every
\* socket, run() never starts a second client on a channel that has one at
\* work (server.c:603-620), for any number of hubs, ports, names and processes.
THEOREM OneClient ==
  ASSUME Calm
  PROVE  Spec => []OneClientPerChannel
<1>1. WorkInv => OneClientPerChannel
  BY DEF WorkInv
<1>2. Init => TypeInv /\ WorkInv
  BY TypeInit, WorkInit
<1>3. TypeInv /\ WorkInv /\ [Next]_vars => TypeInv' /\ WorkInv'
  BY TypeStep, WorkStep
<1>. QED
  BY <1>1, <1>2, <1>3, PTL DEF Spec
=============================================================================
