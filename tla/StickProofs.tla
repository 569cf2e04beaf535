---------------------------- MODULE StickProofs ----------------------------
(***************************************************************************)
(* What the lights say of the sticks: the monitor's list and the channels  *)
(* agree, no two clients share a device, and green means verified.         *)
(***************************************************************************)
EXTENDS JobProofs

LEMMA SocketsApart ==
  ASSUME TypeInv, WorkInv, NEW d \in Devices, NEW e \in Devices,
         device_path[d] = device_path[e], device_path[d] \in Paths
  PROVE  d = e
BY PortMapAssumption, NoneAssumption DEF WorkInv

\* A client at work keeps its socket out of the monitor's hands.
LEMMA WorkSocket ==
  ASSUME TypeInv, WorkInv, NEW p \in Procs, Working(p)
  PROVE  /\ chan[p] \in Devices /\ Matched(chan[p])
         /\ Settled(device_path[chan[p]])
         /\ leaving # device_path[chan[p]]
BY DEF TypeInv, TypeOK, ClientTypeOK, WorkInv, WorkIsShown, WorkIsSettled, Settled

-----------------------------------------------------------------------------
\* ListIsRight.

LEMMA ListClient ==
  ASSUME TypeInv, WorkInv, ListIsRight, NEW p \in Procs, ClientStep(p)
  PROVE  ListIsRight'
<1>1. UNCHANGED <<device_path, monitor, loaded, leaving, main, idx>>
  BY ClientFrame
<1>2. ASSUME NEW d \in Devices, state'[d] # state[d]
      PROVE  Working(p) /\ d = chan[p]
  BY <1>2, ClientFrame DEF TypeInv, TypeOK, ClientTypeOK
<1>3. ASSUME NEW d \in Devices, state'[d] # state[d]
      PROVE  loaded[device_path[d]] # NoName /\ leaving # device_path[d]
  BY <1>2, <1>3, WorkSocket DEF Matched
<1>. QED
  BY <1>1, <1>3 DEF ListIsRight, ChannelsAt

LEMMA ListMain ==
  ASSUME Calm, TypeInv, WorkInv, ListIsRight, LoadedStickIsShown, MainStep
  PROVE  ListIsRight' /\ LoadedStickIsShown'
<1>1. UNCHANGED <<device_name, device_path, monitor, loaded, leaving>>
  BY MainFrame
<1>2. idx \in Devices /\ state \in [Devices -> ChannelState]
  BY DEF TypeInv, TypeOK, ServerTypeOK, SharedTypeOK
<1>3. \A d \in Devices : state'[d] = state[d] \/ (state'[d] = "EMPTY" /\ main = "run_clear" /\ d = idx)
  BY <1>2, MainFrame
<1>4. ASSUME main' = "run_clear", device_path[idx] \in Paths, loaded[device_path[idx]] # NoName
      PROVE  FALSE
  <2>1. device_name[idx] = loaded[device_path[idx]]
    BY <1>2, <1>4 DEF LoadedStickIsShown
  <2>. QED
    BY <1>4, <2>1, MainFrame DEF device_is_loaded
<1>5. ListIsRight'
  <2>1. main' = "run_clear" /\ device_path[idx'] \in Paths => loaded[device_path[idx']] = NoName
    BY <1>4, MainFrame
  <2>. QED
    BY <1>1, <1>3, <2>1 DEF ListIsRight, ChannelsAt, FailStates
<1>6. LoadedStickIsShown'
  BY <1>1, <1>3 DEF LoadedStickIsShown, ListIsRight
<1>. QED
  BY <1>5, <1>6

LEMMA ListMonitor ==
  ASSUME Calm, TypeInv, WorkInv, ListIsRight, LoadedStickIsShown, MonitorStep
  PROVE  ListIsRight' /\ LoadedStickIsShown'
<1> USE DEF sharedVars, SharedTypeOK, MonitorTypeOK, FailStates, ChannelsAt
<1>1. SharedTypeOK /\ MonitorTypeOK
  BY DEF TypeInv, TypeOK
<1>2. UNCHANGED <<device_path, main, idx>>
  BY MonitorFrame
<1>3. \A d, e \in Devices : device_path[d] = device_path[e] /\ device_path[d] \in Paths => d = e
  BY SocketsApart
<1>4. main = "run_clear" => \A path \in Paths : loaded'[path] = loaded[path]
  BY MonitorFrame DEF WorkInv, WorkIsSettled, StartPending, RunSteps, AllSettled
<1>5. main = "run_clear" /\ device_path'[idx'] \in Paths => loaded'[device_path'[idx']] = NoName
  BY <1>2, <1>4 DEF ListIsRight
<1> DEFINE List == IF monitor = "clear"
                   THEN /\ leaving \in Paths /\ loaded[leaving] = NoName
                        /\ \A d \in ChannelsAt(leaving) : state[d] \notin FailStates
                   ELSE leaving = NoPath
           Shown == \A d \in Devices : state[d] \notin FailStates \cup {"EMPTY"} =>
                      loaded[device_path[d]] # NoName \/ leaving = device_path[d]
<1>6. List /\ Shown
  BY DEF ListIsRight
<1>7. ASSUME Scan \/ TakeMutex \/ ReleaseMutex
      PROVE  List' /\ Shown' /\ LoadedStickIsShown'
  BY <1>6, <1>7 DEF Scan, TakeMutex, ReleaseMutex, LoadedStickIsShown
<1>8. ASSUME NEW path \in Paths, Insert(path)
      PROVE  List' /\ Shown' /\ LoadedStickIsShown'
  <2>1. /\ monitor = "diff" /\ usb_devices[path] # NoName
        /\ loaded' = [loaded EXCEPT ![path] = usb_devices[path]]
        /\ state' = [d \in Devices |-> IF device_path[d] = path THEN "READY" ELSE state[d]]
        /\ device_name' =
             [d \in Devices |-> IF device_path[d] = path THEN usb_devices[path] ELSE device_name[d]]
        /\ UNCHANGED <<monitor, leaving>>
    BY <1>8 DEF Insert, Insertions, Occupied
  <2>2. List' /\ Shown'
    BY <1>1, <1>2, <1>6, <2>1
  <2>3. LoadedStickIsShown'
    BY <1>1, <1>2, <2>1 DEF LoadedStickIsShown
  <2>. QED
    BY <2>2, <2>3
<1>9. ASSUME NEW path \in Paths, InsertFull(path)
      PROVE  List' /\ Shown' /\ LoadedStickIsShown'
  BY <1>6, <1>9 DEF InsertFull, LoadedStickIsShown
<1>10. ASSUME NEW path \in Paths, Remove(path)
       PROVE  List' /\ Shown' /\ LoadedStickIsShown'
  <2>1. /\ monitor = "diff" /\ UNCHANGED <<state, device_name>>
        /\ loaded' = [loaded EXCEPT ![path] = NoName]
        /\ \/ monitor' = "clear" /\ leaving' = path /\ \E d \in ChannelsAt(path) : state[d] \notin FailStates
           \/ UNCHANGED <<monitor, leaving>> /\ \A d \in ChannelsAt(path) : state[d] \in FailStates
    BY <1>10 DEF Remove
  <2>2. List'
    BY <1>1, <1>2, <1>3, <1>6, <2>1
  <2>3. Shown'
    <3>1. leaving = NoPath
      BY <1>6, <2>1
    <3>2. \A d \in Devices : state[d] # "EMPTY" => device_path[d] \in Paths
      BY DEF WorkInv, ChannelsNamed
    <3>. QED
      BY <1>1, <1>2, <1>6, <2>1, <3>1, <3>2, NoneAssumption
  <2>4. LoadedStickIsShown'
    BY <1>1, <1>2, <2>1 DEF LoadedStickIsShown
  <2>. QED
    BY <2>2, <2>3, <2>4
<1>11. ASSUME ClearChannel
       PROVE  List' /\ Shown' /\ LoadedStickIsShown'
  <2>1. /\ monitor = "clear" /\ monitor' = "diff" /\ leaving' = NoPath /\ UNCHANGED loaded
        /\ state' = [d \in Devices |-> IF device_path[d] = leaving THEN "EMPTY" ELSE state[d]]
        /\ device_name' = [d \in Devices |-> IF device_path[d] = leaving THEN NoName ELSE device_name[d]]
    BY <1>11 DEF ClearChannel
  <2>2. List' /\ Shown'
    BY <1>2, <1>6, <2>1
  <2>3. LoadedStickIsShown'
    BY <1>2, <1>6, <2>1 DEF LoadedStickIsShown
  <2>. QED
    BY <2>2, <2>3
<1> HIDE DEF List, Shown
<1>12. List' /\ Shown' /\ LoadedStickIsShown'
  BY <1>7, <1>8, <1>9, <1>10, <1>11 DEF MonitorStep, MonitorNext
<1>. QED
  BY <1>2, <1>5, <1>12 DEF List, Shown, ListIsRight

LEMMA ListStep ==
  ASSUME Calm
  PROVE  TypeInv /\ WorkInv /\ ListIsRight /\ LoadedStickIsShown /\ [Next]_vars
           => ListIsRight' /\ LoadedStickIsShown'
<1> SUFFICES ASSUME TypeInv, WorkInv, ListIsRight, LoadedStickIsShown, [Next]_vars
             PROVE  ListIsRight' /\ LoadedStickIsShown'
  OBVIOUS
<1>1. ASSUME NEW p \in Procs, ClientStep(p)
      PROVE  LoadedStickIsShown'
  BY <1>1, ClientFrame DEF LoadedStickIsShown
<1>2. CASE PollStep \/ PlugStick \/ PullStick \/ UNCHANGED vars
  <2>1. /\ UNCHANGED <<state, device_name, device_path, monitor, loaded, leaving>>
        /\ UNCHANGED <<main, idx>> \/ main' = "visit"
    BY <1>2 DEF PollStep, Poll, PlugStick, PullStick, vars, sharedVars, monitorVars, serverVars
  <2>. QED
    BY <2>1 DEF ListIsRight, LoadedStickIsShown, ChannelsAt
<1>. QED
  BY <1>1, <1>2, ListClient, ListMain, ListMonitor DEF Next

LEMMA ListInit == Init => ListIsRight /\ LoadedStickIsShown
BY DEF Init, SharedInit, MonitorInit, ServerInit, NoDevices, ListIsRight, LoadedStickIsShown, ChannelsAt

\* Where the assumptions of Copier hold, the check of run() (server.c:599-602)
\* clears every failure shown for a socket without a stick.
THEOREM ErrorsAreCleared ==
  ASSUME Calm
  PROVE  Spec => RunClearsErrors
<1>1. Init => TypeInv /\ WorkInv
  BY TypeInit, WorkInit
<1>2. TypeInv /\ WorkInv /\ [Next]_vars => TypeInv' /\ WorkInv'
  BY TypeStep, WorkStep
<1>3. ASSUME TypeInv, WorkInv, NEW path \in Paths,
             RunCheck, device_path[idx] = path, loaded[path] = NoName, state[idx] \in FailStates
      PROVE  main' = "run_clear"
  <2>1. idx \in Devices
    BY <1>3 DEF TypeInv, TypeOK, ServerTypeOK
  <2>2. device_name[idx] # NoName
    BY <1>3, <2>1 DEF WorkInv, ChannelsNamed, FailStates
  <2>3. ~Matched(idx)
    BY <1>3, <2>2 DEF Matched
  <2>4. ~device_is_loaded(device_name[idx])
    BY <1>3, <2>1, <2>2, <2>3, LoadedIsMatched
  <2>. QED
    BY <1>3, <2>4 DEF RunCheck
<1>4. TypeInv /\ WorkInv =>
        [\A path \in Paths :
           RunCheck /\ device_path[idx] = path /\ loaded[path] = NoName /\ state[idx] \in FailStates
             => main' = "run_clear"]_vars
  BY <1>3
<1>. QED
  BY <1>1, <1>2, <1>4, PTL DEF Spec, RunClearsErrors

\* Where the assumptions of Copier hold, run() and terminate() of one hub
\* (server.c:589-639) touch no channel of another hub where a client works.
THEOREM HubsAreApart ==
  ASSUME Calm
  PROVE  Spec => HubsDoNotInterfere
<1>1. Init => TypeInv /\ WorkInv
  BY TypeInit, WorkInit
<1>2. TypeInv /\ WorkInv /\ [Next]_vars => TypeInv' /\ WorkInv'
  BY TypeStep, WorkStep
<1>3. ASSUME TypeInv, WorkInv, MainStep, NEW p \in Procs, Working(p), hub_number(chan[p]) # hub
      PROVE  state'[chan[p]] = state[chan[p]] /\ halt'[chan[p]] = halt[chan[p]]
  <2>1. chan[p] \in Devices /\ state \in [Devices -> ChannelState] /\ halt \in [Devices -> BOOLEAN]
    BY <1>3 DEF TypeInv, TypeOK, ClientTypeOK, SharedTypeOK
  <2>2. state'[chan[p]] = state[chan[p]]
    <3>1. main = "run_clear" => chan[p] # idx
      BY <1>3 DEF WorkInv, RunIsRight
    <3>. QED
      BY <1>3, <2>1, <3>1, MainFrame
  <2>3. halt'[chan[p]] = halt[chan[p]]
    BY <1>3, <2>1, MainHalt DEF Terminate
  <2>. QED
    BY <2>2, <2>3
<1>4. TypeInv /\ WorkInv =>
        [\A p \in Procs : MainStep /\ Working(p) /\ hub_number(chan[p]) # hub =>
           state'[chan[p]] = state[chan[p]] /\ halt'[chan[p]] = halt[chan[p]]]_vars
  BY <1>3
<1>. QED
  BY <1>1, <1>2, <1>4, PTL DEF Spec, HubsDoNotInterfere

-----------------------------------------------------------------------------
\* What a step of a client does to sticks: it touches only the stick of its
\* device, and what it knows of that stick as verify() goes on.
DriveStep(p) ==
  /\ \A q \in Procs \ {p} : dev'[q] = dev[q]
  /\ \A n \in Names \ {dev[p]} : holds_master'[n] = holds_master[n] /\ mounted'[n] = mounted[n]
  /\ UNCHANGED <<holds_master, mounted>> \/ (Working(p) /\ pc[p] \notin {"child", "exec"})
  /\ pc'[p] = "none" => dev'[p] = NoName
  /\ pc'[p] = "exec" => pc[p] = "child" /\ dev'[p] = dev[p]
  /\ pc'[p] \in WorkingSteps \ {"exec"} =>
       \/ pc[p] \notin {"child", "exec"} /\ dev'[p] = dev[p]
       \/ pc[p] = "exec" /\ dev'[p] = device_name[chan[p]]
       \/ pc[p] = "exec" /\ (device_name[chan[p]] = NoName \/ device_path[chan[p]] = NoPath)
  /\ pc'[p] \in {"vsync", "vumount", "result", "passed"} => UNCHANGED halt /\ dev'[p] = dev[p]
  /\ pc'[p] = "vsync" /\ ~Halted(p) => holds_master'[dev[p]]
  /\ pc'[p] = "vumount" => pc[p] = "vsync" /\ UNCHANGED holds_master
  /\ pc'[p] = "result" =>
       pc[p] = "vumount" /\ UNCHANGED holds_master /\ (dev[p] \in Names => ~mounted'[dev[p]])
  /\ pc'[p] = "passed" => pc[p] = "result" /\ ~Halted(p) /\ UNCHANGED <<holds_master, mounted>>
  /\ state'[chan[p]] = "SUCCESS" /\ state[chan[p]] # "SUCCESS" =>
       pc[p] = "passed" /\ UNCHANGED <<holds_master, mounted>>

LEMMA ClientDrive ==
  ASSUME TypeInv, NEW p \in Procs, ClientStep(p)
  PROVE  DriveStep(p)
<1>1. SharedTypeOK /\ ClientTypeOK /\ SticksTypeOK
  BY DEF TypeInv, TypeOK
<1> USE <1>1 DEF GoTo, Exit, SetState, At, Halted, SharedTypeOK, ClientTypeOK, SticksTypeOK, Working,
                 WorkingSteps, ClientSteps, sharedVars, stickVars, DriveStep
<1>2. CASE Child(p)  BY <1>2 DEF Child
<1>3. CASE Exec(p)  BY <1>3 DEF Exec
<1>4. CASE Initialise(p)  BY <1>4 DEF Initialise
<1>5. CASE UnmountOld(p)  BY <1>5 DEF UnmountOld
<1>6. CASE Format(p)  BY <1>6 DEF Format
<1>7. CASE MakeMountPoint(p)  BY <1>7 DEF MakeMountPoint
<1>8. CASE Mount(p)  BY <1>8 DEF Mount
<1>9. CASE StartCopy(p)  BY <1>9 DEF StartCopy
<1>10. CASE Copy(p)  BY <1>10 DEF Copy
<1>11. CASE Sync(p)  BY <1>11 DEF Sync
<1>12. CASE Unmount(p)  BY <1>12 DEF Unmount
<1>13. CASE StartVerify(p)  BY <1>13 DEF StartVerify
<1>14. CASE VerifyMount(p)  BY <1>14 DEF VerifyMount
<1>15. CASE Compare(p)  BY <1>15 DEF Compare
<1>16. CASE VerifySync(p)  BY <1>16 DEF VerifySync
<1>17. CASE VerifyUnmount(p)  BY <1>17 DEF VerifyUnmount
<1>18. CASE Result(p)  BY <1>18 DEF Result
<1>19. CASE VerifyFailed(p)  BY <1>19 DEF VerifyFailed
<1>20. CASE Failed(p)  BY <1>20 DEF Failed
<1>21. CASE FailedHalt(p)  BY <1>21 DEF FailedHalt
<1>22. CASE Passed(p)       BY <1>22 DEF Passed
<1>. QED
  BY <1>2, <1>3, <1>4, <1>5, <1>6, <1>7, <1>8, <1>9, <1>10, <1>11, <1>12, <1>13, <1>14, <1>15, <1>16, <1>17, <1>18, <1>19, <1>20, <1>21, <1>22
     DEF ClientStep, ClientNext

-----------------------------------------------------------------------------
\* A client past exec works on the stick that its channel names.
OnDrive(p) == Working(p) /\ pc[p] \notin {"child", "exec"}

LEMMA DriveIsNamed ==
  ASSUME TypeInv, WorkInv, DevIsName, NEW p \in Procs, OnDrive(p)
  PROVE  /\ dev[p] \in Names /\ dev[p] = device_name[chan[p]]
         /\ dev[p] \in NamesOf(device_path[chan[p]])
         /\ dev[p] = plugged[device_path[chan[p]]]
         /\ chan[p] \in Devices /\ device_path[chan[p]] \in Paths
<1>1. chan[p] \in Devices /\ Matched(chan[p]) /\ Settled(device_path[chan[p]])
  BY WorkSocket DEF OnDrive
<1>2. dev[p] = device_name[chan[p]]
  BY DEF OnDrive, DevIsName
<1>. QED
  BY <1>1, <1>2 DEF Matched, Settled, NamesOf, ChannelsAt, TypeInv, TypeOK, ClientTypeOK, SharedTypeOK

\* No client works on the stick of another socket.
LEMMA DriveElsewhere ==
  ASSUME TypeInv, WorkInv, DevIsName, NEW p \in Procs, OnDrive(p),
         NEW path \in Paths, path # device_path[chan[p]], NEW n \in NamesOf(path)
  PROVE  dev[p] # n
BY DriveIsNamed DEF WorkInv, NamesApart

LEMMA DrivesApart ==
  ASSUME TypeInv, WorkInv, DevIsName, NEW p \in Procs, NEW q \in Procs, p # q, OnDrive(p), OnDrive(q)
  PROVE  dev[p] # dev[q]
<1>1. chan[p] # chan[q]
  BY DEF WorkInv, OneClientPerChannel, OnDrive
<1>2. device_path[chan[p]] # device_path[chan[q]]
  BY <1>1, DriveIsNamed, SocketsApart
<1>. QED
  BY <1>2, DriveIsNamed, DriveElsewhere

LEMMA DevClient ==
  ASSUME TypeInv, WorkInv, DevIsName, NEW q \in Procs, ClientStep(q)
  PROVE  DevIsName'
<1>1. UNCHANGED <<device_name, device_path>> /\ (\A p \in Procs \ {q} : pc'[p] = pc[p] /\ chan'[p] = chan[p])
  BY ClientFrame
<1>2. DriveStep(q)
  BY ClientDrive
<1>3. ASSUME NEW p \in Procs, p # q
      PROVE  /\ pc'[p] \in {"none", "child", "exec"} => dev'[p] = NoName
             /\ OnDrive(p)' => dev'[p] = device_name'[chan'[p]]
  BY <1>1, <1>2, <1>3 DEF DevIsName, OnDrive, Working, DriveStep
<1>4. pc'[q] \in {"none", "child", "exec"} => dev'[q] = NoName
  BY <1>2, ClientFrame DEF DevIsName, DriveStep
<1>5. OnDrive(q)' => dev'[q] = device_name'[chan'[q]]
  <2> SUFFICES ASSUME OnDrive(q)' PROVE dev'[q] = device_name[chan'[q]]
    BY <1>1
  <2>1. Working(q) /\ chan'[q] = chan[q] /\ pc'[q] \in WorkingSteps \ {"exec"}
    BY ClientFrame DEF OnDrive, Working
  <2>2. device_name[chan[q]] # NoName /\ device_path[chan[q]] # NoPath
    BY <2>1, WorkSocket, NoneAssumption DEF Matched
  <2>. QED
    BY <1>2, <2>1, <2>2 DEF DriveStep, DevIsName
<1>. QED
  BY <1>3, <1>4, <1>5 DEF DevIsName, OnDrive

LEMMA DevStep ==
  ASSUME Calm
  PROVE  TypeInv /\ WorkInv /\ DevIsName /\ [Next]_vars => DevIsName'
<1> SUFFICES ASSUME TypeInv, WorkInv, DevIsName, [Next]_vars PROVE DevIsName'
  OBVIOUS
<1>1. CASE PollStep \/ PlugStick \/ PullStick \/ UNCHANGED vars
  <2>1. UNCHANGED <<device_name, pc, chan, dev>>
    BY <1>1 DEF PollStep, Poll, PlugStick, PullStick, vars, sharedVars, clientVars
  <2>. QED
    BY <2>1 DEF DevIsName, Working
<1>2. CASE MonitorStep
  <2>1. UNCHANGED <<pc, chan, dev>>
    BY <1>2 DEF MonitorStep, clientVars
  <2>2. \A p \in Procs : Working(p) => device_name'[chan[p]] = device_name[chan[p]]
    BY <1>2, WorkSocket, MonitorFrame DEF Matched, ChannelsAt
  <2>. QED
    BY <2>1, <2>2 DEF DevIsName, Working
<1>3. CASE MainStep
  <2>1. UNCHANGED <<device_name, dev>>
    BY <1>3 DEF MainStep, ServerNext, Terminate, Idle, StartHub, StartCount, Count, Progress, Finish,
                RunCheck, RunClear, RunSkip, RunStart, RunWait, Fork, sharedVars, clientVars
  <2>2. CASE UNCHANGED <<pc, chan>>
    BY <2>1, <2>2 DEF DevIsName, Working
  <2>3. CASE \E p \in Procs : Fork(p, idx)
    <3>1. PICK p \in Procs : Fork(p, idx)
      BY <2>3
    <3>2. pc' = [pc EXCEPT ![p] = "child"] /\ chan' = [chan EXCEPT ![p] = idx] /\ pc[p] = "none"
      BY <3>1 DEF Fork, At
    <3>3. pc \in [Procs -> ClientSteps] /\ chan \in [Procs -> Devices]
      BY DEF TypeInv, TypeOK, ClientTypeOK
    <3>. QED
      BY <2>1, <3>2, <3>3 DEF DevIsName, Working
  <2>. QED
    BY <1>3, <2>2, <2>3, MainFrame
<1>. QED
  BY <1>1, <1>2, <1>3, DevClient DEF Next

LEMMA DevInit == Init => DevIsName
BY DEF Init, ClientInit, DevIsName, Working, WorkingSteps

-----------------------------------------------------------------------------
\* Green lights.

LEMMA VerifiedClient ==
  ASSUME TypeInv, WorkInv, DevIsName, VerifiedSoFar, NEW q \in Procs, ClientStep(q)
  PROVE  VerifiedSoFar'
<1>1. DriveStep(q)
  BY ClientDrive
<1> SUFFICES ASSUME NEW p \in Procs, ~Halted(p)' \/ pc'[p] = "passed",
                    pc'[p] \in {"vsync", "vumount", "result", "passed"}
             PROVE  /\ holds_master'[dev'[p]]
                    /\ pc'[p] \in {"result", "passed"} => ~mounted'[dev'[p]]
  BY DEF VerifiedSoFar
<1>2. OnDrive(p)'
  BY DEF OnDrive, Working, WorkingSteps, ClientSteps
<1>3. CASE p = q
  <2>1. Working(p) /\ chan'[p] = chan[p] /\ UNCHANGED halt /\ dev'[p] = dev[p]
    BY <1>1, <1>2, <1>3, ClientFrame DEF DriveStep, OnDrive, Working
  <2>2. ~Halted(p)
    BY <1>1, <1>3, <2>1 DEF Halted, DriveStep
  <2>3. holds_master'[dev[p]]
    BY <1>1, <1>3, <2>2 DEF DriveStep, VerifiedSoFar
  <2>4. ASSUME pc'[p] = "result" PROVE ~mounted'[dev[p]]
    <3>1. pc[p] = "vumount"
      BY <1>1, <1>3, <2>4 DEF DriveStep
    <3>2. OnDrive(p)
      BY <2>1, <3>1 DEF OnDrive
    <3>. QED
      BY <1>1, <1>3, <2>4, <3>2, DriveIsNamed DEF DriveStep
  <2>5. ASSUME pc'[p] = "passed" PROVE ~mounted'[dev[p]]
    BY <1>1, <1>3, <2>2, <2>5 DEF DriveStep, VerifiedSoFar
  <2>. QED
    BY <2>1, <2>3, <2>4, <2>5
<1>4. CASE p # q
  <2>1. pc'[p] = pc[p] /\ chan'[p] = chan[p] /\ dev'[p] = dev[p] /\ OnDrive(p)
    BY <1>1, <1>2, <1>4, ClientFrame DEF DriveStep, OnDrive, Working
  <2>2. dev[p] \in Names /\ chan[p] \in Devices
    BY <2>1, DriveIsNamed
  <2>3. ~Halted(p) \/ pc[p] = "passed"
    <3> SUFFICES ASSUME halt[chan[p]], pc[p] # "passed" PROVE FALSE
      BY DEF Halted
    <3>1. CASE chan[p] # chan[q]
      BY <2>1, <2>2, <3>1, ClientHalt DEF Halted
    <3>2. CASE chan[p] = chan[q]
      <4>1. ~Working(q)
        BY <1>4, <2>1, <3>2 DEF WorkInv, OneClientPerChannel, OnDrive
      <4>. QED
        BY <2>1, <3>2, <4>1, ClientHalt DEF Halted, Working, WorkingSteps, ClientSteps
    <3>. QED
      BY <3>1, <3>2
  <2>4. holds_master'[dev[p]] = holds_master[dev[p]] /\ mounted'[dev[p]] = mounted[dev[p]]
    <3>1. CASE OnDrive(q)
      BY <1>1, <1>4, <2>1, <2>2, <3>1, DrivesApart DEF DriveStep
    <3>2. CASE ~OnDrive(q)
      BY <1>1, <3>2 DEF DriveStep, OnDrive
    <3>. QED
      BY <3>1, <3>2
  <2>. QED
    BY <2>1, <2>3, <2>4 DEF VerifiedSoFar
<1>. QED
  BY <1>3, <1>4

LEMMA GreenClient ==
  ASSUME TypeInv, WorkInv, DevIsName, VerifiedSoFar, GreenMeansVerified, NEW q \in Procs, ClientStep(q)
  PROVE  GreenMeansVerified'
<1>1. DriveStep(q) /\ UNCHANGED <<device_path, plugged>>
  BY ClientDrive, ClientFrame
<1> SUFFICES ASSUME NEW d \in Devices, state'[d] = "SUCCESS",
                    NEW path \in Paths, NEW n \in Names, device_path[d] = path, plugged[path] = n
             PROVE  holds_master'[n] /\ ~mounted'[n]
  BY <1>1 DEF GreenMeansVerified
<1>2. CASE state[d] = "SUCCESS"
  <2>1. holds_master[n] /\ ~mounted[n]
    BY <1>2 DEF GreenMeansVerified
  <2>2. CASE ~OnDrive(q)
    BY <1>1, <2>1, <2>2 DEF DriveStep, OnDrive
  <2>3. CASE OnDrive(q)
    <3>1. chan[q] \in Devices /\ chan[q] # d
      BY <1>2, <2>3, DriveIsNamed DEF WorkInv, WorkIsShown, OnDrive, BusyStates, CopyingStates
    <3>2. device_path[chan[q]] # path
      BY <3>1, SocketsApart
    <3>3. n \in NamesOf(path)
      BY NoneAssumption DEF NamesOf
    <3>4. dev[q] # n
      BY <2>3, <3>2, <3>3, DriveElsewhere
    <3>. QED
      BY <1>1, <2>1, <3>4 DEF DriveStep
  <2>. QED
    BY <2>2, <2>3
<1>3. CASE state[d] # "SUCCESS"
  <2>1. d = chan[q]
    BY <1>3, ClientFrame
  <2>2. pc[q] = "passed" /\ UNCHANGED <<holds_master, mounted>>
    BY <1>1, <1>3, <2>1 DEF DriveStep
  <2>3. OnDrive(q)
    BY <2>2 DEF OnDrive, Working, WorkingSteps, ClientSteps
  <2>4. n = dev[q]
    BY <2>1, <2>3, DriveIsNamed
  <2>. QED
    BY <2>2, <2>4 DEF VerifiedSoFar
<1>. QED
  BY <1>2, <1>3

\* A stick is pulled or plugged in where no client works and no green light is on.
LEMMA GreenSticks ==
  ASSUME Calm, TypeInv, WorkInv, ListIsRight, DevIsName, VerifiedSoFar, GreenMeansVerified,
         PlugStick \/ PullStick
  PROVE  VerifiedSoFar' /\ GreenMeansVerified'
<1>1. /\ UNCHANGED <<state, halt, device_name, device_path, pc, chan, dev>>
      /\ plugged \in [Paths -> Names \cup {NoName}]
      /\ holds_master \in [Names -> BOOLEAN]
  BY DEF PlugStick, PullStick, sharedVars, clientVars, TypeInv, TypeOK, SticksTypeOK
<1>2. PICK path \in Paths :
        /\ MayMove(path) /\ UNCHANGED mounted
        /\ \/ /\ plugged[path] = NoName /\ UNCHANGED holds_master
              /\ \E n \in Names : plugged' = [plugged EXCEPT ![path] = n]
           \/ /\ plugged[path] # NoName
              /\ plugged' = [plugged EXCEPT ![path] = NoName]
              /\ holds_master' = [holds_master EXCEPT ![plugged[path]] = FALSE]
  <2>1. CASE PlugStick
    BY <2>1 DEF PlugStick, Plug
  <2>2. CASE PullStick
    BY <2>2, PullPathsAssumption DEF PullStick, Unplug
  <2>. QED
    BY <2>1, <2>2
<1>3. ~WorkedOn(path) /\ Settled(path)
  BY <1>2 DEF MayMove, Calm
<1>4. VerifiedSoFar'
  <2> SUFFICES ASSUME NEW p \in Procs, ~Halted(p) \/ pc[p] = "passed",
                      pc[p] \in {"vsync", "vumount", "result", "passed"}
               PROVE  holds_master'[dev[p]] /\ (pc[p] \in {"result", "passed"} => ~mounted[dev[p]])
    BY <1>1, <1>2 DEF VerifiedSoFar, Halted
  <2>1. OnDrive(p)
    BY DEF OnDrive, Working, WorkingSteps, ClientSteps
  <2>2. dev[p] \in Names /\ device_path[chan[p]] # path
    BY <1>3, <2>1, DriveIsNamed DEF WorkedOn, OnDrive
  <2>3. plugged[path] # NoName => dev[p] # plugged[path]
    BY <2>1, <2>2, DriveElsewhere DEF NamesOf
  <2>. QED
    BY <1>1, <1>2, <2>2, <2>3 DEF VerifiedSoFar
<1>5. GreenMeansVerified'
  <2> SUFFICES ASSUME NEW d \in Devices, state[d] = "SUCCESS", NEW other \in Paths, NEW n \in Names,
                      device_path[d] = other, plugged'[other] = n
               PROVE  holds_master'[n] /\ ~mounted[n]
    BY <1>1, <1>2 DEF GreenMeansVerified
  <2>1. CASE other = path
    <3>1. plugged[path] # NoName
      BY <1>3, <2>1 DEF ListIsRight, FailStates, Settled
    <3>. QED
      BY <1>1, <1>2, <2>1, <3>1, NoneAssumption
  <2>2. CASE other # path
    <3>1. plugged[other] = n /\ n # NoName
      BY <1>1, <1>2, <2>2, NoneAssumption
    <3>2. plugged[path] # NoName => plugged[path] # n
      BY <2>2, <3>1 DEF WorkInv, NamesApart, NamesOf
    <3>. QED
      BY <1>1, <1>2, <3>1, <3>2 DEF GreenMeansVerified
  <2>. QED
    BY <2>1, <2>2
<1>. QED
  BY <1>4, <1>5

LEMMA GreenStep ==
  ASSUME Calm
  PROVE  TypeInv /\ WorkInv /\ ListIsRight /\ DevIsName /\ VerifiedSoFar /\ GreenMeansVerified /\ [Next]_vars
           => VerifiedSoFar' /\ GreenMeansVerified'
<1> SUFFICES ASSUME TypeInv, WorkInv, ListIsRight, DevIsName, VerifiedSoFar, GreenMeansVerified, [Next]_vars
             PROVE  VerifiedSoFar' /\ GreenMeansVerified'
  OBVIOUS
<1> DEFINE Kept == /\ UNCHANGED <<plugged, holds_master, mounted, device_path>>
                   /\ \A d \in Devices : state'[d] = "SUCCESS" => state[d] = "SUCCESS"
                   /\ \A p \in Procs : pc'[p] \in {"vsync", "vumount", "result", "passed"} =>
                        /\ pc'[p] = pc[p] /\ chan'[p] = chan[p] /\ dev'[p] = dev[p]
                        /\ halt[chan[p]] => halt'[chan[p]]
<1>1. SharedTypeOK /\ ClientTypeOK /\ ServerTypeOK
  BY DEF TypeInv, TypeOK
<1>2. CASE PollStep \/ UNCHANGED vars
  BY <1>2 DEF PollStep, Poll, vars, sharedVars, stickVars, clientVars, Kept, VerifiedSoFar, GreenMeansVerified, Halted
<1>3. ASSUME MonitorStep PROVE Kept
  BY <1>1, <1>3 DEF MonitorStep, MonitorNext, Scan, TakeMutex, Insert, InsertFull, Remove, ClearChannel,
                    ReleaseMutex, sharedVars, stickVars, clientVars, SharedTypeOK
<1>4. ASSUME MainStep PROVE Kept
  <2>1. UNCHANGED <<plugged, holds_master, mounted, device_path, dev>>
    BY <1>4 DEF MainStep, ServerNext, Terminate, Idle, StartHub, StartCount, Count, Progress, Finish,
                RunCheck, RunClear, RunSkip, RunStart, RunWait, Fork, sharedVars, stickVars, clientVars
  <2>2. \A d \in Devices : state'[d] = "SUCCESS" => state[d] = "SUCCESS"
    BY <1>1, <1>4, MainFrame DEF SharedTypeOK
  <2>3. \A p \in Procs : halt[chan[p]] => halt'[chan[p]]
    BY <1>1, <1>4, MainHalt DEF Terminate, ClientTypeOK, SharedTypeOK
  <2>4. \A p \in Procs : pc'[p] \in {"vsync", "vumount", "result", "passed"} => pc'[p] = pc[p] /\ chan'[p] = chan[p]
    BY <1>1, <1>4, MainFrame DEF Fork, ClientTypeOK
  <2>. QED
    BY <2>1, <2>2, <2>3, <2>4
<1>5. ASSUME Kept PROVE VerifiedSoFar' /\ GreenMeansVerified'
  BY <1>5 DEF VerifiedSoFar, GreenMeansVerified, Halted
<1> HIDE DEF Kept
<1>. QED
  BY <1>2, <1>3, <1>4, <1>5, VerifiedClient, GreenClient, GreenSticks DEF Next

\* Where the assumptions of Copier hold, a green light means that the stick in
\* that socket holds the verified master and is not mounted (client.c:377-391):
\* no failed, halted or faulty copy is ever shown as a success.
THEOREM GreenIsVerified ==
  ASSUME Calm
  PROVE  Spec => []GreenMeansVerified
<1> DEFINE Inv == TypeInv /\ WorkInv /\ ListIsRight /\ LoadedStickIsShown /\ DevIsName
                    /\ VerifiedSoFar /\ GreenMeansVerified
<1>1. Init => Inv
  BY TypeInit, WorkInit, ListInit, DevInit
     DEF Init, SharedInit, ClientInit, VerifiedSoFar, GreenMeansVerified
<1>2. Inv /\ [Next]_vars => Inv'
  BY TypeStep, WorkStep, ListStep, DevStep, GreenStep
<1>3. Inv => GreenMeansVerified
  OBVIOUS
<1>. QED
  BY <1>1, <1>2, <1>3, PTL DEF Spec

-----------------------------------------------------------------------------
\* What keeps a client from leaving without a word, besides the failures of sudo and
\* exec, of sync, and of a line of the CRC file: sync finds its directory.
OutcomeIsToCome ==
  MountDirs = Names /\ MayFail \cap {"sudo", "sync", "crc_line"} = {}

MountPointsStay == \A n \in Names : mount_dir[n]

\* A client that ceases to work leaves an outcome on its channel.
LEMMA OutcomeClient ==
  ASSUME OutcomeIsToCome, TypeInv, WorkInv, DevIsName, MountPointsStay,
         NEW p \in Procs, ClientStep(p)
  PROVE  /\ MountPointsStay'
         /\ Working(p) /\ ~Working(p)' => state'[chan[p]] \notin BusyStates
         /\ Working(p)' => chan'[p] = chan[p]
<1> DEFINE Goal == /\ \A n \in Names : mount_dir[n] => mount_dir'[n]
                   /\ Working(p) /\ ~Working(p)' => state'[chan[p]] \notin BusyStates
<1>1. SharedTypeOK /\ SticksTypeOK /\ ClientTypeOK
  BY DEF TypeInv, TypeOK
<1>2. OnDrive(p) => mount_dir[dev[p]] /\ Present(dev[p])
  BY DriveIsNamed DEF MountPointsStay, Present
<1>3. MayFail \cap {"sudo", "sync", "crc_line"} = {}
  BY DEF OutcomeIsToCome
<1>4. Goal
  <2> USE <1>1, <1>3 DEF GoTo, Exit, SetState, At, SharedTypeOK, SticksTypeOK, ClientTypeOK, Working,
             WorkingSteps, ClientSteps, BusyStates, CopyingStates, sharedVars, stickVars
  <2>1. CASE Child(p)         BY <2>1 DEF Child
  <2>2. CASE Exec(p)          BY <2>2 DEF Exec
  <2>3. CASE Initialise(p)    BY <2>3 DEF Initialise
  <2>4. CASE UnmountOld(p)    BY <2>4 DEF UnmountOld
  <2>5. CASE Format(p)        BY <2>5 DEF Format
  <2>6. CASE MakeMountPoint(p) BY <2>6 DEF MakeMountPoint
  <2>7. CASE Mount(p)         BY <2>7 DEF Mount
  <2>8. CASE StartCopy(p)     BY <2>8 DEF StartCopy
  <2>9. CASE Copy(p)          BY <2>9 DEF Copy
  <2>10. CASE Sync(p)
    <3>1. OnDrive(p) /\ ~SyncTrouble(dev[p])
      BY <1>2, <2>10 DEF Sync, OnDrive, SyncTrouble
    <3>. QED
      BY <2>10, <3>1 DEF Sync
  <2>11. CASE Unmount(p)      BY <2>11 DEF Unmount
  <2>12. CASE StartVerify(p)  BY <2>12 DEF StartVerify
  <2>13. CASE VerifyMount(p)  BY <2>13 DEF VerifyMount
  <2>14. CASE Compare(p)      BY <2>14 DEF Compare
  <2>15. CASE VerifySync(p)   BY <2>15 DEF VerifySync
  <2>16. CASE VerifyUnmount(p) BY <2>16 DEF VerifyUnmount
  <2>17. CASE Result(p)       BY <2>17 DEF Result
  <2>18. CASE VerifyFailed(p) BY <2>18 DEF VerifyFailed
  <2>19. CASE Failed(p)       BY <2>19 DEF Failed
  <2>20. CASE FailedHalt(p)   BY <2>20 DEF FailedHalt
  <2>21. CASE Passed(p)       BY <2>21 DEF Passed
  <2> HIDE DEF Goal
  <2>. QED
    BY <2>1, <2>2, <2>3, <2>4, <2>5, <2>6, <2>7, <2>8, <2>9, <2>10, <2>11, <2>12, <2>13, <2>14,
       <2>15, <2>16, <2>17, <2>18, <2>19, <2>20, <2>21 DEF ClientStep, ClientNext
<1>5. Working(p)' => chan'[p] = chan[p]
  BY ClientFrame DEF Working
<1>. QED
  BY <1>4, <1>5 DEF MountPointsStay

LEMMA OutcomeStep ==
  ASSUME Calm, OutcomeIsToCome
  PROVE  TypeInv /\ WorkInv /\ DevIsName /\ MountPointsStay /\ ClientSignalsOutcome /\ [Next]_vars
           => MountPointsStay' /\ ClientSignalsOutcome'
<1> SUFFICES ASSUME TypeInv, WorkInv, DevIsName, MountPointsStay, ClientSignalsOutcome, [Next]_vars
             PROVE  MountPointsStay' /\ ClientSignalsOutcome'
  OBVIOUS
<1>1. SharedTypeOK /\ SticksTypeOK /\ ClientTypeOK /\ ServerTypeOK
  BY DEF TypeInv, TypeOK
<1> DEFINE Kept == /\ UNCHANGED mount_dir
                   /\ \A d \in Devices : state'[d] \in BusyStates => state[d] \in BusyStates
                   /\ \A p \in Procs : Working(p) => Working(p)' /\ chan'[p] = chan[p]
<1>2. ASSUME Kept PROVE MountPointsStay' /\ ClientSignalsOutcome'
  BY <1>2 DEF MountPointsStay, ClientSignalsOutcome
<1>3. ASSUME NEW p \in Procs, ClientStep(p)
      PROVE  MountPointsStay' /\ ClientSignalsOutcome'
  <2>1. MountPointsStay'
    BY <1>3, OutcomeClient
  <2>2. \A q \in Procs \ {p} : Working(q) => Working(q)' /\ chan'[q] = chan[q]
    BY <1>3, ClientFrame DEF Working
  <2>3. ASSUME NEW d \in Devices, state'[d] \in BusyStates
        PROVE  \E q \in Procs : Working(q)' /\ chan'[q] = d
    <3>1. CASE Working(p)' /\ chan[p] = d
      BY <1>3, <3>1, OutcomeClient
    <3>2. CASE ~(Working(p)' /\ chan[p] = d)
      <4>1. state'[d] = state[d] /\ ~(Working(p) /\ chan[p] = d)
        BY <1>3, <2>3, <3>2, ClientFrame, OutcomeClient
      <4>2. PICK q \in Procs : Working(q) /\ chan[q] = d
        BY <2>3, <4>1 DEF ClientSignalsOutcome
      <4>. QED
        BY <2>2, <4>1, <4>2
    <3>. QED
      BY <3>1, <3>2
  <2>. QED
    BY <2>1, <2>3 DEF ClientSignalsOutcome
<1>4. ASSUME MonitorStep PROVE Kept
  <2>1. \A d \in Devices : state'[d] \in {state[d], "READY", "EMPTY"}
    BY <1>1, <1>4 DEF MonitorStep, MonitorNext, Scan, TakeMutex, Insert, InsertFull, Remove, ClearChannel,
                      ReleaseMutex, sharedVars, SharedTypeOK
  <2>2. UNCHANGED <<mount_dir, pc, chan>>
    BY <1>4 DEF MonitorStep, MonitorNext, Scan, TakeMutex, Insert, InsertFull, Remove, ClearChannel,
                ReleaseMutex, stickVars, clientVars
  <2>. QED
    BY <2>1, <2>2 DEF Working, BusyStates, CopyingStates
<1>5. ASSUME MainStep PROVE Kept
  <2>1. UNCHANGED mount_dir
    BY <1>5 DEF MainStep, ServerNext, Terminate, Idle, StartHub, StartCount, Count, Progress, Finish,
                RunCheck, RunClear, RunSkip, RunStart, RunWait, Fork, stickVars
  <2>2. \A d \in Devices : state'[d] \in {state[d], "EMPTY"}
    BY <1>1, <1>5, MainFrame DEF SharedTypeOK
  <2>3. \A p \in Procs : Working(p) => Working(p)' /\ chan'[p] = chan[p]
    BY <1>1, <1>5, MainFrame DEF Fork, At, Working, WorkingSteps, ClientTypeOK
  <2>. QED
    BY <2>1, <2>2, <2>3 DEF BusyStates, CopyingStates
<1>6. ASSUME PollStep \/ PlugStick \/ PullStick \/ UNCHANGED vars PROVE Kept
  <2>1. UNCHANGED <<mount_dir, state, pc, chan>>
    BY <1>6 DEF PollStep, Poll, PlugStick, Plug, PullStick, Unplug, vars, sharedVars, stickVars, clientVars
  <2>. QED
    BY <2>1 DEF Working
<1> HIDE DEF Kept
<1>. QED
  BY <1>2, <1>3, <1>4, <1>5, <1>6 DEF Next

\* A channel that shows work in progress has a client to finish it, so that its hub is
\* not kept waiting (server.c:684-720): no client leaves before it has written an
\* outcome, but for sudo, sync and lines of the CRC file (client.c:60-63, 366-369).
THEOREM OutcomeIsSignalled ==
  ASSUME Calm, OutcomeIsToCome
  PROVE  Spec => []ClientSignalsOutcome
<1> DEFINE Inv == TypeInv /\ WorkInv /\ ListIsRight /\ LoadedStickIsShown /\ DevIsName
                    /\ MountPointsStay /\ ClientSignalsOutcome
<1>1. Init => Inv
  BY TypeInit, WorkInit, ListInit, DevInit
     DEF Init, SharedInit, SticksInit, MountPointsStay, ClientSignalsOutcome, OutcomeIsToCome,
         BusyStates, CopyingStates
<1>2. Inv /\ [Next]_vars => Inv'
  BY TypeStep, WorkStep, ListStep, DevStep, OutcomeStep
<1>3. Inv => ClientSignalsOutcome
  OBVIOUS
<1>. QED
  BY <1>1, <1>2, <1>3, PTL DEF Spec

\* All of the inductive invariant holds where the assumptions of Copier do: what
\* run(), the count and the monitor found out without a lock (server.c:599-683,
\* usb.c:299-364) is still true when they act on it.
THEOREM TheInvariantHolds ==
  ASSUME Calm
  PROVE  Spec => []IndInv
<1> DEFINE Inv == TypeInv /\ IndInv /\ GreenMeansVerified
<1>1. Init => Inv
  BY TypeInit, WorkInit, ListInit, DevInit
     DEF Init, SharedInit, ClientInit, ServerInit, VerifiedSoFar, GreenMeansVerified, IndInv,
         CancelHolds, SweepIsRight, Working, WorkingSteps, At
<1>2. Inv /\ [Next]_vars => Inv'
  BY TypeStep, WorkStep, CancelStep, SweepStep, ListStep, DevStep, GreenStep DEF IndInv
<1>3. Inv => IndInv
  OBVIOUS
<1>. QED
  BY <1>1, <1>2, <1>3, PTL DEF Spec
=============================================================================
