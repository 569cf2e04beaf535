----------------------------- MODULE JobProofs -----------------------------
(***************************************************************************)
(* What follows from WorkInv of CopierProofs for the end of a job: a       *)
(* cancelled client never reports success, and a hub is never reported     *)
(* done while one of its clients is at work.                               *)
(***************************************************************************)
EXTENDS CopierProofs

\* The channels of a hub are the ones from its first to its last.
LEMMA HubRange ==
  ASSUME NEW d \in Devices, NEW h \in Hubs, hub_number(d) = h
  PROVE  FirstDevice(h) <= d /\ d <= LastDevice(h)
<1>1. d \in Nat /\ PORTS_PER_CHANNEL \in Nat \ {0}
  BY HubAssumption, DeviceFacts DEF Devices
<1>2. \A n \in Nat, k \in Nat \ {0} : (n \div k) * k <= n /\ n <= (n \div k) * k + k - 1
  OBVIOUS
<1>3. (d \div PORTS_PER_CHANNEL) * PORTS_PER_CHANNEL <= d
      /\ d <= (d \div PORTS_PER_CHANNEL) * PORTS_PER_CHANNEL + PORTS_PER_CHANNEL - 1
  BY <1>1, <1>2
<1>. QED
  BY <1>3 DEF hub_number, FirstDevice, LastDevice

\* What a client does to halt: only its start withdraws it, on its own channel.
LEMMA ClientHalt ==
  ASSUME TypeInv, NEW p \in Procs, ClientStep(p)
  PROVE  /\ \A d \in Devices \ {chan[p]} : halt'[d] = halt[d]
         /\ pc[p] # "init" /\ halt[chan[p]] => halt'[chan[p]]
         /\ pc'[p] \in {"child", "exec", "init"} => pc[p] \in {"child", "exec"}
         /\ pc'[p] = "passed" => ~halt[chan[p]]
         /\ state'[chan[p]] = "SUCCESS" /\ state[chan[p]] # "SUCCESS" => pc[p] = "passed"
<1>1. SharedTypeOK /\ ClientTypeOK
  BY DEF TypeInv, TypeOK
<1> USE <1>1 DEF GoTo, Exit, SetState, At, SharedTypeOK, ClientTypeOK, sharedVars, stickVars
<1>2. CASE Child(p)         BY <1>2 DEF Child
<1>3. CASE Exec(p)          BY <1>3 DEF Exec
<1>4. CASE Initialise(p)    BY <1>4 DEF Initialise
<1>5. CASE UnmountOld(p)    BY <1>5 DEF UnmountOld
<1>6. CASE Format(p)        BY <1>6 DEF Format
<1>7. CASE MakeMountPoint(p) BY <1>7 DEF MakeMountPoint
<1>8. CASE Mount(p)         BY <1>8 DEF Mount
<1>9. CASE StartCopy(p)     BY <1>9 DEF StartCopy
<1>10. CASE Copy(p)         BY <1>10 DEF Copy
<1>11. CASE Sync(p)         BY <1>11 DEF Sync
<1>12. CASE Unmount(p)      BY <1>12 DEF Unmount
<1>13. CASE StartVerify(p)  BY <1>13 DEF StartVerify
<1>14. CASE VerifyMount(p)  BY <1>14 DEF VerifyMount
<1>15. CASE Compare(p)      BY <1>15 DEF Compare
<1>16. CASE VerifySync(p)   BY <1>16 DEF VerifySync
<1>17. CASE VerifyUnmount(p) BY <1>17 DEF VerifyUnmount
<1>18. CASE Result(p)       BY <1>18 DEF Result, Halted
<1>19. CASE VerifyFailed(p) BY <1>19 DEF VerifyFailed
<1>20. CASE Failed(p)       BY <1>20 DEF Failed
<1>21. CASE FailedHalt(p)   BY <1>21 DEF FailedHalt
<1>22. CASE Passed(p)       BY <1>22 DEF Passed
<1>. QED
  BY <1>2, <1>3, <1>4, <1>5, <1>6, <1>7, <1>8, <1>9, <1>10, <1>11, <1>12, <1>13, <1>14, <1>15, <1>16,
     <1>17, <1>18, <1>19, <1>20, <1>21, <1>22 DEF ClientStep, ClientNext

LEMMA CancelClient ==
  ASSUME TypeInv, WorkInv, CancelHolds, NEW q \in Procs, ClientStep(q)
  PROVE  CancelHolds'
<1>1. /\ pc \in [Procs -> ClientSteps] /\ cancelled \in [Procs -> {"no", "early", "running", "late"}]
      /\ \A p \in Procs : chan[p] \in Devices
  BY DEF TypeInv, TypeOK, ClientTypeOK
<1>2. cancelled' = [cancelled EXCEPT ![q] = IF pc'[q] = "none" THEN "no" ELSE @]
  BY DEF ClientStep
<1> SUFFICES ASSUME NEW p \in Procs
             PROVE  /\ pc'[p] = "none" => cancelled'[p] = "no"
                    /\ Working(p)' /\ cancelled'[p] = "running" =>
                         pc'[p] \notin {"child", "exec", "init", "passed"} /\ halt'[chan'[p]]
  BY DEF CancelHolds, At, Halted
<1>3. CASE p = q
  <2>1. pc'[p] = "none" => cancelled'[p] = "no"
    BY <1>1, <1>2, <1>3
  <2>2. ASSUME Working(p)', cancelled'[p] = "running"
        PROVE  pc'[p] \notin {"child", "exec", "init", "passed"} /\ halt'[chan'[p]]
    <3>1. cancelled[p] = "running" /\ Working(p) /\ chan'[p] = chan[p]
      BY <1>1, <1>2, <1>3, <2>2, ClientFrame DEF Working
    <3>. QED
      BY <1>3, <3>1, ClientHalt DEF CancelHolds, Halted
  <2>. QED
    BY <2>1, <2>2
<1>4. CASE p # q
  <2>1. cancelled'[p] = cancelled[p] /\ pc'[p] = pc[p] /\ chan'[p] = chan[p]
    BY <1>1, <1>2, <1>4, ClientFrame
  <2>2. ASSUME Working(p), halt[chan[p]]
        PROVE  halt'[chan[p]]
    <3>1. CASE chan[p] # chan[q]
      BY <1>1, <2>2, <3>1, ClientHalt
    <3>2. CASE chan[p] = chan[q]
      BY <1>4, <2>2, <3>2, ClientHalt DEF WorkInv, OneClientPerChannel, Working, WorkingSteps, ClientSteps
    <3>. QED
      BY <3>1, <3>2
  <2>. QED
    BY <2>1, <2>2 DEF CancelHolds, At, Halted, Working
<1>. QED
  BY <1>3, <1>4

\* What the rest of the system does to a job: only the main thread cancels it.
LEMMA OthersFrame ==
  ASSUME TypeInv, PollStep \/ MonitorStep \/ PlugStick \/ PullStick
  PROVE  /\ UNCHANGED <<halt, cancelled, pc, chan>>
         /\ UNCHANGED serverVars \/ main' = "visit"
<1> USE DEF sharedVars, stickVars, clientVars, serverVars
<1>1. CASE PollStep
  BY <1>1 DEF PollStep, Poll
<1>2. CASE MonitorStep
  BY <1>2 DEF MonitorStep, MonitorNext, Scan, TakeMutex, Insert, InsertFull, Remove, ClearChannel, ReleaseMutex
<1>3. CASE PlugStick \/ PullStick
  BY <1>3 DEF PlugStick, PullStick
<1>. QED
  BY <1>1, <1>2, <1>3

LEMMA MainHalt ==
  ASSUME TypeInv, MainStep
  PROVE  \/ Terminate /\ UNCHANGED <<pc, chan>>
         \/ UNCHANGED <<halt, cancelled>>
<1> USE DEF sharedVars, clientVars
<1>1. CASE Terminate
  BY <1>1 DEF Terminate
<1>2. CASE ~Terminate
  <2>1. UNCHANGED halt /\ ~(main = "visit" /\ busy[hub] /\ button[hub] = "long")
    BY <1>2 DEF MainStep, ServerNext, Idle, StartHub, StartCount, Count, Progress, Finish,
                RunCheck, RunClear, RunSkip, RunStart, RunWait
  <2>. QED
    BY <2>1 DEF MainStep
<1>. QED
  BY <1>1, <1>2

LEMMA CancelMain ==
  ASSUME TypeInv, CancelHolds, MainStep
  PROVE  CancelHolds'
<1>1. /\ pc \in [Procs -> ClientSteps] /\ cancelled \in [Procs -> {"no", "early", "running", "late"}]
      /\ chan \in [Procs -> Devices] /\ halt \in [Devices -> BOOLEAN]
  BY DEF TypeInv, TypeOK, ClientTypeOK, SharedTypeOK
<1>2. CASE Terminate /\ UNCHANGED <<pc, chan>>
  <2>1. halt' = [d \in Devices |-> halt[d] \/ hub_number(d) = hub]
    BY <1>2 DEF Terminate
  <2>2. cancelled' =
            [p \in Procs |->
               IF ~Working(p) \/ hub_number(chan[p]) # hub THEN cancelled[p]
               ELSE IF pc[p] \in {"child", "exec", "init"} THEN "early"
               ELSE IF pc[p] = "passed" THEN "late"
               ELSE "running"]
    BY <1>2 DEF Terminate, MainStep
  <2> SUFFICES ASSUME NEW p \in Procs
               PROVE  /\ pc[p] = "none" => cancelled'[p] = "no"
                      /\ Working(p) /\ cancelled'[p] = "running" =>
                           pc[p] \notin {"child", "exec", "init", "passed"} /\ halt'[chan[p]]
    BY <1>2 DEF CancelHolds, At, Halted, Working
  <2>3. pc[p] = "none" => ~Working(p)
    BY DEF Working, WorkingSteps
  <2>. QED
    BY <1>1, <2>1, <2>2, <2>3 DEF CancelHolds, At, Halted
<1>3. CASE UNCHANGED <<halt, cancelled>>
  <2>1. CASE UNCHANGED <<pc, chan>>
    BY <1>3, <2>1 DEF CancelHolds, At, Halted, Working
  <2>2. CASE \E p \in Procs : Fork(p, idx)
    <3>1. PICK p \in Procs : Fork(p, idx)
      BY <2>2
    <3>2. cancelled[p] = "no" /\ pc' = [pc EXCEPT ![p] = "child"] /\ chan' = [chan EXCEPT ![p] = idx]
      BY <3>1 DEF Fork, CancelHolds
    <3>. QED
      BY <1>1, <1>3, <3>2 DEF CancelHolds, At, Halted, Working
  <2>. QED
    BY <2>1, <2>2, MainFrame
<1>. QED
  BY <1>2, <1>3, MainHalt

LEMMA CancelStep == TypeInv /\ WorkInv /\ CancelHolds /\ [Next]_vars => CancelHolds'
<1> SUFFICES ASSUME TypeInv, WorkInv, CancelHolds, [Next]_vars PROVE CancelHolds'
  OBVIOUS
<1>1. CASE PollStep \/ MonitorStep \/ PlugStick \/ PullStick \/ UNCHANGED vars
  <2>1. UNCHANGED <<halt, cancelled, pc, chan>>
    BY <1>1, OthersFrame DEF vars, sharedVars, clientVars
  <2>. QED
    BY <2>1 DEF CancelHolds, At, Halted, Working
<1>. QED
  BY <1>1, CancelClient, CancelMain DEF Next

\* Where the assumptions of Copier hold, a client that terminate()
\* (server.c:629-639) asks to stop after it has initialised its channel
\* (client.c:253-254) and before it has read halt for the last time
\* (client.c:383) never publishes SUCCESS.
THEOREM CancelledIsNeverGreen ==
  ASSUME Calm
  PROVE  Spec => CancelledNeverGreen
<1>1. Init => TypeInv /\ WorkInv /\ CancelHolds
  BY TypeInit, WorkInit DEF Init, CancelHolds, Working, WorkingSteps, ClientInit, At
<1>2. TypeInv /\ WorkInv /\ CancelHolds /\ [Next]_vars => TypeInv' /\ WorkInv' /\ CancelHolds'
  BY TypeStep, WorkStep, CancelStep
<1>3. ASSUME TypeInv, CancelHolds, NEW p \in Procs, ClientStep(p),
             state[chan[p]] # "SUCCESS", state'[chan[p]] = "SUCCESS"
      PROVE  cancelled[p] # "running"
  <2>1. pc[p] = "passed" /\ Working(p)
    BY <1>3, ClientHalt DEF Working, WorkingSteps, ClientSteps
  <2>. QED
    BY <1>3, <2>1 DEF CancelHolds
<1>4. TypeInv /\ CancelHolds =>
        [\A p \in Procs :
           ClientStep(p) /\ state[chan[p]] # "SUCCESS" /\ state'[chan[p]] = "SUCCESS" =>
             cancelled[p] # "running"]_vars
  BY <1>3
<1>. QED
  BY <1>1, <1>2, <1>4, PTL DEF Spec, CancelledNeverGreen

-----------------------------------------------------------------------------
\* A client at work shows it, unless it was forked a moment ago.
LEMMA WorkShows ==
  ASSUME TypeInv, WorkInv, NEW p \in Procs, Working(p), main # "run_wait"
  PROVE  state[chan[p]] \in BusyStates
BY DEF WorkInv, WorkIsShown

LEMMA SweepMain ==
  ASSUME TypeInv, WorkInv, SweepIsRight, MainStep
  PROVE  SweepIsRight'
<1> USE DEF sharedVars, clientVars
<1>1. /\ hub \in Hubs /\ idx \in Devices
      /\ \A p \in Procs : chan[p] \in Devices
  BY DEF TypeInv, TypeOK, ServerTypeOK, ClientTypeOK
<1>2. \A d \in Devices : d \in Int
  BY DEF Devices
<1>3. CASE StartCount
  <2>1. UNCHANGED <<pc, chan, hub>> /\ main' = "count" /\ idx' = FirstDevice(hub)
    BY <1>3 DEF StartCount
  <2>. QED
    BY <1>1, <2>1, HubRange DEF SweepIsRight, Working
<1>4. CASE Count
  <2>1. /\ UNCHANGED <<pc, chan, hub>> /\ main = "count"
        /\ ~in_progress' => ~in_progress /\ state[idx] \notin BusyStates
        /\ \/ idx = LastDevice(hub) /\ main' = "conclude" /\ idx' = idx
           \/ idx # LastDevice(hub) /\ main' = "count" /\ idx' = idx + 1
    BY <1>4 DEF Count
  <2>2. ASSUME ~in_progress', NEW p \in Procs, Working(p), hub_number(chan[p]) = hub
        PROVE  main' = "count" /\ chan[p] >= idx'
    <3>1. chan[p] >= idx /\ chan[p] # idx /\ chan[p] <= LastDevice(hub)
      BY <1>1, <2>1, <2>2, WorkShows, HubRange DEF SweepIsRight
    <3>2. LastDevice(hub) \in Int
      BY <1>1, <1>2, DeviceFacts
    <3>. QED
      BY <1>1, <1>2, <2>1, <3>1, <3>2
  <2>. QED
    BY <2>1, <2>2 DEF SweepIsRight, Working
<1>5. CASE ~StartCount /\ ~Count
  <2>1. main' \notin {"count", "conclude"}
    BY <1>5 DEF MainStep, ServerNext, Terminate, Idle, StartHub, Progress, Finish, LeaveHub,
                RunCheck, RunClear, RunSkip, RunStart, RunWait, NextChannel
  <2>. QED
    BY <2>1 DEF SweepIsRight
<1>. QED
  BY <1>3, <1>4, <1>5

LEMMA SweepStep == TypeInv /\ WorkInv /\ SweepIsRight /\ [Next]_vars => SweepIsRight'
<1> SUFFICES ASSUME TypeInv, WorkInv, SweepIsRight, [Next]_vars PROVE SweepIsRight'
  OBVIOUS
<1>1. ASSUME NEW p \in Procs, ClientStep(p)
      PROVE  SweepIsRight'
  <2>1. UNCHANGED serverVars
    BY <1>1 DEF ClientStep
  <2>2. \A q \in Procs : Working(q)' => Working(q) /\ chan'[q] = chan[q]
    BY <1>1, ClientFrame DEF Working
  <2>. QED
    BY <2>1, <2>2 DEF SweepIsRight, serverVars
<1>2. CASE PollStep \/ MonitorStep \/ PlugStick \/ PullStick \/ UNCHANGED vars
  <2>1. UNCHANGED <<pc, chan>> /\ (UNCHANGED serverVars \/ main' = "visit")
    BY <1>2, OthersFrame DEF vars, clientVars
  <2>. QED
    BY <2>1 DEF SweepIsRight, Working, serverVars
<1>. QED
  BY <1>1, <1>2, SweepMain DEF Next

\* Where the assumptions of Copier hold, hub_main concludes that a hub is done
\* (server.c:712-733) only when none of its clients is at work, although it
\* reads the states one by one (server.c:659-683) and they change meanwhile.
THEOREM DoneIsDone ==
  ASSUME Calm
  PROVE  Spec => DoneMeansDone
<1>1. Init => TypeInv /\ WorkInv /\ SweepIsRight
  BY TypeInit, WorkInit DEF Init, ServerInit, SweepIsRight
<1>2. TypeInv /\ WorkInv /\ SweepIsRight /\ [Next]_vars => TypeInv' /\ WorkInv' /\ SweepIsRight'
  BY TypeStep, WorkStep, SweepStep
<1>3. SweepIsRight =>
        [\A h \in Hubs : Finish /\ h = hub =>
           \A p \in Procs : Working(p) => hub_number(chan[p]) # h]_vars
  BY DEF SweepIsRight, Finish
<1>. QED
  BY <1>1, <1>2, <1>3, PTL DEF Spec, DoneMeansDone
=============================================================================
