---------------------------- MODULE ButtonProofs ----------------------------
(***************************************************************************)
(* Theorems about Buttons, for any press times, any length of the menu,    *)
(* any number of channels, any moves of the buttons and a main thread that *)
(* fetches presses when it likes.                                          *)
(***************************************************************************)
EXTENDS Buttons, TLAPS

\* The initial states satisfy the invariants.
LEMMA ButtonInit == Init => TypeOK /\ HoldInv
<1> SUFFICES ASSUME Init PROVE TypeOK /\ HoldInv
  OBVIOUS
<1>1. 0 \in 0 .. command_count - 1 /\ LONG_PRESS_TIME \in 0 .. LONG_PRESS_TIME
  BY PressTimes, CommandCount
<1>2. SharedTypeOK
  BY DEF Init, SharedInit, SharedTypeOK, ChannelState
<1> QED
  BY <1>1, <1>2 DEF Init, TypeOK, HoldInv, PressState

-----------------------------------------------------------------------------
\* A look at one button preserves the invariants.
LEMMA LookStep ==
  ASSUME TypeOK, HoldInv, NEW b \in Button,
         Pressed(b) \/ HeldLong(b) \/ Released(b) \/ NothingNew(b) \/ CannotRead(b),
         UNCHANGED <<state, device_name, device_path, down>>
  PROVE  TypeOK' /\ HoldInv'
<1>1. SharedTypeOK'
  BY DEF TypeOK, SharedTypeOK, Pressed, HeldLong, Released, NothingNew, CannotRead, Look
<1>2. CASE Pressed(b)
  <2>1. TypeOK'
    BY <1>1, <1>2, PressTimes DEF TypeOK, Pressed, Look
  <2>2. HoldInv'
    BY <1>2 DEF TypeOK, HoldInv, Pressed, Look, FallingEdge
  <2> QED
    BY <2>1, <2>2
<1>3. CASE HeldLong(b)
  <2>1. reports[b] = 0 /\ reports' = [reports EXCEPT ![b] = 1]
    <3>1. reports[b] \in 0 .. 2 /\ reports[b] <= 1
      BY DEF TypeOK, HoldInv
    <3>2. reports[b] # 1
      BY <1>3 DEF HoldInv, HeldLong, LongPressDue
    <3>3. reports' = [reports EXCEPT ![b] = IF reports[b] < 2 THEN reports[b] + 1 ELSE 2]
      BY <1>3 DEF HeldLong, Report
    <3>4. reports[b] = 0
      BY <3>1, <3>2
    <3>5. (IF reports[b] < 2 THEN reports[b] + 1 ELSE 2) = 1
      BY <3>4
    <3> QED
      BY <3>3, <3>4, <3>5
  <2>2. TypeOK'
    BY <1>1, <1>3, <2>1 DEF TypeOK, HeldLong, Report, Look, PressState
  <2>3. HoldInv'
    BY <1>3, <2>1 DEF TypeOK, HoldInv, HeldLong, LongPressDue, Look
  <2> QED
    BY <2>2, <2>3
<1>4. CASE Released(b)
  <2>1. CASE wait_for_release[b] \/ press_duration[b] < SHORT_PRESS_TIME
    <3>1. button_state' = button_state /\ reports' = reports
      BY <1>4, <2>1, PressTimes DEF TypeOK, Released
    <3>2. TypeOK'
      BY <1>1, <1>4, <3>1 DEF TypeOK, Released, Look
    <3>3. HoldInv'
      BY <1>4, <3>1 DEF TypeOK, HoldInv, Released, RisingEdge, Look
    <3> QED
      BY <3>2, <3>3
  <2>2. CASE ~wait_for_release[b] /\ press_duration[b] >= SHORT_PRESS_TIME
    <3>1. reports[b] = 0 /\ Report(b, "short") /\ reports' = [reports EXCEPT ![b] = 1]
      BY <1>4, <2>2 DEF TypeOK, HoldInv, Released, RisingEdge, Report
    <3>2. TypeOK'
      BY <1>1, <1>4, <3>1 DEF TypeOK, Released, Report, Look, PressState
    <3>3. HoldInv'
      BY <1>4, <3>1 DEF TypeOK, HoldInv, Released, RisingEdge, Look
    <3> QED
      BY <3>2, <3>3
  <2> QED
    BY <2>1, <2>2, PressTimes DEF TypeOK
<1>5. CASE NothingNew(b)
  <2>1. TypeOK'
    BY <1>1, <1>5 DEF TypeOK, NothingNew, Look
  <2>2. HoldInv'
    BY <1>5 DEF TypeOK, HoldInv, NothingNew, Look
  <2> QED
    BY <2>1, <2>2
<1>6. CASE CannotRead(b)
  BY <1>1, <1>6 DEF TypeOK, HoldInv, CannotRead, watchVars, historyVars
<1> QED
  BY <1>2, <1>3, <1>4, <1>5, <1>6

\* So do the rest of a round and the menu, which report no press.
LEMMA MenuStep ==
  ASSUME TypeOK, HoldInv, UNCHANGED <<state, device_name, device_path, down>>,
         \/ Clock \/ Snapshot \/ NextOption \/ Execute \/ KeepLooking \/ OptionShown \/ MenuLeft
  PROVE  TypeOK' /\ HoldInv'
<1>1. /\ UNCHANGED <<is_pressed, wait_for_release, prev_down, born_in_menu, reports>>
      /\ seen' \in [Button -> BOOLEAN] /\ cut_short' \in [Button -> BOOLEAN]
      /\ halt' \in [Devices -> BOOLEAN]
  BY DEF TypeOK, SharedTypeOK, Clock, Snapshot, NextOption, Execute, KeepLooking, OptionShown,
         MenuLeft, SeeBoth, Undecided, watchVars, historyVars
<1>2. button_state' \in [Button -> PressState]
  BY DEF TypeOK, PressState, Clock, Snapshot, NextOption, Execute, KeepLooking, OptionShown,
         MenuLeft, BothReleased
<1>3. press_duration' \in [Button -> 0 .. LONG_PRESS_TIME]
  BY PressTimes DEF TypeOK, Clock, Snapshot, NextOption, Execute, KeepLooking, OptionShown,
         MenuLeft, watchVars
<1>4. command_num' \in 0 .. command_count - 1
  BY CommandCount DEF TypeOK, Clock, Snapshot, NextOption, Execute, KeepLooking, OptionShown,
         MenuLeft
<1>5. gpio' \in {"clock", "poll0", "poll1", "snapshot", "exited"} \cup MenuSteps
  BY DEF TypeOK, Clock, Snapshot, NextOption, Execute, KeepLooking, OptionShown, MenuLeft,
         MenuSteps
<1>6. TypeOK'
  BY <1>1, <1>2, <1>3, <1>4, <1>5 DEF TypeOK, SharedTypeOK
<1> QED
  BY <1>1, <1>6 DEF HoldInv

\* And the main thread and the operator.
LEMMA OthersStep ==
  ASSUME TypeOK, HoldInv, NEW b \in Button, get_button_state(b) \/ Press(b) \/ Release(b)
  PROVE  TypeOK' /\ HoldInv'
<1>1. CASE get_button_state(b)
  BY <1>1 DEF TypeOK, HoldInv, SharedTypeOK, get_button_state, sharedVars, watchVars, historyVars,
     PressState
<1>2. CASE Press(b)
  BY <1>2 DEF TypeOK, HoldInv, SharedTypeOK, Press, sharedVars, watchVars
<1>3. CASE Release(b)
  BY <1>3 DEF TypeOK, HoldInv, SharedTypeOK, Release, sharedVars, watchVars
<1> QED
  BY <1>1, <1>2, <1>3

\* Every step preserves the invariants.
LEMMA ButtonStep == TypeOK /\ HoldInv /\ [Next]_vars => TypeOK' /\ HoldInv'
<1> SUFFICES ASSUME TypeOK, HoldInv, [Next]_vars PROVE TypeOK' /\ HoldInv'
  OBVIOUS
<1>1. CASE ThreadStep
  BY <1>1, LookStep, MenuStep DEF ThreadStep
<1>2. CASE \E b \in Button : get_button_state(b) \/ Press(b) \/ Release(b)
  BY <1>2, OthersStep
<1>3. CASE UNCHANGED vars
  BY <1>3 DEF vars, TypeOK, HoldInv, SharedTypeOK, sharedVars, watchVars, historyVars
<1> QED
  BY <1>1, <1>2, <1>3 DEF Next

-----------------------------------------------------------------------------
\* The variables of the button thread keep to their ranges: the entry of the menu
\* that is shown exists, however often the top button is pressed (gpio.c:222-223).
THEOREM ButtonTyping == Spec => []TypeOK
  BY ButtonInit, ButtonStep, PTL DEF Spec

\* However the buttons bounce and however late presses are fetched, a button that
\* goes down once is reported once at most (gpio.c:304-324).
THEOREM HoldIsOnePress == Spec => []OnePressPerHold
<1>1. HoldInv => OnePressPerHold
  BY DEF HoldInv, OnePressPerHold
<1> QED
  BY <1>1, ButtonInit, ButtonStep, PTL DEF Spec

-----------------------------------------------------------------------------
\* What keeps the presses of the menu in the menu: while it is shown, and afterwards for
\* a button that went down there, no release is due that would make a press, unless the
\* menu cut the hold short.  Only a button that was down at the last look has one due.
Settled(b) == ~Undecided(b) \/ cut_short[b]

MenuInv ==
  /\ \A b \in Button : is_pressed[b] => prev_down[b]
  /\ gpio \in MenuSteps => \A b \in Button : Settled(b)
  /\ gpio \notin MenuSteps \cup {"exited"} =>
       \A b \in Button : born_in_menu[b] => ~down[b] /\ Settled(b)

LEMMA MenuInit == Init => MenuInv
  BY DEF Init, MenuInv, MenuSteps

\* A look at a button leaves the other one alone.
LEMMA MenuLook ==
  ASSUME TypeOK, MenuInv, NEW b \in Button,
         Pressed(b) \/ HeldLong(b) \/ Released(b) \/ NothingNew(b) \/ CannotRead(b),
         UNCHANGED <<state, device_name, device_path, down>>
  PROVE  /\ MenuInv'
         /\ reports'[b] > reports[b] => ~born_in_menu[b] \/ cut_short[b]
         /\ \A c \in Button \ {b} : reports'[c] = reports[c]
<1>1. CASE CannotRead(b)
  BY <1>1 DEF TypeOK, MenuInv, CannotRead, watchVars, historyVars, MenuSteps
<1>2. CASE ~CannotRead(b)
  <2>1. Look(b) /\ gpio \notin MenuSteps \cup {"exited"} /\ gpio' \in {"poll1", "snapshot"}
    BY <1>2 DEF Pressed, HeldLong, Released, NothingNew, Look, MenuSteps, PollStep
  <2>2. /\ \A c \in Button \ {b} :
             /\ is_pressed'[c] = is_pressed[c] /\ wait_for_release'[c] = wait_for_release[c]
             /\ prev_down'[c] = prev_down[c] /\ cut_short'[c] = cut_short[c]
             /\ reports'[c] = reports[c]
        /\ born_in_menu' = born_in_menu
        /\ prev_down'[b] = down[b]
    BY <1>2, <2>1 DEF TypeOK, Pressed, HeldLong, Released, NothingNew, Look, Report
  <2>3. is_pressed'[b] => down[b]
    BY <1>2, <2>1 DEF TypeOK, MenuInv, Pressed, HeldLong, Released, NothingNew, FallingEdge,
       LongPressDue, RisingEdge
  <2>4. ASSUME born_in_menu[b]
        PROVE  ~down[b] /\ ~is_pressed'[b] /\ (reports' = reports \/ cut_short[b])
    <3>1. ~down[b] /\ (~Undecided(b) \/ cut_short[b])
      BY <2>1, <2>4 DEF MenuInv, Settled
    <3>2. reports' = reports \/ Undecided(b)
      BY <1>2, <3>1 DEF TypeOK, Pressed, HeldLong, Released, NothingNew, FallingEdge,
         LongPressDue, RisingEdge, Undecided
    <3> QED
      BY <3>1, <3>2, <2>3
  <2>5. \A c \in Button : is_pressed'[c] => prev_down'[c]
    BY <2>2, <2>3 DEF MenuInv
  <2>6. \A c \in Button : born_in_menu'[c] => ~down'[c] /\ Settled(c)'
    <3>1. \A c \in Button \ {b} : Settled(c)' <=> Settled(c)
      BY <2>2 DEF Settled, Undecided
    <3>2. born_in_menu[b] => Settled(b)'
      BY <2>4 DEF Settled, Undecided
    <3> QED
      BY <3>1, <3>2, <2>1, <2>2, <2>4 DEF MenuInv
  <2>7. MenuInv'
    BY <2>1, <2>5, <2>6 DEF MenuInv, MenuSteps
  <2> QED
    BY <2>2, <2>4, <2>7 DEF TypeOK
<1> QED
  BY <1>1, <1>2

\* The rest of a round, and the menu.
LEMMA MenuRest ==
  ASSUME TypeOK, MenuInv, UNCHANGED <<state, device_name, device_path, down>>,
         \/ Clock \/ Snapshot \/ NextOption \/ Execute \/ KeepLooking \/ OptionShown \/ MenuLeft
  PROVE  MenuInv' /\ reports' = reports
<1>1. UNCHANGED <<is_pressed, wait_for_release, prev_down, born_in_menu, reports, down>>
  BY DEF Clock, Snapshot, NextOption, Execute, KeepLooking, OptionShown, MenuLeft, SeeBoth,
         watchVars, historyVars
<1>2. CASE Snapshot /\ BothButtons
  <2>1. gpio' = "menu" /\ \A b \in Button : cut_short'[b] = Undecided(b)
    BY <1>2 DEF Snapshot
  <2>2. \A b \in Button : Undecided(b)' = Undecided(b)
    BY <1>1 DEF Undecided
  <2>3. \A b \in Button : Settled(b)'
    BY <2>1, <2>2 DEF Settled
  <2> QED
    BY <1>1, <2>1, <2>3 DEF MenuInv, MenuSteps
<1>3. CASE ~(Snapshot /\ BothButtons)
  <2>1. cut_short' = cut_short
    BY <1>3 DEF Clock, Snapshot, NextOption, Execute, KeepLooking, OptionShown, MenuLeft, SeeBoth,
       historyVars
  <2>2. \A b \in Button : Settled(b)' = Settled(b)
    BY <1>1, <2>1 DEF Settled, Undecided
  <2>3. CASE Clock \/ Snapshot
    BY <1>1, <1>3, <2>2, <2>3 DEF Clock, Snapshot, MenuInv, MenuSteps
  <2>4. CASE NextOption \/ Execute \/ KeepLooking \/ OptionShown
    BY <1>1, <2>2, <2>4 DEF NextOption, Execute, KeepLooking, OptionShown, MenuInv, MenuSteps
  <2>5. CASE MenuLeft
    BY <1>1, <2>2, <2>5 DEF MenuLeft, BothReleased, MenuInv, MenuSteps
  <2> QED
    BY <2>3, <2>4, <2>5
<1> QED
  BY <1>1, <1>2, <1>3

\* The main thread and the operator.
LEMMA MenuOthers ==
  ASSUME TypeOK, MenuInv, NEW b \in Button, get_button_state(b) \/ Press(b) \/ Release(b)
  PROVE  MenuInv' /\ \A c \in Button : reports'[c] = reports[c] \/ reports'[c] = 0
<1>1. UNCHANGED <<is_pressed, wait_for_release, prev_down, cut_short, gpio>>
  BY DEF get_button_state, Press, Release, watchVars, historyVars
<1>2. \A c \in Button : Settled(c)' = Settled(c)
  BY <1>1 DEF Settled, Undecided
<1>3. CASE get_button_state(b)
  BY <1>1, <1>2, <1>3 DEF MenuInv, get_button_state, historyVars, MenuSteps
<1>4. CASE Press(b)
  BY <1>1, <1>2, <1>4 DEF TypeOK, MenuInv, Press, MenuSteps
<1>5. CASE Release(b)
  BY <1>1, <1>2, <1>5 DEF TypeOK, MenuInv, Release, MenuSteps
<1> QED
  BY <1>3, <1>4, <1>5

\* However the buttons bounce and however late the main thread fetches presses, a press
\* that was made in the menu is reported after it only if the menu had cut short an
\* earlier hold of that button (gpio.c:211-262, 304-324, 359-377).
THEOREM MenuKeepsPresses == Spec => MenuKeepsItsPresses
<1> DEFINE Kept == \A b \in Button : reports'[b] > reports[b] => ~born_in_menu[b] \/ cut_short[b]
<1>1. ASSUME TypeOK, MenuInv, [Next]_vars
      PROVE  MenuInv' /\ Kept
  <2>0. \A b \in Button : reports[b] \in 0 .. 2
    BY <1>1 DEF TypeOK
  <2>1. ASSUME NEW b \in Button, UNCHANGED <<state, device_name, device_path, down>>,
               Pressed(b) \/ HeldLong(b) \/ Released(b) \/ NothingNew(b) \/ CannotRead(b)
        PROVE  MenuInv' /\ Kept
    <3>1. /\ MenuInv'
          /\ reports'[b] > reports[b] => ~born_in_menu[b] \/ cut_short[b]
          /\ \A c \in Button \ {b} : reports'[c] = reports[c]
      BY <1>1, <2>1, MenuLook
    <3> QED
      BY <2>0, <3>1
  <2>2. CASE /\ UNCHANGED <<state, device_name, device_path, down>>
             /\ \/ Clock \/ Snapshot \/ NextOption \/ Execute \/ KeepLooking \/ OptionShown
                \/ MenuLeft
    BY <1>1, <2>0, <2>2, MenuRest
  <2>3. CASE \E b \in Button : get_button_state(b) \/ Press(b) \/ Release(b)
    BY <1>1, <2>0, <2>3, MenuOthers
  <2>4. CASE UNCHANGED vars
    BY <1>1, <2>0, <2>4 DEF vars, MenuInv, watchVars, historyVars, Settled, Undecided
  <2> QED
    BY <1>1, <2>1, <2>2, <2>3, <2>4 DEF Next, ThreadStep
<1>2. TypeOK /\ MenuInv /\ [Next]_vars => [Kept]_vars
  BY <1>1
<1>3. MenuInv /\ TypeOK /\ [Next]_vars => MenuInv'
  BY <1>1
<1> QED
  BY <1>2, <1>3, MenuInit, ButtonTyping, PTL DEF Spec, MenuKeepsItsPresses
====
