------------------------------ MODULE Buttons ------------------------------
(***************************************************************************)
(* The two push buttons (gpio.c).  A thread of the server looks at both    *)
(* lines every 50 ms, tells short from long presses, and leaves at most    *)
(* one press per button for the main thread to fetch.  A long press of one *)
(* button while the other's press is pending opens the system menu, which  *)
(* the thread then runs itself until a command is chosen.                  *)
(*                                                                         *)
(* Time is counted in polls.  The main thread fetches presses when it      *)
(* likes.  What the code takes for granted about the operator holds with   *)
(* Disturbances = {}, and each element lifts one assumption.               *)
(***************************************************************************)
EXTENDS SharedData

CONSTANTS
  SHORT_PRESS_TIME,   \* polls a button is down at least to count as pressed
  LONG_PRESS_TIME,    \* polls after which a press is a long one
  command_count,      \* entries of the menu; the first one restarts the server
  LinesMayFail,       \* whether reading a line may fail
  Disturbances        \* the assumptions that are lifted

KnownDisturbances ==
  {"bounce"}    \* a button moves faster than the thread looks, or while it looks

ASSUME PressTimes ==
  /\ SHORT_PRESS_TIME \in Nat /\ LONG_PRESS_TIME \in Nat
  /\ 0 < SHORT_PRESS_TIME /\ SHORT_PRESS_TIME < LONG_PRESS_TIME
ASSUME CommandCount == command_count \in Nat \ {0}
ASSUME ButtonDisturbances == Disturbances \subseteq KnownDisturbances /\ LinesMayFail \in BOOLEAN

VARIABLES
  down,               \* [Button -> BOOLEAN]: the button is held down
  button_state,       \* [Button -> PressState]: the press to be fetched
  is_pressed,         \* [Button -> BOOLEAN]: the thread saw the button go down
  wait_for_release,   \* [Button -> BOOLEAN]: the long press has been reported
  prev_down,          \* [Button -> BOOLEAN]: the last look at the line
  press_duration,     \* [Button -> 0 .. LONG_PRESS_TIME]: polls since it went down
  gpio,               \* the step of the thread, "exited" when it ended the server
  command_num         \* the entry of the menu that is shown

\* History: whether the thread has seen the last move of a button, whether it went
\* down while the menu was shown, how many presses were made of this hold, and whether
\* the menu opened in the middle of a hold and the thread has not looked since.
VARIABLES seen, born_in_menu, reports, cut_short

watchVars == <<is_pressed, wait_for_release, prev_down, press_duration>>
historyVars == <<seen, born_in_menu, reports, cut_short>>
vars == <<sharedVars, down, button_state, watchVars, gpio, command_num, historyVars>>

Button == {0, 1}   \* 0 is the top button, 1 the bottom one
PressState == {"none", "short", "long"}
MenuSteps == {"menu", "next", "leave"}

TypeOK ==
  /\ SharedTypeOK
  /\ down \in [Button -> BOOLEAN] /\ button_state \in [Button -> PressState]
  /\ is_pressed \in [Button -> BOOLEAN] /\ wait_for_release \in [Button -> BOOLEAN]
  /\ prev_down \in [Button -> BOOLEAN] /\ press_duration \in [Button -> 0 .. LONG_PRESS_TIME]
  /\ gpio \in {"clock", "poll0", "poll1", "snapshot", "exited"} \cup MenuSteps
  /\ command_num \in 0 .. command_count - 1
  /\ seen \in [Button -> BOOLEAN] /\ born_in_menu \in [Button -> BOOLEAN]
  /\ reports \in [Button -> 0 .. 2] /\ cut_short \in [Button -> BOOLEAN]

Init ==
  /\ SharedInit([d \in Devices |-> NoPath])
  /\ down = [b \in Button |-> FALSE] /\ button_state = [b \in Button |-> "none"]
  /\ is_pressed = [b \in Button |-> FALSE] /\ wait_for_release = [b \in Button |-> FALSE]
  /\ prev_down = [b \in Button |-> FALSE]
  /\ press_duration = [b \in Button |-> LONG_PRESS_TIME]
  /\ gpio = "clock" /\ command_num = 0
  /\ seen = [b \in Button |-> TRUE] /\ born_in_menu = [b \in Button |-> FALSE]
  /\ reports = [b \in Button |-> 0] /\ cut_short = [b \in Button |-> FALSE]

-----------------------------------------------------------------------------
\* One round of the thread.

\* The time of the round, for both buttons; only whether a press is long matters.
Clock ==
  /\ gpio = "clock" /\ gpio' = "poll0"
  /\ press_duration' = [b \in Button |->
       IF press_duration[b] < LONG_PRESS_TIME THEN press_duration[b] + 1 ELSE LONG_PRESS_TIME]
  /\ UNCHANGED <<is_pressed, wait_for_release, prev_down, button_state, command_num, halt,
                 historyVars>>

PollStep(b) == IF b = 0 THEN "poll0" ELSE "poll1"

\* Button b is looked at; it is done with in this round.
Look(b) ==
  /\ gpio = PollStep(b)
  /\ gpio' = IF b = 0 THEN "poll1" ELSE "snapshot"
  /\ prev_down' = [prev_down EXCEPT ![b] = down[b]]
  /\ seen' = [seen EXCEPT ![b] = TRUE]
  /\ cut_short' = [cut_short EXCEPT ![b] = FALSE]
  /\ UNCHANGED <<command_num, halt, born_in_menu>>

Report(b, press) ==
  /\ button_state' = [button_state EXCEPT ![b] = press]
  /\ reports' = [reports EXCEPT ![b] = IF @ < 2 THEN @ + 1 ELSE 2]

FallingEdge(b) == down[b] /\ ~prev_down[b]

LongPressDue(b) ==
  ~FallingEdge(b) /\ press_duration[b] >= LONG_PRESS_TIME /\ down[b] /\ ~wait_for_release[b]

RisingEdge(b) == ~down[b] /\ prev_down[b] /\ is_pressed[b]


Pressed(b) ==
  /\ Look(b) /\ FallingEdge(b)
  /\ wait_for_release' = [wait_for_release EXCEPT ![b] = FALSE]
  /\ press_duration' = [press_duration EXCEPT ![b] = 0]
  /\ is_pressed' = [is_pressed EXCEPT ![b] = TRUE]
  /\ UNCHANGED <<button_state, reports>>

HeldLong(b) ==
  /\ Look(b) /\ LongPressDue(b)
  /\ Report(b, "long")
  /\ wait_for_release' = [wait_for_release EXCEPT ![b] = TRUE]
  /\ UNCHANGED <<press_duration, is_pressed>>

\* Faulty variant of Released: the release of a long press is a short one, too.
ReleasedAnyway(b) ==
  /\ Look(b) /\ RisingEdge(b)
  /\ IF press_duration[b] >= SHORT_PRESS_TIME
     THEN Report(b, "short") ELSE UNCHANGED <<button_state, reports>>
  /\ is_pressed' = [is_pressed EXCEPT ![b] = FALSE]
  /\ UNCHANGED <<press_duration, wait_for_release>>

Released(b) ==
  /\ Look(b) /\ RisingEdge(b)
  /\ IF ~wait_for_release[b] /\ press_duration[b] >= SHORT_PRESS_TIME
     THEN Report(b, "short") ELSE UNCHANGED <<button_state, reports>>
  /\ is_pressed' = [is_pressed EXCEPT ![b] = FALSE]
  /\ UNCHANGED <<press_duration, wait_for_release>>

NothingNew(b) ==
  /\ Look(b) /\ ~FallingEdge(b) /\ ~LongPressDue(b) /\ ~RisingEdge(b)
  /\ UNCHANGED <<is_pressed, wait_for_release, press_duration, button_state, reports>>

\* A line that cannot be read ends the server.
CannotRead(b) ==
  /\ LinesMayFail
  /\ gpio = PollStep(b) /\ gpio' = "exited"
  /\ UNCHANGED <<watchVars, button_state, command_num, halt, historyVars>>

BothButtons ==
  \E b \in Button : button_state[b] = "long" /\ button_state[1 - b] # "none"

\* The release of this hold is still to be dealt with: as a press, if it was long enough.
Undecided(b) == is_pressed[b] /\ ~wait_for_release[b]

\* The menu halts every client; otherwise the LEDs are brought up to date.
Snapshot ==
  /\ gpio = "snapshot"
  /\ IF BothButtons
     THEN /\ gpio' = "menu" /\ command_num' = 0 /\ halt' = [d \in Devices |-> TRUE]
          /\ cut_short' = [b \in Button |-> Undecided(b)]
     ELSE gpio' = "clock" /\ UNCHANGED <<command_num, halt, cut_short>>
  /\ UNCHANGED <<watchVars, button_state, seen, born_in_menu, reports>>

-----------------------------------------------------------------------------
\* display_system_menu, and wait_for_button_release with which its steps end.

SeeBoth == seen' = [b \in Button |-> TRUE] /\ UNCHANGED <<born_in_menu, reports, cut_short>>

\* Faulty variant of NextOption: the menu does not start over after its last entry.
NextOptionUnbounded ==
  /\ gpio = "menu" /\ down[0]
  /\ command_num' = command_num + 1
  /\ gpio' = "next" /\ SeeBoth
  /\ UNCHANGED <<watchVars, button_state, halt>>

NextOption ==
  /\ gpio = "menu" /\ down[0]
  /\ command_num' = (command_num + 1) % command_count
  /\ gpio' = "next" /\ SeeBoth
  /\ UNCHANGED <<watchVars, button_state, halt>>

\* "Restart" ends the server, every other command leaves the menu.
Execute ==
  /\ gpio = "menu" /\ down[1] /\ ~down[0]
  /\ gpio' = IF command_num = 0 THEN "exited" ELSE "leave"
  /\ SeeBoth
  /\ UNCHANGED <<watchVars, button_state, command_num, halt>>

KeepLooking ==
  /\ gpio \in MenuSteps /\ seen # [b \in Button |-> TRUE]
  /\ SeeBoth
  /\ UNCHANGED <<watchVars, button_state, gpio, command_num, halt>>

\* Pending presses are thrown away.
BothReleased ==
  /\ \A b \in Button : ~down[b]
  /\ button_state' = [b \in Button |-> "none"]

OptionShown ==
  /\ gpio = "next" /\ gpio' = "menu"
  /\ BothReleased /\ SeeBoth
  /\ UNCHANGED <<watchVars, command_num, halt>>

\* Faulty variant of MenuLeft: nobody waits for the buttons.
MenuLeftAtOnce ==
  /\ gpio = "leave" /\ gpio' = "clock"
  /\ button_state' = [b \in Button |-> "none"]
  /\ seen' = [b \in Button |-> FALSE]
  /\ UNCHANGED <<watchVars, command_num, halt, born_in_menu, reports, cut_short>>

\* The thread goes back to its rounds; it will look again when the LEDs are set.
MenuLeft ==
  /\ gpio = "leave" /\ gpio' = "clock"
  /\ BothReleased
  /\ seen' = [b \in Button |-> FALSE]
  /\ \E now \in [Button -> 0 .. LONG_PRESS_TIME] :
       /\ \A b \in Button : now[b] >= press_duration[b]
       /\ press_duration' = now
  /\ UNCHANGED <<is_pressed, wait_for_release, prev_down, command_num, halt, born_in_menu, reports,
                 cut_short>>

ThreadStep ==
  /\ \/ Clock \/ Snapshot
     \/ \E b \in Button : Pressed(b) \/ HeldLong(b) \/ Released(b) \/ NothingNew(b) \/ CannotRead(b)
     \/ NextOption \/ Execute \/ KeepLooking \/ OptionShown \/ MenuLeft
  /\ UNCHANGED <<state, device_name, device_path, down>>

-----------------------------------------------------------------------------
\* get_button_state0 and get_button_state1, called by the main thread.
get_button_state(b) ==
  /\ gpio # "exited"
  /\ button_state[b] # "none"
  /\ button_state' = [button_state EXCEPT ![b] = "none"]
  /\ UNCHANGED <<sharedVars, down, watchVars, gpio, command_num, historyVars>>

\* The looks of one round are microseconds apart: a button moves between rounds.
MayMove(b) ==
  /\ gpio # "exited"
  /\ (gpio \in {"clock"} \cup MenuSteps /\ seen[b]) \/ "bounce" \in Disturbances

Press(b) ==
  /\ ~down[b] /\ MayMove(b)
  /\ down' = [down EXCEPT ![b] = TRUE]
  /\ seen' = [seen EXCEPT ![b] = FALSE]
  /\ born_in_menu' = [born_in_menu EXCEPT ![b] = gpio \in MenuSteps]
  /\ reports' = [reports EXCEPT ![b] = 0]
  /\ UNCHANGED <<sharedVars, button_state, watchVars, gpio, command_num, cut_short>>

Release(b) ==
  /\ down[b] /\ MayMove(b)
  /\ down' = [down EXCEPT ![b] = FALSE]
  /\ seen' = [seen EXCEPT ![b] = FALSE]
  /\ UNCHANGED <<sharedVars, button_state, watchVars, gpio, command_num, born_in_menu, reports,
                 cut_short>>

Next ==
  \/ ThreadStep
  \/ \E b \in Button : get_button_state(b) \/ Press(b) \/ Release(b)

Spec == Init /\ [][Next]_vars

\* The thread goes on; the main thread and the operator need not do anything.
FairSpec == Spec /\ WF_vars(ThreadStep)

-----------------------------------------------------------------------------
\* A button that goes down once is one press at most: a long press is not followed
\* by a short one when it ends, nor repeated, nor seen again after the menu.
OnePressPerHold == \A b \in Button : reports[b] <= 1

\* What is pressed in the menu is for the menu: it reaches no hub, where a short press
\* would start a job and a long one cancel it, however late presses are fetched.  The
\* one exception is a button that was down when the menu opened and had not been
\* reported: its release after the menu still makes a press.
MenuKeepsItsPresses ==
  [][\A b \in Button : reports'[b] > reports[b] => ~born_in_menu[b] \/ cut_short[b]]_vars

\* "Both buttons held - show system menu": whoever opens the menu holds both.
MenuNeedsBoth ==
  [][Snapshot /\ BothButtons => \A b \in Button : down[b]]_vars

\* "TOP for next option, BOTTOM to execute": a command is executed by a press made
\* while it is shown, not by the hold that opened the menu.
CommandIsChosen == [][Execute => born_in_menu[1]]_vars


-----------------------------------------------------------------------------
\* The argument for OnePressPerHold: a hold that has been reported is one that still
\* waits for its release, or one whose release the thread has dealt with.
HoldInv ==
  \A b \in Button :
    /\ reports[b] <= 1
    /\ reports[b] = 1 /\ down[b] => wait_for_release[b] /\ prev_down[b]
    /\ reports[b] = 1 /\ ~down[b] => wait_for_release[b] \/ ~is_pressed[b]
=============================================================================
