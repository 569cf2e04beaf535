------------------------------ MODULE Transfer ------------------------------
(***************************************************************************)
(* What Client and Startup take for granted about a copy, which is one     *)
(* step there: it ends; if it reports success and was not asked to halt,   *)
(* everything has been copied.                                             *)
(***************************************************************************)
VARIABLES
  status,    \* "idle", "copying", "ok", "failed"
  whole,     \* everything is on the target
  halt

transferVars == <<status, whole, halt>>

Init == status = "idle" /\ whole \in BOOLEAN /\ halt = FALSE

Start == status = "idle" /\ status' = "copying" /\ whole' \in BOOLEAN /\ UNCHANGED halt

Work == status = "copying" /\ UNCHANGED <<status, halt>> /\ whole' \in BOOLEAN

Succeed ==
  /\ status = "copying" /\ status' = "ok"
  /\ whole' \in BOOLEAN /\ (~halt => whole')
  /\ UNCHANGED halt

GiveUp == status = "copying" /\ status' = "failed" /\ whole' \in BOOLEAN /\ UNCHANGED halt

AskToHalt == halt' = TRUE /\ UNCHANGED <<status, whole>>

\* What was written is not what reads back.
Decay == status = "ok" /\ whole' = FALSE /\ UNCHANGED <<status, halt>>

Next == Start \/ Work \/ Succeed \/ GiveUp \/ AskToHalt \/ Decay

SafeSpec == Init /\ [][Next]_transferVars

Spec == SafeSpec /\ WF_transferVars(Succeed \/ GiveUp)
=============================================================================
