----------------------------- MODULE Interlock -----------------------------
(***************************************************************************)
(* What the controller promises about the power stage, whoever drives it:  *)
(* the stage is switched on only when no trip is resting and no sensor is  *)
(* being measured; a rest is waited for second by second, prolonged by     *)
(* trips, and waived by nobody who works at the bench in manual mode.      *)
(*                                                                         *)
(* MpptControl implements this specification (its RefinesInterlock).       *)
(***************************************************************************)
EXTENDS Integers

VARIABLES
  on,         \* the converter switches
  rest,       \* what is left of the rest behind a trip
  measuring,  \* the sensors are being zeroed
  bench       \* manual mode

Init == ~on /\ rest = 0 /\ measuring \in BOOLEAN /\ bench \in BOOLEAN

SwitchOn ==
  /\ ~on /\ rest = 0 /\ ~measuring
  /\ on'
  /\ UNCHANGED <<rest, measuring, bench>>

\* stopping, with a rest behind it or none, and with a measurement or none
SwitchOff ==
  /\ ~on'
  /\ rest' \in Nat /\ rest' >= rest
  /\ measuring' \in BOOLEAN
  /\ UNCHANGED bench

Rest == rest > 0 /\ rest' = rest - 1 /\ UNCHANGED <<on, measuring, bench>>

Waive == rest' = 0 /\ ~bench' /\ ~on' /\ measuring' \in {measuring, TRUE}

Measured == measuring' = FALSE /\ UNCHANGED <<on, rest, bench>>

ToBench == bench' \in BOOLEAN /\ UNCHANGED <<on, rest, measuring>>

Next == SwitchOn \/ SwitchOff \/ Rest \/ Waive \/ Measured \/ ToBench

Spec == Init /\ [][Next]_<<on, rest, measuring, bench>>
=============================================================================
