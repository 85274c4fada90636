------------------------------ MODULE StartGate ------------------------------
(***************************************************************************)
(* The gate of loopRTNewData() (main.cpp) in front of an automatic scan: a *)
(* scan ramps the duty up and dumps a charge pulse into the battery, so it *)
(* is held back while the pack is full, and for a while when a BMS is      *)
(* configured but has not told yet.  With it, what it reads of the charger *)
(* (charger.h): the age of the last cell voltage, a 32-bit difference of   *)
(* microseconds, and the termination decided by the low-frequency loop.    *)
(*                                                                         *)
(* The BMS is known once the MQTT service has subscribed to it, which it   *)
(* does when the network is up.  Its frames may come, stop and come again  *)
(* at any time.                                                            *)
(***************************************************************************)
EXTENDS Integers

CONSTANTS
  Expiry,   \* VCELL_EXPIRATION_TIME_SEC
  Wrap,     \* where a 32-bit microsecond counter wraps (71 min)
  Wait,     \* BMS_BOOT_WAIT_US
  Warm      \* IBAT_MIN_SAMPLES

ASSUME TimesAssumption ==
  /\ Wait \in Nat \ {0} /\ Expiry \in Nat /\ Wrap \in Nat
  /\ Wait < Expiry /\ Expiry < Wrap
  /\ Warm \in Nat \ {0}

VARIABLES
  status,    \* of the controller: "running", "blocked" (startCondition), "ready"
  source,    \* hasBmsCellSource()
  cell,      \* highest cell: "none" yet, "low", "between", "full"
  age,       \* now - vcell_high_t, in the 32 bits of the code
  samples,   \* battery currents seen, up to the warm-up
  term,      \* termCond
  decided,   \* _termDecided
  deadline,  \* bmsBootDeadline: not set, or what is left of it
  wasFresh   \* bmsWasFresh

bms     == <<source, cell, age, samples>>
charger == <<term, decided>>
gate    == <<deadline, wasFresh>>
gateVars == <<status, bms, charger, gate>>

NoDeadline == [set |-> FALSE, left |-> 0]
FullWait == [set |-> TRUE, left |-> Wait]

\* begin() starts a scan of its own, before any frame
GateInit ==
  /\ status = "running"
  /\ source = FALSE /\ cell = "none" /\ age = 0 /\ samples = 0
  /\ term = FALSE /\ decided = FALSE
  /\ deadline = NoDeadline /\ wasFresh = FALSE

\* haveValidCellVoltage()
Fresh == cell # "none" /\ age < Expiry

-----------------------------------------------------------------------------
(* The gate: static variables and a verdict, evaluated on every sample     *)
(* while the controller is ready.                                          *)

Full == term /\ Fresh
WaitingForFrame == source /\ ~Fresh
WaitingForBms == source /\ (~decided \/ ~Fresh)

ResetWhileStale ==
  LET kept == IF ~Fresh THEN NoDeadline ELSE deadline
  IN  IF WaitingForBms /\ ~kept.set THEN FullWait ELSE kept

\* the window is set when the gate begins to wait, anew after an outage
NewDeadline ==
  LET kept == IF wasFresh /\ ~Fresh THEN NoDeadline ELSE deadline
  IN  IF WaitingForBms /\ ~kept.set THEN FullWait ELSE kept

Elapsed == NewDeadline.set /\ NewDeadline.left = 0
Admits == ~Full /\ (~WaitingForBms \/ Elapsed)
Settled == NewDeadline = deadline /\ wasFresh = Fresh /\ ~Admits

\* loopRTNewData() of a controller that may start
Gate ==
  /\ status = "ready"
  /\ deadline' = NewDeadline
  /\ wasFresh' = Fresh
  /\ status' = IF Admits THEN "running" ELSE "ready"
  /\ UNCHANGED <<bms, charger>>

-----------------------------------------------------------------------------
(* What the gate looks at.                                                 *)

\* beginMqtt(), from the start of the MQTT service
Subscribe ==
  /\ source' = TRUE
  /\ UNCHANGED <<status, cell, age, samples, charger, gate>>

\* setVcellHigh(), on a frame of the BMS
CellFrame(v) ==
  /\ source
  /\ cell' = v /\ age' = 0
  /\ UNCHANGED <<status, source, samples, charger, gate>>

\* updateBatCurrent()
CurrentFrame ==
  /\ source /\ samples < Warm
  /\ samples' = samples + 1
  /\ UNCHANGED <<status, source, cell, age, charger, gate>>

\* _updateTermination(), from the low-frequency loop: latched by a full cell,
\* released by a low one or by the charge drawn since (`drawn`)
UpdateTermination(drawn) ==
  /\ Fresh /\ samples = Warm
  /\ decided' = TRUE
  /\ \/ ~term /\ term' \in {FALSE, cell = "full"}   \* not while it is discharged
     \/ term /\ term' = ~(cell = "low" \/ drawn)
     \/ term /\ cell = "low" /\ term' = TRUE   \* the streak is not long enough
  /\ UNCHANGED <<status, bms, gate>>

\* the scan or the converter ends in a trip, a backoff or the dark
Stop == status = "running" /\ status' = "blocked" /\ UNCHANGED <<bms, charger, gate>>

\* startCondition() comes and goes
Unblock == status = "blocked" /\ status' = "ready" /\ UNCHANGED <<bms, charger, gate>>
Block == status = "ready" /\ status' = "blocked" /\ UNCHANGED <<bms, charger, gate>>

\* Time passes, much slower than the samples on which the gate is evaluated.
Tick ==
  /\ status = "ready" => Settled
  /\ age' = IF cell = "none" THEN age ELSE (age + 1) % Wrap
  /\ deadline' = [deadline EXCEPT !.left = IF @ > 0 THEN @ - 1 ELSE 0]
  /\ UNCHANGED <<status, source, cell, samples, charger, wasFresh>>

GateNext ==
  \/ Gate
  \/ Subscribe
  \/ \E v \in {"low", "between", "full"} : CellFrame(v)
  \/ CurrentFrame
  \/ \E drawn \in BOOLEAN : UpdateTermination(drawn)
  \/ Stop \/ Unblock \/ Block
  \/ Tick

GateSpec == GateInit /\ [][GateNext]_gateVars

-----------------------------------------------------------------------------
(* Properties.                                                             *)

\* The gate never holds a controller for good: whatever the BMS does, frames
\* that stop, come back or never come, a ready controller starts, is blocked by
\* something else, or has a pack that is known to be full.
GateOpens == (status = "ready") ~> (status # "ready" \/ Full)
=============================================================================
