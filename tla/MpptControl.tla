---------------------------- MODULE MpptControl ----------------------------
(***************************************************************************)
(* The controller of src/src/mppt.h, mppt.cpp and the RT loop of main.cpp  *)
(* that drives it: protection trips and their backoff, the calibration and *)
(* global scan that start the converter, the control loop, and the manual  *)
(* PWM mode of the console.                                                *)
(*                                                                         *)
(* One step is one handler: a tick of the RT loop, a pass of a watchdog of *)
(* the low-frequency loop, a console command.  What the sensors say enters *)
(* as the verdict of the conditions the code computes from them.  Time is  *)
(* Tick; deadlines are kept as what is left of them.                       *)
(***************************************************************************)
EXTENDS Integers

CONSTANTS
  CtrlMax,       \* pwmCtrlMax
  Steps,         \* steps one tick of the control loop may round to
  ShortBackoff,  \* shutdownDcdc's default (5 s)
  LongBackoff,   \* over-current, short circuit, fruitless scan (30 s)
  StopDelay,     \* stopAndBackoff(4): added start delay
  StallDelay,    \* stopAndBackoff(16)
  SweepDelay,    \* delay behind an automatic start (4 s)
  RampStep,      \* step of the manual ramp
  Paranoia,      \* limits.reverse_current_paranoia
  Boost,         \* converter.boost()
  BootTargets,   \* configured duty caps: {0}, or counts of target_duty_cycle
  Trips,         \* verdicts of protect() that end in a trip
  LfTrips,       \* failing verdicts of protectLf()
  DcTargets,     \* duties of the `dc` command
  ManualSteps    \* steps of the `+N` and `-N` commands

ASSUME CountsAssumption ==
  /\ CtrlMax \in Nat /\ CtrlMax >= 2
  /\ RampStep \in Nat \ {0}
  /\ Steps \subseteq Int /\ 0 \in Steps
  /\ BootTargets \subseteq 0..CtrlMax
  /\ DcTargets \subseteq 0..CtrlMax
  /\ ManualSteps \subseteq Int

ASSUME DelaysAssumption ==
  /\ ShortBackoff \in Nat \ {0} /\ LongBackoff \in Nat
  /\ ShortBackoff < LongBackoff
  /\ StopDelay \in Nat /\ StallDelay \in Nat /\ SweepDelay \in Nat

ASSUME InputsAssumption ==
  /\ Paranoia \in BOOLEAN /\ Boost \in BOOLEAN
  /\ Trips \subseteq {"brief", "long", "ovLasting"}
  /\ LfTrips \subseteq {"supplyUV", "undetected", "temp"}

VARIABLES
  pwmCtrl,      \* converter: on-counts of the control FET, 0: disabled()
  bflow,        \* state of the backflow switch
  sweeping,     \* _sweeping
  calibrating,  \* sampler.isCalibrating()
  backoff,      \* left: rest of _backoffUntilUs, len: _backoffArmedSec
  delay,        \* rest of delayStartUntil
  due,          \* the last calibration is more than 30 min old
  vbat,         \* charger.params.haveVbatMax()
  mpp,          \* duty of maxPowerPoint, 0: nothing captured
  target,       \* targetDutyCycle, 0: none
  limiting,     \* ctrlState._limiting
  mode,         \* ctrlState.mode; CP is counted as CC
  manual,       \* g_app.manualPwm
  manualTarget, \* manualTarget
  bootTarget    \* targetPwmCnt

stage   == <<pwmCtrl, bflow>>
timing  == <<backoff, delay, due>>
scan    == <<sweeping, calibrating, mpp, target>>
control == <<limiting, mode, vbat>>
bench   == <<manual, manualTarget, bootTarget>>
vars    == <<stage, timing, scan, control, bench>>

CtrlMin == 1
Modes == {"None", "CV", "CC", "MPPT", "Sweep"}
NoBackoff == [left |-> 0, len |-> 0]

Disabled == pwmCtrl = 0
InBackoff == backoff.left > 0
ActiveForgetsScan == calibrating \/ ~Disabled

\* active()
Active == sweeping \/ calibrating \/ ~Disabled

\* startCondition(): `ok` stands for temperature, voltages and supply
StartCondition(ok) == ~InBackoff /\ ok /\ ~calibrating

Limit(x, low, high) == IF x < low THEN low ELSE IF x > high THEN high ELSE x

\* begin(): a configured duty cap boots into manual mode, else into a scan
Init ==
  /\ pwmCtrl = 0 /\ mpp = 0 /\ target = 0
  /\ backoff = NoBackoff /\ delay = 0 /\ due = FALSE
  /\ limiting = FALSE /\ mode = "None" /\ vbat = TRUE
  /\ \/ /\ bootTarget \in BootTargets \ {0}
        /\ manual = TRUE /\ sweeping = FALSE /\ calibrating = FALSE
        /\ bflow = ~Paranoia
     \/ /\ bootTarget = 0 /\ 0 \in BootTargets
        /\ manual = FALSE /\ sweeping = TRUE /\ calibrating = TRUE
        /\ bflow = FALSE
  /\ manualTarget = bootTarget

-----------------------------------------------------------------------------
(* Pieces of handlers.                                                     *)

ArmAlways(timer, sec) ==
  IF sec > 0 THEN [left |-> sec, len |-> sec] ELSE timer

\* the backoff timer of shutdownDcdc(): armed on entry and by a longer trip
Arm(timer, sec) ==
  IF sec > 0 /\ (timer.left = 0 \/ sec > timer.len)
    THEN [left |-> sec, len |-> sec] ELSE timer

\* shutdownDcdc() with a backoff of sec > 0, which also ends a scan
Shutdown(sec) ==
  /\ pwmCtrl' = 0 /\ bflow' = FALSE
  /\ backoff' = Arm(backoff, sec)
  /\ sweeping' = FALSE

\* stopAndBackoff()
StopAndBackoff(sec) == Shutdown(ShortBackoff) /\ delay' = sec

StartSweepRunning ==
  /\ sweeping' = TRUE /\ calibrating' = TRUE /\ mpp' = 0 /\ target' = 0
  /\ limiting' = FALSE
  /\ UNCHANGED pwmCtrl

\* startSweep(): a scan begins with a calibration of the disabled converter
StartSweep ==
  /\ sweeping' = TRUE /\ calibrating' = TRUE /\ mpp' = 0 /\ target' = 0
  /\ limiting' = FALSE
  /\ pwmCtrl' = 0

\* abortSweep()
AbortSweep == sweeping' = FALSE /\ mpp' = 0 /\ target' = 0

\* pwmPerturb() on the control count alone; module Converter has the rest
Perturbed(ctrl, step) == IF step = 0 THEN ctrl ELSE Limit(ctrl + step, CtrlMin, CtrlMax)

Up == {s \in Steps : s >= 0}
Down == {s \in Steps : s <= 0}

-----------------------------------------------------------------------------
(* loopRTNewData(): a tick of the RT loop with new data.  The sampler      *)
(* reports no new data while it calibrates, so nothing below runs then.    *)

\* protect() and protectLf() let an enabled converter pass.  `weak`: a reverse
\* or low current has opened the backflow switch; an unknown battery voltage
\* has been detected on the way.
Protected(weak) ==
  /\ ~calibrating
  /\ weak => ~Disabled
  /\ vbat' = (vbat \/ ~Disabled)

\* the backoff a verdict of protect() asks for
TripSeconds(trip) ==
  CASE trip = "pass" -> 0 [] trip = "long" -> LongBackoff [] OTHER -> ShortBackoff

\* protect() or protectLf() fails; protectLf() is called in either case, and
\* stopAndBackoff() ends the tick.  A lasting over-voltage forgets the battery
\* voltage and calibrates to detect it anew, as does a failing detection.
RtTrip(trip, lfTrip) ==
  LET known == vbat /\ trip # "ovLasting"
  IN  /\ ~calibrating /\ ~Disabled
      /\ trip # "pass" \/ lfTrip # "pass"
      /\ lfTrip = "supplyUV" => ~manual
      /\ lfTrip = "undetected" => ~known
      /\ pwmCtrl' = 0 /\ bflow' = FALSE
      /\ backoff' = Arm(Arm(backoff, TripSeconds(trip)), ShortBackoff)
      /\ sweeping' = FALSE /\ delay' = StopDelay
      /\ calibrating' = (trip = "ovLasting" \/ lfTrip = "undetected")
      /\ vbat' = (known \/ lfTrip \in {"pass", "temp"})
      /\ UNCHANGED <<due, mpp, target, limiting, mode, bench>>

\* A reverse current with a high average shuts down but lets protect() go on
\* and pass; the update that follows finds a backoff.
RtReverseHigh(newSample) ==
  /\ ~calibrating /\ ~Disabled
  /\ Shutdown(ShortBackoff)
  /\ vbat' = TRUE
  /\ mode' = IF newSample THEN "None" ELSE mode
  /\ UNCHANGED <<delay, due, calibrating, mpp, target, limiting, bench>>

\* the channel that clocks the control loop has no new sample
RtNoNewSample(weak) ==
  /\ ~Disabled /\ Protected(weak)
  /\ bflow' = (bflow /\ ~weak)
  /\ UNCHANGED <<pwmCtrl, timing, scan, limiting, mode, bench>>

\* an idle controller starts a scan; `admitted`: the verdict of the BMS gate
RtStart(ok, admitted) ==
  /\ ~Active /\ ~manual /\ delay = 0 /\ StartCondition(ok) /\ admitted
  /\ StartSweep
  /\ delay' = SweepDelay
  /\ UNCHANGED <<bflow, backoff, due, mode, vbat, bench>>

-----------------------------------------------------------------------------
(* update(): the automatic control loop, reached while active.             *)

UpdatingIdle(weak) == ~manual /\ Protected(weak)

Updating(weak) == Active /\ ~manual /\ Protected(weak)
Resweep(full) == due /\ ~sweeping /\ ~full /\ mode # "CV" /\ ~InBackoff

\* the converter is off and may not start
UpdateIdle(ok) ==
  /\ Updating(FALSE) /\ Disabled /\ ~StartCondition(ok)
  /\ bflow' = FALSE /\ mode' = "None"
  /\ UNCHANGED <<pwmCtrl, timing, scan, limiting, bench>>

\* the periodic scan, unless the battery is full or holds the voltage
UpdateResweep(ok, full, weak) ==
  /\ Updating(weak) /\ (Disabled => StartCondition(ok))
  /\ Resweep(full)
  /\ StartSweep
  /\ bflow' = (bflow /\ ~weak)
  /\ UNCHANGED <<timing, mode, bench>>

\* what the controllers say: a limit they enforce, a limit they leave, nothing
ControlMode(limit, ctrl, scanning) ==
  IF ctrl = CtrlMax \/ (ctrl = CtrlMin /\ ~scanning) THEN "CV"
  ELSE IF limit # "None" THEN limit
  ELSE IF limiting THEN "MPPT" ELSE "None"

\* the steps that fit: down at a limit and at full duty, up from the floor and
\* out of a limit
ControlSteps(limit, ctrl, scanning) ==
  IF limit # "None" \/ ctrl = CtrlMax THEN Down
  ELSE IF limiting \/ scanning \/ ctrl = CtrlMin THEN Up ELSE Steps

\* the end of update(): mode, step and switch.  A disabled converter is not
\* stepped down, but nothing here keeps it from being stepped up.
Actuate(newMode, ctrl, steps, above) ==
  /\ mode' = newMode
  /\ \E s \in steps :
       pwmCtrl' = IF ctrl = 0 /\ s <= 0 THEN 0 ELSE Perturbed(ctrl, s)
  /\ bflow' = (above \/ Boost)

\* the control loop proper, behind the early returns of update()
Controlling(ok, full, limit) ==
  /\ (Disabled => StartCondition(ok))
  /\ ~Resweep(full)
  /\ limiting' = (limit # "None")

\* a tick of the scan: start the converter, climb, capture the best point
UpdateScan(ok, full, weak, limit, better, above) ==
  LET ctrl == IF Disabled THEN CtrlMin ELSE pwmCtrl
  IN  /\ Updating(weak) /\ Controlling(ok, full, limit)
      /\ sweeping /\ ControlMode(limit, pwmCtrl, TRUE) = "None"
      /\ ~(Disabled /\ InBackoff)
      /\ mpp' = IF better THEN ctrl ELSE mpp
      /\ Actuate("Sweep", ctrl, Up, above)
      /\ UNCHANGED <<timing, sweeping, calibrating, target, bench>>

\* _stopSweep() at a limit or at full duty: make for the captured point, or
\* back off when there is none.  The rest of update() still runs.
UpdateStopScan(ok, full, weak, limit, above) ==
  LET ctrl == IF Disabled THEN CtrlMin ELSE pwmCtrl
  IN  /\ Updating(weak) /\ Controlling(ok, full, limit)
      /\ sweeping /\ ControlMode(limit, pwmCtrl, TRUE) # "None"
      /\ ~(Disabled /\ InBackoff)
      /\ sweeping' = FALSE
      /\ target' = mpp
      /\ backoff' = IF mpp = 0 THEN Arm(backoff, LongBackoff) ELSE backoff
      /\ Actuate(ControlMode(limit, pwmCtrl, TRUE), IF mpp = 0 THEN 0 ELSE ctrl,
                 ControlSteps(limit, pwmCtrl, TRUE), above)
      /\ UNCHANGED <<delay, due, calibrating, mpp, bench>>

\* a ramp to the target of a scan or of `+N`, given up at a limit
UpdateRamp(ok, full, weak, limit, above) ==
  LET m     == ControlMode(limit, pwmCtrl, FALSE)
      steps == ControlSteps(limit, pwmCtrl, FALSE)
      ramps == m \in {"None", "MPPT"} \/ (m = "CV" /\ pwmCtrl > target)
      near  == target - pwmCtrl \in -1..1
  IN  /\ Updating(weak) /\ Controlling(ok, full, limit)
      /\ ~sweeping /\ target > 0
      /\ target' = IF ramps /\ ~near THEN target ELSE 0
      /\ IF ramps
           THEN Actuate("Sweep", pwmCtrl,
                        IF limit # "None" \/ target < pwmCtrl THEN Down
                        ELSE IF target > pwmCtrl THEN Up ELSE {0}, above)
           ELSE Actuate(m, pwmCtrl, steps, above)
      /\ UNCHANGED <<timing, sweeping, calibrating, mpp, bench>>

\* tracking, within the limits
UpdateTrack(ok, full, weak, limit, above) ==
  LET m == ControlMode(limit, pwmCtrl, FALSE)
  IN  /\ Updating(weak) /\ Controlling(ok, full, limit)
      /\ ~sweeping /\ target = 0
      /\ Actuate(IF m = "None" THEN "MPPT" ELSE m, pwmCtrl,
                 ControlSteps(limit, pwmCtrl, FALSE), above)
      /\ UNCHANGED <<timing, scan, bench>>

\* A controller's output is not finite: shut down, and go on as at a limit.
UpdateNotFinite(full, weak, limit, above) ==
  /\ Updating(weak) /\ ~Resweep(full)
  /\ pwmCtrl > CtrlMin
  /\ limit # "None"
  /\ limiting' = TRUE
  /\ backoff' = Arm(backoff, ShortBackoff)
  /\ sweeping' = FALSE
  /\ target' = 0
  /\ Actuate(limit, 0, Down, above)
  /\ UNCHANGED <<delay, due, calibrating, mpp, bench>>

-----------------------------------------------------------------------------
(* updateManual(): the bench mode ramps to a duty that is kept.            *)

ManualRampsInBackoff(weak) ==
  /\ manual /\ Protected(weak)
  /\ mode' = "None"
  /\ pwmCtrl' = IF manualTarget = 0 /\ pwmCtrl <= CtrlMin THEN 0
                ELSE Perturbed(pwmCtrl, Limit(manualTarget - pwmCtrl, -RampStep, RampStep))
  /\ UNCHANGED <<bflow, timing, scan, limiting, bench>>

ManualStaysAtFloor(weak) ==
  /\ manual /\ Protected(weak)
  /\ mode' = "None"
  /\ pwmCtrl' = IF InBackoff \/ (manualTarget = 0 /\ Disabled) THEN 0
                ELSE Perturbed(pwmCtrl, Limit(manualTarget - pwmCtrl, -RampStep, RampStep))
  /\ UNCHANGED <<bflow, timing, scan, limiting, bench>>

\* the ramp, one step a tick; a backoff keeps the converter off
RtManual(weak) ==
  /\ manual /\ Protected(weak)
  /\ mode' = "None"
  /\ pwmCtrl' = IF InBackoff \/ (manualTarget = 0 /\ pwmCtrl <= CtrlMin) THEN 0
                ELSE Perturbed(pwmCtrl, Limit(manualTarget - pwmCtrl, -RampStep, RampStep))
  /\ bflow' = \/ bflow /\ ~weak
              \/ ~InBackoff /\ manualTarget > 0 /\ Disabled /\ ~Paranoia
  /\ UNCHANGED <<timing, scan, limiting, bench>>

-----------------------------------------------------------------------------
(* The sampler, and the watchdogs of the RT and of the low-frequency loop. *)

CalibDone ==
  /\ calibrating
  /\ calibrating' = FALSE /\ due' = FALSE
  /\ UNCHANGED <<stage, backoff, delay, sweeping, mpp, target, control, bench>>

\* a calibration outside its constraints is over; a NaN sample leaves it running
CalibFailure(nan) ==
  /\ nan \/ calibrating
  /\ StopAndBackoff(StopDelay)
  /\ calibrating' = (nan /\ calibrating)
  /\ UNCHANGED <<due, mpp, target, control, bench>>

\* an under-voltage of the supply cancels a calibration
CalibCancel ==
  /\ calibrating
  /\ calibrating' = FALSE
  /\ UNCHANGED <<stage, timing, sweeping, mpp, target, control, bench>>

\* the ADC delivers nothing for too long
AdcStall ==
  /\ ~Disabled /\ ~InBackoff
  /\ StopAndBackoff(StallDelay)
  /\ UNCHANGED <<due, calibrating, mpp, target, control, bench>>

\* lfWatchdog(): the RT loop is starved
LfWatchdog ==
  /\ ~Disabled /\ ~manual
  /\ StopAndBackoff(StopDelay)
  /\ UNCHANGED <<due, calibrating, mpp, target, control, bench>>

ReleaseInManual ==
  /\ limiting' = FALSE /\ target' = 0 /\ backoff' = NoBackoff
  /\ mode' = IF mode = "CV" THEN "None" ELSE mode
  /\ UNCHANGED <<stage, delay, due, sweeping, calibrating, mpp, vbat, bench>>

\* releaseCvFloorLatch(), from lfStuckWatchdog()
ReleaseCvFloorLatch ==
  /\ ~manual
  /\ limiting' = FALSE /\ target' = 0 /\ backoff' = NoBackoff
  /\ mode' = IF mode = "CV" THEN "None" ELSE mode
  /\ UNCHANGED <<stage, delay, due, sweeping, calibrating, mpp, vbat, bench>>

\* time: deadlines come closer, the last calibration may become too old
Tick ==
  /\ backoff' = [backoff EXCEPT !.left = IF @ > 0 THEN @ - 1 ELSE 0]
  /\ delay' = IF delay > 0 THEN delay - 1 ELSE 0
  /\ due' \in {due, TRUE}
  /\ UNCHANGED <<stage, scan, control, bench>>

-----------------------------------------------------------------------------
(* The console (cli.cpp).                                                  *)

CmdDcKeepsScan(duty) ==
  /\ duty > 0 => ~calibrating
  /\ bflow' = (bflow \/ ((~manual \/ Disabled) /\ duty > 0 /\ ~Paranoia))
  /\ manual' = TRUE /\ manualTarget' = duty
  /\ UNCHANGED <<pwmCtrl, timing, scan, control, bootTarget>>

\* `dc <duty>`: manual mode; `dc 0` works even while calibrating
CmdDc(duty) ==
  /\ duty > 0 => ~calibrating
  /\ AbortSweep
  /\ bflow' = (bflow \/ ((~manual \/ Disabled) /\ duty > 0 /\ ~Paranoia))
  /\ manual' = TRUE /\ manualTarget' = duty
  /\ UNCHANGED <<pwmCtrl, timing, calibrating, control, bootTarget>>

CmdMpptKeepsCap ==
  /\ manual
  /\ manual' = FALSE
  /\ UNCHANGED <<stage, timing, scan, control, manualTarget, bootTarget>>

\* `mppt`: back to automatic mode
CmdMppt ==
  /\ manual
  /\ manual' = FALSE /\ bootTarget' = 0
  /\ UNCHANGED <<stage, timing, scan, control, manualTarget>>

CmdSweepKeepsBackoff ==
  /\ bootTarget' = 0 /\ manual' = FALSE
  /\ StartSweep
  /\ UNCHANGED <<bflow, timing, mode, vbat, manualTarget>>

\* `sweep`: automatic mode, a pending backoff is dropped
CmdSweep ==
  /\ bootTarget' = 0 /\ manual' = FALSE
  /\ backoff' = NoBackoff
  /\ StartSweep
  /\ UNCHANGED <<bflow, delay, due, mode, vbat, manualTarget>>

CmdStepUnclamped(n) ==
  /\ ~calibrating
  /\ IF manual THEN manualTarget' = pwmCtrl + n /\ target' = target
               ELSE target' = pwmCtrl + n /\ manualTarget' = manualTarget
  /\ UNCHANGED <<stage, timing, sweeping, calibrating, mpp, control, manual, bootTarget>>

\* `+N`, `-N`: shift the target of the mode
CmdStep(n) ==
  LET duty == Limit(pwmCtrl + n, 0, CtrlMax)
  IN  /\ ~calibrating
      /\ IF manual THEN manualTarget' = duty /\ target' = target
                   ELSE target' = duty /\ manualTarget' = manualTarget
      /\ UNCHANGED <<stage, timing, sweeping, calibrating, mpp, control, manual, bootTarget>>

\* `bf 0|1`, in manual mode only
CmdBflow(on) ==
  /\ manual
  /\ bflow' = on
  /\ UNCHANGED <<pwmCtrl, timing, scan, control, bench>>

-----------------------------------------------------------------------------

Update ==
  \E ok, full, weak, above \in BOOLEAN, limit \in {"None", "CV", "CC"} :
    \/ UpdateResweep(ok, full, weak)
    \/ \E better \in BOOLEAN : UpdateScan(ok, full, weak, limit, better, above)
    \/ UpdateStopScan(ok, full, weak, limit, above)
    \/ UpdateRamp(ok, full, weak, limit, above)
    \/ UpdateTrack(ok, full, weak, limit, above)

Rt ==
  \/ \E ok \in BOOLEAN : UpdateIdle(ok)
  \/ Update
  \/ \E weak \in BOOLEAN : RtManual(weak) \/ RtNoNewSample(weak)
  \/ \E ok, admitted \in BOOLEAN : RtStart(ok, admitted)

Fault ==
  \/ \E trip \in Trips \cup {"pass"}, lfTrip \in LfTrips \cup {"pass"} : RtTrip(trip, lfTrip)
  \/ \E newSample \in BOOLEAN : RtReverseHigh(newSample)
  \/ \E full, weak, above \in BOOLEAN, limit \in {"CV", "CC"} :
       UpdateNotFinite(full, weak, limit, above)
  \/ \E nan \in BOOLEAN : CalibFailure(nan)
  \/ CalibCancel \/ AdcStall \/ LfWatchdog \/ ReleaseCvFloorLatch

Console ==
  \/ \E duty \in DcTargets : CmdDc(duty)
  \/ CmdMppt \/ CmdSweep
  \/ \E n \in ManualSteps : CmdStep(n)
  \/ \E on \in BOOLEAN : CmdBflow(on)

Next == Rt \/ Fault \/ Console \/ CalibDone \/ Tick

Spec == Init /\ [][Next]_vars

\* Time passes, and samples keep reaching the handler of the manual mode: the
\* RT task has the highest priority of its core and a stalled ADC is restarted.
Fairness == WF_vars(Tick) /\ WF_vars(RtManual(FALSE))
FairSpec == Spec /\ Fairness

-----------------------------------------------------------------------------
(* Properties.                                                             *)

\* The controller's state is typed, and its duty is within the converter's.
TypeOK ==
  /\ pwmCtrl \in 0..CtrlMax /\ mpp \in 0..CtrlMax /\ target \in 0..CtrlMax
  /\ bflow \in BOOLEAN /\ sweeping \in BOOLEAN /\ calibrating \in BOOLEAN
  /\ backoff \in [left : 0..LongBackoff, len : 0..LongBackoff]
  /\ delay \in Nat /\ due \in BOOLEAN /\ vbat \in BOOLEAN
  /\ limiting \in BOOLEAN /\ mode \in Modes
  /\ manual \in BOOLEAN /\ manualTarget \in 0..CtrlMax /\ bootTarget \in 0..CtrlMax

\* A protection trip holds the converter off until its backoff is over, in
\* automatic and in manual mode, whatever scan, ramp or command is under way.
BackoffHoldsConverterOff == InBackoff => Disabled

\* The sensors are zeroed with the converter off.  RT ticks bring no new data
\* while they are, so neither protect() nor the control loop would see it run.
CalibratesWithConverterOff == calibrating => Disabled

\* No scan is pending inside a backoff: update() re-enables the converter of a
\* scan on every tick, which made a trip repeat at sample rate (issue #58 in
\* the comment of shutdownDcdc).
SweepNeverInBackoff == sweeping => ~InBackoff

\* Manual mode ends a scan for good: active() would stay true behind it, and a
\* later `mppt` would resume a scan that was never calibrated for.
ManualEndsScan == manual => ~sweeping

\* A configured duty cap is dropped before the controller goes automatic, so
\* update() never reaches its updateCV() branch, which has no protections.
BootCapImpliesManual == bootTarget > 0 => manual

\* A running backoff is neither cut short nor pushed back by further trips: it
\* only counts down, is escalated by a longer one, or is dropped by the
\* `sweep` command and the stuck watchdog, both in automatic mode.
BackoffCountsDown ==
  [][ InBackoff => \/ backoff' = backoff
                   \/ backoff' = [backoff EXCEPT !.left = @ - 1]
                   \/ backoff'.len > backoff.len /\ backoff'.left = backoff'.len
                   \/ backoff' = NoBackoff /\ ~manual' ]_vars

\* The converter is only ever switched on by the scan of a finished calibration,
\* by the control loop that runs such a scan, or by the bench ramp.
SwitchedOnForAReason ==
  [][ Disabled /\ pwmCtrl' > 0 => \/ sweeping /\ ~calibrating
                                  \/ manual /\ manualTarget > 0 ]_vars

\* shutdownDcdc() opens the backflow switch "to avoid any battery current into
\* the converter" (mppt.h): a step that starts a backoff leaves it open.
TripOpensSwitch == [][ backoff'.left > backoff.left => ~bflow' ]_vars

\* The controller implements the interlock of the power stage: trips, scans,
\* calibrations, watchdogs and commands switch it only as Interlock allows.
Stage == INSTANCE Interlock
           WITH on <- ~Disabled, rest <- backoff.left,
                measuring <- calibrating, bench <- manual
RefinesInterlock == Stage!Spec

\* A trip that persists cannot hold the deadline off for ever (issue #58): some
\* retry always comes.
BackoffExpires == []<>(~InBackoff)

\* `dc 0` is the escape hatch: it stops the converter from any state.
DcZeroStops ==
  (manual /\ manualTarget = 0) ~> (Disabled \/ ~manual \/ manualTarget > 0)
=============================================================================
