------------------------------ MODULE PwmCores ------------------------------
(***************************************************************************)
(* The two cores of the firmware on the power stage, access by access.     *)
(* Core 1 runs the RT loop of main.cpp: protect(), update() of mppt.cpp    *)
(* and the pwmPerturb() of buck.h it ends in.  Core 0 runs the low-        *)
(* frequency loop and the console, and two of its calls also disable the   *)
(* converter: stopAndBackoff() of the latency watchdog and startSweep() of *)
(* the `sweep` command.  No lock and no atomic protects what they share,   *)
(* so a step here is one access to a shared variable or register.          *)
(*                                                                         *)
(* The rectifier's comparator is written next to the control FET's by each *)
(* side; one comparator stands for both.  Manual mode is left out: its     *)
(* commands store a target and no duty.                                    *)
(***************************************************************************)
EXTENDS Integers

CONSTANTS
  CtrlMax,    \* pwmCtrlMax
  Steps,      \* steps one tick of the control loop may round to
  UseMcpwm,   \* TRUE: MCPWM driver with a force latch, FALSE: LEDC driver
  LfCalls     \* calls of core 0 that disable the converter

ASSUME CoresAssumption ==
  /\ CtrlMax \in Nat /\ CtrlMax >= 2
  /\ Steps \subseteq -CtrlMax..CtrlMax /\ {0, 1} \subseteq Steps
  /\ UseMcpwm \in BOOLEAN
  /\ LfCalls \subseteq {"trip", "sweep"}

Cores == {"RT", "LF"}
Labels == {"idle", "loop", "update", "scan", "climb", "probe", "load", "store",
           "commit", "unlatch", "begin", "force", "park", "clear", "arm", "abort",
           "calibrate"}

VARIABLES
  pwmCtrl,      \* on-counts of the control FET, 0: disabled()
  hsOff,        \* comparator of the gate driver
  latched,      \* both gates forced low
  sweeping,     \* _sweeping
  calibrating,  \* sampler.isCalibrating()
  armed,        \* inBackoff(), and which core armed it last
  pc,           \* where each core is
  call,         \* which shutdown or perturbation it is in
  move          \* RT's locals in pwmPerturb(): step, sum, enabling

power == <<pwmCtrl, hsOff, latched>>
state == <<sweeping, calibrating, armed>>
vars  == <<power, state, pc, call, move>>

CtrlMin == 1
Disabled == pwmCtrl = 0
Unlimited(x) == x
Limit(x) == IF x < CtrlMin THEN CtrlMin ELSE IF x > CtrlMax THEN CtrlMax ELSE x

NeverBlocked == FALSE

\* the part of startBlockReason() that a core can change under the other
StartBlocked == armed # "none"

Goto(core, label) == pc' = [pc EXCEPT ![core] = label]
Enter(core, label, what) == Goto(core, label) /\ call' = [call EXCEPT ![core] = what]
\* pwmPerturb() by one of steps, none of them below the duty that is read here;
\* `what` it is for
Perturb(steps, what) ==
  /\ Enter("RT", "probe", what)
  /\ \E s \in steps : s >= -pwmCtrl /\ move' = [move EXCEPT !.step = s]

\* a converter under way, as the automatic mode leaves it, or off
Init ==
  /\ pwmCtrl \in 0..CtrlMax /\ hsOff = pwmCtrl
  /\ latched = (UseMcpwm /\ Disabled)
  /\ sweeping = FALSE /\ calibrating = FALSE /\ armed = "none"
  /\ pc = [c \in Cores |-> "idle"]
  /\ call = [c \in Cores |-> "none"]
  /\ move = [step |-> 0, sum |-> 0, enabling |-> FALSE]

-----------------------------------------------------------------------------
(* disable(), shutdownDcdc() and startSweep(), on either core.             *)

\* disable(): force both gates low (MCPWM)
ForceLow(core) ==
  /\ pc[core] = "force"
  /\ latched' = UseMcpwm
  /\ Goto(core, "park")
  /\ UNCHANGED <<pwmCtrl, hsOff, state, call, move>>

\* disable(): park the comparators, or stop the LEDC channels
Park(core) ==
  /\ pc[core] = "park"
  /\ hsOff' = 0
  /\ Goto(core, "clear")
  /\ UNCHANGED <<pwmCtrl, latched, state, call, move>>

\* where disable() returns to
Return(core) ==
  IF call[core] = "trip" THEN "arm"
  ELSE IF call[core] = "sweep" THEN "calibrate" ELSE "idle"

\* disable(): clear the counts, and return to what called it
Clear(core) ==
  /\ pc[core] = "clear"
  /\ pwmCtrl' = 0
  /\ Goto(core, Return(core))
  /\ UNCHANGED <<hsOff, latched, state, call, move>>

\* shutdownDcdc() with a backoff: arm it, then end the scan
ArmBackoff(core) ==
  /\ pc[core] = "arm"
  /\ armed' = core
  /\ Goto(core, "abort")
  /\ UNCHANGED <<power, sweeping, calibrating, call, move>>

EndScan(core) ==
  /\ pc[core] = "abort"
  /\ sweeping' = FALSE
  /\ Goto(core, "idle")
  /\ UNCHANGED <<power, calibrating, armed, call, move>>

\* startSweep(): mark the scan, disable the converter, calibrate
BeginSweep(core) ==
  /\ pc[core] = "begin"
  /\ sweeping' = TRUE
  /\ Goto(core, "force")
  /\ UNCHANGED <<power, calibrating, armed, call, move>>

Calibrate(core) ==
  /\ pc[core] = "calibrate"
  /\ calibrating' = TRUE
  /\ Goto(core, "idle")
  /\ UNCHANGED <<power, sweeping, armed, call, move>>

-----------------------------------------------------------------------------
(* Core 1: a tick of the RT loop.                                          *)

\* the sampler reports new data, as it does unless it calibrates
RtTick ==
  /\ pc["RT"] = "idle" /\ ~calibrating
  /\ Goto("RT", "loop")
  /\ UNCHANGED <<power, state, call, move>>

\* loopRTNewData(): a calibration that core 0 has begun since, a protection
\* trip, update(), or the start of an idle controller
RtLoop ==
  /\ pc["RT"] = "loop"
  /\ IF calibrating THEN Enter("RT", "force", "calib")
     ELSE IF sweeping \/ ~Disabled
       THEN \/ ~Disabled /\ Enter("RT", "force", "trip")
            \/ Goto("RT", "update") /\ UNCHANGED call
     ELSE IF StartBlocked THEN Goto("RT", "idle") /\ UNCHANGED call
     ELSE Enter("RT", "begin", "sweep")
  /\ UNCHANGED <<power, state, move>>

\* update(): the gate on a converter that is off, and the periodic scan
RtUpdate ==
  /\ pc["RT"] = "update"
  /\ IF Disabled /\ StartBlocked THEN Goto("RT", "idle") /\ UNCHANGED call
     ELSE \/ ~sweeping /\ ~StartBlocked /\ Enter("RT", "begin", "sweep")
          \/ Goto("RT", "scan") /\ UNCHANGED call
  /\ UNCHANGED <<power, state, move>>

\* update(): switch the converter of a scan on, or move its duty; tracking
\* moves the duty of whatever it finds
RtScan ==
  /\ pc["RT"] = "scan"
  /\ IF ~sweeping \/ calibrating THEN Perturb(Steps, "move")
     ELSE IF ~Disabled THEN Goto("RT", "climb") /\ UNCHANGED <<call, move>>
     ELSE IF StartBlocked THEN Goto("RT", "idle") /\ UNCHANGED <<call, move>>
     ELSE Perturb({1}, "start")
  /\ UNCHANGED <<power, state>>

\* the scan climbs, ends at its best point, or ends without one and backs off
RtClimb ==
  /\ pc["RT"] = "climb"
  /\ \/ /\ Perturb({s \in Steps : s >= 0}, "move")
        /\ UNCHANGED sweeping
     \/ /\ Perturb({s \in Steps : s <= 0}, "move")
        /\ sweeping' = FALSE
     \/ /\ Enter("RT", "force", "trip")
        /\ sweeping' = FALSE
        /\ UNCHANGED move
  /\ UNCHANGED <<power, calibrating, armed>>

\* pwmPerturb(): is this what switches the converter on?
RtProbe ==
  /\ pc["RT"] = "probe"
  /\ move' = [move EXCEPT !.enabling = Disabled /\ move.step > 0]
  /\ Goto("RT", IF move.step = 0 THEN "idle" ELSE "load")
  /\ UNCHANGED <<power, state, call>>

\* the new duty is computed from the old one and stored over whatever is there
RtLoad ==
  /\ pc["RT"] = "load"
  /\ move' = [move EXCEPT !.sum = Limit(pwmCtrl + move.step)]
  /\ Goto("RT", "store")
  /\ UNCHANGED <<power, state, call>>

RtStore ==
  /\ pc["RT"] = "store"
  /\ pwmCtrl' = move.sum
  /\ Goto("RT", "commit")
  /\ UNCHANGED <<hsOff, latched, state, call, move>>

AfterMove == IF call["RT"] = "start" THEN "climb" ELSE "idle"

UnlatchAlways ==
  /\ pc["RT"] = "commit"
  /\ hsOff' \in {pwmCtrl, move.sum}
  /\ Goto("RT", "unlatch")
  /\ UNCHANGED <<pwmCtrl, latched, state, call, move>>

\* drvCommit(): the build may read the duty again or keep it in a register
RtCommit ==
  /\ pc["RT"] = "commit"
  /\ hsOff' \in {pwmCtrl, move.sum}
  /\ Goto("RT", IF move.enabling THEN "unlatch" ELSE AfterMove)
  /\ UNCHANGED <<pwmCtrl, latched, state, call, move>>

\* drvCommit(): release the latch when leaving the disabled state
RtUnlatch ==
  /\ pc["RT"] = "unlatch"
  /\ latched' = FALSE
  /\ Goto("RT", AfterMove)
  /\ UNCHANGED <<pwmCtrl, hsOff, state, call, move>>

\* the sampler finishes, or fails and stopAndBackoff() follows
CalibEnds ==
  /\ pc["RT"] = "idle" /\ calibrating
  /\ calibrating' = FALSE
  /\ \/ UNCHANGED <<pc, call>>
     \/ Enter("RT", "force", "trip")
  /\ UNCHANGED <<power, sweeping, armed, move>>

Rt == RtTick \/ RtLoop \/ RtUpdate \/ RtScan \/ RtClimb
        \/ RtProbe \/ RtLoad \/ RtStore \/ RtCommit \/ RtUnlatch \/ CalibEnds

-----------------------------------------------------------------------------
(* Core 0.                                                                 *)

\* lfWatchdog() finds the RT loop starved
LfWatchdog ==
  /\ "trip" \in LfCalls
  /\ pc["LF"] = "idle" /\ ~Disabled
  /\ Enter("LF", "force", "trip")
  /\ UNCHANGED <<power, state, move>>

\* `sweep`: clearBackoff(), then startSweep()
LfSweep ==
  /\ "sweep" \in LfCalls
  /\ pc["LF"] = "idle"
  /\ armed' = "none"
  /\ Enter("LF", "begin", "sweep")
  /\ UNCHANGED <<power, sweeping, calibrating, move>>

\* the backoff runs out
Expire ==
  /\ StartBlocked
  /\ armed' = "none"
  /\ UNCHANGED <<power, sweeping, calibrating, pc, call, move>>

Shared(core) ==
  ForceLow(core) \/ Park(core) \/ Clear(core) \/ ArmBackoff(core)
    \/ EndScan(core) \/ BeginSweep(core) \/ Calibrate(core)

Next ==
  \/ \E core \in Cores : Shared(core)
  \/ Rt
  \/ LfWatchdog \/ LfSweep
  \/ Expire

Spec == Init /\ [][Next]_vars

-----------------------------------------------------------------------------
(* Properties.                                                             *)

\* Every count and label stays in its range whatever the two cores interleave (buck.h, mppt.h).
TypeOK ==
  /\ pwmCtrl \in 0..CtrlMax /\ hsOff \in 0..CtrlMax /\ latched \in BOOLEAN
  /\ sweeping \in BOOLEAN /\ calibrating \in BOOLEAN /\ armed \in {"none"} \union Cores
  /\ pc \in [Cores -> Labels]
  /\ call \in [Cores -> {"none", "trip", "sweep", "calib", "start", "move"}]
  /\ move \in [step : Steps, sum : 0..CtrlMax, enabling : BOOLEAN]

\* The force latch opens on a soft start only: whatever a disable of core 0 has
\* interrupted, "the latched pre-disable duty cannot resume" (drvShutdown), the
\* comparator holds no more than one step of the control loop by then.
SoftStart == [][latched /\ ~latched' => \E step \in Steps : hsOff <= step]_vars

\* A trip of the RT loop itself holds the converter off until its backoff has
\* run out, even against a `sweep` of core 0 that sets the scan going again
\* between the trip's disable and its backoff, or a watchdog that trips at once.
BackoffHoldsConverterOff == armed = "RT" => Disabled
=============================================================================
