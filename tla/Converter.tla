----------------------------- MODULE Converter -----------------------------
(***************************************************************************)
(* The synchronous converter of src/src/buck.h: the software PWM counts    *)
(* (pwmCtrl, pwmRect and the limits kept beside them) and the comparator   *)
(* registers of the gate driver that the counts are committed to.          *)
(*                                                                         *)
(* One period has DriverPwmMax counts.  The control FET conducts on        *)
(* [0, hsOff), the rectifier FET on [hsOff, lsOff).  The MCPWM driver has  *)
(* a force latch that holds both gates low; the LEDC driver has none.      *)
(*                                                                         *)
(* Every operation is one step here: it runs on one core.  What another    *)
(* core can do in the middle of one is the subject of module PwmCores.     *)
(***************************************************************************)
EXTENDS Integers

CONSTANTS
  Word,           \* values of a uint16_t (2^16)
  DriverPwmMax,   \* counts of one PWM period (driverPwmMax)
  PwmRectMin,     \* least rectifier on-time, refreshes the bootstrap; 0: boost
  LargeDecrease,  \* driverPwmMax / 50
  FadeKnee,       \* driverPwmMax / 64
  FadeDiv,        \* divisor of the fast part of the rectifier fade-in (64)
  UseMcpwm,       \* TRUE: MCPWM driver, FALSE: LEDC driver
  Directions,     \* steps that callers ask of pwmPerturb
  DcmIdeals,      \* results the diode-emulation arithmetic may round to
  ManualLs        \* on-counts that `dc <hs> <ls>` may ask for

ASSUME CountsAssumption ==
  /\ Word \in Nat
  /\ DriverPwmMax \in Nat /\ DriverPwmMax >= 2 /\ 2 * DriverPwmMax < Word
  /\ PwmRectMin \in 0..DriverPwmMax - 1
  /\ LargeDecrease \in Nat
  /\ FadeKnee \in Nat
  /\ FadeDiv \in Nat \ {0}

U16Values == 0..Word - 1

ASSUME InputsAssumption ==
  /\ UseMcpwm \in BOOLEAN
  /\ Directions \subseteq Int
  /\ DcmIdeals \subseteq U16Values
  /\ ManualLs \subseteq Int

VARIABLES
  pwmCtrl,     \* on-counts of the control FET, 0: disabled()
  pwmRect,     \* on-counts of the rectifier FET
  pwmRectMax,  \* diode-emulation limit of pwmRect, as last computed
  manualRect,  \* bench hold of the rectifier, -1: automatic
  syncRect,    \* syncRectEnabled
  forcedPwm,   \* forced-PWM mode
  dcm,         \* dcmHysteresis
  hsOff,       \* register: end of the control FET's pulse
  lsOff,       \* register: end of the rectifier FET's pulse
  latched      \* MCPWM: both gates forced low

counts == <<pwmCtrl, pwmRect, pwmRectMax, manualRect>>
flags  == <<syncRect, forcedPwm, dcm>>
regs   == <<hsOff, lsOff, latched>>
vars   == <<counts, flags, regs>>

U16(x) == x % Word
Least(a, b) == IF a < b THEN a ELSE b
Most(a, b) == IF a > b THEN a ELSE b
\* Arduino's constrain macro: the lower bound wins when the bounds cross
Constrain(x, low, high) ==
  IF x < low THEN low ELSE IF x > high THEN high ELSE x
\* C division truncates towards zero
Quotient(a, b) == IF a >= 0 THEN a \div b ELSE -((-a) \div b)

PwmCtrlMin == 1
PwmCtrlMax == DriverPwmMax - PwmRectMin
Disabled == pwmCtrl = 0
RoomToTheEnd(ctrl) == DriverPwmMax - ctrl
\* the counts that are left of the period behind the control pulse, less one
Room(ctrl) == DriverPwmMax - ctrl - 1

Init ==
  /\ pwmCtrl = 0 /\ pwmRect = 0 /\ pwmRectMax = 0 /\ manualRect = -1
  /\ syncRect = FALSE /\ forcedPwm \in BOOLEAN /\ dcm = FALSE
  /\ hsOff = 0 /\ lsOff = 0 /\ latched = UseMcpwm

-----------------------------------------------------------------------------
(* Helpers of the operations, with the slips a later edit could make.      *)

\* computePwmRectMax(): the limit that emulates a diode, `ideal` in DCM
RectMax(ctrl, inDcm, ideal) ==
  Least(Most(PwmRectMin, IF inDcm THEN ideal ELSE U16(Room(ctrl))), U16(Room(ctrl)))

FadeWithoutLimit(rect, limit) ==
  Most(PwmRectMin, rect + 1)

\* the next on-time of the fade-in: one count, then faster, within the limit
FadeIn(rect, limit) ==
  LET fast == IF rect > PwmRectMin + FadeKnee THEN Quotient(limit - rect, FadeDiv) ELSE 0
  IN  U16(Constrain(rect + 1 + fast, PwmRectMin, limit))

HoldUnclamped(ls, ctrl) == ls

\* the bench hold, clamped to what the control pulse leaves of the period
Hold(ls, ctrl) == Constrain(ls, PwmRectMin, Room(ctrl))

\* drvCommit(): both comparators, and the latch when leaving the disabled state
Commit(ctrl, rect, enabling) ==
  /\ hsOff' = ctrl
  /\ lsOff' = U16(ctrl + rect)
  /\ latched' = (latched /\ ~enabling)

CommitLsOffOfRect(ctrl, rect) ==
  lsOff' = U16(rect) /\ UNCHANGED <<hsOff, latched>>

\* drvCommitLsOff(): the rectifier's comparator alone
CommitLsOff(ctrl, rect) ==
  lsOff' = U16(ctrl + rect) /\ UNCHANGED <<hsOff, latched>>

-----------------------------------------------------------------------------
(* The operations.                                                         *)

PerturbNeverUnlatches(d, ideal) ==
  LET ctrl == Constrain(pwmCtrl + d, PwmCtrlMin, PwmCtrlMax)
  IN  /\ pwmCtrl' = ctrl
      /\ pwmRect' = PwmRectMin
      /\ Commit(ctrl, PwmRectMin, FALSE)
      /\ UNCHANGED <<pwmRectMax, manualRect, flags>>

\* pwmPerturb(): move the control pulse, let the rectifier follow, commit.
\* Every caller that finds the converter disabled asks for a positive step.
PwmPerturb(d, ideal) ==
  LET enabling == Disabled /\ d > 0
      larger   == -d > LargeDecrease /\ ~forcedPwm
      ctrl     == Constrain(pwmCtrl + d, PwmCtrlMin, PwmCtrlMax)
      inDcm    == dcm \/ larger
      limit    == RectMax(ctrl, inDcm, ideal)
      rect     == IF manualRect >= 0 THEN U16(Hold(manualRect, ctrl))
                  ELSE IF larger \/ ~syncRect THEN PwmRectMin
                  ELSE FadeIn(pwmRect, limit)
  IN  /\ Disabled => d > 0
      /\ pwmCtrl' = ctrl
      /\ pwmRect' = rect
      /\ IF manualRect >= 0 THEN UNCHANGED <<pwmRectMax, dcm>>
                            ELSE pwmRectMax' = limit /\ dcm' = inDcm
      /\ Commit(ctrl, rect, enabling)
      /\ UNCHANGED <<manualRect, syncRect, forcedPwm>>

DisableWithoutLatch ==
  /\ pwmCtrl' = 0 /\ pwmRect' = 0 /\ syncRect' = FALSE
  /\ UNCHANGED <<pwmRectMax, manualRect, forcedPwm, dcm, regs>>

\* disable(): force the gates low, park both comparators, clear the counts
Disable ==
  /\ hsOff' = 0 /\ lsOff' = 0 /\ latched' = UseMcpwm
  /\ pwmCtrl' = 0 /\ pwmRect' = 0 /\ syncRect' = FALSE
  /\ UNCHANGED <<pwmRectMax, manualRect, forcedPwm, dcm>>

\* updateSyncRectMaxDuty(), from protect(): never on a disabled converter.
\* computeDCM() decides between CCM and DCM; forced PWM is always CCM.
UpdateSyncRectMaxDuty(inDcm, ideal) ==
  LET limit == RectMax(pwmCtrl, inDcm, ideal)
      rect  == Least(pwmRect, limit)
  IN  /\ ~Disabled
      /\ forcedPwm => ~inDcm
      /\ dcm' = inDcm
      /\ IF manualRect >= 0
           THEN UNCHANGED <<pwmRect, pwmRectMax, regs>>
           ELSE /\ pwmRectMax' = limit
                /\ pwmRect' = rect
                /\ IF rect < pwmRect THEN CommitLsOff(pwmCtrl, rect) ELSE UNCHANGED regs
      /\ UNCHANGED <<pwmCtrl, manualRect, syncRect, forcedPwm>>

\* the body of syncRectMinDuty()
DropToMin ==
  IF pwmRect > PwmRectMin
    THEN pwmRect' = PwmRectMin /\ CommitLsOff(pwmCtrl, PwmRectMin)
    ELSE UNCHANGED <<pwmRect, regs>>

\* syncRectMinDuty(), from protect() on a reverse current
SyncRectMinDuty ==
  /\ ~Disabled
  /\ DropToMin
  /\ UNCHANGED <<pwmCtrl, pwmRectMax, manualRect, flags>>

\* enableSyncRect(), from the control loop and from `dc`
EnableSyncRect(enable) ==
  LET on == enable \/ forcedPwm
  IN  /\ syncRect' = on
      /\ IF on THEN UNCHANGED <<pwmRect, regs>> ELSE DropToMin
      /\ UNCHANGED <<pwmCtrl, pwmRectMax, manualRect, forcedPwm, dcm>>

\* `sync on|off` (cmdSync) overwrites forced PWM, `sync forced` enters it
CmdSync(on) ==
  /\ forcedPwm' = FALSE
  /\ syncRect' = on
  /\ IF on THEN UNCHANGED <<pwmRect, regs>> ELSE DropToMin
  /\ UNCHANGED <<pwmCtrl, pwmRectMax, manualRect, dcm>>

CmdSyncForced ==
  /\ forcedPwm' = TRUE
  /\ syncRect' = TRUE
  /\ UNCHANGED <<counts, dcm, regs>>

\* setManualRect(): hold the rectifier at ls, or give it back with ls < 0
SetManualRect(ls) ==
  IF ls < 0
    THEN /\ manualRect' = -1
         /\ UNCHANGED <<pwmCtrl, pwmRect, pwmRectMax, flags, regs>>
    ELSE /\ manualRect' = Hold(ls, pwmCtrl)
         /\ pwmRect' = U16(Hold(ls, pwmCtrl))
         /\ CommitLsOff(pwmCtrl, U16(Hold(ls, pwmCtrl)))
         /\ UNCHANGED <<pwmCtrl, pwmRectMax, flags>>

Next ==
  \/ \E d \in Directions, ideal \in DcmIdeals : PwmPerturb(d, ideal)
  \/ Disable
  \/ \E inDcm \in BOOLEAN, ideal \in DcmIdeals : UpdateSyncRectMaxDuty(inDcm, ideal)
  \/ SyncRectMinDuty
  \/ \E enable \in BOOLEAN : EnableSyncRect(enable)
  \/ \E on \in BOOLEAN : CmdSync(on)
  \/ CmdSyncForced
  \/ \E ls \in ManualLs : SetManualRect(ls)

Spec == Init /\ [][Next]_vars

-----------------------------------------------------------------------------
(* Properties.                                                             *)

\* Both gates are low, whatever the PWM timer does.
GatesLow == latched \/ (hsOff = 0 /\ lsOff = 0)

\* Every count and register stays in the range of its C type and its clamp.
TypeOK ==
  /\ pwmCtrl \in 0..PwmCtrlMax
  /\ pwmRect \in U16Values /\ pwmRectMax \in U16Values
  /\ manualRect \in -1..DriverPwmMax
  /\ syncRect \in BOOLEAN /\ forcedPwm \in BOOLEAN /\ dcm \in BOOLEAN
  /\ hsOff \in 0..PwmCtrlMax /\ lsOff \in U16Values /\ latched \in BOOLEAN

\* The registers are the counts: no operation changes a count that decides a
\* gate and leaves without committing it (the commits of buck.h are spread over
\* five functions, two of which write the rectifier alone).
RegistersFollowCounts ==
  /\ hsOff = pwmCtrl
  /\ lsOff = pwmCtrl + pwmRect

\* The two pulses fit one period whatever order steps, limits, bench holds and mode
\* changes come in: the rectifier's turn-off lies strictly inside it (buck.h:615), since
\* an event at its end never fires and the low side would stay on.  One point is excepted,
\* where the code breaks that rule: pwmCtrlMax (buck.h:577) leaves no more than the
\* bootstrap minimum behind it, so that both together end with the period.
FullDutyAtMinimum == pwmCtrl = PwmCtrlMax /\ pwmRect = PwmRectMin
PulsesFitPeriod == pwmCtrl + pwmRect < DriverPwmMax \/ FullDutyAtMinimum

\* disabled() is what every watchdog and protection asks before it acts, so it
\* has to mean that nothing switches, and its negation that the latch is open.
DisabledMeansGatesLow == Disabled => GatesLow
EnabledMeansUnlatched == ~Disabled => ~latched

\* Diode emulation: in automatic mode a step never lengthens the rectifier's
\* on-time beyond the limit it has just computed (reverse coil current).
RectGrowsWithinLimit ==
  [][ manualRect' = -1 /\ pwmRect' > pwmRect
        => pwmRect' <= Most(pwmRectMax', PwmRectMin) ]_vars
=============================================================================
