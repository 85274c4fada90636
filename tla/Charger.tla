------------------------------- MODULE Charger -------------------------------
(***************************************************************************)
(* BatteryCharger (charger.h): when charging ends, and at which voltage the *)
(* pack is pinned.  The MQTT task brings cell voltages and battery currents *)
(* of the BMS; the low-frequency loop decides on termination and moves the  *)
(* pin.  They share the coulomb counter, whose two halves interleave.       *)
(*                                                                         *)
(* Voltages and currents are small integers: what matters is how they lie   *)
(* to the termination line, the ceiling and the limits of the pin.          *)
(***************************************************************************)
EXTENDS Integers

CONSTANTS
  CvMin, CvEoc, CvCeil,    \* cv_min, cv_eoc, cv_ceiling
  Band,                    \* recharge_vfloor_band
  Slope,                   \* r, the apparent cell resistance
  IbatFloor,               \* below it the pack is discharged
  Dod,                     \* recharge_dod * Cbat
  Vmax, Fallback, Offset,  \* Vbat_max, Vbat_fallback, vout_offset_max
  NCells,                  \* n_cells
  CeilReq, FloorReq,       \* VCEIL_STREAK_REQ, VFLOOR_STREAK_REQ
  GlideTime,               \* duration of both glides
  MostAh,                  \* bound: how far the counter is followed
  Cells, Currents, Charges, \* of the frames: voltages, currents, Ah since the last
  Packs,                   \* vout_avg, the averaged pack voltage
  Cold                     \* the battery current before it is smoothed (NAN)

ASSUME ChargerAssumption ==
  /\ {CvMin, CvEoc, CvCeil, Band, IbatFloor, Dod, NCells, Offset} \subseteq Int
  /\ Slope \in Nat /\ NCells >= 0 /\ Offset >= 0
  /\ CvMin <= CvEoc /\ CvEoc <= CvCeil
  /\ Vmax \in Int /\ Fallback \in 0..Vmax /\ Fallback - Offset > 0
  /\ CeilReq \in Nat \ {0} /\ FloorReq \in Nat \ {0} /\ GlideTime \in Nat \ {0}
  /\ MostAh \in Nat /\ Cells \subseteq Nat \ {0} /\ Currents \subseteq Int
  /\ Charges \subseteq Int /\ Packs \subseteq Nat /\ Cold \notin Int

VARIABLES
  cbat,      \* whether Cbat is configured: without it there is no line
  cell,      \* vcell_high, 0 before the first frame
  fresh,     \* younger than VCELL_EXPIRATION_TIME_SEC
  newFrame,  \* vcell_high_t # _lastBmsFrameUs
  ibat,      \* _ibatSmoothed, Cold while it is NAN
  integ,     \* CoulombCounter._integrator
  ah,        \* CoulombCounter._ahSinceFull
  resetReq,  \* CoulombCounter._resetRequested
  adding,    \* the MQTT task is inside updateBatCurrent()
  term,      \* termCond.terminated
  vterm,     \* termCond._v_term
  ceilStreak, floorStreak,
  pin,       \* vpack_pin, NoPin while it is NAN
  filt,      \* _vPinFilt, NoPin when reset
  fall,      \* _fallbackGlide
  float,     \* _floatGlide
  wasTerm    \* _wasTerminated

bms     == <<cell, fresh, newFrame, ibat>>
coulomb == <<integ, ah, resetReq, adding>>
verdict == <<term, vterm, ceilStreak, floorStreak>>
pinning == <<pin, filt, fall, float, wasTerm>>
vars    == <<cbat, bms, coulomb, verdict, pinning>>

NoPin == -1

Lesser(a, b) == IF a < b THEN a ELSE b
Greater(a, b) == IF a > b THEN a ELSE b
Between(a, b) == Lesser(a, b)..Greater(a, b)

\* LinearGlide.  What it started from is not read once it is inactive: value()
\* is then the target of the last start, an age of zero being ages ago.
Idle(to)        == [on |-> FALSE, from |-> to, to |-> to, dt |-> GlideTime]
Start(from, to) == [on |-> TRUE, from |-> from, to |-> to, dt |-> 0]
Reset(g)        == Idle(g.to)
Later(g)        == IF g.on /\ g.dt < GlideTime THEN [g EXCEPT !.dt = @ + 1] ELSE g

\* value(): what the float arithmetic rounds to lies between the ends
Value(g) == IF g.dt = GlideTime THEN {g.to}
            ELSE IF g.dt = 0 THEN {g.from} ELSE Between(g.from, g.to)

Init ==
  /\ cbat \in BOOLEAN
  /\ cell = 0 /\ fresh = FALSE /\ newFrame = FALSE /\ ibat = Cold
  /\ integ = 0 /\ ah = 0 /\ resetReq = FALSE /\ adding = FALSE
  /\ term = FALSE /\ vterm = CvMin /\ ceilStreak = 0 /\ floorStreak = 0
  /\ pin = Fallback            \* beginMqtt(), with a cell voltage topic
  /\ filt = NoPin /\ wasTerm = FALSE
  /\ fall = Idle(NoPin) /\ float = Idle(NoPin)

-----------------------------------------------------------------------------
(* The MQTT task.                                                          *)

\* setVcellHigh().  The time is stored after the voltage: a reader in between
\* takes the frame for the one before and meets the new time a round later.
CellFrame(v) ==
  /\ ~adding
  /\ cell' = v /\ fresh' = TRUE /\ newFrame' = TRUE
  /\ UNCHANGED <<cbat, ibat, coulomb, verdict, pinning>>

\* updateBatCurrent(), up to the exchange of the reset flag: the smoothed
\* current is published once it is warm
BeginCurrent(i) ==
  /\ ~adding
  /\ adding' = TRUE
  /\ ibat' = i
  /\ integ' = IF resetReq THEN 0 ELSE integ
  /\ resetReq' = FALSE
  /\ UNCHANGED <<cbat, cell, fresh, newFrame, ah, verdict, pinning>>

EndCurrentClears(q) ==
  /\ adding
  /\ integ + q \in -MostAh..MostAh
  /\ adding' = FALSE
  /\ integ' = integ + q /\ ah' = integ + q /\ resetReq' = FALSE
  /\ UNCHANGED <<cbat, bms, verdict, pinning>>

\* the integrator takes the charge since the last frame (none after a gap)
EndCurrent(q) ==
  /\ adding
  /\ integ + q \in -MostAh..MostAh
  /\ adding' = FALSE
  /\ integ' = integ + q /\ ah' = integ + q
  /\ UNCHANGED <<cbat, bms, resetReq, verdict, pinning>>

\* no frame for VCELL_EXPIRATION_TIME_SEC
Expire ==
  /\ fresh /\ fresh' = FALSE
  /\ UNCHANGED <<cbat, cell, newFrame, ibat, coulomb, verdict, pinning>>

\* CoulombCounter.ahSinceFull()
AhSinceFull == IF resetReq THEN 0 ELSE ah

-----------------------------------------------------------------------------
(* Termination: _updateTermination() and Li_ChgTerminationCondition.       *)

\* the termination line; without a capacity it is flat
Line == IF cbat THEN Lesser(CvMin + Greater(0, ibat * Slope), CvEoc) ELSE CvMin

OverCeiling == ~term /\ cell >= CvCeil
CeilingLatch == OverCeiling /\ ceilStreak + 1 >= CeilReq
OverLine == cbat /\ ibat > IbatFloor /\ cell > Line
Latches == ~term /\ (CeilingLatch \/ OverLine)

Sagging == cell < CvMin - Band
SagReleasesLate == Sagging /\ floorStreak >= FloorReq
SagReleases == Sagging /\ floorStreak + 1 >= FloorReq
DrawnOut == cbat /\ AhSinceFull > Dod
Releases == term /\ (SagReleases \/ DrawnOut)

Evaluate ==
  /\ vterm' = Line
  /\ term' = ((term \/ Latches) /\ ~Releases)
  /\ ceilStreak' = IF OverCeiling /\ ~Latches THEN ceilStreak + 1 ELSE 0
  /\ floorStreak' = IF ~term THEN IF Latches THEN 0 ELSE floorStreak
                    ELSE IF Sagging /\ ~SagReleases THEN floorStreak + 1 ELSE 0
  /\ resetReq' = (resetReq \/ Latches)   \* markFull()

UpdateTermination ==
  IF fresh /\ ibat # Cold THEN Evaluate ELSE UNCHANGED <<verdict, resetReq>>

-----------------------------------------------------------------------------
(* _updatePackVoltagePinning(), with the verdict just taken.               *)

Eoc == Lesser(CvEoc, vterm')
BatDataOk == fresh /\ cbat
FloorPin == Fallback - Offset

\* releaseVoutPinning()
ReleasePinning ==
  /\ pin' = Vmax /\ filt' = NoPin
  /\ fall' = Reset(fall) /\ float' = Reset(float)
  /\ wasTerm' = FALSE
  /\ UNCHANGED newFrame

NoAuthorityKeepsFilter ==
  IF ~term' THEN ReleasePinning
  ELSE /\ pin' = FloorPin
       /\ fall' = Reset(fall) /\ float' = Reset(float)
       /\ wasTerm' = TRUE
       /\ UNCHANGED <<newFrame, filt>>

\* no authority over the bus: a full pack yields, another one climbs
NoAuthority ==
  IF ~term' THEN ReleasePinning
  ELSE /\ pin' = FloorPin /\ filt' = NoPin
       /\ fall' = Reset(fall) /\ float' = Reset(float)
       /\ wasTerm' = TRUE
       /\ UNCHANGED newFrame

\* the float glide as the edge of the verdict leaves it
EdgeGlide ==
  IF term' = wasTerm THEN float
  ELSE Start(IF pin = NoPin THEN Fallback ELSE pin, IF term' THEN Fallback ELSE Vmax)

\* end-of-charge feedback: one step of the integrator per frame, filtered
EocFeedback ==
  /\ fall' = Reset(fall) /\ float' = Reset(EdgeGlide)
  /\ newFrame' = FALSE
  /\ IF newFrame \/ pin = NoPin
     THEN \E base \in (IF pin = NoPin THEN Packs ELSE {pin}) :
            LET raw == Greater(base - (cell - Eoc) * NCells, FloorPin)
            IN  /\ filt' \in (IF filt = NoPin THEN {raw} ELSE Between(filt, raw))
                /\ pin' = filt'
     ELSE UNCHANGED <<pin, filt>>

TerminatedFloat ==
  /\ filt' = NoPin /\ fall' = Reset(fall) /\ float' = EdgeGlide
  /\ pin' \in Value(EdgeGlide)
  /\ UNCHANGED newFrame

StaleFallbackRestarts ==
  /\ filt' = NoPin /\ float' = Reset(EdgeGlide)
  /\ fall' = Start(IF pin = NoPin THEN Fallback ELSE pin, Fallback)
  /\ pin' \in Value(fall')
  /\ UNCHANGED newFrame

StaleFallback ==
  /\ filt' = NoPin /\ float' = Reset(EdgeGlide)
  /\ fall' = IF fall.on THEN fall
             ELSE Start(IF pin = NoPin THEN Fallback ELSE pin, Fallback)
  /\ pin' \in Value(fall')
  /\ UNCHANGED newFrame

Bulk ==
  /\ filt' = NoPin /\ fall' = Reset(fall) /\ float' = EdgeGlide
  /\ pin' \in (IF EdgeGlide.on THEN Value(EdgeGlide) ELSE {Vmax})
  /\ UNCHANGED newFrame

UpdatePinning(authority) ==
  IF ~authority /\ BatDataOk THEN NoAuthority
  ELSE /\ wasTerm' = term'
       /\ IF authority /\ BatDataOk /\ cell >= Eoc THEN EocFeedback
          ELSE IF term' /\ BatDataOk THEN TerminatedFloat
          ELSE IF ~BatDataOk THEN StaleFallback
          ELSE Bulk

\* update(), from lfControl(): authority over the bus is a matter of the
\* converter's duty and its output current
Update(authority) ==
  /\ UpdateTermination /\ UpdatePinning(authority)
  /\ UNCHANGED <<cbat, cell, fresh, ibat, integ, ah, adding>>

\* releaseCvFloorLatch() of the stuck watchdog
StuckRelease ==
  /\ ~term
  /\ ReleasePinning
  /\ UNCHANGED <<cbat, cell, fresh, ibat, coulomb, verdict>>

Tick ==
  /\ fall' = Later(fall) /\ float' = Later(float)
  /\ UNCHANGED <<cbat, bms, coulomb, verdict, pin, filt, wasTerm>>

Next ==
  \/ \E v \in Cells : CellFrame(v)
  \/ \E i \in Currents : BeginCurrent(i)
  \/ \E q \in Charges : EndCurrent(q)
  \/ Expire
  \/ \E authority \in BOOLEAN : Update(authority)
  \/ StuckRelease
  \/ Tick

Spec == Init /\ [][Next]_vars

-----------------------------------------------------------------------------
(* Properties.                                                             *)

Glide == [on : BOOLEAN, from : {NoPin} \union Nat,
          to : {NoPin, Fallback, Vmax}, dt : 0..GlideTime]

\* Streaks stay below their limits, the termination line between its ends, glides and
\* pin in range (charger.h).
TypeOK ==
  /\ cbat \in BOOLEAN /\ fresh \in BOOLEAN /\ newFrame \in BOOLEAN
  /\ cell \in Cells \union {0} /\ ibat \in Currents \union {Cold}
  /\ integ \in -MostAh..MostAh /\ ah \in -MostAh..MostAh
  /\ resetReq \in BOOLEAN /\ adding \in BOOLEAN
  /\ term \in BOOLEAN /\ vterm \in CvMin..CvEoc /\ wasTerm \in BOOLEAN
  /\ ceilStreak \in 0..CeilReq - 1 /\ floorStreak \in 0..FloorReq - 1
  /\ pin \in {NoPin} \union Nat /\ filt \in {NoPin} \union Nat /\ fall \in Glide /\ float \in Glide

\* Vout_max(), the set point of the voltage controllers
VoutMax == IF pin > 0 /\ pin < Vmax THEN pin ELSE Vmax

\* Whatever frames, releases and glides follow on each other, the set point is
\* never pulled below the tolerated offset, the filter follows only the
\* integrator it smooths, and no two of filter, fallback glide and float glide
\* are at work at once (each regime resets what the others use).
PinInRange ==
  /\ VoutMax >= FloorPin
  /\ filt # NoPin => filt = pin /\ ~fall.on /\ ~float.on
  /\ ~(fall.on /\ float.on)
=============================================================================
