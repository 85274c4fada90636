---------------------------- MODULE ChargerProofs ----------------------------
(* The pin of the pack voltage stays in range, and the coulomb counter loses *)
(* neither a reset nor a frame, for every battery, streak length and glide.   *)
EXTENDS MCCharger, TLAPS

-----------------------------------------------------------------------------
(* Glides.                                                                 *)

\* an active glide lies in range, an inactive one has arrived
GlideOK(g) ==
  /\ g.on => g.from >= FloorPin /\ g.to # NoPin
  /\ ~g.on => g.dt = GlideTime

Pinned(v) == v = NoPin \/ (v \in Nat /\ v >= FloorPin)

LEMMA Constants ==
  /\ Fallback \in Nat /\ Vmax \in Nat /\ Offset \in Nat /\ GlideTime \in Nat /\ GlideTime > 0
  /\ FloorPin \in Nat /\ FloorPin > 0 /\ FloorPin <= Fallback /\ Fallback <= Vmax
BY ChargerAssumption DEF ChargerAssumption, FloorPin

LEMMA ValueInRange ==
  ASSUME NEW g \in Glide, GlideOK(g), NEW v \in Value(g)
  PROVE  Pinned(v)
BY Constants DEF Glide, GlideOK, Value, Between, Lesser, Greater, Pinned, NoPin

LEMMA StartOK ==
  ASSUME NEW from \in Nat, from >= FloorPin, NEW to \in {Fallback, Vmax}
  PROVE  Start(from, to) \in Glide /\ GlideOK(Start(from, to))
BY Constants DEF Start, Glide, GlideOK, NoPin

LEMMA ResetOK ==
  ASSUME NEW g \in Glide
  PROVE  Reset(g) \in Glide /\ GlideOK(Reset(g)) /\ ~Reset(g).on
BY Constants DEF Reset, Idle, Glide, GlideOK, NoPin

LEMMA LaterOK ==
  ASSUME NEW g \in Glide, GlideOK(g)
  PROVE  Later(g) \in Glide /\ GlideOK(Later(g)) /\ Later(g).on = g.on
BY Constants DEF Later, Glide, GlideOK

-----------------------------------------------------------------------------
(* The pin.                                                                *)

PinInv ==
  /\ Pinned(pin)
  /\ filt # NoPin => filt = pin /\ ~fall.on /\ ~float.on
  /\ ~(fall.on /\ float.on)
  /\ fall \in Glide /\ GlideOK(fall)
  /\ float \in Glide /\ GlideOK(float)

LEMMA PinInit == Init => PinInv
BY Constants DEF Init, PinInv, Pinned, Idle, Glide, GlideOK, NoPin

LEMMA EdgeGlideOK ==
  ASSUME PinInv
  PROVE  EdgeGlide \in Glide /\ GlideOK(EdgeGlide)
<1>1. CASE term' = wasTerm
  BY <1>1 DEF EdgeGlide, PinInv
<1>2. CASE term' # wasTerm
  <2> DEFINE from == IF pin = NoPin THEN Fallback ELSE pin
             to == IF term' THEN Fallback ELSE Vmax
  <2>1. from \in Nat /\ from >= FloorPin
    BY Constants DEF PinInv, Pinned
  <2>2. to \in {Fallback, Vmax}
    OBVIOUS
  <2>3. EdgeGlide = Start(from, to)
    BY <1>2 DEF EdgeGlide
  <2> QED
    BY <2>1, <2>2, <2>3, StartOK
<1> QED
  BY <1>1, <1>2

LEMMA ReleasePinningKeeps ==
  ASSUME PinInv, ReleasePinning
  PROVE  PinInv'
<1>1. Pinned(pin')
  BY Constants DEF ReleasePinning, Pinned
<1>2. /\ fall' \in Glide /\ GlideOK(fall') /\ ~fall'.on
      /\ float' \in Glide /\ GlideOK(float') /\ ~float'.on
  BY ResetOK DEF PinInv, ReleasePinning
<1>3. filt' = NoPin
  BY DEF ReleasePinning
<1> QED
  BY <1>1, <1>2, <1>3 DEF PinInv, Pinned, GlideOK, NoPin, Glide, FloorPin

LEMMA NoAuthorityKeeps ==
  ASSUME PinInv, NoAuthority
  PROVE  PinInv'
<1>1. CASE ~term'
  BY <1>1, ReleasePinningKeeps DEF NoAuthority
<1>2. CASE term'
  <2>1. Pinned(pin')
    BY <1>2, Constants DEF NoAuthority, Pinned
  <2>2. /\ fall' \in Glide /\ GlideOK(fall') /\ ~fall'.on
        /\ float' \in Glide /\ GlideOK(float') /\ ~float'.on
    BY <1>2, ResetOK DEF PinInv, NoAuthority
  <2>3. filt' = NoPin
    BY <1>2 DEF NoAuthority
  <2> QED
    BY <2>1, <2>2, <2>3 DEF PinInv, Pinned, GlideOK, NoPin, Glide, FloorPin
<1> QED
  BY <1>1, <1>2

LEMMA EocFeedbackKeeps ==
  ASSUME PinInv, EocFeedback, (cell - Eoc) * NCells \in Int
  PROVE  PinInv'
<1>1. /\ fall' \in Glide /\ GlideOK(fall') /\ ~fall'.on
      /\ float' \in Glide /\ GlideOK(float') /\ ~float'.on
  BY ResetOK, EdgeGlideOK DEF PinInv, EocFeedback
<1>2. Pinned(pin') /\ (filt' # NoPin => filt' = pin')
  <2>1. CASE newFrame \/ pin = NoPin
    <3>1. PICK base \in (IF pin = NoPin THEN Packs ELSE {pin}) :
            LET raw == Greater(base - (cell - Eoc) * NCells, FloorPin)
            IN  /\ filt' \in (IF filt = NoPin THEN {raw} ELSE Between(filt, raw))
                /\ pin' = filt'
      BY <2>1 DEF EocFeedback
    <3> DEFINE raw == Greater(base - (cell - Eoc) * NCells, FloorPin)
    <3>2. base \in Nat
      BY ChargerAssumption DEF ChargerAssumption, PinInv, Pinned
    <3>3. raw \in Nat /\ raw >= FloorPin
      BY <3>2, Constants DEF Greater
    <3>4. filt = NoPin \/ (filt \in Nat /\ filt >= FloorPin)
      BY DEF PinInv, Pinned
    <3> HIDE DEF raw
    <3>5. filt' \in Nat /\ filt' >= FloorPin
      BY <3>1, <3>3, <3>4, Constants DEF Between, Lesser, Greater, raw
    <3> QED
      BY <3>1, <3>5 DEF Pinned
  <2>2. CASE ~(newFrame \/ pin = NoPin)
    BY <2>2 DEF EocFeedback, PinInv
  <2> QED
    BY <2>1, <2>2
<1> QED
  BY <1>1, <1>2 DEF PinInv, Pinned, GlideOK, NoPin, Glide, FloorPin

LEMMA TerminatedFloatKeeps ==
  ASSUME PinInv, TerminatedFloat
  PROVE  PinInv'
<1>1. fall' \in Glide /\ GlideOK(fall') /\ ~fall'.on
  BY ResetOK DEF PinInv, TerminatedFloat
<1>2. float' \in Glide /\ GlideOK(float')
  BY EdgeGlideOK DEF TerminatedFloat
<1>3. Pinned(pin')
  BY EdgeGlideOK, ValueInRange DEF TerminatedFloat
<1>4. filt' = NoPin
  BY DEF TerminatedFloat
<1> QED
  BY <1>1, <1>2, <1>3, <1>4 DEF PinInv, Pinned, GlideOK, NoPin, Glide, FloorPin

LEMMA BulkKeeps ==
  ASSUME PinInv, Bulk
  PROVE  PinInv'
<1>1. fall' \in Glide /\ GlideOK(fall') /\ ~fall'.on
  BY ResetOK DEF PinInv, Bulk
<1>2. float' \in Glide /\ GlideOK(float')
  BY EdgeGlideOK DEF Bulk
<1>3. Pinned(pin')
  <2>1. CASE EdgeGlide.on
    BY <2>1, EdgeGlideOK, ValueInRange DEF Bulk
  <2>2. CASE ~EdgeGlide.on
    BY <2>2, Constants DEF Bulk, Pinned
  <2> QED
    BY <2>1, <2>2
<1>4. filt' = NoPin
  BY DEF Bulk
<1> QED
  BY <1>1, <1>2, <1>3, <1>4 DEF PinInv, Pinned, GlideOK, NoPin, Glide, FloorPin

LEMMA StaleFallbackKeeps ==
  ASSUME PinInv, StaleFallback
  PROVE  PinInv'
<1>1. float' \in Glide /\ GlideOK(float') /\ ~float'.on
  BY ResetOK, EdgeGlideOK DEF StaleFallback
<1>2. fall' \in Glide /\ GlideOK(fall')
  <2>1. CASE fall.on
    BY <2>1 DEF StaleFallback, PinInv
  <2>2. CASE ~fall.on
    <3> DEFINE from == IF pin = NoPin THEN Fallback ELSE pin
    <3>1. from \in Nat /\ from >= FloorPin
      BY Constants DEF PinInv, Pinned
    <3>2. fall' = Start(from, Fallback)
      BY <2>2 DEF StaleFallback
    <3> QED
      BY <3>1, <3>2, StartOK
  <2> QED
    BY <2>1, <2>2
<1>3. Pinned(pin')
  BY <1>2, ValueInRange DEF StaleFallback
<1>4. filt' = NoPin
  BY DEF StaleFallback
<1> QED
  BY <1>1, <1>2, <1>3, <1>4 DEF PinInv, Pinned, GlideOK, NoPin, Glide, FloorPin

-----------------------------------------------------------------------------
(* Types.                                                                  *)

\* TypeOK without the pin and its glides, which PinInv types
Types ==
  /\ cbat \in BOOLEAN /\ fresh \in BOOLEAN /\ newFrame \in BOOLEAN
  /\ cell \in Cells \union {0} /\ ibat \in Currents \union {Cold}
  /\ integ \in -MostAh..MostAh /\ ah \in -MostAh..MostAh
  /\ resetReq \in BOOLEAN /\ adding \in BOOLEAN
  /\ term \in BOOLEAN /\ vterm \in CvMin..CvEoc /\ wasTerm \in BOOLEAN
  /\ ceilStreak \in 0..CeilReq - 1 /\ floorStreak \in 0..FloorReq - 1

IInv == Types /\ PinInv

LEMMA InvImplies == IInv => TypeOK /\ PinInRange
BY Constants DEF IInv, Types, PinInv, Pinned, TypeOK, PinInRange, VoutMax, NoPin

LEMMA Numbers ==
  /\ MostAh \in Nat /\ 0 \in -MostAh..MostAh /\ CvMin \in CvMin..CvEoc
  /\ 0 \in 0..CeilReq - 1 /\ 0 \in 0..FloorReq - 1
BY ChargerAssumption DEF ChargerAssumption

LEMMA TypesInit == Init => Types
BY Numbers DEF Init, Types

LEMMA LineInRange ==
  ASSUME Types, ibat # Cold
  PROVE  Line \in CvMin..CvEoc
<1>1. ibat * Slope \in Int
  BY ChargerAssumption DEF ChargerAssumption, Types
<1> DEFINE rise == ibat * Slope
<1>2. Greater(0, rise) \in Nat
  BY <1>1 DEF Greater
<1> HIDE DEF rise
<1>3. Lesser(CvMin + Greater(0, rise), CvEoc) \in CvMin..CvEoc
  BY <1>2, ChargerAssumption DEF ChargerAssumption, Lesser
<1> QED
  BY <1>3, ChargerAssumption DEF ChargerAssumption, Line, rise

\* a streak that is long enough latches or releases, and starts anew
LEMMA EvaluateTypes ==
  ASSUME Types, UpdateTermination
  PROVE  /\ resetReq' \in BOOLEAN /\ term' \in BOOLEAN /\ vterm' \in CvMin..CvEoc
         /\ ceilStreak' \in 0..CeilReq - 1 /\ floorStreak' \in 0..FloorReq - 1
<1>1. CASE fresh /\ ibat # Cold
  <2>1. Evaluate
    BY <1>1 DEF UpdateTermination
  <2>2. vterm' \in CvMin..CvEoc
    BY <1>1, <2>1, LineInRange DEF Evaluate
  <2>3. resetReq' \in BOOLEAN /\ term' \in BOOLEAN
    BY <2>1 DEF Evaluate
  <2>4. ceilStreak' \in 0..CeilReq - 1
    <3>1. CASE OverCeiling /\ ~Latches
      <4>1. ~(ceilStreak + 1 >= CeilReq)
        BY <3>1 DEF OverCeiling, Latches, CeilingLatch
      <4>2. ceilStreak' = ceilStreak + 1
        BY <2>1, <3>1 DEF Evaluate
      <4> QED
        BY <4>1, <4>2, ChargerAssumption DEF ChargerAssumption, Types
    <3>2. CASE ~(OverCeiling /\ ~Latches)
      <4>1. ceilStreak' = 0
        BY <2>1, <3>2 DEF Evaluate
      <4> QED
        BY <4>1, ChargerAssumption DEF ChargerAssumption
    <3> QED
      BY <3>1, <3>2
  <2>5. floorStreak' \in 0..FloorReq - 1
    <3>1. CASE term /\ Sagging /\ ~SagReleases
      <4>1. ~(floorStreak + 1 >= FloorReq)
        BY <3>1 DEF SagReleases
      <4>2. floorStreak' = floorStreak + 1
        BY <2>1, <3>1 DEF Evaluate
      <4> QED
        BY <4>1, <4>2, ChargerAssumption DEF ChargerAssumption, Types
    <3>2. CASE ~(term /\ Sagging /\ ~SagReleases)
      <4>1. floorStreak' \in {0, floorStreak}
        BY <2>1, <3>2 DEF Evaluate
      <4> QED
        BY <4>1, ChargerAssumption DEF ChargerAssumption, Types
    <3> QED
      BY <3>1, <3>2
  <2> QED
    BY <2>2, <2>3, <2>4, <2>5
<1>2. CASE ~(fresh /\ ibat # Cold)
  BY <1>2 DEF UpdateTermination, verdict, Types
<1> QED
  BY <1>1, <1>2

LEMMA PinningTypes ==
  ASSUME Types, UpdatePinning(TRUE) \/ UpdatePinning(FALSE), term' \in BOOLEAN
  PROVE  newFrame' \in BOOLEAN /\ wasTerm' \in BOOLEAN
BY DEF UpdatePinning, NoAuthority, ReleasePinning, EocFeedback, TerminatedFloat,
       StaleFallback, Bulk, Types

-----------------------------------------------------------------------------
(* Steps.                                                                  *)

\* the voltage above the end-of-charge line is a number whatever the verdict
LEMMA UpdateKeeps ==
  ASSUME IInv, NEW authority \in BOOLEAN, Update(authority)
  PROVE  IInv'
<1> USE DEF IInv
<1>1. UpdateTermination /\ UpdatePinning(authority)
  BY DEF Update
<1>2. Types'
  <2>1. newFrame' \in BOOLEAN /\ wasTerm' \in BOOLEAN
    BY <1>1, EvaluateTypes, PinningTypes
  <2> QED
    BY <1>1, <2>1, EvaluateTypes DEF Update, Types
<1>3. (cell - Eoc) * NCells \in Int
  <2>1. vterm' \in Int /\ cell \in Int /\ NCells \in Int /\ CvEoc \in Int
    BY <1>2, ChargerAssumption DEF ChargerAssumption, Types
  <2>2. Eoc \in Int
    BY <2>1 DEF Eoc, Lesser
  <2> QED
    BY <2>1, <2>2
<1>4. \/ NoAuthority \/ EocFeedback \/ TerminatedFloat \/ StaleFallback \/ Bulk
  BY <1>1 DEF UpdatePinning
<1>5. PinInv'
  BY <1>3, <1>4, NoAuthorityKeeps, EocFeedbackKeeps, TerminatedFloatKeeps,
     StaleFallbackKeeps, BulkKeeps
<1> QED
  BY <1>2, <1>5

LEMMA TickKeeps ==
  ASSUME IInv, Tick
  PROVE  IInv'
<1>1. /\ fall' \in Glide /\ GlideOK(fall') /\ fall'.on = fall.on
      /\ float' \in Glide /\ GlideOK(float') /\ float'.on = float.on
  BY LaterOK DEF IInv, PinInv, Tick
<1>2. UNCHANGED <<pin, filt>>
  BY DEF Tick
<1>3. PinInv'
  BY <1>1, <1>2 DEF IInv, PinInv, Pinned, GlideOK, Glide, FloorPin, NoPin
<1>4. Types'
  BY DEF IInv, Types, Tick, bms, coulomb, verdict
<1> QED
  BY <1>3, <1>4 DEF IInv

LEMMA PinUnchanged ==
  ASSUME PinInv, UNCHANGED pinning
  PROVE  PinInv'
BY DEF PinInv, pinning, Pinned, GlideOK, Glide, FloorPin, NoPin

LEMMA NextKeeps == IInv /\ [Next]_vars => IInv'
<1> SUFFICES ASSUME IInv, [Next]_vars PROVE IInv'
  OBVIOUS
<1>1. ASSUME NEW v \in Cells, CellFrame(v) PROVE IInv'
  BY <1>1, PinUnchanged DEF IInv, Types, CellFrame, coulomb, verdict, pinning
<1>2. ASSUME NEW i \in Currents, BeginCurrent(i) PROVE IInv'
  <2>1. integ' \in -MostAh..MostAh
    BY <1>2, Numbers DEF IInv, Types, BeginCurrent
  <2>2. Types'
    BY <1>2, <2>1 DEF IInv, Types, BeginCurrent, verdict, pinning
  <2> QED
    BY <1>2, <2>2, PinUnchanged DEF IInv, BeginCurrent
<1>3. ASSUME NEW q \in Charges, EndCurrent(q) PROVE IInv'
  BY <1>3, PinUnchanged DEF IInv, Types, EndCurrent, bms, verdict, pinning
<1>4. CASE Expire
  BY <1>4, PinUnchanged DEF IInv, Types, Expire, coulomb, verdict, pinning
<1>5. ASSUME NEW authority \in BOOLEAN, Update(authority) PROVE IInv'
  BY <1>5, UpdateKeeps
<1>6. CASE StuckRelease
  <2>1. Types'
    BY <1>6 DEF IInv, Types, StuckRelease, ReleasePinning, coulomb, verdict
  <2> QED
    BY <1>6, <2>1, ReleasePinningKeeps DEF IInv, StuckRelease
<1>7. CASE Tick
  BY <1>7, TickKeeps
<1>8. CASE UNCHANGED vars
  BY <1>8, PinUnchanged DEF IInv, Types, vars, bms, coulomb, verdict, pinning
<1> QED
  BY <1>1, <1>2, <1>3, <1>4, <1>5, <1>6, <1>7, <1>8 DEF Next

LEMMA Invariance == Spec => []IInv
<1>1. Init => IInv
  BY PinInit, TypesInit DEF IInv
<1> QED
  BY <1>1, NextKeeps, PTL DEF Spec

\* Streaks stay below what they must reach, the counter within its bound and the
\* termination line within its limits, whatever the battery is configured to.
THEOREM TypeCorrect == Spec => []TypeOK
BY Invariance, InvImplies, PTL

\* For every pack, offset and glide time: the set point is never pulled below the
\* tolerated offset, and no two of filter and glides are at work at once.
THEOREM PinStaysInRange == Spec => []PinInRange
BY Invariance, InvImplies, PTL

-----------------------------------------------------------------------------
(* The coulomb counter.                                                    *)

\* the reset that a frame has missed is still asked for when the frame ends
Counting ==
  /\ resetReq \in BOOLEAN /\ adding \in BOOLEAN /\ counted \in BOOLEAN /\ term \in BOOLEAN
  /\ adding /\ counted => ~resetReq /\ integ = drawn
  /\ adding /\ ~counted => resetReq /\ drawn = 0
  /\ ~adding /\ resetReq => drawn = 0
  /\ ~adding /\ ~resetReq => integ = drawn /\ ah = drawn

\* the loop asks for a reset exactly when termination latches
LEMMA LatchResets ==
  ASSUME term \in BOOLEAN, resetReq \in BOOLEAN, UpdateTermination
  PROVE  resetReq' = (resetReq \/ Full) /\ term' \in BOOLEAN
<1>1. CASE fresh /\ ibat # Cold
  <2>1. Evaluate
    BY <1>1 DEF UpdateTermination
  <2>2. Latches <=> Full
    BY <2>1 DEF Evaluate, Full, Latches, Releases
  <2> QED
    BY <2>1, <2>2 DEF Evaluate
<1>2. CASE ~(fresh /\ ibat # Cold)
  BY <1>2 DEF UpdateTermination, verdict, Full
<1> QED
  BY <1>1, <1>2

LEMMA CountingUpdate ==
  ASSUME Counting, NEW authority \in BOOLEAN, Update(authority),
         drawn' = IF Full THEN 0 ELSE drawn, counted' = (counted /\ ~Full)
  PROVE  Counting'
<1>1. resetReq' = (resetReq \/ Full) /\ term' \in BOOLEAN
  BY LatchResets DEF Counting, Update
<1>2. UNCHANGED <<integ, ah, adding>>
  BY DEF Update
<1>3. CASE Full
  BY <1>1, <1>2, <1>3 DEF Counting
<1>4. CASE ~Full
  BY <1>1, <1>2, <1>4 DEF Counting
<1> QED
  BY <1>3, <1>4

LEMMA CountingKeeps ==
  Counting /\ [MemoryNext]_<<vars, memory>> => Counting'
<1> SUFFICES ASSUME Counting, [MemoryNext]_<<vars, memory>> PROVE Counting'
  OBVIOUS
<1>1. ASSUME NEW v \in Cells, CellFrame(v), UNCHANGED memory PROVE Counting'
  BY <1>1 DEF Counting, CellFrame, coulomb, verdict, memory
<1>2. ASSUME NEW i \in Currents, BeginCurrent(i), counted' = TRUE, UNCHANGED drawn
      PROVE  Counting'
  BY <1>2 DEF Counting, BeginCurrent, verdict
<1>3. ASSUME NEW q \in Charges, EndCurrent(q),
             drawn' = IF counted THEN drawn + q ELSE drawn, UNCHANGED counted
      PROVE  Counting'
  <2>1. CASE counted
    BY <1>3, <2>1 DEF Counting, EndCurrent, verdict
  <2>2. CASE ~counted
    BY <1>3, <2>2 DEF Counting, EndCurrent, verdict
  <2> QED
    BY <2>1, <2>2
<1>4. ASSUME NEW authority \in BOOLEAN, Update(authority),
             drawn' = IF Full THEN 0 ELSE drawn, counted' = (counted /\ ~Full)
      PROVE  Counting'
  BY <1>4, CountingUpdate
<1>5. CASE (Expire \/ StuckRelease \/ Tick) /\ UNCHANGED memory
  BY <1>5 DEF Counting, Expire, StuckRelease, Tick, coulomb, verdict, memory
<1>6. CASE UNCHANGED <<vars, memory>>
  BY <1>6 DEF Counting, vars, coulomb, verdict, memory
<1> QED
  BY <1>1, <1>2, <1>3, <1>4, <1>5, <1>6 DEF MemoryNext

\* Wherever the reset of the loop falls into a frame of the MQTT task, the counter
\* reads the charge drawn since the pack was full, for every frame and threshold.
THEOREM CountsCharge == MemorySpec => []CountsSinceFull
<1>1. MemoryInit => Counting
  BY DEF MemoryInit, Init, Counting
<1>2. Counting => CountsSinceFull
  BY DEF Counting, CountsSinceFull, AhSinceFull
<1> QED
  BY <1>1, <1>2, CountingKeeps, PTL DEF MemorySpec
=============================================================================
