-------------------------- MODULE ConverterProofs --------------------------
(***************************************************************************)
(* Proofs about Converter for every period, clamp, fade and step length of *)
(* a converter that refreshes its bootstrap (PwmRectMin > 0, the buck and  *)
(* the buck-boost; without it the room wraps at full duty, see README).    *)
(*                                                                         *)
(* PulsesFitPeriod is not inductive: a rectifier count is only bounded by  *)
(* the room behind the control pulse as long as no helper has wrapped at   *)
(* 16 bits, and the registers only follow while the counts stay there.     *)
(* Inv joins the three; Fits is PulsesFitPeriod as two inequalities.       *)
(***************************************************************************)
EXTENDS Converter, TLAPS

\* what PulsesFitPeriod says of the counts, of any two of them
FitsAt(ctrl, rect) ==
  /\ ctrl + rect <= DriverPwmMax
  /\ ctrl < PwmCtrlMax => ctrl + rect < DriverPwmMax
Fits == FitsAt(pwmCtrl, pwmRect)

Inv == TypeOK /\ Fits /\ RegistersFollowCounts

-----------------------------------------------------------------------------
(* The arithmetic helpers.                                                 *)

LEMMA U16Identity ==
  ASSUME NEW x \in U16Values
  PROVE  U16(x) = x
BY CountsAssumption DEF U16, U16Values

LEMMA ConstrainBounds ==
  ASSUME NEW x \in Int, NEW low \in Int, NEW high \in Int
  PROVE  /\ Constrain(x, low, high) \in Int
         /\ Constrain(x, low, high) <= Most(low, high)
         /\ Constrain(x, low, high) >= Least(low, high)
BY DEF Constrain, Most, Least

LEMMA RoomRange ==
  ASSUME PwmRectMin > 0, NEW ctrl \in 0..PwmCtrlMax
  PROVE  /\ Room(ctrl) \in U16Values
         /\ U16(Room(ctrl)) = Room(ctrl)
         /\ Room(ctrl) = DriverPwmMax - ctrl - 1
         /\ PwmRectMin <= DriverPwmMax - ctrl
<1>1. /\ Room(ctrl) \in U16Values
      /\ Room(ctrl) = DriverPwmMax - ctrl - 1
      /\ PwmRectMin <= DriverPwmMax - ctrl
  BY CountsAssumption DEF Room, PwmCtrlMax, U16Values
<1>2. QED
  BY <1>1, U16Identity

\* the diode-emulation limit never exceeds what the control pulse leaves
LEMMA RectMaxRange ==
  ASSUME PwmRectMin > 0,
         NEW ctrl \in 0..PwmCtrlMax, NEW inDcm \in BOOLEAN, NEW ideal \in U16Values
  PROVE  RectMax(ctrl, inDcm, ideal) \in 0..Room(ctrl)
<1>1. Room(ctrl) \in U16Values /\ U16(Room(ctrl)) = Room(ctrl)
  BY RoomRange
<1>2. PwmRectMin \in U16Values
  BY CountsAssumption DEF U16Values
<1>3. CASE inDcm
  BY <1>1, <1>2, <1>3 DEF RectMax, Least, Most, U16Values
<1>4. CASE ~inDcm
  BY <1>1, <1>2, <1>4 DEF RectMax, Least, Most, U16Values
<1>5. QED
  BY <1>3, <1>4

LEMMA HoldFits ==
  ASSUME PwmRectMin > 0, NEW ctrl \in 0..PwmCtrlMax, NEW ls \in Int
  PROVE  /\ Hold(ls, ctrl) \in 0..DriverPwmMax
         /\ U16(Hold(ls, ctrl)) = Hold(ls, ctrl)
         /\ FitsAt(ctrl, Hold(ls, ctrl))
<1>1. /\ Room(ctrl) \in U16Values
      /\ Room(ctrl) = DriverPwmMax - ctrl - 1
      /\ PwmRectMin <= DriverPwmMax - ctrl
  BY RoomRange
<1>2. PwmRectMin \in Nat /\ DriverPwmMax \in Nat /\ Word \in Nat /\ 2 * DriverPwmMax < Word /\ PwmCtrlMax \in Int
  BY CountsAssumption DEF PwmCtrlMax
<1>3. /\ Hold(ls, ctrl) \in 0..DriverPwmMax
      /\ FitsAt(ctrl, Hold(ls, ctrl))
  BY <1>1, <1>2 DEF Hold, Constrain, FitsAt, PwmCtrlMax
<1>4. QED
  BY <1>2, <1>3, U16Identity DEF U16Values

LEMMA QuotientInt ==
  ASSUME NEW a \in Int, NEW b \in Nat \ {0}
  PROVE  Quotient(a, b) \in Int
BY DEF Quotient

\* the fade-in stays between the bootstrap minimum and the limit
LEMMA FadeInFits ==
  ASSUME PwmRectMin > 0, NEW ctrl \in 0..PwmCtrlMax,
         NEW rect \in U16Values, NEW limit \in 0..Room(ctrl)
  PROVE  /\ FadeIn(rect, limit) \in 0..DriverPwmMax
         /\ FitsAt(ctrl, FadeIn(rect, limit))
         /\ FadeIn(rect, limit) <= Most(limit, PwmRectMin)
<1> DEFINE fast == IF rect > PwmRectMin + FadeKnee THEN Quotient(limit - rect, FadeDiv) ELSE 0
           next == Constrain(rect + 1 + fast, PwmRectMin, limit)
<1>1. /\ Room(ctrl) \in U16Values
      /\ Room(ctrl) = DriverPwmMax - ctrl - 1
      /\ PwmRectMin <= DriverPwmMax - ctrl
  BY RoomRange
<1>2. PwmRectMin \in Nat /\ DriverPwmMax \in Nat /\ Word \in Nat /\ 2 * DriverPwmMax < Word /\ PwmCtrlMax \in Int
  BY CountsAssumption DEF PwmCtrlMax
<1>3. fast \in Int
  <2>1. limit - rect \in Int
    BY <1>1, <1>2 DEF U16Values
  <2>2. Quotient(limit - rect, FadeDiv) \in Int
    BY <2>1, QuotientInt, CountsAssumption
  <2>3. QED
    BY <2>2
<1>4. rect + 1 + fast \in Int
  BY <1>3, <1>2 DEF U16Values
<1> HIDE DEF fast
<1>5. next \in 0..DriverPwmMax /\ FitsAt(ctrl, next)
  BY <1>1, <1>2, <1>4 DEF Constrain, U16Values, FitsAt, PwmCtrlMax
<1>9. next <= Most(limit, PwmRectMin)
  BY <1>1, <1>2, <1>4 DEF Constrain, Most, U16Values
<1>6. FadeIn(rect, limit) = U16(next)
  BY DEF FadeIn, fast
<1>7. U16(next) = next
  BY <1>2, <1>5, U16Identity DEF U16Values
<1>8. QED
  BY <1>5, <1>6, <1>7, <1>9

-----------------------------------------------------------------------------
(* One lemma per operation that moves a count.                             *)

LEMMA PwmPerturbKeepsInv ==
  ASSUME PwmRectMin > 0, Inv,
         NEW d \in Directions, NEW ideal \in DcmIdeals, PwmPerturb(d, ideal)
  PROVE  Inv'
<1> DEFINE ctrl  == Constrain(pwmCtrl + d, PwmCtrlMin, PwmCtrlMax)
           large == -d > LargeDecrease /\ ~forcedPwm
           limit == RectMax(ctrl, dcm \/ large, ideal)
           rect  == IF manualRect >= 0 THEN U16(Hold(manualRect, ctrl))
                    ELSE IF large \/ ~syncRect THEN PwmRectMin
                    ELSE FadeIn(pwmRect, limit)
<1>1. /\ pwmCtrl' = ctrl
      /\ pwmRect' = rect
      /\ IF manualRect >= 0 THEN UNCHANGED <<pwmRectMax, dcm>>
                            ELSE pwmRectMax' = limit /\ dcm' = (dcm \/ large)
      /\ Commit(ctrl, rect, Disabled /\ d > 0)
      /\ UNCHANGED <<manualRect, syncRect, forcedPwm>>
  BY DEF PwmPerturb
<1>2. PwmRectMin \in Nat \ {0} /\ DriverPwmMax \in Nat /\ Word \in Nat /\ 2 * DriverPwmMax < Word /\ PwmCtrlMax \in Nat \ {0}
  BY CountsAssumption DEF PwmCtrlMax
<1>3. ctrl \in 1..PwmCtrlMax
  <2>1. pwmCtrl + d \in Int
    BY InputsAssumption DEF Inv, TypeOK, U16Values
  <2>2. QED
    BY <2>1, <1>2 DEF Constrain, PwmCtrlMin
<1>4. ideal \in U16Values
  BY InputsAssumption
<1>5. limit \in 0..Room(ctrl) /\ Room(ctrl) \in U16Values /\ PwmRectMin <= DriverPwmMax - ctrl
  <2>1. (dcm \/ large) \in BOOLEAN
    OBVIOUS
  <2>2. ctrl \in 0..PwmCtrlMax
    BY <1>2, <1>3
  <2> HIDE DEF ctrl, large
  <2>3. QED
    BY <2>1, <2>2, <1>4, RectMaxRange, RoomRange
<1>6. rect \in 0..DriverPwmMax /\ FitsAt(ctrl, rect)
  <2>1. ctrl \in 0..PwmCtrlMax
    BY <1>2, <1>3
  <2> HIDE DEF ctrl, limit, large
  <2>2. CASE manualRect >= 0
    BY <2>1, <2>2, HoldFits DEF Inv, TypeOK, U16Values
  <2>3. CASE manualRect < 0 /\ (large \/ ~syncRect)
    BY <2>1, <2>3, <1>2, <1>5 DEF Inv, TypeOK, FitsAt, PwmCtrlMax
  <2>4. CASE manualRect < 0 /\ ~(large \/ ~syncRect)
    BY <2>1, <2>4, <1>5, FadeInFits DEF Inv, TypeOK, U16Values
  <2>5. QED
    BY <2>2, <2>3, <2>4 DEF Inv, TypeOK, U16Values
<1>7. dcm' \in BOOLEAN
  BY <1>1 DEF Inv, TypeOK, U16Values
<1>8. pwmRectMax' \in U16Values
  <2> HIDE DEF ctrl, limit, large, rect
  <2>1. QED
    BY <1>1, <1>2, <1>5 DEF Inv, TypeOK, U16Values
<1>9. latched' \in BOOLEAN
  BY <1>1 DEF Commit, Inv, TypeOK
<1> HIDE DEF ctrl, limit, large, rect
<1>10. hsOff' = ctrl /\ lsOff' = ctrl + rect
  <2>1. ctrl + rect \in U16Values
    BY <1>2, <1>3, <1>6 DEF FitsAt, U16Values
  <2>2. QED
    BY <2>1, <1>1, U16Identity DEF Commit
<1>11. QED
  BY <1>1, <1>2, <1>3, <1>6, <1>7, <1>8, <1>9, <1>10
  DEF Inv, TypeOK, Fits, FitsAt, RegistersFollowCounts, U16Values

LEMMA UpdateSyncRectMaxDutyKeepsInv ==
  ASSUME PwmRectMin > 0, Inv, NEW inDcm \in BOOLEAN, NEW ideal \in DcmIdeals,
         UpdateSyncRectMaxDuty(inDcm, ideal)
  PROVE  Inv'
<1> DEFINE limit == RectMax(pwmCtrl, inDcm, ideal)
<1>1. limit \in 0..Room(pwmCtrl) /\ Room(pwmCtrl) \in U16Values
  BY InputsAssumption, RectMaxRange, RoomRange DEF Inv, TypeOK, U16Values
<1>2. CASE manualRect >= 0
  BY <1>2 DEF UpdateSyncRectMaxDuty, Inv, TypeOK, Fits, FitsAt, RegistersFollowCounts, regs
<1>3. CASE ~(manualRect >= 0)
  <2>1. /\ pwmRectMax' = limit
        /\ pwmRect' = Least(pwmRect, limit)
        /\ IF Least(pwmRect, limit) < pwmRect
             THEN CommitLsOff(pwmCtrl, Least(pwmRect, limit)) ELSE UNCHANGED regs
        /\ dcm' = inDcm
        /\ UNCHANGED <<pwmCtrl, manualRect, syncRect, forcedPwm>>
    BY <1>3 DEF UpdateSyncRectMaxDuty
  <2> HIDE DEF limit
  <2>2. DriverPwmMax \in Nat /\ Word \in Nat /\ 2 * DriverPwmMax < Word /\ PwmCtrlMax \in Nat
    BY CountsAssumption DEF PwmCtrlMax
  <2>3. Least(pwmRect, limit) \in 0..pwmRect
    BY <1>1, <2>2 DEF Least, Inv, TypeOK, U16Values
  <2>4. pwmCtrl + Least(pwmRect, limit) \in U16Values
    BY <2>2, <2>3 DEF Inv, TypeOK, Fits, FitsAt, U16Values
  <2>5. /\ lsOff' = pwmCtrl + Least(pwmRect, limit)
        /\ UNCHANGED <<hsOff, latched>>
    <3>1. CASE Least(pwmRect, limit) < pwmRect
      BY <3>1, <2>1, <2>4, U16Identity DEF CommitLsOff
    <3>2. CASE ~(Least(pwmRect, limit) < pwmRect)
      BY <3>2, <2>1, <2>2, <2>3 DEF regs, Inv, TypeOK, RegistersFollowCounts, U16Values
    <3>3. QED
      BY <3>1, <3>2
  <2>6. QED
    BY <1>1, <2>1, <2>2, <2>3, <2>4, <2>5
    DEF Inv, TypeOK, Fits, FitsAt, RegistersFollowCounts, U16Values
<1>4. QED
  BY <1>2, <1>3

LEMMA DropToMinKeepsInv ==
  ASSUME PwmRectMin > 0, Inv, DropToMin,
         UNCHANGED <<pwmCtrl, pwmRectMax, manualRect, dcm>>,
         syncRect' \in BOOLEAN, forcedPwm' \in BOOLEAN
  PROVE  Inv'
<1>1. PwmRectMin \in Nat \ {0} /\ DriverPwmMax \in Nat /\ Word \in Nat /\ 2 * DriverPwmMax < Word /\ PwmCtrlMax \in Nat
  BY CountsAssumption DEF PwmCtrlMax
<1>2. CASE pwmRect > PwmRectMin
  <2>1. pwmCtrl + PwmRectMin \in U16Values /\ FitsAt(pwmCtrl, PwmRectMin)
    BY <1>1, CountsAssumption DEF Inv, TypeOK, PwmCtrlMax, FitsAt, U16Values
  <2>2. lsOff' = pwmCtrl + PwmRectMin
    BY <1>2, <2>1, U16Identity DEF DropToMin, CommitLsOff
  <2>3. QED
    BY <1>1, <1>2, <2>1, <2>2
    DEF DropToMin, CommitLsOff, Inv, TypeOK, Fits, FitsAt, RegistersFollowCounts, U16Values
<1>3. CASE ~(pwmRect > PwmRectMin)
  BY <1>3 DEF DropToMin, regs, Inv, TypeOK, Fits, FitsAt, RegistersFollowCounts
<1>4. QED
  BY <1>2, <1>3

LEMMA SetManualRectKeepsInv ==
  ASSUME PwmRectMin > 0, Inv, NEW ls \in ManualLs, SetManualRect(ls)
  PROVE  Inv'
<1>1. ls \in Int /\ pwmCtrl \in 0..PwmCtrlMax
  BY InputsAssumption DEF Inv, TypeOK, U16Values
<1>2. PwmCtrlMax \in Nat /\ DriverPwmMax \in Nat /\ Word \in Nat /\ 2 * DriverPwmMax < Word
  BY CountsAssumption DEF PwmCtrlMax
<1>3. CASE ls < 0
  BY <1>2, <1>3
  DEF SetManualRect, flags, regs, Inv, TypeOK, Fits, FitsAt, RegistersFollowCounts
<1>4. CASE ~(ls < 0)
  <2>1. /\ Hold(ls, pwmCtrl) \in 0..DriverPwmMax
        /\ U16(Hold(ls, pwmCtrl)) = Hold(ls, pwmCtrl)
        /\ FitsAt(pwmCtrl, Hold(ls, pwmCtrl))
    BY <1>1, HoldFits
  <2>2. U16(pwmCtrl + Hold(ls, pwmCtrl)) = pwmCtrl + Hold(ls, pwmCtrl)
    BY <1>1, <1>2, <2>1, U16Identity DEF FitsAt, U16Values
  <2>3. /\ manualRect' = Hold(ls, pwmCtrl) /\ pwmRect' = Hold(ls, pwmCtrl)
        /\ lsOff' = pwmCtrl + Hold(ls, pwmCtrl) /\ UNCHANGED <<hsOff, latched>>
        /\ UNCHANGED <<pwmCtrl, pwmRectMax, flags>>
    BY <1>4, <2>1, <2>2 DEF SetManualRect, CommitLsOff
  <2>4. QED
    BY <1>2, <2>1, <2>3
    DEF flags, Inv, TypeOK, Fits, FitsAt, RegistersFollowCounts, U16Values
<1>5. QED
  BY <1>3, <1>4

-----------------------------------------------------------------------------

LEMMA InitInv == ASSUME Init PROVE Inv
<1>1. PwmCtrlMax \in Nat /\ DriverPwmMax \in Nat \ {0} /\ Word \in Nat \ {0}
  BY CountsAssumption DEF PwmCtrlMax
<1>2. latched \in BOOLEAN /\ syncRect \in BOOLEAN /\ forcedPwm \in BOOLEAN /\ dcm \in BOOLEAN
  BY InputsAssumption DEF Init
<1>3. /\ pwmCtrl = 0 /\ pwmRect = 0 /\ pwmRectMax = 0 /\ manualRect = -1
      /\ hsOff = 0 /\ lsOff = 0
  BY DEF Init
<1>4. QED
  BY <1>1, <1>2, <1>3 DEF Inv, TypeOK, Fits, FitsAt, RegistersFollowCounts, U16Values

LEMMA NextKeepsInv ==
  ASSUME PwmRectMin > 0, Inv, [Next]_vars
  PROVE  Inv'
<1>1. CASE \E d \in Directions, ideal \in DcmIdeals : PwmPerturb(d, ideal)
  BY <1>1, PwmPerturbKeepsInv
<1>2. CASE Disable
  <2>1. PwmCtrlMax \in Nat /\ DriverPwmMax \in Nat /\ Word \in Nat \ {0}
    BY CountsAssumption DEF PwmCtrlMax
  <2>2. latched' \in BOOLEAN /\ syncRect' \in BOOLEAN
    BY <1>2, InputsAssumption DEF Disable
  <2>3. /\ pwmCtrl' = 0 /\ pwmRect' = 0 /\ hsOff' = 0 /\ lsOff' = 0
        /\ UNCHANGED <<pwmRectMax, manualRect, forcedPwm, dcm>>
    BY <1>2 DEF Disable
  <2>4. QED
    BY <2>1, <2>2, <2>3
    DEF Inv, TypeOK, Fits, FitsAt, RegistersFollowCounts, U16Values
<1>3. CASE \E inDcm \in BOOLEAN, ideal \in DcmIdeals : UpdateSyncRectMaxDuty(inDcm, ideal)
  BY <1>3, UpdateSyncRectMaxDutyKeepsInv
<1>4. CASE SyncRectMinDuty
  BY <1>4, DropToMinKeepsInv DEF SyncRectMinDuty, flags, Inv, TypeOK
<1>5. CASE \E enable \in BOOLEAN : EnableSyncRect(enable)
  <2>1. PICK enable \in BOOLEAN : EnableSyncRect(enable)
    BY <1>5
  <2>2. syncRect' \in BOOLEAN /\ forcedPwm' \in BOOLEAN
    BY <2>1 DEF EnableSyncRect, Inv, TypeOK
  <2>3. CASE enable \/ forcedPwm
    BY <2>1, <2>2, <2>3
    DEF EnableSyncRect, regs, Inv, TypeOK, Fits, FitsAt, RegistersFollowCounts
  <2>4. CASE ~(enable \/ forcedPwm)
    BY <2>1, <2>2, <2>4, DropToMinKeepsInv DEF EnableSyncRect
  <2>5. QED
    BY <2>3, <2>4
<1>6. CASE \E on \in BOOLEAN : CmdSync(on)
  <2>1. PICK on \in BOOLEAN : CmdSync(on)
    BY <1>6
  <2>2. CASE on
    BY <2>1, <2>2
    DEF CmdSync, regs, Inv, TypeOK, Fits, FitsAt, RegistersFollowCounts
  <2>3. CASE ~on
    BY <2>1, <2>3, DropToMinKeepsInv DEF CmdSync
  <2>4. QED
    BY <2>2, <2>3
<1>7. CASE CmdSyncForced
  BY <1>7
  DEF CmdSyncForced, counts, regs, Inv, TypeOK, Fits, FitsAt, RegistersFollowCounts
<1>8. CASE \E ls \in ManualLs : SetManualRect(ls)
  BY <1>8, SetManualRectKeepsInv
<1>9. CASE UNCHANGED vars
  BY <1>9
  DEF vars, counts, flags, regs, Inv, TypeOK, Fits, FitsAt, RegistersFollowCounts
<1>10. QED
  BY <1>1, <1>2, <1>3, <1>4, <1>5, <1>6, <1>7, <1>8, <1>9 DEF Next

\* buck.h keeps each count in the range of its type and its clamp, whatever
\* sequence of steps, limits, bench holds and mode changes it is given.
THEOREM TypeCorrect ==
  ASSUME PwmRectMin > 0
  PROVE  Spec => []TypeOK
<1>1. Init => Inv
  BY InitInv
<1>2. Inv /\ [Next]_vars => Inv'
  BY NextKeepsInv
<1>3. Inv => TypeOK
  BY DEF Inv
<1>4. QED
  BY <1>1, <1>2, <1>3, PTL DEF Spec

\* The control and the rectifier pulse of buck.h end inside the PWM period, one count
\* before its end at the latest, but for the largest duty with the rectifier at its
\* bootstrap minimum, where both together are the period.
THEOREM PulsesFit ==
  ASSUME PwmRectMin > 0
  PROVE  Spec => []PulsesFitPeriod
<1>1. Init => Inv
  BY InitInv
<1>2. Inv /\ [Next]_vars => Inv'
  BY NextKeepsInv
<1>3. Inv => PulsesFitPeriod
  BY CountsAssumption
  DEF Inv, TypeOK, Fits, FitsAt, PulsesFitPeriod, FullDutyAtMinimum, PwmCtrlMax, U16Values
<1>4. QED
  BY <1>1, <1>2, <1>3, PTL DEF Spec

\* No operation of buck.h changes a count and leaves the comparators behind.
THEOREM RegistersFollow ==
  ASSUME PwmRectMin > 0
  PROVE  Spec => []RegistersFollowCounts
<1>1. Init => Inv
  BY InitInv
<1>2. Inv /\ [Next]_vars => Inv'
  BY NextKeepsInv
<1>3. Inv => RegistersFollowCounts
  BY DEF Inv
<1>4. QED
  BY <1>1, <1>2, <1>3, PTL DEF Spec

-----------------------------------------------------------------------------
(* The force latch.                                                        *)

\* disable() is the only way to a zero count, and a step off zero is enabling.
LatchFollows == latched <=> UseMcpwm /\ Disabled

LEMMA PerturbKeepsLatch ==
  ASSUME PwmRectMin > 0, Inv, LatchFollows,
         NEW d \in Directions, NEW ideal \in DcmIdeals, PwmPerturb(d, ideal)
  PROVE  LatchFollows'
<1>1. ~Disabled'
  <2>1. d \in Int /\ pwmCtrl \in Int /\ PwmCtrlMax \in Int /\ PwmCtrlMax >= PwmCtrlMin
    BY InputsAssumption, CountsAssumption DEF Inv, TypeOK, PwmCtrlMax, PwmCtrlMin
  <2>2. pwmCtrl' = Constrain(pwmCtrl + d, PwmCtrlMin, PwmCtrlMax)
    BY DEF PwmPerturb
  <2>3. QED
    BY <2>1, <2>2 DEF Constrain, PwmCtrlMin, Disabled
<1>2. latched' <=> latched /\ ~(Disabled /\ d > 0)
  BY Zenon DEF PwmPerturb, Commit
<1>3. Disabled => d > 0
  BY Zenon DEF PwmPerturb
<1>4. QED
  BY <1>1, <1>2, <1>3, Zenon DEF LatchFollows

LEMMA NextKeepsLatch ==
  ASSUME PwmRectMin > 0, Inv, LatchFollows, [Next]_vars
  PROVE  LatchFollows'
<1>1. CASE \E d \in Directions, ideal \in DcmIdeals : PwmPerturb(d, ideal)
  BY <1>1, PerturbKeepsLatch
<1>2. CASE Disable
  <2>1. Disabled' /\ latched' = UseMcpwm
    BY <1>2 DEF Disable, Disabled
  <2>2. QED
    BY <2>1, Zenon DEF LatchFollows
<1>3. ASSUME UNCHANGED <<pwmCtrl, latched>> PROVE LatchFollows'
  BY <1>3 DEF LatchFollows, Disabled
<1>4. CASE \E inDcm \in BOOLEAN, ideal \in DcmIdeals : UpdateSyncRectMaxDuty(inDcm, ideal)
  BY <1>3, <1>4 DEF UpdateSyncRectMaxDuty, CommitLsOff, regs
<1>5. CASE SyncRectMinDuty \/ (\E enable \in BOOLEAN : EnableSyncRect(enable))
             \/ (\E on \in BOOLEAN : CmdSync(on))
  BY <1>3, <1>5 DEF SyncRectMinDuty, EnableSyncRect, CmdSync, DropToMin, CommitLsOff, regs
<1>6. CASE CmdSyncForced \/ (\E ls \in ManualLs : SetManualRect(ls))
  BY <1>3, <1>6 DEF CmdSyncForced, SetManualRect, CommitLsOff, counts, regs
<1>7. CASE UNCHANGED vars
  BY <1>3, <1>7 DEF vars, counts, regs
<1>8. QED
  BY <1>1, <1>2, <1>4, <1>5, <1>6, <1>7, Zenon DEF Next

LEMMA SpecLatch ==
  ASSUME PwmRectMin > 0
  PROVE  Spec => []LatchFollows
<1>1. Init => Inv /\ LatchFollows
  <2>1. ASSUME Init PROVE LatchFollows
    <3>1. Disabled /\ latched = UseMcpwm
      BY <2>1 DEF Init, Disabled
    <3>2. QED
      BY <3>1, Zenon DEF LatchFollows
  <2>2. QED
    BY <2>1, InitInv
<1>2. Inv /\ LatchFollows /\ [Next]_vars => (Inv /\ LatchFollows)'
  BY NextKeepsInv, NextKeepsLatch
<1>3. QED
  BY <1>1, <1>2, PTL DEF Spec

\* On the MCPWM driver disabled() means that both gates are forced low, whatever
\* bench holds and mode changes write to the comparators of a stopped converter.
THEOREM DisabledIsDark ==
  ASSUME PwmRectMin > 0, UseMcpwm
  PROVE  Spec => []DisabledMeansGatesLow
<1>1. LatchFollows => DisabledMeansGatesLow
  BY Zenon DEF LatchFollows, DisabledMeansGatesLow, GatesLow
<1>2. QED
  BY <1>1, SpecLatch, PTL

\* A converter with a duty is never left with its gates forced low, on either
\* driver: the step that leaves the disabled state releases the latch.
THEOREM EnabledIsUnlatched ==
  ASSUME PwmRectMin > 0
  PROVE  Spec => []EnabledMeansUnlatched
<1>1. LatchFollows => EnabledMeansUnlatched
  BY Zenon DEF LatchFollows, EnabledMeansUnlatched
<1>2. QED
  BY <1>1, SpecLatch, PTL

-----------------------------------------------------------------------------
(* Diode emulation.                                                        *)

LEMMA PerturbWithinLimit ==
  ASSUME PwmRectMin > 0, Inv, NEW d \in Directions, NEW ideal \in DcmIdeals,
         PwmPerturb(d, ideal), manualRect' = -1
  PROVE  pwmRect' <= Most(pwmRectMax', PwmRectMin)
<1> DEFINE ctrl  == Constrain(pwmCtrl + d, PwmCtrlMin, PwmCtrlMax)
           large == -d > LargeDecrease /\ ~forcedPwm
           limit == RectMax(ctrl, dcm \/ large, ideal)
<1>1. manualRect = -1
  BY DEF PwmPerturb
<1>2. /\ pwmRect' = IF large \/ ~syncRect THEN PwmRectMin ELSE FadeIn(pwmRect, limit)
      /\ pwmRectMax' = limit
  BY <1>1 DEF PwmPerturb
<1>3. /\ d \in Int /\ pwmCtrl \in Int /\ PwmCtrlMax \in Nat \ {0}
      /\ PwmRectMin \in Nat \ {0} /\ DriverPwmMax \in Nat
  BY CountsAssumption, InputsAssumption DEF Inv, TypeOK, PwmCtrlMax
<1>4. ctrl \in 0..PwmCtrlMax
  BY <1>3 DEF Constrain, PwmCtrlMin
<1>5. /\ (dcm \/ large) \in BOOLEAN /\ ideal \in U16Values
      /\ pwmRect \in U16Values
  BY InputsAssumption DEF Inv, TypeOK
<1> HIDE DEF ctrl, large
<1>6. limit \in 0..Room(ctrl)
  BY <1>4, <1>5, RectMaxRange
<1>7. Room(ctrl) \in Int
  BY <1>4, RoomRange DEF U16Values, Room
<1> HIDE DEF limit
<1>8. FadeIn(pwmRect, limit) <= Most(limit, PwmRectMin)
  BY <1>4, <1>5, <1>6, FadeInFits
<1>9. PwmRectMin <= Most(limit, PwmRectMin)
  BY <1>3, <1>6, <1>7 DEF Most
<1>10. QED
  BY <1>2, <1>8, <1>9

\* nothing but a step of the duty, or a bench hold, lengthens the on-time
LEMMA OthersShorten ==
  ASSUME PwmRectMin > 0, Inv, Inv', manualRect' = -1, pwmRect' > pwmRect,
         \/ Disable \/ SyncRectMinDuty \/ CmdSyncForced \/ UNCHANGED vars
         \/ \E inDcm \in BOOLEAN, ideal \in DcmIdeals : UpdateSyncRectMaxDuty(inDcm, ideal)
         \/ \E enable \in BOOLEAN : EnableSyncRect(enable)
         \/ \E on \in BOOLEAN : CmdSync(on)
         \/ \E ls \in ManualLs : SetManualRect(ls)
  PROVE  FALSE
<1>1. pwmRect \in Nat /\ pwmCtrl \in 0..PwmCtrlMax /\ PwmRectMin \in Nat
  BY CountsAssumption DEF Inv, TypeOK, U16Values
<1>2. pwmRect' \in Nat /\ pwmRect' # pwmRect /\ ~(pwmRect' < pwmRect)
  BY <1>1, CountsAssumption DEF Inv, TypeOK, U16Values
<1>3. CASE Disable
  BY <1>1, <1>2, <1>3 DEF Disable
<1>4. ~DropToMin
  BY <1>1, <1>2 DEF DropToMin
<1>5. CASE SyncRectMinDuty
  BY <1>4, <1>5 DEF SyncRectMinDuty
<1>6. CASE CmdSyncForced \/ UNCHANGED vars
  BY <1>2, <1>6 DEF CmdSyncForced, vars, counts
<1>7. CASE \E enable \in BOOLEAN : EnableSyncRect(enable)
  BY <1>2, <1>4, <1>7 DEF EnableSyncRect
<1>8. CASE \E on \in BOOLEAN : CmdSync(on)
  BY <1>2, <1>4, <1>8 DEF CmdSync
<1>9. CASE \E inDcm \in BOOLEAN, ideal \in DcmIdeals : UpdateSyncRectMaxDuty(inDcm, ideal)
  <2>1. PICK inDcm \in BOOLEAN, ideal \in DcmIdeals : UpdateSyncRectMaxDuty(inDcm, ideal)
    BY <1>9
  <2>2. pwmRect' = Least(pwmRect, RectMax(pwmCtrl, inDcm, ideal))
    BY <1>2, <2>1 DEF UpdateSyncRectMaxDuty
  <2>3. ideal \in U16Values /\ Room(pwmCtrl) \in Int
    BY <1>1, RoomRange, InputsAssumption DEF U16Values
  <2>4. RectMax(pwmCtrl, inDcm, ideal) \in Int
    BY <1>1, <2>3, RectMaxRange
  <2>5. QED
    BY <1>1, <1>2, <2>2, <2>4 DEF Least
<1>10. CASE \E ls \in ManualLs : SetManualRect(ls)
  <2>1. PICK ls \in ManualLs : SetManualRect(ls)
    BY <1>10
  <2>2. ls \in Int
    BY InputsAssumption
  <2>3. CASE ls < 0
    BY <1>2, <2>1, <2>3 DEF SetManualRect
  <2>4. CASE ~(ls < 0)
    <3>1. manualRect' = Hold(ls, pwmCtrl)
      BY <2>1, <2>4 DEF SetManualRect
    <3>2. Hold(ls, pwmCtrl) \in 0..DriverPwmMax /\ DriverPwmMax \in Nat
      BY <1>1, <2>2, HoldFits, CountsAssumption
    <3>3. QED
      BY <3>1, <3>2
  <2>5. QED
    BY <2>3, <2>4
<1>11. QED
  BY <1>3, <1>5, <1>6, <1>7, <1>8, <1>9, <1>10

\* In automatic mode no operation lengthens the rectifier's on-time beyond the
\* diode-emulation limit computed with it (or the bootstrap minimum), whatever
\* limits, holds and steps came before.
THEOREM RectStaysWithinLimit ==
  ASSUME PwmRectMin > 0
  PROVE  Spec => RectGrowsWithinLimit
<1>1. Init => Inv
  BY InitInv
<1>2. Inv /\ [Next]_vars => Inv'
  BY NextKeepsInv
<1>3. Inv /\ [Next]_vars =>
        [manualRect' = -1 /\ pwmRect' > pwmRect
           => pwmRect' <= Most(pwmRectMax', PwmRectMin)]_vars
  <2> SUFFICES ASSUME Inv, [Next]_vars, manualRect' = -1, pwmRect' > pwmRect
               PROVE  pwmRect' <= Most(pwmRectMax', PwmRectMin)
    BY DEF vars
  <2>1. CASE \E d \in Directions, ideal \in DcmIdeals : PwmPerturb(d, ideal)
    BY <2>1, PerturbWithinLimit
  <2>2. QED
    BY <2>1, OthersShorten, NextKeepsInv DEF Next
<1>4. QED
  BY <1>1, <1>2, <1>3, PTL DEF Spec, RectGrowsWithinLimit
=============================================================================
