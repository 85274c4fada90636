------------------------- MODULE MpptControlProofs -------------------------
(***************************************************************************)
(* Proofs about MpptControl for every duty range, delay, step and set of   *)
(* trips.                                                                  *)
(*                                                                         *)
(* That a backoff holds the converter off is not inductive alone.  A scan  *)
(* re-enables the converter on every tick, so no scan may be pending in a  *)
(* backoff; a scan that ends without a point backs off in mid-tick, and    *)
(* the rest of the tick steps down only if the scan began without a limit; *)
(* a tick brings no data while the sensors are zeroed, so they must have   *)
(* been zeroed with the converter off; and manual mode must have ended the *)
(* scan that `mppt` would otherwise resume.  Inv joins these facts.        *)
(***************************************************************************)
EXTENDS MpptControl, TLAPS

\* shutdownDcdc() compares a new trip with the length of the running backoff
Backoffs == {b \in [left : 0..LongBackoff, len : 0..LongBackoff] : b.left <= b.len}

NumbersTyped ==
  /\ pwmCtrl \in 0..CtrlMax /\ mpp \in 0..CtrlMax /\ target \in 0..CtrlMax
  /\ manualTarget \in 0..CtrlMax /\ bootTarget \in 0..CtrlMax
  /\ delay \in Nat /\ backoff \in Backoffs

FlagsTyped ==
  /\ bflow \in BOOLEAN /\ sweeping \in BOOLEAN /\ calibrating \in BOOLEAN
  /\ due \in BOOLEAN /\ vbat \in BOOLEAN /\ limiting \in BOOLEAN
  /\ manual \in BOOLEAN /\ mode \in Modes

Safe ==
  /\ InBackoff \/ calibrating => Disabled
  /\ InBackoff \/ manual => ~sweeping
  /\ sweeping => ~limiting
  /\ bootTarget > 0 => manual

Inv == NumbersTyped /\ FlagsTyped /\ Safe

-----------------------------------------------------------------------------
(* The helpers of the handlers.                                            *)

LEMMA LimitRange ==
  ASSUME NEW x \in Int, NEW low \in Int, NEW high \in Int, low <= high
  PROVE  Limit(x, low, high) \in low..high
BY DEF Limit

LEMMA PerturbedRange ==
  ASSUME NEW ctrl \in 0..CtrlMax, NEW step \in Int
  PROVE  Perturbed(ctrl, step) \in 0..CtrlMax
BY CountsAssumption, LimitRange DEF Perturbed, CtrlMin

\* a trip never shortens a backoff that is running
LEMMA ArmProlongs ==
  ASSUME NEW timer \in Backoffs, NEW sec \in 0..LongBackoff
  PROVE  /\ Arm(timer, sec) \in Backoffs
         /\ Arm(timer, sec).left >= timer.left
BY DelaysAssumption DEF Arm, Backoffs

LEMMA NoBackoffTyped == NoBackoff \in Backoffs /\ ~(NoBackoff.left > 0)
BY DelaysAssumption DEF NoBackoff, Backoffs

LEMMA StepsInt == Up \subseteq Int /\ Down \subseteq Int /\ Steps \subseteq Int
BY CountsAssumption DEF Up, Down

LEMMA InvTyped == Inv => TypeOK
<1>1. ASSUME Inv
      PROVE  /\ pwmCtrl \in 0..CtrlMax /\ mpp \in 0..CtrlMax /\ target \in 0..CtrlMax
             /\ manualTarget \in 0..CtrlMax /\ bootTarget \in 0..CtrlMax
             /\ delay \in Nat
             /\ backoff \in [left : 0..LongBackoff, len : 0..LongBackoff]
  BY <1>1 DEF Inv, NumbersTyped, Backoffs
<1>2. QED
  BY <1>1, Zenon DEF Inv, FlagsTyped, TypeOK

LEMMA InitInv == Init => Inv
<1>1. SUFFICES ASSUME Init PROVE Inv
  OBVIOUS
<1>1a. bootTarget \in BootTargets
  BY <1>1, Zenon DEF Init
<1>1b. pwmCtrl = 0 /\ mpp = 0 /\ target = 0 /\ delay = 0 /\ backoff = NoBackoff
      /\ manualTarget = bootTarget
  BY <1>1, Zenon DEF Init
<1>2. NumbersTyped
  BY <1>1a, <1>1b, CountsAssumption, NoBackoffTyped DEF NumbersTyped
<1>3. FlagsTyped
  BY <1>1, InputsAssumption, Zenon DEF Init, FlagsTyped, Modes
<1>4. ~InBackoff /\ Disabled /\ (bootTarget \in BootTargets \ {0} \/ ~(bootTarget > 0))
  BY <1>1, NoBackoffTyped DEF Init, InBackoff, Disabled
<1>5. Safe
  BY <1>1, <1>4, Zenon DEF Init, Safe
<1>6. QED
  BY <1>2, <1>3, <1>5 DEF Inv

-----------------------------------------------------------------------------
(* The steps of module Interlock that the handlers implement.              *)

StageStep == [Stage!Next]_<<~Disabled, backoff.left, calibrating, manual>>

LEMMA BackoffLeft == ASSUME Inv PROVE backoff.left \in Nat
BY DEF Inv, NumbersTyped, Backoffs

\* switched off, perhaps with a longer backoff or a calibration
LEMMA OffIsStageStep ==
  ASSUME pwmCtrl' = 0, backoff'.left \in Nat, backoff'.left >= backoff.left,
         calibrating' \in BOOLEAN, manual' = manual
  PROVE  StageStep
<1>1. Disabled'
  BY DEF Disabled
<1>2. Stage!SwitchOff
  BY <1>1 DEF Stage!SwitchOff
<1>3. QED
  BY <1>2, Zenon DEF StageStep, Stage!Next

\* stepped outside a backoff and a calibration
LEMMA DriveIsStageStep ==
  ASSUME Inv, ~InBackoff, ~calibrating, UNCHANGED <<backoff, calibrating, manual>>
  PROVE  StageStep
<1>1. backoff.left = 0 /\ backoff.left \in Nat /\ backoff'.left = backoff.left
  BY BackoffLeft DEF InBackoff
<1>2. calibrating' \in BOOLEAN
  BY Zenon DEF Inv, FlagsTyped
<1>3. CASE Disabled'
  <2>1. Stage!SwitchOff
    BY <1>1, <1>2, <1>3 DEF Stage!SwitchOff
  <2>2. QED
    BY <2>1, Zenon DEF StageStep, Stage!Next
<1>4. CASE ~Disabled' /\ Disabled
  <2>1. Stage!SwitchOn
    BY <1>1, <1>4, Zenon DEF Stage!SwitchOn
  <2>2. QED
    BY <2>1, Zenon DEF StageStep, Stage!Next
<1>5. CASE ~Disabled' /\ ~Disabled
  <2>1. Stage!ToBench
    BY <1>1, <1>2, <1>5 DEF Stage!ToBench, Inv, FlagsTyped
  <2>2. QED
    BY <2>1, Zenon DEF StageStep, Stage!Next
<1>6. QED
  BY <1>3, <1>4, <1>5

\* left as it is, by a handler that ends a calibration or changes the mode
LEMMA QuietIsStageStep ==
  ASSUME Inv, pwmCtrl' = pwmCtrl, backoff'.left = backoff.left,
         \/ calibrating' = calibrating /\ manual' \in BOOLEAN
         \/ calibrating' = FALSE /\ manual' = manual
  PROVE  StageStep
<1>1. (~Disabled)' = ~Disabled
  BY DEF Disabled
<1>2. Stage!ToBench \/ Stage!Measured
  BY <1>1, Zenon DEF Stage!ToBench, Stage!Measured
<1>3. QED
  BY <1>2, Zenon DEF StageStep, Stage!Next

-----------------------------------------------------------------------------
(* Handlers that switch the converter off.                                 *)

\* What they share: the converter is off and no scan is left behind.
LEMMA OffKeepsInv ==
  ASSUME Inv, pwmCtrl' = 0, ~sweeping', backoff' \in Backoffs,
         backoff'.left >= backoff.left,
         mpp' \in 0..CtrlMax, target' \in 0..CtrlMax, delay' \in Nat,
         FlagsTyped', UNCHANGED bench
  PROVE  Inv' /\ StageStep
<1>1. NumbersTyped'
  BY CountsAssumption DEF Inv, NumbersTyped, bench
<1>2. Disabled'
  BY DEF Disabled
<1>3. Safe'
  BY <1>2, Zenon DEF Inv, Safe, bench
<1>4. StageStep
  BY OffIsStageStep DEF FlagsTyped, Backoffs, bench
<1>5. QED
  BY <1>1, <1>3, <1>4 DEF Inv

LEMMA StopAndBackoffKeepsInv ==
  ASSUME Inv, NEW sec \in Nat, StopAndBackoff(sec), calibrating' \in BOOLEAN,
         due' = due, UNCHANGED <<mpp, target, control, bench>>
  PROVE  Inv' /\ StageStep
<1>1. backoff' \in Backoffs /\ backoff'.left >= backoff.left
  BY ArmProlongs, DelaysAssumption DEF Inv, NumbersTyped, StopAndBackoff, Shutdown
<1>2. FlagsTyped'
  BY Zenon DEF Inv, FlagsTyped, StopAndBackoff, Shutdown, control, bench
<1>3. QED
  BY <1>1, <1>2, OffKeepsInv DEF Inv, NumbersTyped, StopAndBackoff, Shutdown

LEMMA TripKeepsInv ==
  ASSUME Inv, NEW trip \in Trips \cup {"pass"}, NEW lfTrip \in LfTrips \cup {"pass"},
         RtTrip(trip, lfTrip)
  PROVE  Inv' /\ StageStep
<1>1. TripSeconds(trip) \in 0..LongBackoff
  BY DelaysAssumption DEF TripSeconds
<1>2. /\ Arm(Arm(backoff, TripSeconds(trip)), ShortBackoff) \in Backoffs
      /\ Arm(Arm(backoff, TripSeconds(trip)), ShortBackoff).left >= backoff.left
  <2>1. /\ Arm(backoff, TripSeconds(trip)) \in Backoffs
        /\ Arm(backoff, TripSeconds(trip)).left >= backoff.left
    BY <1>1, ArmProlongs DEF Inv, NumbersTyped
  <2>2. \A b \in Backoffs : b.left \in Int
    BY DEF Backoffs
  <2>3. QED
    BY <2>1, <2>2, ArmProlongs, DelaysAssumption DEF Inv, NumbersTyped
<1>3. /\ pwmCtrl' = 0 /\ ~sweeping' /\ delay' = StopDelay /\ mpp' = mpp /\ target' = target
      /\ backoff' = Arm(Arm(backoff, TripSeconds(trip)), ShortBackoff)
      /\ UNCHANGED bench
  BY Zenon DEF RtTrip
<1>4. FlagsTyped'
  BY Zenon DEF RtTrip, Inv, FlagsTyped, bench
<1>5. QED
  BY <1>2, <1>3, <1>4, OffKeepsInv, DelaysAssumption DEF Inv, NumbersTyped

LEMMA ReverseHighKeepsInv ==
  ASSUME Inv, NEW newSample \in BOOLEAN, RtReverseHigh(newSample)
  PROVE  Inv' /\ StageStep
<1>1. backoff' \in Backoffs /\ backoff'.left >= backoff.left
  BY ArmProlongs, DelaysAssumption DEF Inv, NumbersTyped, RtReverseHigh, Shutdown
<1>2. FlagsTyped'
  BY Zenon DEF RtReverseHigh, Shutdown, Inv, FlagsTyped, Modes, bench
<1>3. QED
  BY <1>1, <1>2, OffKeepsInv DEF Inv, NumbersTyped, RtReverseHigh, Shutdown

\* A scan is only started in automatic mode and outside a backoff.
LEMMA StartSweepKeepsInv ==
  ASSUME Inv, StartSweep, backoff' \in Backoffs, ~InBackoff', manual' = FALSE,
         ~(bootTarget' > 0), bootTarget' \in 0..CtrlMax, delay' \in Nat,
         manualTarget' \in 0..CtrlMax,
         bflow' \in BOOLEAN, vbat' \in BOOLEAN, UNCHANGED <<due, mode>>
  PROVE  Inv'
<1>1. NumbersTyped'
  BY CountsAssumption DEF NumbersTyped, StartSweep
<1>2. FlagsTyped'
  BY Zenon DEF Inv, FlagsTyped, StartSweep
<1>3. Disabled' /\ ~limiting'
  BY DEF StartSweep, Disabled
<1>4. Safe'
  BY <1>3, Zenon DEF Safe
<1>5. QED
  BY <1>1, <1>2, <1>4 DEF Inv

LEMMA SweepsKeepInv ==
  ASSUME Inv,
         \/ \E ok, admitted \in BOOLEAN : RtStart(ok, admitted)
         \/ \E ok, full, weak \in BOOLEAN : UpdateResweep(ok, full, weak)
         \/ CmdSweep
  PROVE  Inv' /\ StageStep
<1>1. CASE \E ok, admitted \in BOOLEAN : RtStart(ok, admitted)
  <2>1. /\ StartSweep /\ ~manual /\ ~InBackoff /\ delay' = SweepDelay
        /\ UNCHANGED <<bflow, backoff, due, mode, vbat, bench>>
    BY <1>1, Zenon DEF RtStart, StartCondition
  <2>2. /\ bflow' \in BOOLEAN /\ vbat' \in BOOLEAN /\ manual' = FALSE
        /\ ~(bootTarget' > 0)
    BY <2>1, Zenon DEF Inv, FlagsTyped, Safe, bench
  <2>3. StageStep
    BY <2>1, OffIsStageStep, BackoffLeft DEF StartSweep, bench
  <2>4. QED
    BY <2>1, <2>2, <2>3, StartSweepKeepsInv, DelaysAssumption
    DEF Inv, NumbersTyped, InBackoff, bench
<1>2. CASE \E ok, full, weak \in BOOLEAN : UpdateResweep(ok, full, weak)
  <2>1. /\ StartSweep /\ ~manual /\ ~InBackoff
        /\ UNCHANGED <<timing, mode, bench>> /\ vbat' \in BOOLEAN
        /\ bflow' \in BOOLEAN
    BY <1>2, Zenon DEF UpdateResweep, Updating, Protected, Resweep, Inv, FlagsTyped
  <2>2. manual' = FALSE /\ ~(bootTarget' > 0) /\ due' = due
    BY <2>1, Zenon DEF Inv, FlagsTyped, Safe, bench, timing
  <2>3. StageStep
    BY <2>1, OffIsStageStep, BackoffLeft DEF StartSweep, bench, timing
  <2>4. QED
    BY <2>1, <2>2, <2>3, StartSweepKeepsInv DEF Inv, NumbersTyped, InBackoff, bench, timing
<1>3. CASE CmdSweep
  <2>1. /\ StartSweep /\ backoff' = NoBackoff /\ manual' = FALSE /\ bootTarget' = 0
        /\ UNCHANGED <<bflow, delay, due, mode, vbat, manualTarget>>
    BY <1>3, Zenon DEF CmdSweep
  <2>2. bflow' \in BOOLEAN /\ vbat' \in BOOLEAN
    BY <2>1, Zenon DEF Inv, FlagsTyped
  <2>3. /\ backoff' \in Backoffs /\ ~InBackoff'
        /\ bootTarget' \in 0..CtrlMax /\ ~(bootTarget' > 0)
        /\ delay' \in Nat /\ manualTarget' \in 0..CtrlMax
    BY <2>1, NoBackoffTyped, CountsAssumption DEF Inv, NumbersTyped, InBackoff
  <2>4. StageStep
    <3>1. Disabled' /\ backoff'.left = 0 /\ calibrating' = TRUE
      BY <2>1 DEF StartSweep, Disabled, NoBackoff
    <3>2. Stage!Waive
      BY <2>1, <3>1 DEF Stage!Waive
    <3>3. QED
      BY <3>2, Zenon DEF StageStep, Stage!Next
  <2>5. QED
    BY <2>1, <2>2, <2>3, <2>4, StartSweepKeepsInv, Zenon
<1>4. QED
  BY <1>1, <1>2, <1>3

-----------------------------------------------------------------------------
(* Handlers that leave the converter as it is.                             *)

\* What they share: nothing that Safe forbids is newly begun.
LEMMA IdleKeepsInv ==
  ASSUME Inv, NumbersTyped', FlagsTyped', pwmCtrl' = pwmCtrl,
         InBackoff' => InBackoff, calibrating' => calibrating,
         sweeping' => sweeping /\ (InBackoff' \/ manual' => InBackoff \/ manual),
         limiting' => limiting, bootTarget' > 0 => manual'
  PROVE  Inv'
<1>1. Disabled' <=> Disabled
  BY DEF Disabled
<1>2. Safe'
  BY <1>1, Zenon DEF Inv, Safe
<1>3. QED
  BY <1>2 DEF Inv

LEMMA QuietRtKeepsInv ==
  ASSUME Inv,
         \/ \E weak \in BOOLEAN : RtNoNewSample(weak)
         \/ \E ok \in BOOLEAN : UpdateIdle(ok)
         \/ CalibDone \/ CalibCancel \/ ReleaseCvFloorLatch
  PROVE  Inv' /\ StageStep
<1>1. CASE \E weak \in BOOLEAN : RtNoNewSample(weak)
  <2>1. /\ UNCHANGED <<pwmCtrl, timing, scan, limiting, mode, bench>>
        /\ vbat' \in BOOLEAN /\ bflow' \in BOOLEAN
    BY <1>1, Zenon DEF RtNoNewSample, Protected, Inv, FlagsTyped
  <2>2. NumbersTyped' /\ UNCHANGED <<backoff, bootTarget>>
    BY <2>1 DEF Inv, NumbersTyped, timing, scan, bench
  <2>3. FlagsTyped'
    BY <2>1, Zenon DEF Inv, FlagsTyped, timing, scan, bench
  <2>4. StageStep
    BY <2>1, <2>2, <2>3, QuietIsStageStep, Zenon DEF FlagsTyped, scan, bench
  <2>5. QED
    BY <2>1, <2>2, <2>3, <2>4, IdleKeepsInv, Zenon DEF Inv, Safe, InBackoff, timing, scan, bench
<1>2. CASE \E ok \in BOOLEAN : UpdateIdle(ok)
  <2>1. /\ UNCHANGED <<pwmCtrl, timing, scan, limiting, bench>>
        /\ vbat' \in BOOLEAN /\ bflow' = FALSE /\ mode' = "None"
    BY <1>2, Zenon DEF UpdateIdle, Updating, Protected, Inv, FlagsTyped
  <2>2. NumbersTyped' /\ UNCHANGED <<backoff, bootTarget>>
    BY <2>1 DEF Inv, NumbersTyped, timing, scan, bench
  <2>3. FlagsTyped'
    BY <2>1, Zenon DEF Inv, FlagsTyped, Modes, timing, scan, bench
  <2>4. StageStep
    BY <2>1, <2>2, <2>3, QuietIsStageStep, Zenon DEF FlagsTyped, scan, bench
  <2>5. QED
    BY <2>1, <2>2, <2>3, <2>4, IdleKeepsInv, Zenon DEF Inv, Safe, InBackoff, timing, scan, bench
<1>3. CASE CalibDone
  <2>1. NumbersTyped' /\ UNCHANGED <<pwmCtrl, backoff, bootTarget>>
    BY <1>3 DEF CalibDone, Inv, NumbersTyped, stage, control, bench
  <2>2. FlagsTyped'
    BY <1>3, Zenon DEF CalibDone, Inv, FlagsTyped, stage, control, bench
  <2>3. StageStep
    BY <1>3, <2>1, QuietIsStageStep, Zenon DEF CalibDone, bench
  <2>4. QED
    BY <1>3, <2>1, <2>2, <2>3, IdleKeepsInv, Zenon
    DEF CalibDone, Inv, Safe, InBackoff, control, bench
<1>4. CASE CalibCancel
  <2>1. NumbersTyped' /\ UNCHANGED <<pwmCtrl, backoff, bootTarget>>
    BY <1>4 DEF CalibCancel, Inv, NumbersTyped, stage, timing, control, bench
  <2>2. FlagsTyped'
    BY <1>4, Zenon DEF CalibCancel, Inv, FlagsTyped, stage, timing, control, bench
  <2>3. StageStep
    BY <1>4, <2>1, QuietIsStageStep, Zenon DEF CalibCancel, bench
  <2>4. QED
    BY <1>4, <2>1, <2>2, <2>3, IdleKeepsInv, Zenon
    DEF CalibCancel, Inv, Safe, InBackoff, control, bench
<1>5. CASE ReleaseCvFloorLatch
  <2>1. NumbersTyped' /\ UNCHANGED <<pwmCtrl, bootTarget>> /\ ~InBackoff'
    BY <1>5, NoBackoffTyped, CountsAssumption
    DEF ReleaseCvFloorLatch, Inv, NumbersTyped, InBackoff, stage, bench
  <2>2. FlagsTyped'
    BY <1>5, Zenon DEF ReleaseCvFloorLatch, Inv, FlagsTyped, Modes, stage, bench
  <2>3. StageStep
    <3>1. CASE InBackoff
      <4>1. Disabled' /\ backoff'.left = 0 /\ ~manual' /\ calibrating' = calibrating
        BY <1>5, <3>1, <2>1 DEF ReleaseCvFloorLatch, NoBackoff, Disabled, Inv, Safe, bench
      <4>2. Stage!Waive
        BY <4>1 DEF Stage!Waive
      <4>3. QED
        BY <4>2, Zenon DEF StageStep, Stage!Next
    <3>2. CASE ~InBackoff
      <4>1. backoff'.left = backoff.left
        BY <1>5, <3>2, BackoffLeft DEF ReleaseCvFloorLatch, NoBackoff, InBackoff
      <4>2. QED
        BY <1>5, <2>1, <2>2, <4>1, QuietIsStageStep, Zenon DEF ReleaseCvFloorLatch, FlagsTyped
    <3>3. QED
      BY <3>1, <3>2
  <2>4. QED
    BY <1>5, <2>1, <2>2, <2>3, IdleKeepsInv, Zenon DEF ReleaseCvFloorLatch, Inv, Safe, bench
<1>6. QED
  BY <1>1, <1>2, <1>3, <1>4, <1>5

LEMMA TickKeepsInv ==
  ASSUME Inv, Tick
  PROVE  Inv' /\ StageStep
<1>1. backoff' \in Backoffs /\ (InBackoff' => InBackoff)
  <2>1. backoff \in Backoffs
    BY DEF Inv, NumbersTyped
  <2>2. backoff' = [backoff EXCEPT !.left = IF backoff.left > 0 THEN backoff.left - 1 ELSE 0]
    BY DEF Tick
  <2>3. /\ backoff.left \in 0..LongBackoff /\ backoff.len \in 0..LongBackoff
        /\ backoff.left <= backoff.len
    BY <2>1 DEF Backoffs
  <2>4. PICK left \in 0..LongBackoff :
          /\ left <= backoff.len /\ left <= backoff.left
          /\ backoff' = [backoff EXCEPT !.left = left]
    <3>1. CASE backoff.left > 0
      BY <2>2, <2>3, <3>1, DelaysAssumption
    <3>2. CASE ~(backoff.left > 0)
      BY <2>2, <2>3, <3>2, DelaysAssumption
    <3>3. QED
      BY <3>1, <3>2
  <2>5. QED
    BY <2>1, <2>3, <2>4 DEF Backoffs, InBackoff
<1>2. NumbersTyped' /\ UNCHANGED <<pwmCtrl, bootTarget>>
  BY <1>1 DEF Tick, Inv, NumbersTyped, stage, scan, bench
<1>3. FlagsTyped'
  BY Zenon DEF Tick, Inv, FlagsTyped, stage, scan, control, bench
<1>4. StageStep
  <2>1. UNCHANGED <<pwmCtrl, calibrating, manual>>
    BY DEF Tick, stage, scan, bench
  <2>2. CASE backoff.left > 0
    <3>1. backoff'.left = backoff.left - 1
      BY <2>2 DEF Tick, Inv, NumbersTyped, Backoffs
    <3>2. (~Disabled)' = ~Disabled
      BY <2>1 DEF Disabled
    <3>3. Stage!Rest
      BY <2>1, <2>2, <3>1, <3>2 DEF Stage!Rest
    <3>4. QED
      BY <3>3, Zenon DEF StageStep, Stage!Next
  <2>3. CASE ~(backoff.left > 0)
    <3>1. backoff'.left = backoff.left
      BY <2>3 DEF Tick, Inv, NumbersTyped, Backoffs
    <3>2. QED
      BY <2>1, <3>1, <1>3, QuietIsStageStep, Zenon DEF FlagsTyped
  <2>4. QED
    BY <2>2, <2>3
<1>5. QED
  BY <1>1, <1>2, <1>3, <1>4, IdleKeepsInv, Zenon DEF Tick, Inv, Safe, scan, control, bench

LEMMA ConsoleKeepsInv ==
  ASSUME Inv, Console
  PROVE  Inv' /\ StageStep
<1>1. ASSUME NEW duty \in DcTargets, CmdDc(duty)
      PROVE  Inv' /\ StageStep
  <2>1. NumbersTyped' /\ UNCHANGED <<pwmCtrl, backoff, bootTarget>>
    BY <1>1, CountsAssumption DEF CmdDc, AbortSweep, Inv, NumbersTyped, timing
  <2>2. FlagsTyped'
    BY <1>1, Zenon DEF CmdDc, AbortSweep, Inv, FlagsTyped, timing, control
  <2>3. StageStep
    BY <1>1, <2>1, <2>2, QuietIsStageStep, Zenon DEF CmdDc, FlagsTyped
  <2>4. QED
    BY <1>1, <2>1, <2>2, <2>3, IdleKeepsInv, Zenon DEF CmdDc, AbortSweep, InBackoff, control
<1>2. CASE CmdMppt
  <2>1. NumbersTyped' /\ UNCHANGED <<pwmCtrl, backoff>> /\ ~(bootTarget' > 0)
    BY <1>2, CountsAssumption DEF CmdMppt, Inv, NumbersTyped, stage, timing, scan
  <2>2. FlagsTyped'
    BY <1>2, Zenon DEF CmdMppt, Inv, FlagsTyped, stage, timing, scan, control
  <2>3. StageStep
    BY <1>2, <2>1, <2>2, QuietIsStageStep, Zenon DEF CmdMppt, scan, FlagsTyped
  <2>4. QED
    BY <1>2, <2>1, <2>2, <2>3, IdleKeepsInv, Zenon DEF CmdMppt, InBackoff, scan, control
<1>3. ASSUME NEW n \in ManualSteps, CmdStep(n)
      PROVE  Inv' /\ StageStep
  <2>1. Limit(pwmCtrl + n, 0, CtrlMax) \in 0..CtrlMax
    <3>1. n \in Int /\ 0 <= CtrlMax /\ CtrlMax \in Int
      BY CountsAssumption
    <3>2. pwmCtrl + n \in Int
      BY <3>1 DEF Inv, NumbersTyped
    <3>3. QED
      BY <3>1, <3>2 DEF Limit
  <2>2. NumbersTyped' /\ UNCHANGED <<pwmCtrl, backoff, bootTarget>>
    BY <1>3, <2>1 DEF CmdStep, Inv, NumbersTyped, stage, timing
  <2>3. FlagsTyped'
    BY <1>3, Zenon DEF CmdStep, Inv, FlagsTyped, stage, timing, control
  <2>4. StageStep
    BY <1>3, <2>2, <2>3, QuietIsStageStep, Zenon DEF CmdStep, FlagsTyped
  <2>5. QED
    BY <1>3, <2>2, <2>3, <2>4, IdleKeepsInv, Zenon DEF CmdStep, Inv, Safe, InBackoff, control
<1>4. ASSUME NEW on \in BOOLEAN, CmdBflow(on)
      PROVE  Inv' /\ StageStep
  <2>1. NumbersTyped' /\ UNCHANGED <<pwmCtrl, backoff, bootTarget>>
    BY <1>4 DEF CmdBflow, Inv, NumbersTyped, timing, scan, bench
  <2>2. FlagsTyped'
    BY <1>4, Zenon DEF CmdBflow, Inv, FlagsTyped, timing, scan, control, bench
  <2>3. StageStep
    BY <1>4, <2>1, <2>2, QuietIsStageStep, Zenon DEF CmdBflow, scan, FlagsTyped
  <2>4. QED
    BY <1>4, <2>1, <2>2, <2>3, IdleKeepsInv, Zenon
    DEF CmdBflow, Inv, Safe, InBackoff, scan, control, bench
<1>5. QED
  BY <1>1, <1>2, <1>3, <1>4, SweepsKeepInv DEF Console

-----------------------------------------------------------------------------
(* Handlers that step the converter.                                       *)

LEMMA ControlModeTyped ==
  ASSUME NEW limit \in {"None", "CV", "CC"}, NEW ctrl, NEW scanning \in BOOLEAN
  PROVE  ControlMode(limit, ctrl, scanning) \in Modes
BY Zenon DEF ControlMode, Modes

LEMMA ControlStepsTyped ==
  ASSUME NEW limit, NEW ctrl, NEW scanning
  PROVE  ControlSteps(limit, ctrl, scanning) \subseteq Int
BY StepsInt, Zenon DEF ControlSteps

\* a stopped converter is not stepped down
LEMMA ActuateRange ==
  ASSUME NEW newMode, NEW ctrl \in 0..CtrlMax, NEW steps \in SUBSET Int, NEW above,
         Actuate(newMode, ctrl, steps, above)
  PROVE  pwmCtrl' \in 0..CtrlMax /\ (ctrl = 0 /\ steps = Down => pwmCtrl' = 0)
<1>1. PICK s \in steps : pwmCtrl' = IF ctrl = 0 /\ s <= 0 THEN 0 ELSE Perturbed(ctrl, s)
  BY Zenon DEF Actuate
<1>2. s \in Int /\ Perturbed(ctrl, s) \in 0..CtrlMax
  BY PerturbedRange
<1>3. steps = Down => s <= 0
  BY DEF Down
<1>4. QED
  BY <1>1, <1>2, <1>3, CountsAssumption

LEMMA ActuateTyped ==
  ASSUME NEW newMode \in Modes, NEW ctrl, NEW steps, NEW above \in BOOLEAN,
         Actuate(newMode, ctrl, steps, above)
  PROVE  mode' \in Modes /\ bflow' \in BOOLEAN
BY Zenon DEF Actuate

\* The control loop runs in automatic mode only, and never in a backoff: the
\* early returns of update() see to it while the converter is off, the backoff
\* itself while it is on.
LEMMA ControllingOutsideBackoff ==
  ASSUME Inv, NEW ok, NEW full, NEW weak, NEW limit,
         Updating(weak), Controlling(ok, full, limit)
  PROVE  ~InBackoff /\ ~calibrating /\ ~manual /\ vbat' \in BOOLEAN /\ limiting' \in BOOLEAN
BY Zenon DEF Inv, Safe, FlagsTyped, Updating, Protected, Controlling, StartCondition

\* What the steps of the loop share, when no backoff begins in them.
LEMMA DriveKeepsInv ==
  ASSUME Inv, ~InBackoff, ~calibrating, pwmCtrl' \in 0..CtrlMax,
         mpp' \in 0..CtrlMax, target' \in 0..CtrlMax, FlagsTyped',
         sweeping' => sweeping /\ ~limiting',
         UNCHANGED <<timing, calibrating, bench>>
  PROVE  Inv' /\ StageStep
<1>1. NumbersTyped' /\ ~InBackoff'
  BY DEF Inv, NumbersTyped, InBackoff, timing, bench
<1>2. Safe'
  BY <1>1, Zenon DEF Inv, Safe, bench
<1>3. StageStep
  BY DriveIsStageStep DEF timing, bench
<1>4. QED
  BY <1>1, <1>2, <1>3 DEF Inv

LEMMA ScanKeepsInv ==
  ASSUME Inv, NEW ok \in BOOLEAN, NEW full \in BOOLEAN, NEW weak \in BOOLEAN,
         NEW limit \in {"None", "CV", "CC"}, NEW better \in BOOLEAN, NEW above \in BOOLEAN,
         UpdateScan(ok, full, weak, limit, better, above)
  PROVE  Inv' /\ StageStep
<1> DEFINE ctrl == IF Disabled THEN CtrlMin ELSE pwmCtrl
<1>1. ctrl \in 0..CtrlMax
  BY CountsAssumption DEF Inv, NumbersTyped, CtrlMin
<1> HIDE DEF ctrl
<1>2. /\ Updating(weak) /\ Controlling(ok, full, limit)
      /\ sweeping /\ ControlMode(limit, pwmCtrl, TRUE) = "None"
      /\ mpp' = IF better THEN ctrl ELSE mpp
      /\ Actuate("Sweep", ctrl, Up, above)
      /\ UNCHANGED <<timing, sweeping, calibrating, target, bench>>
  BY Zenon DEF UpdateScan, ctrl
<1>3. ~InBackoff /\ ~calibrating /\ vbat' \in BOOLEAN /\ limiting' \in BOOLEAN
  BY <1>2, ControllingOutsideBackoff
<1>4. limiting' = FALSE
  BY <1>2, Zenon DEF ControlMode, Controlling
<1>5. pwmCtrl' \in 0..CtrlMax
  BY <1>1, <1>2, ActuateRange, StepsInt
<1>6. mode' \in Modes /\ bflow' \in BOOLEAN
  BY <1>2, ActuateTyped, Zenon DEF Modes
<1>7. FlagsTyped'
  BY <1>2, <1>3, <1>6, Zenon DEF Inv, FlagsTyped, timing, bench
<1>8. mpp' \in 0..CtrlMax /\ target' \in 0..CtrlMax
  BY <1>1, <1>2 DEF Inv, NumbersTyped
<1>9. QED
  BY <1>2, <1>3, <1>4, <1>5, <1>7, <1>8, DriveKeepsInv, Zenon

LEMMA RampAndTrackKeepInv ==
  ASSUME Inv, NEW ok \in BOOLEAN, NEW full \in BOOLEAN, NEW weak \in BOOLEAN,
         NEW limit \in {"None", "CV", "CC"}, NEW above \in BOOLEAN,
         \/ UpdateRamp(ok, full, weak, limit, above)
         \/ UpdateTrack(ok, full, weak, limit, above)
  PROVE  Inv' /\ StageStep
<1>1. /\ Updating(weak) /\ Controlling(ok, full, limit) /\ ~sweeping
      /\ UNCHANGED <<timing, sweeping, calibrating, mpp, bench>>
  BY Zenon DEF UpdateRamp, UpdateTrack, scan
<1>2. target' = target \/ target' = 0
  BY Zenon DEF UpdateRamp, UpdateTrack, scan
<1>3. PICK newMode \in Modes, steps \in SUBSET Int : Actuate(newMode, pwmCtrl, steps, above)
  <2> DEFINE m     == ControlMode(limit, pwmCtrl, FALSE)
             steps == ControlSteps(limit, pwmCtrl, FALSE)
  <2>1. m \in Modes /\ steps \in SUBSET Int
    BY ControlModeTyped, ControlStepsTyped
  <2>2. "Sweep" \in Modes /\ "MPPT" \in Modes
    BY DEF Modes
  <2>3. Up \in SUBSET Int /\ Down \in SUBSET Int /\ {0} \in SUBSET Int
    BY StepsInt
  <2>4. CASE UpdateRamp(ok, full, weak, limit, above)
    <3>1. \/ Actuate(m, pwmCtrl, steps, above)
          \/ Actuate("Sweep", pwmCtrl, Up, above)
          \/ Actuate("Sweep", pwmCtrl, Down, above)
          \/ Actuate("Sweep", pwmCtrl, {0}, above)
      BY <2>4 DEF UpdateRamp
    <3>2. QED
      BY <2>1, <2>2, <2>3, <3>1
  <2>5. CASE UpdateTrack(ok, full, weak, limit, above)
    <3>1. Actuate(m, pwmCtrl, steps, above) \/ Actuate("MPPT", pwmCtrl, steps, above)
      BY <2>5 DEF UpdateTrack
    <3>2. QED
      BY <2>1, <2>2, <3>1
  <2>6. QED
    BY <2>4, <2>5
<1>4. ~InBackoff /\ ~calibrating /\ vbat' \in BOOLEAN /\ limiting' \in BOOLEAN
  BY <1>1, ControllingOutsideBackoff
<1>5. pwmCtrl' \in 0..CtrlMax
  BY <1>3, ActuateRange DEF Inv, NumbersTyped
<1>6. mode' \in Modes /\ bflow' \in BOOLEAN
  BY <1>3, ActuateTyped
<1>7. FlagsTyped'
  BY <1>1, <1>4, <1>6, Zenon DEF Inv, FlagsTyped, timing, bench
<1>8. mpp' \in 0..CtrlMax /\ target' \in 0..CtrlMax
  BY <1>1, <1>2, CountsAssumption DEF Inv, NumbersTyped
<1>9. QED
  BY <1>1, <1>4, <1>5, <1>7, <1>8, DriveKeepsInv, Zenon

\* The end of a scan without a point is the one backoff that begins in mid-tick.
LEMMA StopScanKeepsInv ==
  ASSUME Inv, NEW ok \in BOOLEAN, NEW full \in BOOLEAN, NEW weak \in BOOLEAN,
         NEW limit \in {"None", "CV", "CC"}, NEW above \in BOOLEAN,
         UpdateStopScan(ok, full, weak, limit, above)
  PROVE  Inv' /\ StageStep
<1> DEFINE m     == ControlMode(limit, pwmCtrl, TRUE)
           steps == ControlSteps(limit, pwmCtrl, TRUE)
           ctrl  == IF mpp = 0 THEN 0 ELSE IF Disabled THEN CtrlMin ELSE pwmCtrl
<1>1. m \in Modes /\ steps \in SUBSET Int /\ ctrl \in 0..CtrlMax
  <2>1. m \in Modes /\ steps \in SUBSET Int
    BY ControlModeTyped, ControlStepsTyped
  <2>2. ctrl \in 0..CtrlMax
    BY CountsAssumption DEF Inv, NumbersTyped, CtrlMin
  <2>3. QED
    BY <2>1, <2>2
<1>2. m # "None" /\ sweeping => steps = Down
  BY Zenon DEF ControlMode, ControlSteps, Inv, Safe
<1> HIDE DEF m, steps, ctrl
<1>3. /\ Updating(weak) /\ Controlling(ok, full, limit) /\ sweeping /\ m # "None"
      /\ sweeping' = FALSE /\ target' = mpp
      /\ backoff' = IF mpp = 0 THEN Arm(backoff, LongBackoff) ELSE backoff
      /\ Actuate(m, ctrl, steps, above)
      /\ UNCHANGED <<delay, due, calibrating, mpp, bench>>
  BY Zenon DEF UpdateStopScan, m, steps, ctrl
<1>4. ~InBackoff /\ ~calibrating /\ vbat' \in BOOLEAN /\ limiting' \in BOOLEAN
  BY <1>3, ControllingOutsideBackoff
<1>5. mode' \in Modes /\ bflow' \in BOOLEAN
  BY <1>1, <1>3, ActuateTyped
<1>6. FlagsTyped'
  BY <1>3, <1>4, <1>5, Zenon DEF Inv, FlagsTyped, bench
<1>7. pwmCtrl' \in 0..CtrlMax /\ (mpp = 0 => pwmCtrl' = 0)
  BY <1>1, <1>2, <1>3, ActuateRange DEF ctrl
<1>8. CASE mpp = 0
  <2>1. backoff' \in Backoffs /\ backoff'.left >= backoff.left
    BY <1>3, <1>8, ArmProlongs, DelaysAssumption DEF Inv, NumbersTyped
  <2>2. QED
    BY <1>3, <1>6, <1>7, <1>8, <2>1, OffKeepsInv DEF Inv, NumbersTyped
<1>9. CASE mpp # 0
  <2>1. UNCHANGED timing /\ mpp' \in 0..CtrlMax /\ target' \in 0..CtrlMax
    BY <1>3, <1>9 DEF Inv, NumbersTyped, timing
  <2>2. QED
    BY <1>3, <1>4, <1>6, <1>7, <2>1, DriveKeepsInv, Zenon
<1>10. QED
  BY <1>8, <1>9

LEMMA NotFiniteKeepsInv ==
  ASSUME Inv, NEW full \in BOOLEAN, NEW weak \in BOOLEAN,
         NEW limit \in {"CV", "CC"}, NEW above \in BOOLEAN,
         UpdateNotFinite(full, weak, limit, above)
  PROVE  Inv' /\ StageStep
<1>1. /\ Updating(weak) /\ sweeping' = FALSE /\ target' = 0 /\ limiting' = TRUE
      /\ backoff' = Arm(backoff, ShortBackoff)
      /\ Actuate(limit, 0, Down, above)
      /\ UNCHANGED <<delay, due, calibrating, mpp, bench>>
  BY Zenon DEF UpdateNotFinite
<1>2. backoff' \in Backoffs /\ backoff'.left >= backoff.left
  BY <1>1, ArmProlongs, DelaysAssumption DEF Inv, NumbersTyped
<1>3. mode' \in Modes /\ bflow' \in BOOLEAN
  BY <1>1, ActuateTyped, Zenon DEF Modes
<1>4. pwmCtrl' = 0
  BY <1>1, ActuateRange, StepsInt, CountsAssumption
<1>5. FlagsTyped'
  BY <1>1, <1>3, Zenon DEF Inv, FlagsTyped, Updating, Protected, bench
<1>6. QED
  BY <1>1, <1>2, <1>4, <1>5, OffKeepsInv, CountsAssumption DEF Inv, NumbersTyped

LEMMA ManualKeepsInv ==
  ASSUME Inv, NEW weak \in BOOLEAN, RtManual(weak)
  PROVE  Inv' /\ StageStep
<1>1. /\ ~calibrating /\ mode' = "None" /\ UNCHANGED <<timing, scan, limiting, bench>>
      /\ vbat' \in BOOLEAN /\ bflow' \in BOOLEAN
  BY Zenon DEF RtManual, Protected, Inv, FlagsTyped
<1>2. FlagsTyped'
  BY <1>1, Zenon DEF Inv, FlagsTyped, Modes, timing, scan, bench
<1>3. pwmCtrl' \in 0..CtrlMax /\ (InBackoff => pwmCtrl' = 0)
  <2>1. manualTarget - pwmCtrl \in Int /\ -RampStep \in Int /\ RampStep \in Int /\ -RampStep <= RampStep
    BY CountsAssumption DEF Inv, NumbersTyped
  <2>2. Limit(manualTarget - pwmCtrl, -RampStep, RampStep) \in Int
    BY <2>1 DEF Limit
  <2>3. Perturbed(pwmCtrl, Limit(manualTarget - pwmCtrl, -RampStep, RampStep)) \in 0..CtrlMax
    BY <2>2, PerturbedRange DEF Inv, NumbersTyped
  <2>4. QED
    BY <2>3, CountsAssumption DEF RtManual
<1>4. UNCHANGED <<backoff, delay, due, calibrating, sweeping, mpp, target>>
  BY <1>1 DEF timing, scan
<1>5. CASE InBackoff
  <2>1. backoff'.left >= backoff.left
    BY <1>4, BackoffLeft
  <2>2. QED
    BY <1>1, <1>2, <1>3, <1>4, <1>5, <2>1, OffKeepsInv, Zenon DEF Inv, NumbersTyped, Safe
<1>6. CASE ~InBackoff
  <2>1. sweeping' => sweeping /\ ~limiting'
    BY <1>1, <1>4, Zenon DEF Inv, Safe
  <2>2. QED
    BY <1>1, <1>2, <1>3, <1>4, <1>6, <2>1, DriveKeepsInv, Zenon DEF Inv, NumbersTyped
<1>7. QED
  BY <1>5, <1>6

-----------------------------------------------------------------------------
(* The invariant, and the theorems.                                        *)

LEMMA NextKeepsInv == Inv /\ [Next]_vars => Inv' /\ StageStep
<1> SUFFICES ASSUME Inv, [Next]_vars PROVE Inv' /\ StageStep
  OBVIOUS
<1>1. CASE Rt
  <2>1. CASE Update
    <3>1. PICK ok, full, weak, above \in BOOLEAN, limit \in {"None", "CV", "CC"} :
            \/ UpdateResweep(ok, full, weak)
            \/ \E better \in BOOLEAN : UpdateScan(ok, full, weak, limit, better, above)
            \/ UpdateStopScan(ok, full, weak, limit, above)
            \/ UpdateRamp(ok, full, weak, limit, above)
            \/ UpdateTrack(ok, full, weak, limit, above)
      BY <2>1 DEF Update
    <3>2. CASE UpdateResweep(ok, full, weak)
      BY <3>2, SweepsKeepInv, Zenon
    <3>3. CASE \E better \in BOOLEAN : UpdateScan(ok, full, weak, limit, better, above)
      <4>1. PICK better \in BOOLEAN : UpdateScan(ok, full, weak, limit, better, above)
        BY <3>3, Zenon
      <4>2. QED
        BY <4>1, ScanKeepsInv
    <3>4. CASE UpdateStopScan(ok, full, weak, limit, above)
      BY <3>4, StopScanKeepsInv, Zenon
    <3>5. CASE UpdateRamp(ok, full, weak, limit, above) \/ UpdateTrack(ok, full, weak, limit, above)
      BY <3>5, RampAndTrackKeepInv, Zenon
    <3>6. QED
      BY <3>1, <3>2, <3>3, <3>4, <3>5, Zenon
  <2>2. CASE Rt /\ ~Update
    BY <2>2, SweepsKeepInv, QuietRtKeepsInv, ManualKeepsInv, Zenon DEF Rt
  <2>3. QED
    BY <1>1, <2>1, <2>2
<1>2. CASE Fault
  <2>1. StopDelay \in Nat /\ StallDelay \in Nat
    BY DelaysAssumption
  <2>2. ASSUME NEW nan \in BOOLEAN, CalibFailure(nan) PROVE Inv' /\ StageStep
    <3>1. calibrating' \in BOOLEAN
      BY <2>2, Zenon DEF CalibFailure, Inv, FlagsTyped
    <3>2. QED
      BY <2>1, <2>2, <3>1, StopAndBackoffKeepsInv DEF CalibFailure
  <2>3. CASE AdcStall
    BY <2>1, <2>3, StopAndBackoffKeepsInv DEF AdcStall, Inv, FlagsTyped
  <2>4. CASE LfWatchdog
    BY <2>1, <2>4, StopAndBackoffKeepsInv DEF LfWatchdog, Inv, FlagsTyped
  <2>5. QED
    BY <1>2, <2>2, <2>3, <2>4, TripKeepsInv, ReverseHighKeepsInv, NotFiniteKeepsInv,
       QuietRtKeepsInv, Zenon DEF Fault
<1>3. CASE UNCHANGED vars
  <2>1. Inv'
    BY <1>3 DEF vars, stage, timing, scan, control, bench, Inv, NumbersTyped, FlagsTyped,
       Safe, InBackoff, Disabled
  <2>2. StageStep
    BY <1>3, <2>1, QuietIsStageStep, Zenon
    DEF vars, stage, timing, scan, bench, Inv, FlagsTyped
  <2>3. QED
    BY <2>1, <2>2
<1>4. QED
  BY <1>1, <1>2, <1>3, ConsoleKeepsInv, QuietRtKeepsInv, TickKeepsInv DEF Next

LEMMA SpecInv == Spec => []Inv
<1>1. Init => Inv
  BY InitInv
<1>2. Inv /\ [Next]_vars => Inv'
  BY NextKeepsInv
<1>3. QED
  BY <1>1, <1>2, PTL DEF Spec

LEMMA InitIsStageInit == Init => Stage!Init
<1>1. SUFFICES ASSUME Init PROVE Stage!Init
  OBVIOUS
<1>2. Disabled /\ backoff.left = 0
  BY <1>1 DEF Init, Disabled, NoBackoff
<1>3. QED
  BY <1>1, <1>2, InitInv, Zenon DEF Stage!Init, Inv, FlagsTyped

\* The controller implements the interlock of the power stage: every trip,
\* scan, calibration, watchdog and command is a step of module Interlock.
THEOREM ImplementsInterlock == Spec => RefinesInterlock
<1>1. Init => Inv /\ Stage!Init
  BY InitInv, InitIsStageInit
<1>2. Inv /\ [Next]_vars => Inv' /\ [Stage!Next]_<<~Disabled, backoff.left, calibrating, manual>>
  BY NextKeepsInv DEF StageStep
<1>3. QED
  BY <1>1, <1>2, PTL DEF Spec, RefinesInterlock, Stage!Spec

\* The controller's duty, targets, timers and flags keep to their ranges
\* whatever trips, ramps and commands come (mppt.h, mppt.cpp, main.cpp, cli.cpp).
THEOREM TypeCorrect == Spec => []TypeOK
<1>1. Inv => TypeOK
  BY InvTyped
<1>2. QED
  BY <1>1, SpecInv, PTL

\* A protection trip holds the converter off until its backoff is over.
THEOREM BackoffHolds == Spec => []BackoffHoldsConverterOff
<1>1. Inv => BackoffHoldsConverterOff
  BY DEF Inv, Safe, BackoffHoldsConverterOff
<1>2. QED
  BY <1>1, SpecInv, PTL

\* The sensors are only ever zeroed with the converter off.
THEOREM CalibratesOff == Spec => []CalibratesWithConverterOff
<1>1. Inv => CalibratesWithConverterOff
  BY DEF Inv, Safe, CalibratesWithConverterOff
<1>2. QED
  BY <1>1, SpecInv, PTL

\* No scan is pending in a backoff, so none re-enables the converter there.
THEOREM NoSweepInBackoff == Spec => []SweepNeverInBackoff
<1>1. Inv => SweepNeverInBackoff
  BY DEF Inv, Safe, SweepNeverInBackoff
<1>2. QED
  BY <1>1, SpecInv, PTL

\* Manual mode leaves no scan behind, and a duty cap of the configuration is in
\* force in manual mode only.
THEOREM ManualModeClean == Spec => [](ManualEndsScan /\ BootCapImpliesManual)
<1>1. Inv => ManualEndsScan /\ BootCapImpliesManual
  BY DEF Inv, Safe, ManualEndsScan, BootCapImpliesManual
<1>2. QED
  BY <1>1, SpecInv, PTL

\* The duty cap of the configuration file (mppt.h, targetPwmCnt) is only kept in
\* manual mode: an automatic scan never runs under it.
THEOREM BootCapOnlyInManual == Spec => []BootCapImpliesManual
<1>1. Inv => BootCapImpliesManual
  BY DEF Inv, Safe, BootCapImpliesManual
<1>2. QED
  BY <1>1, SpecInv, PTL

-----------------------------------------------------------------------------
(* What a running backoff may do.                                          *)

BackoffStep ==
  \/ backoff' = backoff
  \/ backoff' = [backoff EXCEPT !.left = @ - 1]
  \/ backoff'.len > backoff.len /\ backoff'.left = backoff'.len
  \/ backoff' = NoBackoff /\ ~manual'

LEMMA RtBackoffStep ==
  ASSUME Inv, InBackoff, Rt
  PROVE  BackoffStep
<1>1. ~sweeping
  BY Zenon DEF Inv, Safe
<1>2. backoff' = backoff
  <2>1. CASE Update
    <3>1. PICK ok, full, weak, above \in BOOLEAN, limit \in {"None", "CV", "CC"} :
            \/ UpdateResweep(ok, full, weak)
            \/ \E better \in BOOLEAN : UpdateScan(ok, full, weak, limit, better, above)
            \/ UpdateStopScan(ok, full, weak, limit, above)
            \/ UpdateRamp(ok, full, weak, limit, above)
            \/ UpdateTrack(ok, full, weak, limit, above)
      BY <2>1 DEF Update
    <3>2. CASE UpdateResweep(ok, full, weak)
      BY <3>2 DEF UpdateResweep, timing
    <3>3. CASE UpdateStopScan(ok, full, weak, limit, above)
                 \/ \E better \in BOOLEAN : UpdateScan(ok, full, weak, limit, better, above)
      BY <1>1, <3>3, Zenon DEF UpdateStopScan, UpdateScan
    <3>4. CASE UpdateRamp(ok, full, weak, limit, above)
      BY <3>4 DEF UpdateRamp, timing
    <3>5. CASE UpdateTrack(ok, full, weak, limit, above)
      BY <3>5 DEF UpdateTrack, timing
    <3>6. QED
      BY <3>1, <3>2, <3>3, <3>4, <3>5, Zenon
  <2>2. CASE Rt /\ ~Update
    BY <2>2, Zenon DEF Rt, UpdateIdle, RtManual, RtNoNewSample, RtStart, timing
  <2>3. QED
    BY <2>1, <2>2
<1>3. QED
  BY <1>2 DEF BackoffStep

\* Trips need a converter that is on: inside a backoff only a calibration fails.
LEMMA FaultBackoffStep ==
  ASSUME Inv, InBackoff, Fault
  PROVE  BackoffStep
<1>1. Disabled
  BY Zenon DEF Inv, Safe
<1>2. PICK nan \in BOOLEAN : CalibFailure(nan) \/ CalibCancel \/ ReleaseCvFloorLatch
  <2>1. ~(pwmCtrl > CtrlMin)
    BY <1>1 DEF Disabled, CtrlMin
  <2>2. QED
    BY <1>1, <2>1, Zenon DEF Fault, RtTrip, RtReverseHigh, UpdateNotFinite, AdcStall, LfWatchdog
<1>3. CASE CalibFailure(nan)
  <2>1. backoff' = Arm(backoff, ShortBackoff)
    BY <1>3 DEF CalibFailure, StopAndBackoff, Shutdown
  <2>2. QED
    BY <2>1 DEF Arm, BackoffStep, InBackoff
<1>4. CASE CalibCancel
  BY <1>4 DEF CalibCancel, timing, BackoffStep
<1>5. CASE ReleaseCvFloorLatch
  <2>1. backoff' = NoBackoff /\ ~manual /\ manual' = manual
    BY <1>5 DEF ReleaseCvFloorLatch, bench
  <2>2. QED
    BY <2>1, Zenon DEF BackoffStep
<1>6. QED
  BY <1>2, <1>3, <1>4, <1>5

LEMMA ConsoleBackoffStep ==
  ASSUME Console
  PROVE  BackoffStep
<1>1. CASE CmdSweep
  BY <1>1, Zenon DEF CmdSweep, BackoffStep
<1>2. CASE Console /\ ~CmdSweep
  BY <1>2, Zenon DEF Console, CmdDc, CmdMppt, CmdStep, CmdBflow, timing, BackoffStep
<1>3. QED
  BY <1>1, <1>2

\* A running backoff is neither cut short nor pushed back by further trips: it
\* counts down, gives way to a longer one, or is dropped in automatic mode by
\* `sweep` and by the stuck watchdog (shutdownDcdc, clearBackoff).
THEOREM BackoffRunsItsCourse == Spec => BackoffCountsDown
<1>1. Inv /\ [Next]_vars => [InBackoff => BackoffStep]_vars
  <2> SUFFICES ASSUME Inv, Next, InBackoff PROVE BackoffStep
    OBVIOUS
  <2>1. CASE Rt
    BY <2>1, RtBackoffStep
  <2>2. CASE Fault
    BY <2>2, FaultBackoffStep
  <2>3. CASE Console
    BY <2>3, ConsoleBackoffStep
  <2>4. CASE CalibDone
    BY <2>4 DEF CalibDone, BackoffStep
  <2>5. CASE Tick
    BY <2>5 DEF Tick, BackoffStep, InBackoff
  <2>6. QED
    BY <2>1, <2>2, <2>3, <2>4, <2>5 DEF Next
<1>2. QED
  BY <1>1, SpecInv, PTL DEF Spec, BackoffCountsDown, BackoffStep

-----------------------------------------------------------------------------
(* What switches the converter on.                                         *)

\* the two reasons
Reason == (sweeping /\ ~calibrating) \/ (manual /\ manualTarget > 0)

\* The ramp and tracking run on a converter that is on, or in a scan.
LEMMA UpdateSwitchesOnInScan ==
  ASSUME Disabled, ~Disabled', Update
  PROVE  Reason
<1>1. PICK ok, full, weak, above \in BOOLEAN, limit \in {"None", "CV", "CC"} :
        \/ UpdateResweep(ok, full, weak)
        \/ \E better \in BOOLEAN : UpdateScan(ok, full, weak, limit, better, above)
        \/ UpdateStopScan(ok, full, weak, limit, above)
        \/ UpdateRamp(ok, full, weak, limit, above)
        \/ UpdateTrack(ok, full, weak, limit, above)
  BY DEF Update
<1>2. CASE UpdateResweep(ok, full, weak)
  BY <1>2 DEF UpdateResweep, StartSweep, Disabled
<1>3. Updating(weak) => ~calibrating /\ sweeping
  BY Zenon DEF Updating, Active, Protected
<1>4. CASE \E better \in BOOLEAN : UpdateScan(ok, full, weak, limit, better, above)
  BY <1>3, <1>4, Zenon DEF UpdateScan, Reason
<1>5. CASE UpdateStopScan(ok, full, weak, limit, above)
  BY <1>3, <1>5, Zenon DEF UpdateStopScan, Reason
<1>6. CASE UpdateRamp(ok, full, weak, limit, above) \/ UpdateTrack(ok, full, weak, limit, above)
  BY <1>3, <1>6, Zenon DEF UpdateRamp, UpdateTrack
<1>7. QED
  BY <1>1, <1>2, <1>4, <1>5, <1>6, Zenon

LEMMA ManualSwitchesOnForTarget ==
  ASSUME Inv, Disabled, ~Disabled', NEW weak, RtManual(weak)
  PROVE  Reason
<1>1. manual
  BY Zenon DEF RtManual
<1>2. ~(manualTarget = 0 /\ pwmCtrl <= CtrlMin)
  BY DEF RtManual, Disabled
<1>3. manualTarget # 0
  BY <1>2 DEF Disabled, CtrlMin
<1>4. manualTarget > 0
  BY <1>3 DEF Inv, NumbersTyped
<1>5. QED
  BY <1>1, <1>4, Zenon DEF Reason

LEMMA OthersKeepOff ==
  ASSUME Disabled, Next, ~Update, \A weak \in BOOLEAN : ~RtManual(weak)
  PROVE  Disabled'
<1>1. CASE Rt
  BY <1>1, Zenon DEF Rt, UpdateIdle, RtNoNewSample, RtStart, StartSweep, Disabled
<1>2. CASE Fault
  <2>1. ~(pwmCtrl > CtrlMin)
    BY DEF Disabled, CtrlMin
  <2>2. QED
    BY <1>2, <2>1, Zenon DEF Fault, RtTrip, RtReverseHigh, UpdateNotFinite, CalibFailure,
       StopAndBackoff, Shutdown, CalibCancel, AdcStall, LfWatchdog, ReleaseCvFloorLatch,
       stage, Disabled
<1>3. CASE Console
  BY <1>3, Zenon DEF Console, CmdDc, CmdMppt, CmdSweep, StartSweep, CmdStep, CmdBflow,
     stage, Disabled
<1>4. CASE CalibDone \/ Tick
  BY <1>4 DEF CalibDone, Tick, stage, Disabled
<1>5. QED
  BY <1>1, <1>2, <1>3, <1>4 DEF Next

\* Only a scan with its calibration behind it and the bench ramp switch the
\* converter on: update() and updateManual() are the only handlers that can, and
\* each has its gate.
THEOREM SwitchesOnForAReason == Spec => SwitchedOnForAReason
<1>1. Inv /\ [Next]_vars => [Disabled /\ pwmCtrl' > 0 => Reason]_vars
  <2> SUFFICES ASSUME Inv, Next, Disabled, pwmCtrl' > 0 PROVE Reason
    OBVIOUS
  <2>1. ~Disabled'
    BY DEF Disabled
  <2>2. CASE Update
    BY <2>1, <2>2, UpdateSwitchesOnInScan
  <2>3. CASE \E weak \in BOOLEAN : RtManual(weak)
    BY <2>1, <2>3, ManualSwitchesOnForTarget, Zenon
  <2>4. QED
    BY <2>1, <2>2, <2>3, OthersKeepOff, Zenon
<1>2. QED
  BY <1>1, SpecInv, PTL DEF Spec, SwitchedOnForAReason, Reason
=============================================================================
