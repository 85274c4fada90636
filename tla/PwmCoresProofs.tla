--------------------------- MODULE PwmCoresProofs ---------------------------
(***************************************************************************)
(* Proofs about PwmCores, for every duty range and step set, either driver *)
(* and any number of interleaved ticks and calls of core 0.                *)
(*                                                                         *)
(* Both properties live on one asymmetry: core 0 only ever clears the      *)
(* duty, core 1 alone makes it non-zero.  So a duty that core 1 has found  *)
(* (or made) zero stays zero until core 1 itself stores another, whatever  *)
(* core 0 does in between; Held and Soft say at which labels core 1 relies *)
(* on that.                                                                *)
(*                                                                         *)
(* At the end, what lets the converter be switched on at all: the gate of  *)
(* the RT loop in front of an automatic scan, StartGate, whose state is    *)
(* its own.                                                                *)
(***************************************************************************)
EXTENDS PwmCores, MCStartGate, TLAPS

Calls == {"none", "trip", "sweep", "calib", "start", "move"}

-----------------------------------------------------------------------------
(* Types.                                                                  *)

\* A limited duty is a duty.
LEMMA LimitInRange ==
  ASSUME NEW x \in Int
  PROVE  Limit(x) \in 0..CtrlMax
BY CoresAssumption DEF Limit, CtrlMin

LEMMA StepsInt == Steps \subseteq Int
BY CoresAssumption

\* Labels are reached by Goto and Enter alone.
LEMMA GotoTyped ==
  ASSUME TypeOK, NEW core \in Cores, NEW label \in Labels, Goto(core, label)
  PROVE  pc' \in [Cores -> Labels]
BY DEF Goto, TypeOK

LEMMA EnterTyped ==
  ASSUME TypeOK, NEW core \in Cores, NEW label \in Labels, NEW what \in Calls,
         Enter(core, label, what)
  PROVE  pc' \in [Cores -> Labels] /\ call' \in [Cores -> Calls]
BY GotoTyped DEF Enter, TypeOK, Calls

LEMMA PerturbTyped ==
  ASSUME TypeOK, NEW steps \in SUBSET Steps, NEW what \in Calls, Perturb(steps, what)
  PROVE  /\ pc' \in [Cores -> Labels] /\ call' \in [Cores -> Calls]
         /\ move' \in [step : Steps, sum : 0..CtrlMax, enabling : BOOLEAN]
<1>1. "RT" \in Cores /\ "probe" \in Labels
  BY DEF Cores, Labels
<1> QED
  BY <1>1, EnterTyped DEF Perturb, TypeOK

LEMMA SharedTyped ==
  ASSUME TypeOK, NEW core \in Cores, Shared(core)
  PROVE  TypeOK'
<1>1. CASE ForceLow(core)
  <2>1. pc' \in [Cores -> Labels]
    BY <1>1, GotoTyped DEF ForceLow, Labels
  <2> QED
    BY <1>1, <2>1, CoresAssumption DEF ForceLow, TypeOK, state
<1>2. CASE Park(core)
  <2>1. pc' \in [Cores -> Labels]
    BY <1>2, GotoTyped DEF Park, Labels
  <2> QED
    BY <1>2, <2>1, CoresAssumption DEF Park, TypeOK, state
<1>3. CASE Clear(core)
  <2>1. Return(core) \in Labels
    BY DEF Return, Labels
  <2>2. pc' \in [Cores -> Labels]
    BY <1>3, <2>1, GotoTyped DEF Clear
  <2> QED
    BY <1>3, <2>2, CoresAssumption DEF Clear, TypeOK, state
<1>4. CASE ArmBackoff(core)
  <2>1. pc' \in [Cores -> Labels]
    BY <1>4, GotoTyped DEF ArmBackoff, Labels
  <2> QED
    BY <1>4, <2>1 DEF ArmBackoff, TypeOK, power
<1>5. CASE EndScan(core)
  <2>1. pc' \in [Cores -> Labels]
    BY <1>5, GotoTyped DEF EndScan, Labels
  <2> QED
    BY <1>5, <2>1 DEF EndScan, TypeOK, power
<1>6. CASE BeginSweep(core)
  <2>1. pc' \in [Cores -> Labels]
    BY <1>6, GotoTyped DEF BeginSweep, Labels
  <2> QED
    BY <1>6, <2>1 DEF BeginSweep, TypeOK, power
<1>7. CASE Calibrate(core)
  <2>1. pc' \in [Cores -> Labels]
    BY <1>7, GotoTyped DEF Calibrate, Labels
  <2> QED
    BY <1>7, <2>1 DEF Calibrate, TypeOK, power
<1> QED
  BY <1>1, <1>2, <1>3, <1>4, <1>5, <1>6, <1>7 DEF Shared

LEMMA RtTyped ==
  ASSUME TypeOK, Rt
  PROVE  TypeOK'
<1> USE DEF TypeOK
<1>0. "RT" \in Cores
  BY DEF Cores
<1>1. CASE RtTick
  <2>1. pc' \in [Cores -> Labels]
    BY <1>0, <1>1, GotoTyped DEF RtTick, Labels
  <2> QED
    BY <1>1, <2>1 DEF RtTick, power, state
<1>2. CASE RtLoop
  <2>1. /\ pc' \in [Cores -> Labels]
        /\ call' \in [Cores -> Calls]
    BY <1>0, <1>2, GotoTyped, EnterTyped DEF RtLoop, Labels, Calls
  <2> QED
    BY <1>2, <2>1 DEF RtLoop, power, state, Calls
<1>3. CASE RtUpdate
  <2>1. /\ pc' \in [Cores -> Labels]
        /\ call' \in [Cores -> Calls]
    BY <1>0, <1>3, GotoTyped, EnterTyped DEF RtUpdate, Labels, Calls
  <2> QED
    BY <1>3, <2>1 DEF RtUpdate, power, state, Calls
<1>4. CASE RtScan
  <2>1. {1} \in SUBSET Steps
    BY CoresAssumption
  <2>2. /\ pc' \in [Cores -> Labels]
        /\ call' \in [Cores -> Calls]
        /\ move' \in [step : Steps, sum : 0..CtrlMax, enabling : BOOLEAN]
    BY <1>0, <1>4, <2>1, GotoTyped, PerturbTyped DEF RtScan, Labels, Calls
  <2> QED
    BY <1>4, <2>2 DEF RtScan, power, state, Calls
<1>5. CASE RtClimb
  <2>1. /\ pc' \in [Cores -> Labels]
        /\ call' \in [Cores -> Calls]
        /\ move' \in [step : Steps, sum : 0..CtrlMax, enabling : BOOLEAN]
    <3>1. ASSUME NEW raise \in SUBSET Steps, Perturb(raise, "move")
          PROVE  /\ pc' \in [Cores -> Labels]
                 /\ call' \in [Cores -> Calls]
                 /\ move' \in [step : Steps, sum : 0..CtrlMax, enabling : BOOLEAN]
      BY <3>1, PerturbTyped DEF Calls
    <3>2. {s \in Steps : s >= 0} \in SUBSET Steps /\ {s \in Steps : s <= 0} \in SUBSET Steps
      OBVIOUS
    <3>3. CASE Enter("RT", "force", "trip") /\ UNCHANGED move
      BY <1>0, <3>3, EnterTyped DEF Labels, Calls
    <3> QED
      BY <1>5, <3>1, <3>2, <3>3 DEF RtClimb
  <2> QED
    BY <1>5, <2>1 DEF RtClimb, power, Calls
<1>6. CASE RtProbe
  <2>1. pc' \in [Cores -> Labels]
    BY <1>0, <1>6, GotoTyped DEF RtProbe, Labels
  <2> QED
    BY <1>6, <2>1 DEF RtProbe, power, state
<1>7. CASE RtLoad
  <2>1. pc' \in [Cores -> Labels]
    BY <1>0, <1>7, GotoTyped DEF RtLoad, Labels
  <2>2. Limit(pwmCtrl + move.step) \in 0..CtrlMax
    <3>1. move.step \in Int
      BY StepsInt
    <3>2. pwmCtrl \in Int
      OBVIOUS
    <3>3. pwmCtrl + move.step \in Int
      BY <3>1, <3>2
    <3> QED
      BY <3>3, LimitInRange
  <2> QED
    BY <1>7, <2>1, <2>2 DEF RtLoad, power, state
<1>8. CASE RtStore
  <2>1. pc' \in [Cores -> Labels]
    BY <1>0, <1>8, GotoTyped DEF RtStore, Labels
  <2> QED
    BY <1>8, <2>1 DEF RtStore, state
<1>9. CASE RtCommit
  <2>1. pc' \in [Cores -> Labels]
    BY <1>0, <1>9, GotoTyped DEF RtCommit, AfterMove, Labels
  <2> QED
    BY <1>9, <2>1 DEF RtCommit, state
<1>10. CASE RtUnlatch
  <2>1. pc' \in [Cores -> Labels]
    BY <1>0, <1>10, GotoTyped DEF RtUnlatch, AfterMove, Labels
  <2> QED
    BY <1>10, <2>1 DEF RtUnlatch, state
<1>11. CASE CalibEnds
  <2>1. /\ pc' \in [Cores -> Labels]
        /\ call' \in [Cores -> Calls]
    BY <1>0, <1>11, EnterTyped DEF CalibEnds, Labels, Calls
  <2> QED
    BY <1>11, <2>1 DEF CalibEnds, power, Calls
<1> QED
  BY <1>1, <1>2, <1>3, <1>4, <1>5, <1>6, <1>7, <1>8, <1>9, <1>10, <1>11 DEF Rt

LEMMA NextTyped == TypeOK /\ [Next]_vars => TypeOK'
<1> SUFFICES ASSUME TypeOK, [Next]_vars
             PROVE  TypeOK'
  OBVIOUS
<1>0. "LF" \in Cores
  BY DEF Cores
<1>1. CASE \E core \in Cores : Shared(core)
  BY <1>1, SharedTyped
<1>2. CASE Rt
  BY <1>2, RtTyped
<1>3. CASE LfWatchdog
  <2>1. pc' \in [Cores -> Labels] /\ call' \in [Cores -> Calls]
    BY <1>0, <1>3, EnterTyped DEF LfWatchdog, Labels, Calls
  <2> QED
    BY <1>3, <2>1 DEF LfWatchdog, TypeOK, power, state, Calls
<1>4. CASE LfSweep
  <2>1. pc' \in [Cores -> Labels] /\ call' \in [Cores -> Calls]
    BY <1>0, <1>4, EnterTyped DEF LfSweep, Labels, Calls
  <2> QED
    BY <1>4, <2>1 DEF LfSweep, TypeOK, power, Calls
<1>5. CASE Expire
  BY <1>5 DEF Expire, TypeOK, power
<1>6. CASE UNCHANGED vars
  BY <1>6 DEF vars, power, state, TypeOK
<1> QED
  BY <1>1, <1>2, <1>3, <1>4, <1>5, <1>6 DEF Next

\* Counts, comparators and labels stay what they are, however the accesses of the
\* two cores interleave.
THEOREM TypeCorrect == Spec => []TypeOK
<1>1. ASSUME Init PROVE TypeOK
  <2>1. pwmCtrl \in 0..CtrlMax /\ hsOff \in 0..CtrlMax
    BY <1>1 DEF Init
  <2>2. latched \in BOOLEAN
    BY <1>1, CoresAssumption, Zenon DEF Init
  <2>3. sweeping \in BOOLEAN /\ calibrating \in BOOLEAN /\ armed \in {"none"} \union Cores
    BY <1>1 DEF Init
  <2>4. pc \in [Cores -> Labels] /\ call \in [Cores -> Calls]
    BY <1>1 DEF Init, Labels, Calls
  <2>5. move \in [step : Steps, sum : 0..CtrlMax, enabling : BOOLEAN]
    BY <1>1, CoresAssumption DEF Init
  <2> QED
    BY <2>1, <2>2, <2>3, <2>4, <2>5 DEF TypeOK, Calls
<1> QED
  BY <1>1, NextTyped, PTL DEF Spec

-----------------------------------------------------------------------------
(* A backoff that core 1 arms, against the `sweep` of core 0.              *)

\* where core 1 is on its way to another duty
Moving == {"scan", "climb", "probe", "load", "store", "commit", "unlatch"}

Held ==
  /\ armed = "RT" => Disabled /\ pc["RT"] \notin Moving
  /\ pc["RT"] \in {"arm", "abort"} => Disabled

\* Core 0 disables and calibrates, and what it arms is not core 1's backoff.
LEMMA LfKeepsHeld ==
  ASSUME TypeOK, Held, Shared("LF")
  PROVE  Held'
<1> USE DEF TypeOK, Held, Disabled, Cores
<1>1. CASE ForceLow("LF")
  BY <1>1 DEF ForceLow, Goto, state
<1>2. CASE Park("LF")
  BY <1>2 DEF Park, Goto, state
<1>3. CASE Clear("LF")
  BY <1>3 DEF Clear, Return, Goto, state
<1>4. CASE ArmBackoff("LF") \/ EndScan("LF")
  BY <1>4 DEF ArmBackoff, EndScan, Goto, power
<1>5. CASE BeginSweep("LF")
  BY <1>5 DEF BeginSweep, Goto, power
<1>6. CASE Calibrate("LF")
  BY <1>6 DEF Calibrate, Goto, power
<1> QED
  BY <1>1, <1>2, <1>3, <1>4, <1>5, <1>6 DEF Shared

\* Core 1 clears the duty before it arms.
LEMMA RtShutdownKeepsHeld ==
  ASSUME TypeOK, Held, Shared("RT")
  PROVE  Held'
<1> USE DEF TypeOK, Held, Disabled, Moving, Cores
<1>1. CASE ForceLow("RT")
  BY <1>1 DEF ForceLow, Goto, state
<1>2. CASE Park("RT")
  BY <1>2 DEF Park, Goto, state
<1>3. CASE Clear("RT")
  BY <1>3 DEF Clear, Return, Goto, state
<1>4. CASE ArmBackoff("RT")
  BY <1>4 DEF ArmBackoff, Goto, power
<1>5. CASE EndScan("RT")
  BY <1>5 DEF EndScan, Goto, power
<1>6. CASE BeginSweep("RT")
  BY <1>6 DEF BeginSweep, Goto, power
<1>7. CASE Calibrate("RT")
  BY <1>7 DEF Calibrate, Goto, power
<1> QED
  BY <1>1, <1>2, <1>3, <1>4, <1>5, <1>6, <1>7 DEF Shared

\* A tick gets past update() with an armed backoff neither on a converter that is
\* off (the gate of update()) nor with one that is on (Held).
LEMMA TickKeepsHeld ==
  ASSUME TypeOK, Held, Rt
  PROVE  Held'
<1> USE DEF TypeOK, Held, Disabled, Moving, Cores
<1>1. CASE RtTick
  BY <1>1 DEF RtTick, Goto, power, state
<1>2. CASE RtLoop
  BY <1>2 DEF RtLoop, Goto, Enter, power, state
<1>3. CASE RtUpdate
  BY <1>3 DEF RtUpdate, StartBlocked, Goto, Enter, power, state
<1>4. CASE RtScan
  BY <1>4 DEF RtScan, Perturb, Goto, Enter, power, state
<1>5. CASE RtClimb
  BY <1>5 DEF RtClimb, Perturb, Goto, Enter, power
<1>6. CASE RtProbe
  BY <1>6 DEF RtProbe, Goto, power, state
<1>7. CASE RtLoad
  BY <1>7 DEF RtLoad, Goto, power, state
<1>8. CASE RtStore
  BY <1>8 DEF RtStore, Goto, state
<1>9. CASE RtCommit
  BY <1>9 DEF RtCommit, AfterMove, Goto, state
<1>10. CASE RtUnlatch
  BY <1>10 DEF RtUnlatch, AfterMove, Goto, state
<1>11. CASE CalibEnds
  BY <1>11 DEF CalibEnds, Goto, Enter, power
<1> QED
  BY <1>1, <1>2, <1>3, <1>4, <1>5, <1>6, <1>7, <1>8, <1>9, <1>10, <1>11 DEF Rt

\* A trip of the RT loop holds the converter off until its backoff is over,
\* whatever `sweep` commands on core 0 do between its accesses (shutdownDcdc()
\* disables first and arms then, and update() looks at the backoff last).  A
\* backoff that lfWatchdog() armed from core 0 is another matter.
THEOREM BackoffHolds == Spec => []BackoffHoldsConverterOff
<1>1. Init => Held
  BY DEF Init, Held, Cores
<1>2. TypeOK /\ Held /\ [Next]_vars => Held'
  <2> SUFFICES ASSUME TypeOK, Held, [Next]_vars
               PROVE  Held'
    OBVIOUS
  <2>1. CASE \E core \in Cores : Shared(core)
    BY <2>1, LfKeepsHeld, RtShutdownKeepsHeld DEF Cores
  <2>2. CASE Rt
    BY <2>2, TickKeepsHeld
  <2>3. CASE LfWatchdog
    BY <2>3 DEF LfWatchdog, Enter, Goto, power, state, TypeOK, Held, Disabled, Cores
  <2>4. CASE LfSweep
    BY <2>4 DEF LfSweep, Enter, Goto, power, TypeOK, Held, Disabled, Cores
  <2>5. CASE Expire
    BY <2>5 DEF Expire, power, Held, Disabled
  <2>6. CASE UNCHANGED vars
    BY <2>6 DEF vars, power, state, Held, Disabled
  <2> QED
    BY <2>1, <2>2, <2>3, <2>4, <2>5, <2>6 DEF Next
<1>3. Held => BackoffHoldsConverterOff
  BY DEF Held, BackoffHoldsConverterOff
<1> QED
  BY <1>1, <1>2, <1>3, TypeCorrect, PTL DEF Spec

-----------------------------------------------------------------------------
(* The soft start.                                                         *)

\* A step that found the converter off and is to open the latch: what each of
\* its accesses may rely on.
SoftMove ==
  /\ pc["RT"] = "load" => Disabled /\ move.step > 0
  /\ pc["RT"] = "store" => Disabled /\ move.step > 0 /\ move.sum <= move.step
  /\ pc["RT"] = "commit" => pwmCtrl <= move.step /\ move.sum <= move.step
  /\ pc["RT"] = "unlatch" => hsOff <= move.step

Soft ==
  /\ latched => UseMcpwm
  /\ move.enabling => SoftMove
  /\ pc["RT"] = "unlatch" => move.enabling

LEMMA NumbersTyped ==
  ASSUME TypeOK
  PROVE  move.step \in Int /\ pwmCtrl \in Nat /\ hsOff \in Nat
<1>1. move.step \in Steps
  BY DEF TypeOK
<1>2. move.step \in Int
  BY <1>1, StepsInt
<1>3. pwmCtrl \in Nat /\ hsOff \in Nat
  BY CoresAssumption DEF TypeOK
<1> QED
  BY <1>2, <1>3

\* A shutdown on either core writes zeros, which no step minds.
LEMMA SharedKeepsSoft ==
  ASSUME TypeOK, Soft, NEW core \in Cores, Shared(core)
  PROVE  Soft'
<1> USE DEF TypeOK, Soft, SoftMove, Disabled, Cores
<1>0. CtrlMax \in Nat /\ Steps \subseteq Int /\ UseMcpwm \in BOOLEAN
  BY CoresAssumption, StepsInt
<1>1. CASE ForceLow(core)
  BY <1>0, <1>1 DEF ForceLow, Goto, state
<1>2. CASE Park(core)
  <2>1. move.step \in Int /\ hsOff \in Nat
    BY NumbersTyped
  <2>2. pc["RT"] = "unlatch" => 0 <= move.step
    BY <2>1
  <2>3. pc'["RT"] \in {pc["RT"], "clear"}
    BY <1>2 DEF Park, Goto
  <2> QED
    BY <1>2, <2>2, <2>3 DEF Park, state
<1>3. CASE Clear(core)
  <2>1. move.step \in Int /\ pwmCtrl \in Nat
    BY NumbersTyped
  <2>2. move.enabling /\ pc["RT"] = "commit" => 0 <= move.step
    BY <2>1
  <2>3. pc'["RT"] \in {pc["RT"], "arm", "calibrate", "idle"}
    BY <1>3 DEF Clear, Return, Goto
  <2> QED
    BY <1>3, <2>2, <2>3 DEF Clear, state
<1>4. CASE ArmBackoff(core)
  BY <1>4 DEF ArmBackoff, Goto, power
<1>5. CASE EndScan(core)
  BY <1>5 DEF EndScan, Goto, power
<1>6. CASE BeginSweep(core)
  BY <1>6 DEF BeginSweep, Goto, power
<1>7. CASE Calibrate(core)
  BY <1>7 DEF Calibrate, Goto, power
<1> QED
  BY <1>1, <1>2, <1>3, <1>4, <1>5, <1>6, <1>7 DEF Shared

\* Only pwmPerturb() stores a duty, and the duty it found zero has stayed zero.
LEMMA TickKeepsSoft ==
  ASSUME TypeOK, Soft, Rt
  PROVE  Soft'
<1> USE DEF TypeOK, Soft, SoftMove, Disabled, Cores
<1>0. CtrlMax \in Nat /\ Steps \subseteq Int
  BY CoresAssumption, StepsInt
<1>1. CASE RtTick
  BY <1>1 DEF RtTick, Goto, power, state
<1>2. CASE RtLoop
  BY <1>2 DEF RtLoop, Goto, Enter, power, state
<1>3. CASE RtUpdate
  BY <1>3 DEF RtUpdate, Goto, Enter, power, state
<1>4. CASE RtScan
  BY <1>4 DEF RtScan, Perturb, Goto, Enter, power, state
<1>5. CASE RtClimb
  BY <1>5 DEF RtClimb, Perturb, Goto, Enter, power
<1>6. CASE RtProbe
  BY <1>0, <1>6 DEF RtProbe, Goto, power, state
<1>7. CASE RtLoad
  <2>1. move.enabling => Limit(pwmCtrl + move.step) <= move.step
    BY <1>0, <1>7, CoresAssumption DEF RtLoad, Limit, CtrlMin
  <2> QED
    BY <1>0, <1>7, <2>1 DEF RtLoad, Goto, power, state
<1>8. CASE RtStore
  BY <1>0, <1>8 DEF RtStore, Goto, state
<1>9. CASE RtCommit
  BY <1>0, <1>9 DEF RtCommit, AfterMove, Goto, state
<1>10. CASE RtUnlatch
  BY <1>10 DEF RtUnlatch, AfterMove, Goto, state
<1>11. CASE CalibEnds
  BY <1>11 DEF CalibEnds, Goto, Enter, power
<1> QED
  BY <1>1, <1>2, <1>3, <1>4, <1>5, <1>6, <1>7, <1>8, <1>9, <1>10, <1>11 DEF Rt

LEMMA NextKeepsSoft == TypeOK /\ Soft /\ [Next]_vars => Soft'
<1> SUFFICES ASSUME TypeOK, Soft, [Next]_vars
             PROVE  Soft'
  OBVIOUS
<1>1. CASE \E core \in Cores : Shared(core)
  BY <1>1, SharedKeepsSoft
<1>2. CASE Rt
  BY <1>2, TickKeepsSoft
<1>3. CASE LfWatchdog \/ LfSweep
  BY <1>3 DEF LfWatchdog, LfSweep, Enter, Goto, power, state, TypeOK, Soft, SoftMove, Disabled, Cores
<1>4. CASE Expire
  BY <1>4 DEF Expire, power, Soft, SoftMove, Disabled
<1>5. CASE UNCHANGED vars
  BY <1>5 DEF vars, power, state, Soft, SoftMove, Disabled
<1> QED
  BY <1>1, <1>2, <1>3, <1>4, <1>5 DEF Next

\* The force latch opens on a soft start only, whatever disable of core 0 the
\* accesses of pwmPerturb() are interleaved with: the comparator then holds no
\* more than one step ("the latched pre-disable duty cannot resume", drvShutdown).
THEOREM StartsSoftly == Spec => SoftStart
<1>1. Init => Soft
  BY CoresAssumption DEF Init, Soft, SoftMove, Cores
<1>2. TypeOK /\ Soft /\ [Next]_vars
        => [latched /\ ~latched' => \E step \in Steps : hsOff <= step]_vars
  <2> SUFFICES ASSUME TypeOK, Soft, Next, latched, ~latched'
               PROVE  \E step \in Steps : hsOff <= step
    BY DEF vars, power
  <2>1. CASE \E core \in Cores : Shared(core)
    BY <2>1, CoresAssumption DEF Soft, Shared, ForceLow, Park, Clear, ArmBackoff,
       EndScan, BeginSweep, Calibrate, power
  <2>2. CASE Rt
    <3>1. RtUnlatch
      BY <2>2 DEF Rt, RtTick, RtLoop, RtUpdate, RtScan, RtClimb, RtProbe, RtLoad,
         RtStore, RtCommit, CalibEnds, power
    <3>2. hsOff <= move.step /\ move.step \in Steps
      BY <3>1 DEF RtUnlatch, Soft, SoftMove, TypeOK
    <3> QED
      BY <3>2
  <2>3. CASE LfWatchdog \/ LfSweep \/ Expire
    BY <2>3 DEF LfWatchdog, LfSweep, Expire, power
  <2> QED
    BY <2>1, <2>2, <2>3 DEF Next
<1> QED
  BY <1>1, <1>2, NextKeepsSoft, TypeCorrect, PTL DEF Spec, SoftStart

-----------------------------------------------------------------------------
(* The gate in front of a scan.                                            *)

\* The window is open since the BMS is known: what is left of it and the time since
\* then make up the whole of it.
WindowOK ==
  /\ up \in 0..Wait /\ deadline \in [set : BOOLEAN, left : 0..Wait]
  /\ deadline.set => source /\ Wait <= deadline.left + up

\* A window is set for a BMS that is known, and all of it is left.
LEMMA WindowSet ==
  ASSUME WindowOK
  PROVE  /\ NewDeadline \in [set : BOOLEAN, left : 0..Wait]
         /\ NewDeadline.set => source /\ Wait <= NewDeadline.left + up
BY TimesAssumption DEF TimesAssumption, WindowOK, NewDeadline, NoDeadline, FullWait, WaitingForBms

\* Time passes for the window and for the memory alike.
LEMMA WindowRuns ==
  ASSUME WindowOK, Tick, up' = IF source THEN Advance(up, Wait) ELSE 0
  PROVE  WindowOK'
<1>1. source' = source /\ deadline' = [deadline EXCEPT !.left = IF @ > 0 THEN @ - 1 ELSE 0]
  BY DEF Tick
<1>2. deadline'.set = deadline.set
      /\ deadline'.left = IF deadline.left > 0 THEN deadline.left - 1 ELSE 0
  BY <1>1 DEF WindowOK
<1>3. deadline' \in [set : BOOLEAN, left : 0..Wait] /\ up' \in 0..Wait
  BY <1>1, <1>2, TimesAssumption DEF TimesAssumption, WindowOK, Advance
<1>4. ASSUME deadline.set PROVE Wait <= deadline'.left + up'
  BY <1>2, <1>4, TimesAssumption DEF TimesAssumption, WindowOK, Advance
<1> QED
  BY <1>1, <1>2, <1>3, <1>4 DEF WindowOK

LEMMA WindowKept == ASSUME WindowOK, [MemoryNext]_<<gateVars, up>> PROVE WindowOK'
<1>1. CASE Gate /\ up' = up
  BY <1>1, WindowSet DEF Gate, bms, WindowOK
<1>2. CASE Subscribe /\ up' = up
  BY <1>2 DEF Subscribe, gate, WindowOK
<1>3. CASE (CurrentFrame \/ \E v \in {"low", "between", "full"} : CellFrame(v)) /\ up' = up
  BY <1>3 DEF CurrentFrame, CellFrame, gate, WindowOK
<1>4. CASE (\E drawn \in BOOLEAN : UpdateTermination(drawn)) /\ up' = up
  BY <1>4 DEF UpdateTermination, gate, bms, WindowOK
<1>5. CASE (Stop \/ Unblock \/ Block) /\ up' = up
  BY <1>5 DEF Stop, Unblock, Block, gate, bms, WindowOK
<1>6. CASE Tick /\ up' = IF source THEN Advance(up, Wait) ELSE 0
  BY <1>6, WindowRuns
<1>7. CASE UNCHANGED <<gateVars, up>>
  BY <1>7 DEF gateVars, bms, gate, WindowOK
<1> QED
  BY <1>1, <1>2, <1>3, <1>4, <1>5, <1>6, <1>7 DEF MemoryNext

\* loopRTNewData() lets no scan through before the charger has its verdict and the pack
\* is not full, unless BMS_BOOT_WAIT_US are over since the subscription: the window of an
\* outage in between can only end later.
THEOREM GateWaits == MemorySpec => GateWaitsForVerdict
<1>1. MemoryInit => WindowOK
  BY TimesAssumption DEF TimesAssumption, MemoryInit, GateInit, NoDeadline, WindowOK
<1>2. WindowOK /\ [MemoryNext]_<<gateVars, up>>
        => [Starts /\ source => (decided /\ ~Full) \/ up = Wait]_<<gateVars, up>>
  <2> SUFFICES ASSUME WindowOK, MemoryNext, Starts, source, ~(decided /\ ~Full)
               PROVE  up = Wait
    OBVIOUS
  <2>1. Gate
    BY DEF MemoryNext, Starts, Subscribe, CurrentFrame, CellFrame, UpdateTermination, Stop,
       Unblock, Block, Tick, bms
  <2>2. ~Full /\ (~WaitingForBms \/ Elapsed)
    BY <2>1 DEF Gate, Admits, Starts
  <2>3. NewDeadline.set /\ NewDeadline.left = 0
    BY <2>2 DEF WaitingForBms, Elapsed
  <2> QED
    BY <2>3, WindowSet, TimesAssumption DEF TimesAssumption, WindowOK
<1> QED
  BY <1>1, <1>2, WindowKept, PTL DEF MemorySpec, GateWaitsForVerdict
=============================================================================
