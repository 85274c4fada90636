------------------------------- MODULE Sampler -------------------------------
(***************************************************************************)
(* ADC_Sampler (adc/sampling.h): polls the ADCs of a board, hands every     *)
(* sample to its sensor, and calibrates the sensors' offsets while the      *)
(* converter is off.  update() runs on the RT core; a calibration is        *)
(* started there (startSweep(), protect()) or on core 0, by a console       *)
(* command or a deferred task, between the accesses of an update.           *)
(*                                                                         *)
(* Of a sample only matters whether it is a number and whether the offset   *)
(* it completes is within its constraints.                                  *)
(***************************************************************************)
EXTENDS Integers, Sequences, FiniteSets, SequencesExt

CONSTANTS
  Boards,   \* sequences of ADCs: [mode, order], order a sequence of sensors
  Settle,   \* samples before the collection starts (100)
  Collect,  \* the buffer is complete with more than these (100)
  Core0     \* calibrations are started on core 0 as well

SensorsOf(b) == UNION {ToSet(b[i].order) : i \in DOMAIN b}

\* begin() throws without a sensor, on the board or on a muxed ADC; a sensor is added
\* to an ADC once, and calibrating_ counts them in a byte
ASSUME SamplerAssumption ==
  /\ Settle \in Nat \ {0} /\ Collect \in Nat /\ Core0 \in BOOLEAN
  /\ \A b \in Boards :
       /\ b \in Seq([mode : {"muxed", "streamed", "snapshot"}, order : Seq(SensorsOf(b))])
       /\ IsFiniteSet(SensorsOf(b)) /\ Cardinality(SensorsOf(b)) \in 1..255
       /\ \A i \in DOMAIN b : /\ IsInjective(b[i].order)
                              /\ b[i].mode = "muxed" => b[i].order # <<>>

VARIABLES
  board,        \* adcStates
  calibrating,  \* calibrating_, a uint8_t
  n,            \* numSamples of each sensor, up to Settle
  buf,          \* samples in its calibBuffer
  offset,       \* calibrationAvg is not 0
  pos,          \* cycleSensorsPos of each muxed ADC
  adcs,         \* ADCs this update() has still to poll
  work,         \* sensors whose samples the ADC in hand has delivered
  after,        \* what _updateAdc() returns after them but for calibration results
  res,          \* the result so far: UpdateRet
  reg,          \* the value of --calibrating_ in a register, NoReg, or Taken: about to be loaded
  restart       \* sensors that startCalibration() on core 0 has still to reset

run  == <<adcs, work, after, res>>
vars == <<board, calibrating, n, buf, offset, pos, run, reg, restart>>

NoReg == -1
Taken == -2
All == SensorsOf(board)

\* UpdateRet, in its order
Ret == [NoNewData |-> 0, NewData |-> 1, Calibrating |-> 2, CalibFailure |-> 3, AdcError |-> 4]
Higher(a, b) == IF a > b THEN a ELSE b

\* mutant: Vout goes first
VoutFirst(s) ==
  IF Len(s) > 2
  THEN [i \in 1..2 * (Len(s) - 1) |-> IF i % 2 = 1 THEN Last(s) ELSE s[i \div 2]]
  ELSE s

\* buildCycleOrder(): the last sensor (Vout) is interleaved between the others
Interleaved(s) ==
  IF Len(s) > 2
  THEN [i \in 1..2 * (Len(s) - 1) |-> IF i % 2 = 0 THEN Last(s) ELSE s[(i + 1) \div 2]]
  ELSE s

\* begin()
Init ==
  /\ board \in Boards
  /\ calibrating = 0 /\ reg = NoReg /\ restart = <<>>
  /\ n = [s \in All |-> 0] /\ buf = [s \in All |-> 0]
  /\ offset = [s \in All |-> FALSE]
  /\ pos = [i \in DOMAIN board |-> 1]
  /\ adcs = <<>> /\ work = <<>>
  /\ after = Ret.NoNewData /\ res = Ret.NoNewData

Resting == adcs = <<>> /\ work = <<>> /\ reg = NoReg

-----------------------------------------------------------------------------
(* update().                                                               *)

BeginUpdate ==
  /\ Resting
  /\ adcs' = [i \in DOMAIN board |-> i]
  /\ res' = Ret.NoNewData
  /\ UNCHANGED <<board, calibrating, n, buf, offset, pos, work, after, reg, restart>>

\* what _updateAdc() returns if no sample told otherwise
Quiet == IF calibrating = 0 THEN Ret.NewData ELSE Ret.Calibrating

\* no data, or an ADC that is not good
PollNothing(r) ==
  /\ adcs # <<>> /\ work = <<>> /\ reg = NoReg
  /\ adcs' = Tail(adcs) /\ res' = Higher(res, r)
  /\ UNCHANGED <<board, calibrating, n, buf, offset, pos, work, after, reg, restart>>

\* one channel of a muxed ADC, and the mux advances
PollMuxed ==
  /\ adcs # <<>> /\ work = <<>> /\ reg = NoReg
  /\ LET a == Head(adcs)
         order == Interleaved(board[a].order)
     IN  /\ board[a].mode = "muxed"
         /\ work' = <<order[pos[a]]>>
         /\ pos' = [pos EXCEPT ![a] = (@ % Len(order)) + 1]
  /\ after' = Ret.NoNewData /\ adcs' = Tail(adcs)
  /\ UNCHANGED <<board, calibrating, n, buf, offset, res, reg, restart>>

\* every channel of a snapshot ADC, in the order of the channels
PollSnapshot ==
  /\ adcs # <<>> /\ work = <<>> /\ reg = NoReg
  /\ board[Head(adcs)].mode = "snapshot"
  /\ work' = board[Head(adcs)].order
  /\ after' = Ret.NoNewData /\ adcs' = Tail(adcs)
  /\ UNCHANGED <<board, calibrating, n, buf, offset, pos, res, reg, restart>>

\* whatever the DMA of a streamed ADC has brought; isGood() is asked after it
PollStreamed ==
  /\ adcs # <<>> /\ work = <<>> /\ reg = NoReg
  /\ board[Head(adcs)].mode = "streamed"
  /\ work' = board[Head(adcs)].order
  /\ after' \in {Ret.NoNewData, Ret.AdcError} /\ adcs' = Tail(adcs)
  /\ UNCHANGED <<board, calibrating, n, buf, offset, pos, res, reg, restart>>

\* what a sample told, and after the last one what the ADC's own state tells
Close(r) ==
  res' = Higher(res, Higher(r, IF Len(work) > 1 THEN Ret.NoNewData
                               ELSE Higher(after, Quiet)))

\* _addSensorSample(): a sample that is no number is a failed calibration
BadSample ==
  /\ work # <<>> /\ reg = NoReg
  /\ work' = Tail(work) /\ Close(Ret.CalibFailure)
  /\ UNCHANGED <<board, calibrating, n, buf, offset, pos, adcs, after, reg, restart>>

Seen(s) == IF n[s] < Settle THEN n[s] + 1 ELSE n[s]
Collects(s) == calibrating > 0 /\ Seen(s) >= Settle
\* mutant: the buffer is looked at before the sample is added
CompletesLate(s) == Collects(s) /\ buf[s] > Collect
Completes(s) == Collects(s) /\ buf[s] + 1 > Collect

\* a sample that completes no buffer
PlainSample ==
  /\ work # <<>> /\ reg = NoReg
  /\ LET s == Head(work)
     IN  /\ ~Completes(s)
         /\ n' = [n EXCEPT ![s] = Seen(s)]
         /\ buf' = IF Collects(s) THEN [buf EXCEPT ![s] = @ + 1] ELSE buf
  /\ work' = Tail(work) /\ Close(Ret.NoNewData)
  /\ UNCHANGED <<board, calibrating, offset, pos, adcs, after, reg, restart>>

\* mutant: a failure leaves the calibration on
FailingGoesOn ==
  /\ work # <<>> /\ reg = NoReg
  /\ LET s == Head(work)
     IN  /\ Completes(s)
         /\ n' = [n EXCEPT ![s] = Seen(s)] /\ buf' = [buf EXCEPT ![s] = 0]
  /\ work' = Tail(work) /\ Close(Ret.CalibFailure)
  /\ UNCHANGED <<board, calibrating, offset, pos, adcs, after, reg, restart>>

\* the offset is out of its constraints: the calibration ends
FailingSample ==
  /\ work # <<>> /\ reg = NoReg
  /\ LET s == Head(work)
     IN  /\ Completes(s)
         /\ n' = [n EXCEPT ![s] = Seen(s)] /\ buf' = [buf EXCEPT ![s] = 0]
  /\ calibrating' = 0
  /\ work' = Tail(work) /\ Close(Ret.CalibFailure)
  /\ UNCHANGED <<board, offset, pos, adcs, after, reg, restart>>

\* the offset is taken, the sensor starts anew and is to be counted
CompletingSample ==
  /\ work # <<>> /\ reg = NoReg
  /\ LET s == Head(work)
     IN  /\ Completes(s)
         /\ n' = [n EXCEPT ![s] = 0] /\ buf' = [buf EXCEPT ![s] = 0]
         /\ offset' = [offset EXCEPT ![s] = TRUE]
  /\ reg' = Taken
  /\ UNCHANGED <<board, calibrating, pos, run, restart>>

\* --calibrating_ is a load and a store; the last sensor counted is reported
Load ==
  /\ reg = Taken
  /\ reg' = (calibrating - 1) % 256
  /\ UNCHANGED <<board, calibrating, n, buf, offset, pos, run, restart>>

Count ==
  /\ reg >= 0
  /\ calibrating' = reg /\ reg' = NoReg
  /\ work' = Tail(work)
  /\ res' = Higher(res, Higher(after, IF reg = 0 \/ Len(work) = 1
                                      THEN Ret.Calibrating ELSE Ret.NoNewData))
  /\ UNCHANGED <<board, n, buf, offset, pos, adcs, after, restart>>

-----------------------------------------------------------------------------
(* startCalibration() and cancelCalibration().                             *)

\* Sensor.reset(true): the buffer is only cleared with an offset
ResetN(S) == [s \in All |-> IF s \in S THEN 0 ELSE n[s]]
ResetBuf(S) == [s \in All |-> IF s \in S /\ offset[s] THEN 0 ELSE buf[s]]
ResetOffset(S) == [s \in All |-> s \notin S /\ offset[s]]

\* on the RT core, between two updates
Start ==
  /\ Resting /\ restart = <<>>
  /\ calibrating' = Cardinality(All)
  /\ n' = ResetN(All) /\ buf' = ResetBuf(All) /\ offset' = ResetOffset(All)
  /\ UNCHANGED <<board, pos, run, reg, restart>>

\* on core 0: the count first, then one sensor after the other
BeginStartOnCore0 ==
  /\ Core0 /\ restart = <<>>
  /\ calibrating' = Cardinality(All)
  /\ restart' = SetToSeq(All)
  /\ UNCHANGED <<board, n, buf, offset, pos, run, reg>>

ResetOnCore0 ==
  /\ restart # <<>>
  /\ n' = ResetN({Head(restart)}) /\ buf' = ResetBuf({Head(restart)})
  /\ offset' = ResetOffset({Head(restart)})
  /\ restart' = Tail(restart)
  /\ UNCHANGED <<board, calibrating, pos, run, reg>>

\* mutant: the calibration is cancelled from another task, in the middle of an update
CancelAnywhere ==
  /\ calibrating > 0
  /\ calibrating' = 0
  /\ n' = ResetN(All)
  /\ UNCHANGED <<board, buf, offset, pos, run, reg, restart>>

\* loopRT(): the supply of the board is too low for a calibration
Cancel ==
  /\ Resting /\ calibrating > 0 /\ res # Ret.NewData
  /\ calibrating' = 0
  /\ n' = ResetN(All)
  /\ UNCHANGED <<board, buf, offset, pos, run, reg, restart>>

Poll == PollMuxed \/ PollSnapshot \/ PollStreamed
Sample == PlainSample \/ CompletingSample

Next ==
  \/ BeginUpdate
  \/ Poll
  \/ \E r \in {Ret.NoNewData, Ret.AdcError} : PollNothing(r)
  \/ BadSample
  \/ Sample
  \/ FailingSample
  \/ Load
  \/ Count
  \/ Start
  \/ BeginStartOnCore0
  \/ ResetOnCore0
  \/ Cancel

Spec == Init /\ [][Next]_vars

-----------------------------------------------------------------------------
(* Properties.                                                             *)

\* No buffer outgrows its length, no count its limit, no mux its cycle (adc/sampling.h).
TypeOK ==
  /\ board \in Boards
  /\ calibrating \in 0..Cardinality(All)
  /\ n \in [All -> 0..Settle] /\ buf \in [All -> 0..Collect]
  /\ offset \in [All -> BOOLEAN]
  /\ pos \in [DOMAIN board -> 1..2 * Cardinality(All)]
  /\ after \in {Ret.NoNewData, Ret.AdcError} /\ res \in 0..4
  /\ reg \in {NoReg, Taken} \union 0..255

\* assert(calibrating_ < realSensors.size()): wherever a start on core 0 falls into
\* an update, the count the RT core stores is no underflow.
CountIsSane == reg < Cardinality(All)
=============================================================================
