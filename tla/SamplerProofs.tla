---------------------------- MODULE SamplerProofs ----------------------------
(***************************************************************************)
(* Proofs about Sampler for every board, and about a clean calibration of   *)
(* MCSampler's muxed board for every number of samples: that calibrating_   *)
(* never underflows, though its decrement on the RT core is a load and a    *)
(* store beside which core 0 writes it; that no buffer, count or mux leaves *)
(* its range; and that a count of completions is enough to tell that every  *)
(* sensor has its offset, although Vout is polled twice as often.           *)
(***************************************************************************)
EXTENDS MCSampler, SequenceTheorems, FiniteSetTheorems, TLAPS

-----------------------------------------------------------------------------
(* The count.                                                              *)

\* Only Load and Count follow a completed buffer on the RT core, so that a count that
\* is about to be loaded is not 0: nothing but a start changes it in between.
IInv ==
  /\ board \in Boards
  /\ calibrating \in 0..Cardinality(All)
  /\ reg \in {NoReg, Taken} \union 0..Cardinality(All) - 1
  /\ reg = Taken => calibrating > 0

LEMMA CountOfBoard ==
  ASSUME board \in Boards
  PROVE  Cardinality(All) \in 1..255
BY SamplerAssumption DEF SamplerAssumption, All

LEMMA AllStays == UNCHANGED board => All' = All
BY DEF All

\* a byte holds the count of every board
LEMMA ByteDecrement ==
  ASSUME NEW c \in 1..255
  PROVE  (c - 1) % 256 = c - 1
OBVIOUS

LEMMA Initially == Init => IInv
<1> SUFFICES ASSUME Init PROVE IInv
  OBVIOUS
<1>1. board \in Boards /\ calibrating = 0 /\ reg = NoReg
  BY DEF Init
<1>2. Cardinality(All) \in 1..255
  BY <1>1, CountOfBoard
<1> QED
  BY <1>1, <1>2 DEF IInv, NoReg, Taken

LEMMA SameCount ==
  ASSUME IInv, UNCHANGED <<board, calibrating, reg>>
  PROVE  IInv'
BY AllStays DEF IInv, NoReg, Taken

LEMMA StartKeeps ==
  ASSUME IInv, UNCHANGED <<board, reg>>, calibrating' = Cardinality(All)
  PROVE  IInv'
<1>1. Cardinality(All) \in 1..255
  BY CountOfBoard DEF IInv
<1> QED
  BY <1>1, AllStays DEF IInv

LEMMA EndKeeps ==
  ASSUME IInv, UNCHANGED <<board, reg>>, reg = NoReg, calibrating' = 0
  PROVE  IInv'
<1>1. Cardinality(All) \in 1..255
  BY CountOfBoard DEF IInv
<1> QED
  BY <1>1, AllStays DEF IInv, NoReg, Taken

LEMMA CompletingKeeps == ASSUME IInv, CompletingSample PROVE IInv'
<1>1. calibrating > 0 /\ reg' = Taken /\ UNCHANGED <<board, calibrating>>
  BY DEF CompletingSample, Completes, Collects
<1> QED
  BY <1>1, AllStays DEF IInv

LEMMA LoadKeeps == ASSUME IInv, Load PROVE IInv'
<1>1. Cardinality(All) \in 1..255
  BY CountOfBoard DEF IInv
<1>2. reg = Taken /\ reg' = (calibrating - 1) % 256 /\ UNCHANGED <<board, calibrating>>
  BY DEF Load
<1>3. calibrating \in 1..255 /\ calibrating <= Cardinality(All)
  BY <1>1, <1>2 DEF IInv
<1>4. reg' = calibrating - 1
  BY <1>2, <1>3, ByteDecrement
<1>5. reg' \in 0..Cardinality(All) - 1
  BY <1>1, <1>3, <1>4
<1>6. reg' # Taken
  BY <1>1, <1>5 DEF Taken
<1> QED
  BY <1>2, <1>5, <1>6, AllStays DEF IInv

LEMMA CountKeeps == ASSUME IInv, Count PROVE IInv'
<1>1. Cardinality(All) \in 1..255
  BY CountOfBoard DEF IInv
<1>2. reg >= 0 /\ calibrating' = reg /\ reg' = NoReg /\ UNCHANGED board
  BY DEF Count
<1>3. reg \in 0..Cardinality(All) - 1
  BY <1>1, <1>2 DEF IInv, NoReg, Taken
<1>4. calibrating' \in 0..Cardinality(All)
  BY <1>1, <1>2, <1>3
<1> QED
  BY <1>2, <1>4, AllStays DEF IInv, NoReg, Taken

LEMMA NextKeeps == ASSUME IInv, [Next]_vars PROVE IInv'
<1>1. CASE BeginUpdate \/ Poll \/ \E r \in {Ret.NoNewData, Ret.AdcError} : PollNothing(r)
  BY <1>1, SameCount DEF BeginUpdate, Poll, PollMuxed, PollSnapshot, PollStreamed, PollNothing
<1>2. CASE BadSample \/ PlainSample \/ ResetOnCore0
  BY <1>2, SameCount DEF BadSample, PlainSample, ResetOnCore0, run
<1>3. CASE FailingSample
  BY <1>3, EndKeeps DEF FailingSample
<1>4. CASE Cancel
  BY <1>4, EndKeeps DEF Cancel, Resting
<1>5. CASE Start \/ BeginStartOnCore0
  BY <1>5, StartKeeps DEF Start, BeginStartOnCore0
<1>6. CASE UNCHANGED vars
  BY <1>6, SameCount DEF vars
<1> QED
  BY <1>1, <1>2, <1>3, <1>4, <1>5, <1>6, CompletingKeeps, LoadKeeps, CountKeeps
     DEF Next, Sample

\* assert(calibrating_ < realSensors.size()) of handleSensorCalib() holds wherever a
\* calibration is started on core 0 meanwhile
THEOREM CountStaysSane == Spec => []CountIsSane
<1>1. IInv => CountIsSane
  <2> SUFFICES ASSUME IInv PROVE CountIsSane
    OBVIOUS
  <2>1. Cardinality(All) \in 1..255
    BY CountOfBoard DEF IInv
  <2> QED
    BY <2>1 DEF IInv, CountIsSane, NoReg, Taken
<1> QED
  BY <1>1, Initially, NextKeeps, PTL DEF Spec

-----------------------------------------------------------------------------
(* Types.                                                                  *)

\* an ADC's sensors, and its turns in a cycle
Order(i) == board[i].order
Turns(i) == Len(Interleaved(Order(i)))

\* what the polls of an update go by: every mux is at one of its turns
PollsOK ==
  /\ pos = [i \in DOMAIN board |-> pos[i]]
  /\ \A i \in DOMAIN board : IF board[i].mode = "muxed" THEN pos[i] \in 1..Turns(i) ELSE pos[i] = 1
  /\ adcs \in Seq(DOMAIN board)
\* what the samples go by: the one that is counted is still in hand
RunOK ==
  /\ work \in Seq(All) /\ (reg # NoReg => work # <<>>)
  /\ after \in {0, 4} /\ res \in 0..4
\* and the sensors: no buffer outgrows its length, which a sample checks before it is added
SensorsOK ==
  /\ n \in [All -> 0..Settle] /\ buf \in [All -> 0..Collect] /\ offset \in [All -> BOOLEAN]
  /\ restart \in Seq(All)
Typed == IInv /\ PollsOK /\ RunOK /\ SensorsOK

\* what begin() sees to
LEMMA BoardFacts ==
  ASSUME board \in Boards
  PROVE  /\ IsFiniteSet(All) /\ Cardinality(All) \in 1..255 /\ Len(board) \in Nat
         /\ DOMAIN board = 1..Len(board)
         /\ \A i \in DOMAIN board : /\ Order(i) \in Seq(All) /\ IsInjective(Order(i))
                                    /\ board[i].mode = "muxed" => Order(i) # <<>>
<1>1. PICK b \in Boards : b = board
  OBVIOUS
<1>2. /\ b \in Seq([mode : {"muxed", "streamed", "snapshot"}, order : Seq(SensorsOf(b))])
      /\ IsFiniteSet(SensorsOf(b)) /\ Cardinality(SensorsOf(b)) \in 1..255
      /\ \A i \in DOMAIN b : /\ IsInjective(b[i].order)
                             /\ b[i].mode = "muxed" => b[i].order # <<>>
  BY SamplerAssumption DEF SamplerAssumption
<1>3. Len(b) \in Nat /\ DOMAIN b = 1..Len(b)
      /\ \A i \in DOMAIN b : b[i] \in [mode : {"muxed", "streamed", "snapshot"}, order : Seq(SensorsOf(b))]
  <2>1. PICK X : X = [mode : {"muxed", "streamed", "snapshot"}, order : Seq(SensorsOf(b))]
    OBVIOUS
  <2>2. b \in Seq(X)
    BY <1>2, <2>1
  <2>3. Len(b) \in Nat /\ DOMAIN b = 1..Len(b) /\ \A i \in 1..Len(b) : b[i] \in X
    BY <2>2
  <2> QED BY <2>1, <2>3
<1>4. \A i \in DOMAIN b : b[i].order \in Seq(SensorsOf(b))
  BY <1>3
<1> QED BY <1>1, <1>2, <1>3, <1>4 DEF All, Order

\* no more distinct sensors on an ADC than on the board
LEMMA ShortOrder ==
  ASSUME NEW S, IsFiniteSet(S), NEW s \in Seq(S), IsInjective(s)
  PROVE  Len(s) <= Cardinality(S)
<1>1. Len(s) \in Nat /\ s \in [1..Len(s) -> S]
  OBVIOUS
<1>2. s \in Injection(1..Len(s), S)
  BY <1>1 DEF Injection, IsInjective
<1>3. Cardinality(1..Len(s)) = Len(s)
  BY <1>1, FS_Interval
<1> QED BY <1>2, <1>3, FS_Injection

\* buildCycleOrder() takes the sensors of the ADC, and at most twice as many turns
LEMMA CycleOrder ==
  ASSUME NEW S, NEW s \in Seq(S), s # <<>>
  PROVE  /\ Interleaved(s) \in Seq(S)
         /\ Len(Interleaved(s)) \in 1..2 * Len(s)
<1>1. Len(s) \in Nat /\ Len(s) >= 1 /\ \A k \in 1..Len(s) : s[k] \in S
  OBVIOUS
<1>2. CASE Len(s) <= 2
  BY <1>1, <1>2 DEF Interleaved
<1>3. CASE Len(s) > 2
  <2>1. PICK m \in Nat, last \in S : m = 2 * (Len(s) - 1) /\ last = s[Len(s)]
    BY <1>1, <1>3
  <2>2. Interleaved(s) = [i \in 1..m |-> IF i % 2 = 0 THEN last ELSE s[(i + 1) \div 2]]
    BY <1>3, <2>1 DEF Interleaved, Last
  <2>3. ASSUME NEW i \in 1..m PROVE (IF i % 2 = 0 THEN last ELSE s[(i + 1) \div 2]) \in S
    <3>1. (i + 1) \div 2 \in 1..Len(s)
      BY <1>1, <2>1
    <3> QED BY <1>1, <3>1
  <2>4. Interleaved(s) \in [1..m -> S]
    BY <2>2, <2>3
  <2>5. Interleaved(s) \in Seq(S) /\ Len(Interleaved(s)) = m
    BY <2>4
  <2> QED BY <1>1, <1>3, <2>1, <2>5
<1> QED BY <1>1, <1>2, <1>3

LEMMA TurnsBounded ==
  ASSUME board \in Boards, NEW i \in DOMAIN board, board[i].mode = "muxed"
  PROVE  /\ Interleaved(Order(i)) \in Seq(All) /\ Turns(i) \in 1..2 * Cardinality(All)
         /\ \A k \in 1..Turns(i) : Interleaved(Order(i))[k] \in All
<1>1. /\ Order(i) \in Seq(All) /\ IsInjective(Order(i)) /\ Order(i) # <<>>
      /\ IsFiniteSet(All) /\ Cardinality(All) \in 1..255
  BY BoardFacts, Zenon
<1>2. Len(Order(i)) \in Nat /\ Len(Order(i)) <= Cardinality(All)
  BY <1>1, ShortOrder
<1>3. Interleaved(Order(i)) \in Seq(All) /\ Turns(i) \in 1..2 * Len(Order(i))
  BY <1>1, CycleOrder DEF Turns
<1>4. \A k \in 1..Turns(i) : Interleaved(Order(i))[k] \in All
  BY <1>3 DEF Turns
<1>5. Turns(i) \in 1..2 * Cardinality(All)
  <2>1. Cardinality(All) \in Nat
    <3>1. Cardinality(All) \in 1..255
      BY BoardFacts
    <3> QED BY <3>1
  <2> QED BY <1>2, <1>3, <2>1
<1> QED BY <1>3, <1>4, <1>5

\* the sensors as startCalibration() goes through them
LEMMA SensorsInSeq ==
  ASSUME NEW S, IsFiniteSet(S)
  PROVE  SetToSeq(S) \in Seq(S)
<1>1. PICK k \in Nat : ExistsBijection(1..k, S)
  BY FS_NatBijection
<1>2. Cardinality(S) = k
  BY <1>1, FS_CountingElements
<1>3. \E f \in [1..Cardinality(S) -> S] : IsInjective(f)
  BY <1>1, <1>2 DEF ExistsBijection, Bijection, Injection, IsInjective
<1>4. SetToSeq(S) \in [1..Cardinality(S) -> S]
  BY <1>3, Zenon DEF SetToSeq
<1> QED BY <1>1, <1>2, <1>4

LEMMA TypedInitially == Init => Typed
<1> SUFFICES ASSUME Init PROVE Typed
  OBVIOUS
<1>1. IInv /\ board \in Boards
  BY Initially DEF Init
<1>2. DOMAIN board = 1..Len(board) /\ Len(board) \in Nat
  BY <1>1, BoardFacts
<1>3. PollsOK
  <2>1. ASSUME NEW i \in DOMAIN board, board[i].mode = "muxed" PROVE 1 \in 1..Turns(i)
    BY <1>1, <2>1, TurnsBounded
  <2>2. pos = [i \in DOMAIN board |-> 1] /\ adcs = <<>>
    BY DEF Init
  <2> QED BY <2>1, <2>2 DEF PollsOK
<1>4. RunOK
  BY DEF Init, RunOK, Ret
<1>5. SensorsOK
  BY SamplerAssumption DEF Init, SensorsOK, SamplerAssumption
<1> QED BY <1>1, <1>3, <1>4, <1>5 DEF Typed

\* what a step leaves alone stays as it is
LEMMA PollsStay == ASSUME PollsOK, UNCHANGED <<board, pos, adcs>> PROVE PollsOK'
BY DEF PollsOK, Turns, Order

LEMMA RunStays == ASSUME RunOK, UNCHANGED <<board, work, after, res, reg>> PROVE RunOK'
BY DEF RunOK, All

LEMMA SensorsStay == ASSUME SensorsOK, UNCHANGED <<board, n, buf, offset, restart>> PROVE SensorsOK'
BY DEF SensorsOK, All

\* the ADC in hand is one of the board
LEMMA AdcInHand ==
  ASSUME PollsOK, adcs # <<>>
  PROVE  Head(adcs) \in DOMAIN board /\ Tail(adcs) \in Seq(DOMAIN board)
BY DEF PollsOK

\* update(), ADC by ADC
LEMMA BeginTyped == ASSUME Typed, BeginUpdate PROVE PollsOK' /\ RunOK' /\ SensorsOK'
<1>1. board \in Boards /\ PollsOK /\ RunOK /\ SensorsOK
  BY DEF Typed, IInv
<1>2. /\ adcs' = [i \in DOMAIN board |-> i] /\ res' = 0 /\ UNCHANGED <<board, work, after, reg, n, buf, offset, pos, restart>>
  BY DEF BeginUpdate, Ret
<1>3. adcs' \in Seq(DOMAIN board)
  <2>1. Len(board) \in Nat /\ DOMAIN board = 1..Len(board)
    BY <1>1, BoardFacts
  <2> QED BY <1>2, <2>1
<1>4. PollsOK'
  BY <1>1, <1>2, <1>3 DEF PollsOK, Turns, Order
<1> QED BY <1>1, <1>2, <1>4, SensorsStay, AllStays DEF RunOK

\* a muxed ADC goes on to the next turn of its cycle
LEMMA PollTyped ==
  ASSUME Typed, Poll \/ \E r \in {Ret.NoNewData, Ret.AdcError} : PollNothing(r)
  PROVE  PollsOK' /\ RunOK' /\ SensorsOK'
<1>1. board \in Boards /\ PollsOK /\ RunOK /\ SensorsOK
  BY DEF Typed, IInv
<1>2. /\ adcs # <<>> /\ adcs' = Tail(adcs) /\ UNCHANGED <<board, reg, n, buf, offset, restart>> /\ reg = NoReg
  BY DEF Poll, PollMuxed, PollSnapshot, PollStreamed, PollNothing
<1>3. PICK a \in DOMAIN board : a = Head(adcs) /\ Tail(adcs) \in Seq(DOMAIN board)
  BY <1>1, <1>2, AdcInHand
<1>4. SensorsOK'
  BY <1>1, <1>2, SensorsStay
<1>5. All' = All
  BY <1>2, AllStays
<1>6. CASE PollMuxed
  <2>1. /\ board[a].mode = "muxed" /\ work' = <<Interleaved(Order(a))[pos[a]]>>
        /\ pos' = [pos EXCEPT ![a] = (pos[a] % Turns(a)) + 1] /\ after' = 0 /\ res' = res
    BY <1>3, <1>6 DEF PollMuxed, Order, Turns, Ret
  <2>2. Turns(a) \in Nat /\ pos[a] \in 1..Turns(a) /\ Interleaved(Order(a))[pos[a]] \in All
    <3>1. pos[a] \in 1..Turns(a)
      BY <1>1, <2>1 DEF PollsOK
    <3>2. Turns(a) \in 1..2 * Cardinality(All) /\ Cardinality(All) \in 1..255
      BY <1>1, <2>1, TurnsBounded, BoardFacts, Zenon
    <3> QED BY <1>1, <2>1, <3>1, <3>2, TurnsBounded
  <2>3. (pos[a] % Turns(a)) + 1 \in 1..Turns(a)
    BY <2>2
  <2>4. RunOK'
    BY <1>1, <1>2, <1>5, <2>1, <2>2 DEF RunOK
  <2>5. PollsOK'
    <3>1. Turns(a)' = Turns(a) /\ board' = board
      BY <1>2 DEF Turns, Order
    <3>2. \A i \in DOMAIN board : Turns(i)' = Turns(i)
      BY <1>2 DEF Turns, Order
    <3>3. PICK k : k = (pos[a] % Turns(a)) + 1
      OBVIOUS
    <3>4. pos' = [pos EXCEPT ![a] = k] /\ k \in 1..Turns(a)
      BY <2>1, <2>3, <3>3
    <3>5. pos' = [i \in DOMAIN board |-> pos'[i]] /\ pos'[a] = k
          /\ \A i \in DOMAIN board : i # a => pos'[i] = pos[i]
      BY <1>1, <3>4 DEF PollsOK
    <3> QED BY <1>1, <1>2, <1>3, <2>1, <3>1, <3>2, <3>4, <3>5 DEF PollsOK
  <2> QED BY <1>4, <2>4, <2>5
<1>7. CASE PollSnapshot \/ PollStreamed
  <2>1. work' = Order(a) /\ pos' = pos /\ after' \in {0, 4} /\ res' = res
    BY <1>3, <1>7 DEF PollSnapshot, PollStreamed, Order, Ret
  <2>2. Order(a) \in Seq(All)
    BY <1>1, BoardFacts
  <2>3. RunOK'
    BY <1>1, <1>2, <1>5, <2>1, <2>2 DEF RunOK
  <2>4. PollsOK'
    BY <1>1, <1>2, <1>3, <2>1 DEF PollsOK, Turns, Order
  <2> QED BY <1>4, <2>3, <2>4
<1>8. CASE \E r \in {Ret.NoNewData, Ret.AdcError} : PollNothing(r)
  <2>1. UNCHANGED <<work, after, pos>> /\ res' \in 0..4
    BY <1>1, <1>8 DEF PollNothing, Ret, Higher, RunOK
  <2>2. RunOK'
    BY <1>1, <1>2, <1>5, <2>1 DEF RunOK
  <2>3. PollsOK'
    BY <1>1, <1>2, <1>3, <2>1 DEF PollsOK, Turns, Order
  <2> QED BY <1>4, <2>2, <2>3
<1> QED BY <1>6, <1>7, <1>8 DEF Poll

\* the result of an update is one of UpdateRet
LEMMA CloseTyped ==
  ASSUME RunOK, NEW r \in 0..4, Close(r)
  PROVE  res' \in 0..4
<1>1. after \in 0..4 /\ res \in 0..4 /\ Quiet \in 0..4 /\ Ret.NoNewData = 0
  BY DEF RunOK, Quiet, Ret
<1>2. \A a, b \in 0..4 : Higher(a, b) \in 0..4
  BY DEF Higher
<1>3. PICK q \in 0..4 : q = IF Len(work) > 1 THEN Ret.NoNewData ELSE Higher(after, Quiet)
  BY <1>1, <1>2
<1>4. res' = Higher(res, Higher(r, q))
  BY <1>3 DEF Close
<1> QED BY <1>1, <1>2, <1>4

\* the sample in hand is a sensor's of the board
LEMMA SampleInHand ==
  ASSUME RunOK, work # <<>>
  PROVE  Head(work) \in All /\ Tail(work) \in Seq(All)
BY DEF RunOK

\* a sample is done with
LEMMA SampleDone ==
  ASSUME RunOK, work # <<>>, work' = Tail(work), All' = All, after' = after, reg' = NoReg, res' \in 0..4
  PROVE  RunOK'
BY SampleInHand DEF RunOK

\* a sample that completes no buffer is still within it
LEMMA SampleTyped ==
  ASSUME Typed, BadSample \/ PlainSample \/ FailingSample
  PROVE  PollsOK' /\ RunOK' /\ SensorsOK'
<1>1. board \in Boards /\ PollsOK /\ RunOK /\ SensorsOK
  BY DEF Typed, IInv
<1>2. /\ work # <<>> /\ work' = Tail(work) /\ reg = NoReg
      /\ UNCHANGED <<board, pos, adcs, after, reg, offset, restart>>
  BY DEF BadSample, PlainSample, FailingSample
<1>3. PICK s \in All : s = Head(work)
  BY <1>1, <1>2, SampleInHand
<1>4. PollsOK' /\ All' = All
  BY <1>1, <1>2, PollsStay, AllStays
<1>5. RunOK'
  <2>1. \E r \in 0..4 : Close(r)
    <3>1. Ret.CalibFailure \in 0..4 /\ Ret.NoNewData \in 0..4
      BY DEF Ret
    <3> QED BY <3>1 DEF BadSample, PlainSample, FailingSample
  <2> QED BY <1>1, <1>2, <1>4, <2>1, CloseTyped, SampleDone
<1>6. Seen(s) \in 0..Settle /\ n \in [All -> 0..Settle] /\ buf \in [All -> 0..Collect] /\ Collect \in Nat
  BY <1>1, SamplerAssumption DEF SensorsOK, Seen, SamplerAssumption
<1>7. n' \in [All -> 0..Settle] /\ buf' \in [All -> 0..Collect]
  <2>1. CASE BadSample
    BY <1>6, <2>1 DEF BadSample
  <2>2. CASE PlainSample
    <3>1. n' = [n EXCEPT ![s] = Seen(s)] /\ ~Completes(s)
          /\ buf' = IF Collects(s) THEN [buf EXCEPT ![s] = buf[s] + 1] ELSE buf
      BY <1>3, <2>2 DEF PlainSample
    <3>2. Collects(s) => buf[s] + 1 \in 0..Collect
      BY <1>6, <3>1 DEF Completes
    <3> QED BY <1>6, <3>1, <3>2
  <2>3. CASE FailingSample
    <3>1. n' = [n EXCEPT ![s] = Seen(s)] /\ buf' = [buf EXCEPT ![s] = 0]
      BY <1>3, <2>3 DEF FailingSample
    <3> QED BY <1>6, <3>1
  <2> QED BY <2>1, <2>2, <2>3
<1>8. SensorsOK'
  BY <1>1, <1>2, <1>4, <1>7 DEF SensorsOK
<1> QED BY <1>4, <1>5, <1>8

\* a sample that completes one leaves it empty
LEMMA CompletingTyped ==
  ASSUME Typed, CompletingSample
  PROVE  PollsOK' /\ RunOK' /\ SensorsOK'
<1>1. board \in Boards /\ PollsOK /\ RunOK /\ SensorsOK
  BY DEF Typed, IInv
<1>2. /\ work # <<>> /\ UNCHANGED <<board, pos, adcs, work, after, res, restart>>
  BY DEF CompletingSample, run
<1>3. PICK s \in All : s = Head(work)
  BY <1>1, <1>2, SampleInHand
<1>4. PollsOK' /\ All' = All
  BY <1>1, <1>2, PollsStay, AllStays
<1>5. RunOK'
  BY <1>1, <1>2, <1>4 DEF RunOK
<1>6. n' = [n EXCEPT ![s] = 0] /\ buf' = [buf EXCEPT ![s] = 0] /\ offset' = [offset EXCEPT ![s] = TRUE]
  BY <1>3 DEF CompletingSample
<1>7. Settle \in Nat /\ Collect \in Nat
  BY SamplerAssumption DEF SamplerAssumption
<1>8. SensorsOK'
  BY <1>1, <1>2, <1>4, <1>6, <1>7 DEF SensorsOK
<1> QED BY <1>4, <1>5, <1>8

\* the count goes on to the next sample
LEMMA CountTyped ==
  ASSUME Typed, Load \/ Count
  PROVE  PollsOK' /\ RunOK' /\ SensorsOK'
<1>1. board \in Boards /\ PollsOK /\ RunOK /\ SensorsOK
  BY DEF Typed, IInv
<1>2. UNCHANGED <<board, n, buf, offset, restart, pos, adcs, after>>
  BY DEF Load, Count, run
<1>3. PollsOK' /\ SensorsOK' /\ All' = All
  BY <1>1, <1>2, PollsStay, SensorsStay, AllStays
<1>4. reg # NoReg /\ work # <<>>
  BY <1>1 DEF Load, Count, RunOK, NoReg, Taken
<1>5. CASE Load
  BY <1>1, <1>2, <1>3, <1>4, <1>5 DEF Load, RunOK, run
<1>6. CASE Count
  <2>1. res' \in 0..4
    <3>1. PICK q \in 0..4 : res' = Higher(res, Higher(after, q))
      BY <1>6 DEF Count, Ret
    <3> QED BY <1>1, <3>1 DEF Higher, RunOK
  <2>2. work' = Tail(work) /\ reg' = NoReg
    BY <1>6 DEF Count
  <2> QED BY <1>1, <1>2, <1>3, <1>4, <2>1, <2>2, SampleDone
<1> QED BY <1>3, <1>5, <1>6

\* a reset, of all sensors or of one
LEMMA ResetTyped ==
  ASSUME SensorsOK, UNCHANGED board, NEW S,
         n' = ResetN(S), buf' = buf \/ buf' = ResetBuf(S), offset' = offset \/ offset' = ResetOffset(S),
         restart' \in Seq(All)
  PROVE  SensorsOK'
<1>1. 0 \in 0..Settle /\ 0 \in 0..Collect
  BY SamplerAssumption DEF SamplerAssumption
<1> QED BY <1>1, AllStays DEF SensorsOK, ResetN, ResetBuf, ResetOffset

\* a start or the end of a calibration
LEMMA CommandTyped ==
  ASSUME Typed, Start \/ BeginStartOnCore0 \/ ResetOnCore0 \/ Cancel
  PROVE  PollsOK' /\ RunOK' /\ SensorsOK'
<1>1. board \in Boards /\ PollsOK /\ RunOK /\ SensorsOK
  BY DEF Typed, IInv
<1>2. UNCHANGED <<board, pos, adcs, work, after, res, reg>>
  BY DEF Start, BeginStartOnCore0, ResetOnCore0, Cancel, run
<1>3. PollsOK' /\ RunOK' /\ All' = All
  BY <1>1, <1>2, PollsStay, RunStays, AllStays
<1>4. CASE Start
  <2>1. n' = ResetN(All) /\ buf' = ResetBuf(All) /\ offset' = ResetOffset(All) /\ restart' = restart
    BY <1>4 DEF Start
  <2>2. restart' \in Seq(All) /\ board' = board
    BY <1>1, <1>2, <2>1 DEF SensorsOK
  <2>3. SensorsOK'
    BY <1>1, <2>1, <2>2, ResetTyped
  <2> QED BY <1>3, <2>3
<1>5. CASE Cancel
  <2>1. n' = ResetN(All) /\ UNCHANGED <<buf, offset, restart>>
    BY <1>5 DEF Cancel
  <2>2. restart' \in Seq(All) /\ board' = board
    BY <1>1, <1>2, <2>1 DEF SensorsOK
  <2>3. SensorsOK'
    BY <1>1, <2>1, <2>2, ResetTyped
  <2> QED BY <1>3, <2>3
<1>6. CASE ResetOnCore0
  <2>1. restart' \in Seq(All)
    BY <1>1, <1>6 DEF ResetOnCore0, SensorsOK
  <2> QED BY <1>1, <1>2, <1>3, <1>6, <2>1, ResetTyped DEF ResetOnCore0
<1>7. CASE BeginStartOnCore0
  <2>1. restart' \in Seq(All)
    BY <1>1, <1>7, BoardFacts, SensorsInSeq DEF BeginStartOnCore0
  <2>2. UNCHANGED <<n, buf, offset>>
    BY <1>7 DEF BeginStartOnCore0
  <2> QED BY <1>1, <1>3, <2>1, <2>2 DEF SensorsOK
<1> QED BY <1>3, <1>4, <1>5, <1>6, <1>7

\* Typed is inductive
LEMMA TypedStep == ASSUME Typed, [Next]_vars PROVE Typed'
<1>1. IInv'
  BY NextKeeps DEF Typed
<1>2. PollsOK' /\ RunOK' /\ SensorsOK'
  <2>1. CASE UNCHANGED vars
    BY <2>1, PollsStay, RunStays, SensorsStay DEF vars, run, Typed
  <2> QED BY <2>1, BeginTyped, PollTyped, SampleTyped, CompletingTyped, CountTyped, CommandTyped DEF Next, Sample
<1> QED BY <1>1, <1>2 DEF Typed

\* Whatever the ADCs deliver and wherever calibrations are started, ended or cancelled:
\* calibBuffer and numSamples of a sensor, cycleSensorsPos of an ADC and calibrating_
\* stay in range (adc/sampling.h).
THEOREM TypesStay == Spec => []TypeOK
<1>1. Typed => TypeOK
  <2> SUFFICES ASSUME Typed PROVE TypeOK
    OBVIOUS
  <2>1. board \in Boards /\ Cardinality(All) \in 1..255
    BY BoardFacts DEF Typed, IInv
  <2>2. reg \in {NoReg, Taken} \union 0..255 /\ calibrating \in 0..Cardinality(All)
    BY <2>1 DEF Typed, IInv
  <2>3. pos \in [DOMAIN board -> 1..2 * Cardinality(All)]
    <3>1. ASSUME NEW i \in DOMAIN board PROVE pos[i] \in 1..2 * Cardinality(All)
      <4>1. CASE board[i].mode = "muxed"
        <5>1. Turns(i) \in 1..2 * Cardinality(All) /\ pos[i] \in 1..Turns(i)
          BY <2>1, <4>1, TurnsBounded DEF Typed, PollsOK
        <5> QED BY <2>1, <5>1
      <4>2. CASE board[i].mode # "muxed"
        <5>1. pos[i] = 1
          BY <4>2 DEF Typed, PollsOK
        <5> QED BY <2>1, <5>1
      <4> QED BY <4>1, <4>2
    <3> QED BY <3>1 DEF Typed, PollsOK
  <2> QED BY <2>1, <2>2, <2>3 DEF Typed, RunOK, SensorsOK, TypeOK, Ret
<1> QED BY <1>1, TypedInitially, TypedStep, PTL DEF Spec

-----------------------------------------------------------------------------
(* A clean calibration.                                                    *)

\* samples that a sensor needs, and how many of them it has
Span == Settle + Collect
Sampled(s) == IF n[s] < Settle THEN n[s] ELSE Settle - 1 + buf[s]
\* the sample in hand is of sensor s
Taking(s) == work # <<>> /\ reg = NoReg /\ Head(work) = s
\* turns of sensor s since the start of a calibration in which none was lost
Turned(s) == Sampled(s) + (IF s \in covered THEN Span ELSE 0) + (IF Taking(s) THEN 1 ELSE 0)
\* to be completed
Left(s) == IF s \in covered THEN 0 ELSE 1

\* before turn k of the cycle vin, vout, iin, vout: Vout had as many turns as the others
\* together, or one less, and they had the same or one differs
InStep(k, v, i, o) ==
  \/ k = 1 /\ o = i + v /\ i - v \in {0, 1}
  \/ k = 2 /\ o = i + v - 1 /\ v - i \in {0, 1}
  \/ k = 3 /\ o = i + v /\ v - i \in {0, 1}
  \/ k = 4 /\ o = i + v - 1 /\ i - v \in {0, 1}

\* the turn before turn k
Before(k) == CASE k = 2 -> "vin" [] k = 4 -> "iin" [] OTHER -> "vout"

\* a clean run: no start on core 0 is under way; the mux is one turn ahead of the sample
OnMuxed ==
  /\ board = Muxed /\ restart = <<>> /\ covered \subseteq {"vin", "iin", "vout"}
  /\ work = <<>> \/ work = <<Before(pos[1])>>
  /\ reg # NoReg => calibrating > 0
\* a sensor collects since it has settled
Buffers == \A s \in {"vin", "iin", "vout"} : IF n[s] < Settle THEN buf[s] = 0 ELSE buf[s] > 0
\* the three sensors are in step
Rounds == InStep(pos[1], Turned("vin"), Turned("iin"), Turned("vout"))
\* what is still to count are the sensors still to complete
Counts ==
  /\ calibrating = Left("vin") + Left("iin") + Left("vout") + (IF reg = NoReg THEN 0 ELSE 1)
  /\ reg >= 0 => reg = calibrating - 1
\* the inductive invariant of a clean run
CleanInv == clean => OnMuxed /\ (calibrating > 0 => Buffers /\ Rounds /\ Counts)

\* the board's sensors, and the cycle of its ADC
LEMMA OnBoard ==
  ASSUME board = Muxed
  PROVE  /\ All = {"vin", "iin", "vout"} /\ Cardinality(All) = 3 /\ DOMAIN board = {1}
         /\ board[1].mode = "muxed" /\ Turns(1) = 4
         /\ \A k \in 1..4 : Interleaved(Order(1))[k] = Before((k % 4) + 1)
<1>1. DOMAIN board = {1} /\ board[1].mode = "muxed" /\ Order(1) = <<"vin", "iin", "vout">>
  BY DEF Muxed, Order
<1>2. SensorsOf(board) = ToSet(Order(1))
  BY <1>1 DEF SensorsOf, Order
<1>3. ToSet(<<"vin", "iin", "vout">>) = {"vin", "iin", "vout"}
  BY DEF ToSet
<1>4. Cardinality({"vin", "iin", "vout"}) = 3
  <2>1. {"vin", "iin", "vout"} = ({"vin"} \cup {"iin"}) \cup {"vout"}
    OBVIOUS
  <2>2. IsFiniteSet({"vin"}) /\ Cardinality({"vin"}) = 1
    BY FS_Singleton
  <2>3. IsFiniteSet({"vin"} \cup {"iin"}) /\ Cardinality({"vin"} \cup {"iin"}) = 2
    BY <2>2, FS_AddElement
  <2>4. Cardinality(({"vin"} \cup {"iin"}) \cup {"vout"}) = 3
    BY <2>3, FS_AddElement
  <2> QED BY <2>1, <2>4
<1>5. PICK f : f = Interleaved(Order(1))
  OBVIOUS
<1>6. f = [i \in 1..4 |-> IF i % 2 = 0 THEN "vout" ELSE Order(1)[(i + 1) \div 2]]
  <2>1. PICK s : s = Order(1)
    OBVIOUS
  <2>2. Len(s) = 3 /\ s[3] = "vout"
    BY <1>1, <2>1
  <2>3. 2 * (3 - 1) = 4 /\ 3 > 2
    OBVIOUS
  <2>4. Interleaved(s) = [i \in 1..4 |-> IF i % 2 = 0 THEN "vout" ELSE s[(i + 1) \div 2]]
    BY <2>2, <2>3, Zenon DEF Interleaved, Last
  <2> QED BY <1>5, <2>1, <2>4
<1>7. Len(f) = 4 /\ f[1] = "vin" /\ f[2] = "vout" /\ f[3] = "iin" /\ f[4] = "vout"
  BY <1>1, <1>6
<1>8. \A k \in 1..4 : f[k] = Before((k % 4) + 1)
  <2>1. (1 % 4) + 1 = 2 /\ (2 % 4) + 1 = 3 /\ (3 % 4) + 1 = 4 /\ (4 % 4) + 1 = 1
    OBVIOUS
  <2>2. Before(1) = "vout" /\ Before(2) = "vin" /\ Before(3) = "vout" /\ Before(4) = "iin"
    BY DEF Before
  <2>3. \A k \in 1..4 : k = 1 \/ k = 2 \/ k = 3 \/ k = 4
    OBVIOUS
  <2> QED BY <1>7, <2>1, <2>2, <2>3
<1> QED BY <1>1, <1>2, <1>3, <1>4, <1>5, <1>7, <1>8 DEF All, Turns

\* one more turn
LEMMA NextTurn ==
  ASSUME NEW k \in 1..4, NEW v \in Int, NEW i \in Int, NEW o \in Int, InStep(k, v, i, o)
  PROVE  InStep((k % 4) + 1, IF k = 1 THEN v + 1 ELSE v, IF k = 3 THEN i + 1 ELSE i,
                IF k \in {2, 4} THEN o + 1 ELSE o)
<1>1. (1 % 4) + 1 = 2 /\ (2 % 4) + 1 = 3 /\ (3 % 4) + 1 = 4 /\ (4 % 4) + 1 = 1
  OBVIOUS
<1>2. CASE k = 1
  BY <1>1, <1>2 DEF InStep
<1>3. CASE k = 2
  BY <1>1, <1>3 DEF InStep
<1>4. CASE k = 3
  BY <1>1, <1>4 DEF InStep
<1>5. CASE k = 4
  BY <1>1, <1>5 DEF InStep
<1> QED BY <1>2, <1>3, <1>4, <1>5

\* a sensor that completes for the second time has seen the two others complete before it
LEMMA SecondComesLast ==
  ASSUME NEW k \in 1..4, NEW v \in Int, NEW i \in Int, NEW o \in Int, InStep(k, v, i, o),
         NEW m \in Nat, m >= 1
  PROVE  /\ k = 2 /\ v = 2 * m => i >= m /\ o >= 2 * m
         /\ k = 4 /\ i = 2 * m => v >= m /\ o >= 2 * m
         /\ k \in {1, 3} /\ o = 2 * m => v >= m /\ i >= m
BY DEF InStep

Three == {"vin", "iin", "vout"}

\* the numbers of a run
LEMMA Numbers ==
  ASSUME Typed, OnMuxed, calibrating > 0, Buffers, NEW s \in Three
  PROVE  /\ Span \in Nat /\ Span >= 1 /\ Sampled(s) \in 0..Span - 1 /\ s \in All
         /\ Turned(s) \in Int /\ pos[1] \in 1..4 /\ n[s] \in 0..Settle /\ buf[s] \in 0..Collect
         /\ ~Taking(s) => Turned(s) < 2 * Span
         /\ ~Taking(s) /\ s \notin covered => Turned(s) < Span
         /\ Taking(s) /\ s \in covered /\ Sampled(s) = Span - 1 => Turned(s) = 2 * Span
<1>1. Settle \in Nat /\ Settle >= 1 /\ Collect \in Nat
  BY SamplerAssumption DEF SamplerAssumption
<1>2. s \in All /\ pos[1] \in 1..4
  <2>1. All = Three /\ DOMAIN board = {1} /\ board[1].mode = "muxed" /\ Turns(1) = 4
    BY OnBoard DEF OnMuxed, Three
  <2> QED BY <2>1 DEF Typed, PollsOK
<1>3. n[s] \in 0..Settle /\ buf[s] \in 0..Collect
  BY <1>2 DEF Typed, SensorsOK
<1>4. Span \in Nat /\ Span >= 1 /\ Span = Settle + Collect
  BY <1>1 DEF Span
<1>5. Sampled(s) \in 0..Span - 1
  <2>1. IF n[s] < Settle THEN buf[s] = 0 ELSE buf[s] > 0
    BY DEF Buffers, Three
  <2> QED BY <1>1, <1>3, <1>4, <2>1 DEF Sampled
<1> QED BY <1>2, <1>3, <1>4, <1>5 DEF Turned

\* what tells Turned() apart
LEMMA SameTurned ==
  ASSUME NEW s, UNCHANGED <<n, buf, covered>>, Taking(s)' = Taking(s)
  PROVE  Turned(s)' = Turned(s)
BY DEF Turned, Sampled

LEMMA CleanStays ==
  ASSUME CleanInv, UNCHANGED <<board, calibrating, n, buf, work, reg, restart, covered, clean>>,
         pos' = pos
  PROVE  CleanInv'
BY DEF CleanInv, OnMuxed, Buffers, Rounds, Counts, Turned, Sampled, Taking, Left

\* a poll is the next turn
LEMMA PollClean ==
  ASSUME Typed, CleanInv, clean, clean' = clean, covered' = covered, PollMuxed
  PROVE  CleanInv'
<1>1. OnMuxed
  BY DEF CleanInv
<1>2. /\ DOMAIN board = {1} /\ pos[1] \in 1..4 /\ Turns(1) = 4
      /\ Interleaved(Order(1))[pos[1]] = Before((pos[1] % 4) + 1)
  <2>1. DOMAIN board = {1} /\ board[1].mode = "muxed" /\ Turns(1) = 4
        /\ \A k \in 1..4 : Interleaved(Order(1))[k] = Before((k % 4) + 1)
    <3>1. board = Muxed
      BY <1>1 DEF OnMuxed
    <3> QED BY <3>1, OnBoard, Zenon
  <2>2. pos[1] \in 1..4
    BY <2>1 DEF Typed, PollsOK
  <2> QED BY <2>1, <2>2
<1>3. Head(adcs) = 1
  <2>1. adcs # <<>> /\ PollsOK
    BY DEF PollMuxed, Typed
  <2>2. Head(adcs) \in DOMAIN board
    BY <2>1, AdcInHand
  <2> QED BY <1>2, <2>2
<1>4. PICK k \in 1..4 : k = (pos[1] % 4) + 1
  BY <1>2
<1>5. work' = <<Before(k)>> /\ pos'[1] = k
  <2>1. pos = [i \in DOMAIN board |-> pos[i]]
    BY DEF Typed, PollsOK
  <2>2. work' = <<Interleaved(Order(1))[pos[1]]>> /\ pos' = [pos EXCEPT ![1] = (pos[1] % Turns(1)) + 1]
    BY <1>3 DEF PollMuxed, Order, Turns
  <2> QED BY <1>2, <1>4, <2>1, <2>2
<1>6. /\ work = <<>> /\ reg = NoReg /\ UNCHANGED <<board, calibrating, n, buf, reg, restart>>
  BY DEF PollMuxed
<1>7. OnMuxed'
  BY <1>1, <1>5, <1>6 DEF OnMuxed
<1>8. ASSUME calibrating > 0 PROVE Buffers' /\ Rounds' /\ Counts'
  <2>1. Buffers /\ Rounds /\ Counts
    BY <1>8 DEF CleanInv
  <2>2. Buffers' /\ Counts'
    BY <1>6, <2>1 DEF Buffers, Counts, Left
  <2>3. ASSUME NEW s \in Three PROVE Turned(s)' = IF s = Before(k) THEN Turned(s) + 1 ELSE Turned(s)
    <3>1. Taking(s)' <=> s = Before(k)
      BY <1>5, <1>6 DEF Taking
    <3>2. ~Taking(s) /\ Sampled(s)' = Sampled(s) /\ covered' = covered
      BY <1>6 DEF Taking, Sampled
    <3>3. Sampled(s) \in Nat /\ Span \in Nat
      BY <1>1, <1>8, <2>1, Numbers
    <3> QED BY <3>1, <3>2, <3>3 DEF Turned
  <2>4. PICK v \in Int, i \in Int, o \in Int : v = Turned("vin") /\ i = Turned("iin") /\ o = Turned("vout")
    BY <1>1, <1>8, <2>1, Numbers DEF Three
  <2>5. InStep(pos[1], v, i, o)
    BY <2>1, <2>4 DEF Rounds
  <2>6. /\ Turned("vin")' = IF pos[1] = 1 THEN v + 1 ELSE v
        /\ Turned("iin")' = IF pos[1] = 3 THEN i + 1 ELSE i
        /\ Turned("vout")' = IF pos[1] \in {2, 4} THEN o + 1 ELSE o
    <3>1. /\ pos[1] = 1 => Before(k) = "vin"
          /\ pos[1] = 3 => Before(k) = "iin"
          /\ pos[1] \in {2, 4} => Before(k) = "vout"
      <4>1. (1 % 4) + 1 = 2 /\ (2 % 4) + 1 = 3 /\ (3 % 4) + 1 = 4 /\ (4 % 4) + 1 = 1
        OBVIOUS
      <4> QED BY <1>4, <4>1 DEF Before
    <3>2. "vin" \in Three /\ "iin" \in Three /\ "vout" \in Three
      BY DEF Three
    <3>3. pos[1] = 1 \/ pos[1] = 2 \/ pos[1] = 3 \/ pos[1] = 4
      BY <1>2
    <3> QED BY <2>3, <2>4, <3>1, <3>2, <3>3
  <2>7. InStep(k, Turned("vin")', Turned("iin")', Turned("vout")')
    <3>1. InStep((pos[1] % 4) + 1, IF pos[1] = 1 THEN v + 1 ELSE v, IF pos[1] = 3 THEN i + 1 ELSE i,
                 IF pos[1] \in {2, 4} THEN o + 1 ELSE o)
      BY <1>2, <2>5, NextTurn
    <3> QED BY <1>4, <2>6, <3>1
  <2>8. Rounds'
    BY <1>5, <2>7 DEF Rounds
  <2> QED BY <2>2, <2>8
<1> QED BY <1>6, <1>7, <1>8 DEF CleanInv

\* the one sample in hand
LEMMA OneSample ==
  ASSUME OnMuxed, work # <<>>
  PROVE  Head(work) = Before(pos[1]) /\ Tail(work) = <<>> /\ Before(pos[1]) \in Three
<1>1. PICK s : s = Before(pos[1])
  OBVIOUS
<1>2. work = <<s>>
  BY <1>1 DEF OnMuxed
<1>3. s \in Three
  BY <1>1 DEF Before, Three
<1> QED BY <1>1, <1>2, <1>3

\* a sample is its sensor's turn
LEMMA PlainClean ==
  ASSUME Typed, CleanInv, clean, clean' = clean, covered' = covered, PlainSample
  PROVE  CleanInv'
<1>1. OnMuxed
  BY DEF CleanInv
<1>2. PICK s : s = Before(pos[1])
  OBVIOUS
<1>3. /\ work # <<>> /\ Head(work) = s /\ work' = <<>> /\ reg = NoReg /\ s \in Three
      /\ UNCHANGED <<board, calibrating, reg, restart, pos>> /\ ~Completes(s)
      /\ n' = [n EXCEPT ![s] = Seen(s)]
      /\ buf' = IF Collects(s) THEN [buf EXCEPT ![s] = buf[s] + 1] ELSE buf
  BY <1>1, <1>2, OneSample DEF PlainSample
<1>4. OnMuxed'
  BY <1>1, <1>3 DEF OnMuxed
<1>5. ASSUME calibrating > 0 PROVE Buffers' /\ Rounds' /\ Counts'
  <2>1. Buffers /\ Rounds /\ Counts
    BY <1>5 DEF CleanInv
  <2>2. n \in [All -> 0..Settle] /\ buf \in [All -> 0..Collect] /\ Settle \in Nat /\ Settle >= 1 /\ Collect \in Nat
    BY SamplerAssumption DEF Typed, SensorsOK, SamplerAssumption
  <2>3. s \in All /\ n[s] \in 0..Settle /\ buf[s] \in 0..Collect /\ (IF n[s] < Settle THEN buf[s] = 0 ELSE buf[s] > 0)
    BY <1>1, <1>3, <1>5, <2>1, Numbers DEF Buffers, Three
  <2>4. n'[s] = Seen(s) /\ buf'[s] = (IF Seen(s) >= Settle THEN buf[s] + 1 ELSE buf[s])
    <3>1. Collects(s) <=> Seen(s) >= Settle
      BY <1>5 DEF Collects
    <3> QED BY <1>3, <2>2, <2>3, <3>1
  <2>5. /\ \A t : t # s => n'[t] = n[t] /\ buf'[t] = buf[t]
        /\ IF n'[s] < Settle THEN buf'[s] = 0 ELSE buf'[s] > 0
        /\ Sampled(s)' = Sampled(s) + 1
    <3>1. \A t : t # s => n'[t] = n[t] /\ buf'[t] = buf[t]
      BY <1>3, <2>2
    <3>2. CASE n[s] < Settle
      <4>1. n'[s] = n[s] + 1 /\ buf[s] = 0 /\ buf'[s] = IF n[s] + 1 >= Settle THEN 1 ELSE 0
        BY <2>2, <2>3, <2>4, <3>2 DEF Seen
      <4> QED BY <2>2, <2>3, <3>1, <3>2, <4>1 DEF Sampled
    <3>3. CASE ~(n[s] < Settle)
      <4>1. n'[s] = n[s] /\ n[s] = Settle /\ buf'[s] = buf[s] + 1
        BY <2>2, <2>3, <2>4, <3>3 DEF Seen
      <4> QED BY <2>2, <2>3, <3>1, <3>3, <4>1 DEF Sampled
    <3> QED BY <3>2, <3>3
  <2>6. Buffers'
    BY <2>1, <2>5 DEF Buffers
  <2>7. Counts'
    BY <1>3, <2>1 DEF Counts, Left
  <2>8. ASSUME NEW t \in Three PROVE Turned(t)' = Turned(t)
    <3>1. ~Taking(t)' /\ (Taking(t) <=> t = s)
      BY <1>3 DEF Taking
    <3>2. CASE t = s
      <4>1. Sampled(s) \in Nat /\ Span \in Nat
        BY <1>1, <1>3, <1>5, <2>1, Numbers
      <4> QED BY <2>5, <3>1, <3>2, <4>1 DEF Turned
    <3>3. CASE t # s
      <4>1. Sampled(t)' = Sampled(t)
        BY <2>5, <3>3 DEF Sampled
      <4> QED BY <3>1, <3>3, <4>1 DEF Turned
    <3> QED BY <3>2, <3>3
  <2>9. Rounds'
    BY <1>3, <2>1, <2>8 DEF Rounds, Three
  <2> QED BY <2>6, <2>7, <2>9
<1> QED BY <1>3, <1>4, <1>5 DEF CleanInv

\* while one is to be counted, none has completed twice
LEMMA FirstTime ==
  ASSUME Typed, OnMuxed, calibrating > 0, Buffers, Rounds, Counts, work # <<>>, reg = NoReg,
         NEW s, s = Before(pos[1]), Sampled(s) = Span - 1
  PROVE  s \notin covered
<1> SUFFICES ASSUME s \in covered PROVE FALSE
  OBVIOUS
<1>1. Head(work) = s /\ s \in Three /\ \A t : Taking(t) <=> t = s
  BY OneSample DEF Taking
<1>2. Turned(s) = 2 * Span /\ Span \in Nat /\ Span >= 1 /\ pos[1] \in 1..4
  BY <1>1, Numbers
<1>3. \A t \in Three : /\ Turned(t) \in Int
                       /\ t # s => Turned(t) < 2 * Span /\ (t \notin covered => Turned(t) < Span)
  BY <1>1, Numbers
<1>4. PICK v \in Int, i \in Int, o \in Int : v = Turned("vin") /\ i = Turned("iin") /\ o = Turned("vout")
  BY <1>3 DEF Three
<1>5. InStep(pos[1], v, i, o)
  BY <1>4 DEF Rounds
<1>6. /\ "vin" # s => v < 2 * Span /\ ("vin" \notin covered => v < Span)
      /\ "iin" # s => i < 2 * Span /\ ("iin" \notin covered => i < Span)
      /\ "vout" # s => o < 2 * Span /\ ("vout" \notin covered => o < Span)
  BY <1>3, <1>4 DEF Three
<1>7. /\ pos[1] = 2 /\ v = 2 * Span => i >= Span /\ o >= 2 * Span
      /\ pos[1] = 4 /\ i = 2 * Span => v >= Span /\ o >= 2 * Span
      /\ pos[1] \in {1, 3} /\ o = 2 * Span => v >= Span /\ i >= Span
  BY <1>2, <1>5, SecondComesLast
<1>8. CASE pos[1] = 2
  <2>1. s = "vin"
    BY <1>8 DEF Before
  <2>2. o >= 2 * Span /\ o < 2 * Span
    BY <1>2, <1>4, <1>6, <1>7, <1>8, <2>1
  <2> QED BY <1>2, <2>2
<1>9. CASE pos[1] = 4
  <2>1. s = "iin"
    BY <1>9 DEF Before
  <2>2. o >= 2 * Span /\ o < 2 * Span
    BY <1>2, <1>4, <1>6, <1>7, <1>9, <2>1
  <2> QED BY <1>2, <2>2
<1>10. CASE pos[1] \in {1, 3}
  <2>1. s = "vout"
    BY <1>10 DEF Before
  <2>2. v >= Span /\ i >= Span
    BY <1>2, <1>4, <1>7, <1>10, <2>1
  <2>3. "vin" \in covered /\ "iin" \in covered /\ "vout" \in covered
    BY <1>2, <1>6, <2>1, <2>2
  <2>4. Left("vin") = 0 /\ Left("iin") = 0 /\ Left("vout") = 0
    BY <2>3 DEF Left
  <2> QED BY <2>4 DEF Counts
<1> QED BY <1>2, <1>8, <1>9, <1>10

\* a sensor completes for the first time
LEMMA CompletingClean ==
  ASSUME Typed, CleanInv, clean, clean' = clean, CompletingSample,
         covered' = IF board = Muxed THEN covered \union {Head(work)} ELSE {}
  PROVE  CleanInv'
<1>1. OnMuxed /\ board = Muxed
  BY DEF CleanInv, OnMuxed
<1>2. PICK s : s = Before(pos[1])
  OBVIOUS
<1>3. /\ work # <<>> /\ Head(work) = s /\ work' = work /\ reg = NoReg /\ reg' = Taken /\ s \in Three
      /\ UNCHANGED <<board, calibrating, restart, pos>> /\ Completes(s)
      /\ n' = [n EXCEPT ![s] = 0] /\ buf' = [buf EXCEPT ![s] = 0] /\ covered' = covered \cup {s}
  BY <1>1, <1>2, OneSample DEF CompletingSample, run
<1>4. calibrating > 0 /\ Seen(s) >= Settle /\ buf[s] + 1 > Collect
  BY <1>3 DEF Completes, Collects
<1>5. Buffers /\ Rounds /\ Counts
  BY <1>4 DEF CleanInv
<1>6. n \in [All -> 0..Settle] /\ buf \in [All -> 0..Collect] /\ Settle \in Nat /\ Settle >= 1 /\ Collect \in Nat
  BY SamplerAssumption DEF Typed, SensorsOK, SamplerAssumption
<1>7. s \in All /\ n[s] \in 0..Settle /\ buf[s] \in 0..Collect /\ (IF n[s] < Settle THEN buf[s] = 0 ELSE buf[s] > 0)
  BY <1>1, <1>3, <1>4, <1>5, Numbers DEF Buffers, Three
<1>8. Sampled(s) = Span - 1
  BY <1>4, <1>6, <1>7 DEF Sampled, Span, Seen
<1>9. s \notin covered
  BY <1>1, <1>2, <1>3, <1>4, <1>5, <1>8, FirstTime
<1>10. n'[s] = 0 /\ buf'[s] = 0 /\ \A t : t # s => n'[t] = n[t] /\ buf'[t] = buf[t]
  BY <1>3, <1>6, <1>7
<1>11. OnMuxed'
  BY <1>1, <1>3, <1>4 DEF OnMuxed, Three
<1>12. Buffers'
  BY <1>5, <1>6, <1>10 DEF Buffers
<1>13. ASSUME NEW t \in Three PROVE Turned(t)' = Turned(t)
  <2>1. ~Taking(t)' /\ (Taking(t) <=> t = s)
    BY <1>3 DEF Taking, Taken, NoReg
  <2>2. CASE t = s
    <3>1. Sampled(s)' = 0 /\ Span \in Nat
      BY <1>6, <1>10 DEF Sampled, Span
    <3> QED BY <1>3, <1>8, <1>9, <2>1, <2>2, <3>1 DEF Turned
  <2>3. CASE t # s
    <3>1. Sampled(t)' = Sampled(t) /\ (t \in covered' <=> t \in covered)
      BY <1>3, <1>10, <2>3 DEF Sampled
    <3> QED BY <2>1, <2>3, <3>1 DEF Turned
  <2> QED BY <2>2, <2>3
<1>14. Rounds'
  BY <1>3, <1>5, <1>13 DEF Rounds, Three
<1>15. Counts'
  <2>1. Left(s) = 1 /\ Left(s)' = 0 /\ \A t : t # s => Left(t)' = Left(t)
    BY <1>3, <1>9 DEF Left
  <2>2. s = "vin" \/ s = "iin" \/ s = "vout"
    BY <1>3 DEF Three
  <2>3. \A t : Left(t) \in 0..1
    BY DEF Left
  <2> QED BY <1>3, <1>5, <2>1, <2>2, <2>3 DEF Counts, Taken, NoReg
<1> QED BY <1>11, <1>12, <1>14, <1>15 DEF CleanInv

\* one completed sensor is counted
LEMMA CountClean ==
  ASSUME Typed, CleanInv, clean, UNCHANGED <<covered, clean>>, Load \/ Count
  PROVE  CleanInv'
<1>1. OnMuxed /\ reg # NoReg /\ calibrating > 0 /\ Buffers /\ Rounds /\ Counts
  <2>1. reg # NoReg
    BY DEF Load, Count, NoReg, Taken
  <2> QED BY <2>1 DEF CleanInv, OnMuxed
<1>2. UNCHANGED <<board, n, buf, pos, restart>>
  BY DEF Load, Count, run
<1>3. Buffers'
  BY <1>1, <1>2 DEF Buffers
<1>4. \A s : Left(s)' = Left(s) /\ Left(s) \in 0..1
  BY DEF Left
<1>5. PICK left \in Nat : /\ left = Left("vin") + Left("iin") + Left("vout")
                          /\ left = (Left("vin") + Left("iin") + Left("vout"))'
  BY <1>4
<1>6. calibrating = left + 1
  BY <1>1, <1>5 DEF Counts
<1>7. CASE Load
  <2>1. reg' = (calibrating - 1) % 256 /\ calibrating' = calibrating /\ work' = work
    BY <1>7 DEF Load, run
  <2>2. left < 256
    BY <1>4, <1>5
  <2>3. reg' = left
    BY <1>6, <2>1, <2>2
  <2>4. reg' # NoReg /\ reg' = calibrating' - 1
    BY <1>6, <2>1, <2>3 DEF NoReg
  <2>5. Counts'
    BY <1>5, <1>6, <2>1, <2>4 DEF Counts
  <2>6. Rounds'
    <3>1. \A s : Turned(s)' = Turned(s)
      BY <1>1, <1>2, <2>4 DEF Turned, Sampled, Taking
    <3> QED BY <1>1, <1>2, <3>1 DEF Rounds
  <2>7. OnMuxed'
    BY <1>1, <1>2, <2>1 DEF OnMuxed
  <2> QED BY <1>3, <2>5, <2>6, <2>7 DEF CleanInv
<1>8. CASE Count
  <2>1. reg >= 0 /\ calibrating' = reg /\ reg' = NoReg /\ work' = Tail(work)
    BY <1>8 DEF Count
  <2>2. calibrating' = left
    BY <1>1, <1>6, <2>1 DEF Counts
  <2>3. work' = <<>>
    BY <1>1, <2>1, OneSample DEF Typed, RunOK
  <2>4. Counts'
    BY <1>5, <2>1, <2>2 DEF Counts, NoReg
  <2>5. Rounds'
    <3>1. \A s : Turned(s)' = Turned(s)
      BY <1>1, <1>2, <2>3 DEF Turned, Sampled, Taking
    <3> QED BY <1>1, <1>2, <3>1 DEF Rounds
  <2>6. OnMuxed'
    BY <1>1, <1>2, <2>1, <2>3 DEF OnMuxed
  <2> QED BY <1>3, <2>4, <2>5, <2>6 DEF CleanInv
<1> QED BY <1>7, <1>8

\* a clean start: nothing sampled yet, and it is not Vout's turn
LEMMA StartClean ==
  ASSUME Typed, Start, covered' = {},
         clean' = (board = Muxed /\ pos[1] % 2 = 1 /\ \A s \in All : buf'[s] = 0)
  PROVE  CleanInv'
<1> SUFFICES ASSUME clean' PROVE CleanInv'
  BY DEF CleanInv
<1>1. /\ board = Muxed /\ pos[1] % 2 = 1 /\ \A s \in All : buf'[s] = 0
      /\ UNCHANGED <<board, pos, work, reg, restart>> /\ restart = <<>> /\ work = <<>> /\ reg = NoReg
      /\ calibrating' = Cardinality(All) /\ n' = ResetN(All)
  BY DEF Start, run, Resting
<1>2. All = Three /\ Cardinality(All) = 3 /\ pos[1] \in 1..4
  <2>1. All = Three /\ Cardinality(All) = 3 /\ DOMAIN board = {1} /\ board[1].mode = "muxed" /\ Turns(1) = 4
    BY <1>1, OnBoard DEF Three
  <2> QED BY <2>1 DEF Typed, PollsOK
<1>3. pos[1] = 1 \/ pos[1] = 3
  BY <1>1, <1>2
<1>4. Settle \in Nat /\ Settle >= 1
  BY SamplerAssumption DEF SamplerAssumption
<1>5. \A s \in Three : n'[s] = 0 /\ buf'[s] = 0
  BY <1>1, <1>2 DEF ResetN
<1>6. OnMuxed'
  BY <1>1 DEF OnMuxed
<1>7. Buffers'
  BY <1>4, <1>5 DEF Buffers, Three
<1>8. \A s \in Three : Turned(s)' = 0
  BY <1>1, <1>4, <1>5 DEF Turned, Sampled, Taking
<1>9. Rounds'
  <2>1. InStep(pos[1], 0, 0, 0)
    BY <1>3 DEF InStep
  <2> QED BY <1>1, <1>8, <2>1 DEF Rounds, Three
<1>10. Counts'
  BY <1>1, <1>2 DEF Counts, Left, NoReg
<1> QED BY <1>6, <1>7, <1>9, <1>10 DEF CleanInv

\* the calibration ends unfinished
LEMMA EndClean ==
  ASSUME CleanInv, clean, UNCHANGED <<board, restart, covered, pos, reg>>, calibrating' = 0, reg = NoReg,
         work' = <<>> \/ work' = work
  PROVE  CleanInv'
BY DEF CleanInv, OnMuxed

LEMMA CleanStep ==
  ASSUME Typed, CleanInv, [MemoryNext]_<<vars, memory>>
  PROVE  CleanInv'
<1>1. CASE UNCHANGED <<vars, memory>>
  BY <1>1, CleanStays DEF vars, run, memory
<1>2. CASE Start /\ covered' = {}
             /\ clean' = (board = Muxed /\ pos[1] % 2 = 1 /\ \A s \in All : buf'[s] = 0)
  BY <1>2, StartClean
<1>3. CASE clean' = FALSE
  BY <1>3 DEF CleanInv
<1>4. CASE ~clean /\ clean' = clean
  BY <1>4 DEF CleanInv
<1>5. CASE clean /\ clean' = clean
  <2>1. OnMuxed
    BY <1>5 DEF CleanInv
  <2>2. CASE (BeginUpdate \/ \E r \in {Ret.NoNewData, Ret.AdcError} : PollNothing(r)) /\ covered' = covered
    BY <1>5, <2>2, CleanStays DEF BeginUpdate, PollNothing
  <2>3. CASE Poll /\ covered' = covered
    <3>1. ~PollSnapshot /\ ~PollStreamed
      <4>1. board[1].mode = "muxed" /\ DOMAIN board = {1}
        BY <2>1, OnBoard DEF OnMuxed
      <4>2. adcs # <<>> => Head(adcs) = 1
        BY <4>1, AdcInHand DEF Typed
      <4> QED BY <4>1, <4>2 DEF PollSnapshot, PollStreamed
    <3> QED BY <1>5, <2>3, <3>1, PollClean DEF Poll
  <2>4. CASE PlainSample /\ covered' = covered
    BY <1>5, <2>4, PlainClean
  <2>5. CASE FailingSample /\ covered' = covered
    <3>1. work' = <<>> /\ calibrating' = 0 /\ reg = NoReg /\ UNCHANGED <<board, restart, pos, reg>>
      BY <2>1, <2>5, OneSample DEF FailingSample
    <3> QED BY <1>5, <2>5, <3>1, EndClean
  <2>6. CASE Cancel /\ covered' = covered
    <3>1. calibrating' = 0 /\ reg = NoReg /\ UNCHANGED <<board, restart, pos, reg, work>>
      BY <2>6 DEF Cancel, Resting, run
    <3> QED BY <1>5, <2>6, <3>1, EndClean
  <2>7. CASE (Load \/ Count) /\ covered' = covered
    BY <1>5, <2>7, CountClean
  <2>8. CASE ResetOnCore0
    BY <2>1, <2>8 DEF ResetOnCore0, OnMuxed
  <2>9. CASE CompletingSample /\ covered' = IF board = Muxed THEN covered \union {Head(work)} ELSE {}
    BY <1>5, <2>9, CompletingClean
  <2>10. CASE UNCHANGED <<vars, memory>>
    BY <1>1, <2>10
  <2> QED BY <1>2, <1>3, <2>2, <2>3, <2>4, <2>5, <2>6, <2>7, <2>8, <2>9, <2>10 DEF MemoryNext, memory
<1> QED BY <1>1, <1>2, <1>3, <1>4, <1>5 DEF MemoryNext, memory

\* handleSensorCalib() counts completions, not sensors: for every number of samples the
\* count ends a clean calibration when all three sensors have their offset, one sample
\* before Vout completes for the second time.
THEOREM CleanCalibrationCoversAll == MemorySpec => CleanRunCovers
<1>1. MemoryInit => Typed /\ CleanInv
  BY TypedInitially DEF MemoryInit, CleanInv
<1>2. [MemoryNext]_<<vars, memory>> => [Next]_vars
  BY DEF MemoryNext, Next, Sample, vars
<1>3. Typed /\ CleanInv /\ [MemoryNext]_<<vars, memory>> => Typed' /\ CleanInv'
  BY <1>2, TypedStep, CleanStep
<1>4. Typed /\ CleanInv => (reg = 0 /\ clean => covered = All)
  <2> SUFFICES ASSUME Typed, CleanInv, reg = 0, clean PROVE covered = All
    OBVIOUS
  <2>1. OnMuxed /\ calibrating > 0 /\ Counts
    BY DEF CleanInv, OnMuxed, NoReg
  <2>2. calibrating = 1 /\ calibrating = Left("vin") + Left("iin") + Left("vout") + 1
    <3>1. calibrating \in Int /\ reg # NoReg /\ reg = calibrating - 1
      BY <2>1 DEF Counts, NoReg, Typed, IInv
    <3> QED BY <2>1, <3>1 DEF Counts
  <2>3. Left("vin") = 0 /\ Left("iin") = 0 /\ Left("vout") = 0
    <3>1. \A s : Left(s) \in 0..1
      BY DEF Left
    <3> QED BY <2>2, <3>1
  <2>4. "vin" \in covered /\ "iin" \in covered /\ "vout" \in covered
    BY <2>3 DEF Left
  <2>5. All = {"vin", "iin", "vout"}
    BY <2>1, OnBoard DEF OnMuxed
  <2> QED BY <2>1, <2>4, <2>5 DEF OnMuxed
<1>5. Typed /\ CleanInv => [Done /\ clean => covered = All]_<<vars, memory>>
  BY <1>4 DEF Done
<1> QED BY <1>1, <1>3, <1>5, PTL DEF MemorySpec, CleanRunCovers
=============================================================================
