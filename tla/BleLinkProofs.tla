---------------------------- MODULE BleLinkProofs ----------------------------
(* The transmit FIFO of the BLE console stays inside what was reserved for it, *)
(* and log lines never hold more than half of it, for every capacity, chunk     *)
(* size and buffer pool.                                                        *)
EXTENDS MCBleLink, SequenceTheorems, FiniteSetTheorems, TLAPS

Writers == {"reply", "log"}

\* the consumed prefix lies within the buffer, and the buffer within its reserve
FifoOK(buf, head) ==
  /\ buf \in Seq(Writers)
  /\ head \in 0..Len(buf)
  /\ Len(buf) <= Cap

\* where in the backlog the log bytes are
Logs(buf, head) == {i \in 1..Len(buf) - head : buf[head + i] = "log"}

IInv ==
  /\ FifoOK(txBuf, txHead)
  /\ Cardinality(Logs(txBuf, txHead)) <= Cap \div 2

LEMMA CapIsNat == Cap \in Nat /\ Chunk \in Nat
BY LinkAssumption DEF LinkAssumption

LEMMA EmptyFifo == FifoOK(<<>>, 0)
<1>1. <<>> \in Seq(Writers) /\ Len(<<>>) = 0
  BY EmptySeq
<1> QED
  BY <1>1, CapIsNat DEF FifoOK

\* what a write adds, whoever wrote it
LEMMA LumpIsSeq ==
  ASSUME NEW who \in Writers, NEW k \in Nat
  PROVE  /\ [i \in 1..k |-> who] \in Seq(Writers)
         /\ Len([i \in 1..k |-> who]) = k
<1>1. [i \in 1..k |-> who] \in [1..k -> Writers]
  OBVIOUS
<1>2. [i \in 1..k |-> who] \in Seq(Writers)
  BY <1>1, SeqDef
<1> QED
  BY <1>2

\* what fits: at most the room that the backlog leaves
LEMMA LumpFits ==
  ASSUME NEW len \in Nat, NEW room \in Nat
  PROVE  Lesser(len, room) \in Nat /\ Lesser(len, room) <= len /\ Lesser(len, room) <= room
BY DEF Lesser

\* Compaction: with the consumed prefix gone the backlog and what fits beside it fill
\* at most Cap, and the prefix only stays while the whole line fits behind it.  Either
\* way the backlog is what it was, and after it comes what fits.
LEMMA WriteShape ==
  ASSUME FifoOK(txBuf, txHead), NEW who \in Writers, NEW len \in Nat, BleWrite(who, len)
  PROVE  /\ FifoOK(txBuf', txHead')
         /\ Backlog \in Nat
         /\ Len(txBuf') - txHead' \in Backlog..Backlog + len
         /\ \A i \in 1..Len(txBuf') - txHead' :
              txBuf'[txHead' + i] = IF i <= Backlog THEN txBuf[txHead + i] ELSE who
<1> DEFINE drop == IF txHead = Len(txBuf) \/ Len(txBuf) + len > Cap THEN txHead ELSE 0
           k == Lesser(len, Cap - Backlog)
           kept == SubSeq(txBuf, drop + 1, Len(txBuf))
           lump == [i \in 1..k |-> who]
<1>1. /\ txBuf \in Seq(Writers) /\ Len(txBuf) \in Nat /\ Len(txBuf) <= Cap
      /\ txHead \in 0..Len(txBuf) /\ Cap \in Nat
  BY CapIsNat DEF FifoOK
<1>2. txBuf' = kept \o lump /\ txHead' = txHead - drop
  BY DEF BleWrite
<1>3. Backlog = Len(txBuf) - txHead /\ Cap - Backlog \in Nat /\ Backlog \in Nat
  BY <1>1 DEF Backlog
<1>4. k \in Nat /\ k <= len /\ k <= Cap - Backlog
  BY <1>3, LumpFits
<1>5. drop \in 0..txHead /\ (drop = txHead \/ (drop = 0 /\ Len(txBuf) + len <= Cap))
  BY <1>1
<1>6. lump \in Seq(Writers) /\ Len(lump) = k /\ (\A i \in 1..k : lump[i] = who)
  BY <1>4, LumpIsSeq
<1> HIDE DEF drop, k
<1>7. /\ kept \in Seq(Writers) /\ Len(kept) = Len(txBuf) - drop
      /\ \A i \in 1..Len(txBuf) - drop : kept[i] = txBuf[drop + i]
  BY <1>1, <1>5, SubSeqProperties
<1> HIDE DEF kept, lump
<1>8. /\ txBuf' \in Seq(Writers) /\ Len(txBuf') = Len(txBuf) - drop + k
      /\ \A i \in 1..Len(txBuf) - drop + k :
           txBuf'[i] = IF i <= Len(txBuf) - drop THEN kept[i] ELSE lump[i - (Len(txBuf) - drop)]
  BY <1>2, <1>6, <1>7, ConcatProperties
<1>9. Len(txBuf') <= Cap
  BY <1>1, <1>3, <1>4, <1>5, <1>8
<1>10. txHead' \in 0..Len(txBuf') /\ Len(txBuf') - txHead' = Backlog + k
  BY <1>1, <1>2, <1>3, <1>4, <1>5, <1>8
<1>11. ASSUME NEW i \in 1..Backlog + k
       PROVE  txBuf'[txHead' + i] = IF i <= Backlog THEN txBuf[txHead + i] ELSE who
  <2>1. /\ txHead' + i \in 1..Len(txBuf) - drop + k
        /\ (txHead' + i <= Len(txBuf) - drop <=> i <= Backlog)
        /\ (txHead' + i) - (Len(txBuf) - drop) = i - Backlog
        /\ drop + (txHead' + i) = txHead + i
    BY <1>1, <1>2, <1>3, <1>4, <1>5
  <2>2. CASE i <= Backlog
    <3>1. txHead' + i \in 1..Len(txBuf) - drop
      BY <2>1, <2>2
    <3>2. txBuf'[txHead' + i] = kept[txHead' + i]
      BY <1>8, <2>1, <2>2
    <3>3. kept[txHead' + i] = txBuf[drop + (txHead' + i)]
      BY <1>7, <3>1
    <3> QED
      BY <2>1, <2>2, <3>2, <3>3
  <2>3. CASE i > Backlog
    <3>1. i - Backlog \in 1..k /\ ~(i <= Backlog)
      BY <1>3, <1>4, <2>3
    <3>2. txBuf'[txHead' + i] = lump[i - Backlog]
      BY <1>8, <2>1, <3>1
    <3> QED
      BY <1>6, <3>1, <3>2
  <2> QED
    BY <1>3, <1>4, <2>2, <2>3
<1>12. FifoOK(txBuf', txHead')
  BY <1>8, <1>9, <1>10 DEF FifoOK
<1>13. Len(txBuf') - txHead' \in Backlog..Backlog + len
  BY <1>3, <1>4, <1>10
<1> QED
  BY <1>3, <1>10, <1>11, <1>12, <1>13

LEMMA LogsAreFinite ==
  ASSUME NEW buf, NEW head, Len(buf) - head \in Nat
  PROVE  /\ IsFiniteSet(Logs(buf, head))
         /\ Cardinality(Logs(buf, head)) \in Nat
         /\ Cardinality(Logs(buf, head)) <= Len(buf) - head
<1> DEFINE m == Len(buf) - head
<1>1. IsFiniteSet(1..m) /\ Cardinality(1..m) = m
  <2>1. m \in Int /\ 1 \in Int
    OBVIOUS
  <2> HIDE DEF m
  <2>2. IsFiniteSet(1..m) /\ Cardinality(1..m) = IF 1 > m THEN 0 ELSE m - 1 + 1
    BY <2>1, FS_Interval
  <2>3. m \in Nat
    BY DEF m
  <2> QED
    BY <2>2, <2>3
<1>2. Logs(buf, head) \in SUBSET (1..m)
  BY DEF Logs
<1>3. IsFiniteSet(Logs(buf, head)) /\ Cardinality(Logs(buf, head)) <= Cardinality(1..m)
  BY <1>1, <1>2, FS_Subset
<1>4. Cardinality(Logs(buf, head)) \in Nat
  BY <1>3, FS_CardinalityType
<1> QED
  BY <1>1, <1>3, <1>4

\* a reply leaves the log lines where they are
LEMMA ReplyKeeps ==
  ASSUME IInv, NEW len \in Nat, BleWrite("reply", len)
  PROVE  IInv'
<1>1. FifoOK(txBuf, txHead) /\ "reply" \in Writers
  BY DEF IInv, Writers
<1>2. /\ FifoOK(txBuf', txHead')
      /\ Backlog \in Nat
      /\ Len(txBuf') - txHead' \in Backlog..Backlog + len
      /\ \A i \in 1..Len(txBuf') - txHead' :
           txBuf'[txHead' + i] = IF i <= Backlog THEN txBuf[txHead + i] ELSE "reply"
  BY <1>1, WriteShape
<1>3. Logs(txBuf', txHead') = Logs(txBuf, txHead)
  <2>1. Len(txBuf) - txHead = Backlog
    BY DEF Backlog
  <2> QED
    BY <1>2, <2>1 DEF Logs
<1> QED
  BY <1>2, <1>3 DEF IInv

\* with a mirrored line the whole backlog is at most half of the FIFO
LEMMA MirrorKeeps ==
  ASSUME IInv, NEW len \in Nat, Mirror(len)
  PROVE  IInv'
<1>1. CASE Backlog + len <= Cap \div 2 /\ BleWrite("log", len)
  <2>1. FifoOK(txBuf, txHead) /\ "log" \in Writers
    BY DEF IInv, Writers
  <2>2. /\ FifoOK(txBuf', txHead')
        /\ Backlog \in Nat
        /\ Len(txBuf') - txHead' \in Backlog..Backlog + len
    BY <1>1, <2>1, WriteShape
  <2>3. Len(txBuf') - txHead' \in Nat
    BY <2>2
  <2>4. /\ Cardinality(Logs(txBuf', txHead')) \in Nat
        /\ Cardinality(Logs(txBuf', txHead')) <= Len(txBuf') - txHead'
    BY <2>3, LogsAreFinite
  <2>5. Cap \div 2 \in Int
    BY CapIsNat
  <2>6. Cardinality(Logs(txBuf', txHead')) <= Cap \div 2
    BY <1>1, <2>2, <2>4, <2>5
  <2> QED
    BY <2>2, <2>6 DEF IInv
<1>2. CASE UNCHANGED fifo
  BY <1>2 DEF fifo, IInv, FifoOK, Logs
<1> QED
  BY <1>1, <1>2 DEF Mirror

\* what goes out is gone from the front
LEMMA FewerLogs ==
  ASSUME NEW buf, NEW head \in Nat, NEW n \in Nat, Len(buf) \in Nat, head + n <= Len(buf)
  PROVE  Cardinality(Logs(buf, head + n)) <= Cardinality(Logs(buf, head))
<1> DEFINE S == Logs(buf, head + n)
           T == Logs(buf, head)
           f == [i \in S |-> i + n]
<1>1. IsFiniteSet(T)
  BY LogsAreFinite
<1>2. f \in [S -> T]
  BY DEF Logs
<1>3. \A i, j \in S : f[i] = f[j] => i = j
  BY DEF Logs
<1>4. f \in Injection(S, T)
  BY <1>2, <1>3 DEF Injection, IsInjective
<1> HIDE DEF f, S, T
<1>5. Cardinality(S) <= Cardinality(T)
  BY <1>1, <1>4, FS_Injection
<1> QED
  BY <1>5 DEF S, T

LEMMA SendKeeps == ASSUME IInv, Send PROVE IInv'
<1>1. PICK n \in 1..Lesser(Chunk, Backlog) : txHead' = txHead + n
  BY DEF Send
<1>2. /\ txBuf \in Seq(Writers) /\ Len(txBuf) \in Nat /\ Len(txBuf) <= Cap
      /\ txHead \in 0..Len(txBuf)
  BY DEF IInv, FifoOK
<1>3. Backlog \in Nat /\ Backlog = Len(txBuf) - txHead
  BY <1>2 DEF Backlog
<1>4. n \in Nat /\ n <= Backlog
  <2>1. Lesser(Chunk, Backlog) \in Nat /\ Lesser(Chunk, Backlog) <= Backlog
    BY <1>3, CapIsNat, LumpFits
  <2> QED
    BY <1>1, <1>3, <2>1
<1>5. txBuf' = txBuf
  BY DEF Send
<1>6. FifoOK(txBuf', txHead')
  BY <1>1, <1>2, <1>3, <1>4, <1>5 DEF FifoOK
<1>7. Cardinality(Logs(txBuf, txHead + n)) <= Cardinality(Logs(txBuf, txHead))
  BY <1>2, <1>3, <1>4, FewerLogs
<1>8. /\ Cardinality(Logs(txBuf, txHead + n)) \in Nat
      /\ Cardinality(Logs(txBuf, txHead)) \in Nat
  BY <1>2, <1>3, <1>4, LogsAreFinite
<1>9. Cap \div 2 \in Int
  BY CapIsNat
<1>10. Cardinality(Logs(txBuf', txHead')) <= Cap \div 2
  BY <1>1, <1>5, <1>7, <1>8, <1>9 DEF IInv
<1> QED
  BY <1>6, <1>10 DEF IInv

LEMMA OthersKeep == ASSUME IInv, UNCHANGED fifo PROVE IInv'
BY DEF fifo, IInv, FifoOK, Logs

LEMMA NoLogs == Cardinality(Logs(<<>>, 0)) <= Cap \div 2
<1>1. Logs(<<>>, 0) = {}
  BY DEF Logs
<1>2. Cardinality({}) = 0
  BY FS_EmptySet
<1>3. 0 <= Cap \div 2
  BY CapIsNat
<1>4. Cardinality(Logs(<<>>, 0)) = 0
  BY <1>1, <1>2
<1> QED
  BY <1>3, <1>4

LEMMA ClearKeeps == ASSUME txBuf' = <<>>, txHead' = 0 PROVE IInv'
BY EmptyFifo, NoLogs DEF IInv

LEMMA NextKeeps == ASSUME IInv, [Next]_vars PROVE IInv'
<1>1. CASE LogWrite
  <2>1. PICK len \in 1..Chunk : Mirror(len)
    BY <1>1 DEF LogWrite
  <2>2. len \in Nat
    BY CapIsNat
  <2> QED
    BY <2>1, <2>2, MirrorKeeps
<1>2. CASE OnDisconnect
  <2>1. UNCHANGED fifo \/ (txBuf' = <<>> /\ txHead' = 0)
    BY <1>2 DEF OnDisconnect
  <2> QED
    BY <2>1, OthersKeep, ClearKeeps
<1>3. CASE Console
  <2>1. UNCHANGED fifo \/ \E len \in 1..Cap : BleWrite("reply", len)
    BY <1>3 DEF Console
  <2>2. CASE \E len \in 1..Cap : BleWrite("reply", len)
    <3>1. PICK len \in 1..Cap : BleWrite("reply", len)
      BY <2>2
    <3>2. len \in Nat
      BY CapIsNat
    <3> QED
      BY <3>1, <3>2, ReplyKeeps
  <2> QED
    BY <2>1, <2>2, OthersKeep
<1>4. CASE SendFails
  <2>1. Mirror(1)
    BY <1>4 DEF SendFails
  <2> QED
    BY <2>1, MirrorKeeps
<1>5. CASE DrainEnds
  <2>1. UNCHANGED fifo \/ (txBuf' = <<>> /\ txHead' = 0)
    BY <1>5 DEF DrainEnds
  <2> QED
    BY <2>1, OthersKeep, ClearKeeps
<1>6. CASE ClientConnects \/ LinkLost \/ OnConnect \/ Refill \/ Tick
  BY <1>6, OthersKeep DEF ClientConnects, LinkLost, OnConnect, Refill, Tick
<1>7. CASE Drain \/ TeleTick \/ End \/ Begin
  BY <1>7, OthersKeep DEF Drain, TeleTick, End, Begin
<1>8. CASE UNCHANGED vars
  BY <1>8, OthersKeep DEF vars
<1> QED
  BY <1>1, <1>2, <1>3, <1>4, <1>5, <1>6, <1>7, <1>8, SendKeeps DEF Next

LEMMA Initially == Init => IInv
BY EmptyFifo, NoLogs DEF Init, IInv

\* "the append path then never reallocates" (console_ble.cpp, TX_BUF_CAP), whatever the
\* sizes and whatever replies, log lines, partial drains and disconnects follow one another
THEOREM StaysInReserve == Spec => []NeverReallocates
<1>1. IInv => NeverReallocates
  BY DEF IInv, FifoOK, NeverReallocates
<1> QED
  BY <1>1, Initially, NextKeeps, PTL DEF Spec

\* "The mirror only gets half the FIFO" (console_ble.cpp, bleLogWrite()): not a bound on a
\* line or on the backlog it finds, but on what log lines hold of it ever after
THEOREM RoomForReplies == Spec => []LogsLeaveRoom
<1>1. IInv => LogsLeaveRoom
  <2> SUFFICES ASSUME IInv PROVE LogsLeaveRoom
    OBVIOUS
  <2>1. /\ txBuf \in Seq(Writers) /\ Len(txBuf) \in Nat /\ txHead \in 0..Len(txBuf)
    BY DEF IInv, FifoOK
  <2>2. /\ Len(Unsent) = Len(txBuf) - txHead
        /\ \A i \in 1..Len(txBuf) - txHead : Unsent[i] = txBuf[txHead + i]
    BY <2>1, SubSeqProperties DEF Unsent
  <2>3. {i \in 1..Len(Unsent) : Unsent[i] = "log"} = Logs(txBuf, txHead)
    BY <2>2 DEF Logs
  <2> QED
    BY <2>3 DEF IInv, LogsLeaveRoom
<1> QED
  BY <1>1, Initially, NextKeeps, PTL DEF Spec
=============================================================================
