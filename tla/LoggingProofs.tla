---------------------------- MODULE LoggingProofs ----------------------------
(***************************************************************************)
(* Proofs about Logging and the SpscQueue in it, for any number and sizes   *)
(* of blocks, any tasks, sinks and lengths of the boot log, and the one     *)
(* producer the queue is made for.                                          *)
(*                                                                         *)
(* Three invariants, one on top of the other: BootInv of the boot log, QInv *)
(* of the ring of blocks, and LineInv of where a line can be.               *)
(***************************************************************************)
EXTENDS Logging, FiniteSetTheorems, SequenceTheorems, TLAPS

-----------------------------------------------------------------------------
(* The boot log.                                                           *)

BootInv == boot = [text |-> boot.text, open |-> boot.open] /\ boot.open \in BOOLEAN

LEMMA Initially == Init => BootInv
BY DEF Init, BootInv

LEMMA CloseOfClosed ==
  ASSUME BootInv, ~boot.open
  PROVE  [boot EXCEPT !.open = FALSE] = boot
BY DEF BootInv

LEMMA SameBoot == ASSUME BootInv, UNCHANGED boot PROVE BootInv' /\ (~boot.open => boot' = boot)
BY DEF BootInv

LEMMA QueueStep ==
  ASSUME BootInv, NEW p \in Producers, EnqueueLog(p) \/ DropLog(p) \/ Enqueued(p)
  PROVE  BootInv' /\ (~boot.open => boot' = boot)
BY SameBoot DEF EnqueueLog, DropLog, Enqueued, lvars

\* a task that found the log open looks again under the lock
LEMMA CaptureStep ==
  ASSUME BootInv, NEW t \in Printers, CaptureLocked(t)
  PROVE  BootInv' /\ (~boot.open => boot' = boot)
<1>1. CASE ~boot.open
  <2>1. UNCHANGED boot
    BY <1>1 DEF CaptureLocked
  <2> QED
    BY <2>1, SameBoot
<1>2. CASE boot.open
  <2>1. \/ boot' = [boot EXCEPT !.text = Append(@, task[t].line)]
        \/ boot' = [boot EXCEPT !.open = FALSE]
    BY <1>2 DEF CaptureLocked
  <2> QED
    BY <1>2, <2>1 DEF BootInv
<1> QED
  BY <1>1, <1>2

LEMMA PrintStep ==
  ASSUME BootInv, NEW t \in Printers, Printing(t)
  PROVE  BootInv' /\ (~boot.open => boot' = boot)
<1>1. CASE Snapshot(t) \/ Deliver(t) \/ Capture(t)
  BY <1>1, SameBoot DEF Snapshot, Deliver, Capture
<1> QED
  BY <1>1, CaptureStep DEF Printing

\* an attachment closes the log, also one that is closed
LEMMA AttachStep ==
  ASSUME BootInv, NEW s \in Sinks, Attach(s)
  PROVE  BootInv' /\ (~boot.open => boot' = boot)
<1>1. CASE UNCHANGED boot
  BY <1>1, SameBoot
<1>2. CASE boot' = [boot EXCEPT !.open = FALSE]
  BY <1>2, CloseOfClosed DEF BootInv
<1> QED
  BY <1>1, <1>2 DEF Attach

LEMMA BootSinkStep ==
  ASSUME BootInv, NEW s \in Sinks,
         Connect(s) \/ Attach(s) \/ Replay(s) \/ Disconnect(s) \/ RemoveSink(s)
  PROVE  BootInv' /\ (~boot.open => boot' = boot)
<1>1. CASE Connect(s) \/ Replay(s) \/ Disconnect(s) \/ RemoveSink(s)
  BY <1>1, SameBoot DEF Connect, Replay, Disconnect, RemoveSink
<1> QED
  BY <1>1, AttachStep

LEMMA NextStep ==
  ASSUME BootInv, [Next]_vars
  PROVE  BootInv' /\ (~boot.open => boot' = boot)
<1>1. CASE \E p \in Producers : EnqueueLog(p) \/ DropLog(p) \/ Enqueued(p)
  BY <1>1, QueueStep
<1>2. CASE \E t \in Tasks : Log(t)
  BY <1>2, SameBoot DEF Log
<1>3. CASE \E t \in Printers : Printing(t)
  BY <1>3, PrintStep
<1>4. CASE Flush \/ FlushNext
  BY <1>4, SameBoot DEF Flush, FlushNext
<1>5. CASE \E s \in Sinks :
             Connect(s) \/ Attach(s) \/ Replay(s) \/ Disconnect(s) \/ RemoveSink(s)
  BY <1>5, BootSinkStep
<1>6. CASE UNCHANGED vars
  BY <1>6, SameBoot DEF vars, lvars
<1> QED
  BY <1>1, <1>2, <1>3, <1>4, <1>5, <1>6 DEF Next

\* Whichever task is on its way to add a line when the first sink comes: a replay,
\* outside the lock, never reads a boot log that is still written (logging.cpp,
\* bootLogCapture() and addLogCallback()).
THEOREM BootLogStaysFrozen == Spec => BacklogFrozen
<1>1. BootInv /\ [Next]_vars => BootInv'
  BY NextStep
<1>2. BootInv /\ [Next]_vars => [~boot.open => boot' = boot]_boot
  BY NextStep
<1> QED
  BY <1>1, <1>2, Initially, PTL DEF Spec, BacklogFrozen

-----------------------------------------------------------------------------
(* A block.                                                                  *)
(* Its two indices and the shadow copies the two sides keep of them.         *)

\* what a slot holds of an element
Entries == {<<v>> : v \in Values}
\* from x to y around a buffer of s slots, and the slot behind x
Dist(x, y, s) == IF y >= x THEN y - x ELSE y - x + s
Beyond(x, s) == IF x = s - 1 THEN 0 ELSE x + 1
\* elements between front and tail
Used(r) == Dist(r.front, r.tail, r.size)
\* the slot of the i-th of them, and the elements themselves
Turned(x, i, s) == IF x + i - 1 < s THEN x + i - 1 ELSE x + i - 1 - s
Slot(r, i) == Turned(r.front, i, r.size)
Items(r) == [i \in 1..Used(r) |-> r.data[Slot(r, i)][1]]

IsBlock(r) ==
  r = [front |-> r.front, localTail |-> r.localTail, tail |-> r.tail,
       localFront |-> r.localFront, next |-> r.next, size |-> r.size, data |-> r.data]

\* the indices are in the buffer; the consumer's copy of the tail is not ahead of the
\* tail, nor the producer's copy of the front ahead of the front; what lies between
\* front and tail are elements
GoodBlock(r) ==
  /\ IsBlock(r) /\ r.size \in Nat /\ r.size >= 2
  /\ r.front \in 0..r.size - 1 /\ r.tail \in 0..r.size - 1
  /\ r.localFront \in 0..r.size - 1 /\ r.localTail \in 0..r.size - 1
  /\ r.data = [i \in 0..r.size - 1 |-> r.data[i]]
  /\ Dist(r.front, r.localTail, r.size) <= Used(r)
  /\ Used(r) <= Dist(r.localFront, r.tail, r.size)
  /\ \A i \in 1..Used(r) : r.data[Slot(r, i)] \in Entries

\* `% size` is one subtraction at most
LEMMA Mod ==
  ASSUME NEW s \in Nat, NEW x \in Nat, x < s
  PROVE  x % s = x /\ (x + s) % s = x
OBVIOUS

\* the distance as the code takes it
LEMMA Distance ==
  ASSUME NEW s \in Nat, NEW x \in 0..s - 1, NEW y \in 0..s - 1
  PROVE  Dist(x, y, s) \in 0..s - 1 /\ (Dist(x, y, s) = 0 <=> x = y)
         /\ (y - x + s) % s = Dist(x, y, s)
<1>1. Dist(x, y, s) \in 0..s - 1 /\ (Dist(x, y, s) = 0 <=> x = y)
  BY DEF Dist
<1>2. CASE y >= x
  <2>1. y - x \in Nat /\ y - x < s
    BY <1>2
  <2>2. (y - x + s) % s = y - x
    BY <2>1, Mod
  <2> QED BY <1>1, <1>2, <2>2 DEF Dist
<1>3. CASE ~(y >= x)
  <2>1. y - x + s \in Nat /\ y - x + s < s
    BY <1>3
  <2>2. (y - x + s) % s = y - x + s
    BY <2>1, Mod
  <2> QED BY <1>1, <1>3, <2>2 DEF Dist
<1> QED BY <1>2, <1>3

\* the i-th slot as the code takes it
LEMMA Turn ==
  ASSUME NEW s \in Nat, NEW x \in 0..s - 1, NEW i \in 1..s
  PROVE  /\ Turned(x, i, s) \in 0..s - 1 /\ (x + i - 1) % s = Turned(x, i, s)
         /\ Turned(x, 1, s) = x
<1>1. CASE x + i - 1 < s
  <2>1. (x + i - 1) % s = x + i - 1
    BY <1>1, Mod
  <2> QED BY <1>1, <2>1 DEF Turned, Dist
<1>2. CASE ~(x + i - 1 < s)
  <2>1. x + i - 1 - s \in Nat /\ x + i - 1 - s < s
    BY <1>2
  <2>2. (x + i - 1 - s + s) % s = x + i - 1 - s
    BY <2>1, Mod
  <2>3. x + i - 1 - s + s = x + i - 1
    OBVIOUS
  <2> QED BY <1>2, <2>2, <2>3 DEF Turned, Dist
<1> QED BY <1>1, <1>2

\* which is the slot at distance i - 1
LEMMA TurnedTo ==
  ASSUME NEW s \in Nat, NEW x \in 0..s - 1, NEW i \in 1..s, NEW y \in 0..s - 1
  PROVE  Turned(x, i, s) = y <=> i = Dist(x, y, s) + 1
BY DEF Turned, Dist

\* the slot behind x is another one
LEMMA OneOn ==
  ASSUME NEW s \in Nat, s >= 2, NEW x \in 0..s - 1
  PROVE  Beyond(x, s) \in 0..s - 1 /\ Beyond(x, s) # x /\ (x + 1) % s = Beyond(x, s)
<1>1. CASE x = s - 1
  BY <1>1, Mod DEF Beyond
<1>2. CASE x # s - 1
  <2>1. x + 1 \in Nat /\ x + 1 < s
    BY <1>2
  <2> QED BY <1>2, <2>1, Mod DEF Beyond
<1> QED BY <1>1, <1>2

\* the tail moves on unless that makes the buffer look empty
LEMMA TailOn ==
  ASSUME NEW s \in Nat, s >= 2, NEW x \in 0..s - 1, NEW y \in 0..s - 1
  PROVE  IF Beyond(y, s) = x THEN Dist(x, y, s) = s - 1
         ELSE Dist(x, Beyond(y, s), s) = Dist(x, y, s) + 1 /\ Dist(x, y, s) # s - 1
BY DEF Beyond, Dist

\* the front moves on: one element less
LEMMA FrontOn ==
  ASSUME NEW s \in Nat, s >= 2, NEW x \in 0..s - 1, NEW y \in 0..s - 1, x # y
  PROVE  Dist(Beyond(x, s), y, s) = Dist(x, y, s) - 1
BY DEF Beyond, Dist

\* and the others are where they were
LEMMA TurnOn ==
  ASSUME NEW s \in Nat, s >= 2, NEW x \in 0..s - 1, NEW i \in 1..s - 1
  PROVE  Turned(Beyond(x, s), i, s) = Turned(x, i + 1, s)
BY DEF Beyond, Turned

\* what the lemmas below use of a good block
LEMMA Indices ==
  ASSUME NEW r, GoodBlock(r)
  PROVE  /\ r.size \in Nat /\ r.size >= 2
         /\ r.front \in 0..r.size - 1 /\ r.tail \in 0..r.size - 1
         /\ r.localFront \in 0..r.size - 1 /\ r.localTail \in 0..r.size - 1
         /\ Used(r) \in 0..r.size - 1 /\ (Used(r) = 0 <=> r.front = r.tail)
         /\ \A i \in 1..Used(r) : Slot(r, i) \in 0..r.size - 1 /\ Slot(r, i) # r.tail
<1>1. /\ r.size \in Nat /\ r.size >= 2
      /\ r.front \in 0..r.size - 1 /\ r.tail \in 0..r.size - 1
      /\ r.localFront \in 0..r.size - 1 /\ r.localTail \in 0..r.size - 1
  BY DEF GoodBlock
<1>2. Used(r) \in 0..r.size - 1 /\ (Used(r) = 0 <=> r.front = r.tail)
  BY <1>1, Distance, ZenonT(30) DEF Used
<1>3. ASSUME NEW i \in 1..Used(r) PROVE Slot(r, i) \in 0..r.size - 1 /\ Slot(r, i) # r.tail
  <2>1. i \in 1..r.size /\ i # Used(r) + 1
    BY <1>1, <1>2
  <2>2. Slot(r, i) \in 0..r.size - 1
    BY <1>1, <2>1, Turn DEF Slot
  <2>3. Slot(r, i) = r.tail <=> i = Used(r) + 1
    BY <1>1, <2>1, TurnedTo DEF Slot, Used
  <2> QED BY <2>1, <2>2, <2>3
<1> QED BY <1>1, <1>2, <1>3

\* the shadow copies err on the safe side: fewer elements, less room
LEMMA Copies ==
  ASSUME NEW r, GoodBlock(r)
  PROVE  /\ Dist(r.front, r.localTail, r.size) \in 0..Used(r)
         /\ Dist(r.localFront, r.tail, r.size) \in Used(r)..r.size - 1
<1>1. /\ Dist(r.front, r.localTail, r.size) \in 0..r.size - 1
      /\ Dist(r.localFront, r.tail, r.size) \in 0..r.size - 1
  BY Indices, Distance
<1>2. /\ Dist(r.front, r.localTail, r.size) <= Used(r)
      /\ Used(r) <= Dist(r.localFront, r.tail, r.size)
  BY DEF GoodBlock
<1> QED BY <1>1, <1>2, Indices

\* a good block holds a sequence of values
LEMMA ItemsType ==
  ASSUME NEW r, GoodBlock(r)
  PROVE  Items(r) \in Seq(Values) /\ Len(Items(r)) = Used(r)
<1>1. Used(r) \in Nat
  BY Indices
<1>2. \A i \in 1..Used(r) : r.data[Slot(r, i)] \in Entries
  BY DEF GoodBlock
<1>3. \A i \in 1..Used(r) : r.data[Slot(r, i)][1] \in Values
  BY <1>2 DEF Entries
<1>4. Items(r) \in [1..Used(r) -> Values]
  BY <1>3 DEF Items
<1> QED BY <1>1, <1>4

\* it is empty when its indices meet
LEMMA EmptyBlock ==
  ASSUME NEW r, GoodBlock(r)
  PROVE  r.front = r.tail <=> Items(r) = << >>
BY ItemsType, Indices

\* the model's InBlock() is that sequence
LEMMA InBlockIsItems == \A b \in Blocks : GoodBlock(block[b]) => InBlock(b) = Items(block[b])
<1> SUFFICES ASSUME NEW b \in Blocks, GoodBlock(block[b]) PROVE InBlock(b) = Items(block[b])
  OBVIOUS
<1>1. (block[b].tail - block[b].front + block[b].size) % block[b].size = Used(block[b])
  BY Indices, Distance DEF Used
<1>2. ASSUME NEW i \in 1..Used(block[b])
      PROVE  (block[b].front + i - 1) % block[b].size = Slot(block[b], i)
  <2>1. i \in 1..block[b].size
    BY Indices
  <2> QED BY <2>1, Indices, Turn DEF Slot
<1> QED BY <1>1, <1>2 DEF InBlock, Items

\* the consumer's and the producer's copies, and the place of the block in the ring
LEMMA SameItems ==
  ASSUME NEW r, GoodBlock(r), NEW q, IsBlock(q),
         q.front = r.front, q.tail = r.tail, q.size = r.size, q.data = r.data,
         q.localFront \in {r.localFront, r.front}, q.localTail \in {r.localTail, r.tail}
  PROVE  GoodBlock(q) /\ Items(q) = Items(r)
<1>1. Used(q) = Used(r) /\ \A i \in 1..Used(r) : Slot(q, i) = Slot(r, i)
  BY DEF Used, Slot
<1>2. Items(q) = Items(r)
  BY <1>1 DEF Items
<1>3. Used(q) <= Dist(q.localFront, q.tail, q.size)
  <2>1. Used(r) = Dist(r.front, r.tail, r.size)
    BY DEF Used
  <2> QED BY <1>1, <2>1, Indices, Copies
<1>4. Dist(q.front, q.localTail, q.size) <= Used(q)
  <2>1. Used(r) = Dist(r.front, r.tail, r.size)
    BY DEF Used
  <2> QED BY <1>1, <2>1, Indices, Copies
<1>5. \A i \in 1..Used(q) : q.data[Slot(q, i)] \in Entries
  BY <1>1 DEF GoodBlock
<1>6. /\ q.size \in Nat /\ q.size >= 2
      /\ q.front \in 0..q.size - 1 /\ q.tail \in 0..q.size - 1
      /\ q.localFront \in 0..q.size - 1 /\ q.localTail \in 0..q.size - 1
      /\ q.data = [i \in 0..q.size - 1 |-> q.data[i]]
  BY DEF GoodBlock
<1> QED BY <1>2, <1>3, <1>4, <1>5, <1>6 DEF GoodBlock

\* Put, before it is published
LEMMA PutInTail ==
  ASSUME NEW r, GoodBlock(r), NEW q, IsBlock(q),
         q.front = r.front, q.tail = r.tail, q.size = r.size,
         q.data = [i \in 0..r.size - 1 |-> q.data[i]],
         \A i \in 0..r.size - 1 : i # r.tail => q.data[i] = r.data[i],
         q.localFront \in {r.localFront, r.front}, q.localTail = r.localTail
  PROVE  GoodBlock(q) /\ Items(q) = Items(r)
<1>1. Used(q) = Used(r) /\ \A i \in 1..Used(r) : Slot(q, i) = Slot(r, i)
  BY DEF Used, Slot
<1>2. q.data = [i \in 0..q.size - 1 |-> q.data[i]]
  OBVIOUS
<1>3. \A i \in 1..Used(r) : q.data[Slot(r, i)] = r.data[Slot(r, i)]
  BY Indices
<1>4. Items(q) = Items(r)
  BY <1>1, <1>3 DEF Items
<1>5. Used(q) <= Dist(q.localFront, q.tail, q.size) /\ Dist(q.front, q.localTail, q.size) <= Used(q)
  <2>1. Used(r) = Dist(r.front, r.tail, r.size)
    BY DEF Used
  <2> QED BY <1>1, <2>1, Indices, Copies
<1>6. \A i \in 1..Used(q) : q.data[Slot(q, i)] \in Entries
  BY <1>1, <1>3 DEF GoodBlock
<1>7. /\ q.size \in Nat /\ q.size >= 2
      /\ q.front \in 0..q.size - 1 /\ q.tail \in 0..q.size - 1
      /\ q.localFront \in 0..q.size - 1 /\ q.localTail \in 0..q.size - 1
  BY DEF GoodBlock
<1> QED BY <1>2, <1>4, <1>5, <1>6, <1>7 DEF GoodBlock

\* the tail moves over a slot that was filled: one element more at the end
LEMMA PublishTail ==
  ASSUME NEW r, GoodBlock(r), NEW v \in Values, r.data[r.tail] = <<v>>,
         Beyond(r.tail, r.size) # r.localFront,
         NEW q, IsBlock(q), q.front = r.front, q.tail = Beyond(r.tail, r.size),
         q.size = r.size, q.data = r.data,
         q.localFront = r.localFront, q.localTail = r.localTail
  PROVE  GoodBlock(q) /\ Items(q) = Append(Items(r), v)
<1> DEFINE u == Used(r)
<1>1. u \in 0..r.size - 1 /\ u <= Dist(r.localFront, r.tail, r.size)
      /\ Dist(r.front, r.localTail, r.size) <= u
  BY Indices, Copies
<1>2. /\ Dist(r.localFront, r.tail, r.size) \in 0..r.size - 2
      /\ Dist(r.localFront, q.tail, q.size) = Dist(r.localFront, r.tail, r.size) + 1
      /\ Dist(r.front, r.localTail, r.size) \in Nat
      /\ q.tail \in 0..r.size - 1
  <2>1. Dist(r.localFront, r.tail, r.size) # r.size - 1
        /\ Dist(r.localFront, q.tail, q.size) = Dist(r.localFront, r.tail, r.size) + 1
    BY Indices, TailOn
  <2>2. Dist(r.localFront, r.tail, r.size) \in 0..r.size - 1 /\ Dist(r.front, r.localTail, r.size) \in Nat
    BY <1>1, Indices, Copies
  <2> QED BY <2>1, <2>2, Indices, OneOn
<1>3. u # r.size - 1 /\ u = Dist(r.front, r.tail, r.size)
  BY <1>1, <1>2, Indices DEF Used
<1>4. Used(q) = u + 1
  <2>1. Dist(r.front, Beyond(r.tail, r.size), r.size) = Dist(r.front, r.tail, r.size) + 1
    BY <1>3, Indices, TailOn
  <2> QED BY <1>3, <2>1 DEF Used
<1>5. Slot(r, u + 1) = r.tail
  <2>1. u + 1 \in 1..r.size
    BY <1>1, Indices
  <2>2. Turned(r.front, u + 1, r.size) = r.tail <=> u + 1 = Dist(r.front, r.tail, r.size) + 1
    BY <2>1, Indices, TurnedTo
  <2> QED BY <1>3, <2>2 DEF Slot
<1>6. \A i \in 1..u + 1 : Slot(q, i) = Slot(r, i)
  BY DEF Slot
<1> HIDE DEF u
<1>7. \A i \in 1..u : r.data[Slot(r, i)] \in Entries
  BY DEF GoodBlock, u
<1>8. \A i \in 1..u + 1 : q.data[Slot(q, i)] \in Entries
  <2>1. <<v>> \in Entries
    BY DEF Entries
  <2>2. ASSUME NEW i \in 1..u + 1 PROVE q.data[Slot(q, i)] \in Entries
    <3>1. i \in 1..u \/ i = u + 1
      BY <1>1, Indices
    <3> QED BY <1>5, <1>6, <1>7, <2>1, <3>1
  <2> QED BY <2>2
<1>9. GoodBlock(q)
  <2>1. /\ Dist(q.front, q.localTail, q.size) <= Used(q)
        /\ Used(q) <= Dist(q.localFront, q.tail, q.size)
    BY <1>1, <1>2, <1>4, Indices
  <2>2. /\ q.size \in Nat /\ q.size >= 2
        /\ q.front \in 0..q.size - 1 /\ q.tail \in 0..q.size - 1
        /\ q.localFront \in 0..q.size - 1 /\ q.localTail \in 0..q.size - 1
        /\ q.data = [i \in 0..q.size - 1 |-> q.data[i]]
    BY <1>2 DEF GoodBlock
  <2> QED BY <1>4, <1>8, <2>1, <2>2 DEF GoodBlock
<1>10. Items(q) = Append(Items(r), v)
  <2>1. Items(r) \in Seq(Values) /\ Len(Items(r)) = u
    BY ItemsType DEF u
  <2>2. Items(q) \in Seq(Values) /\ Len(Items(q)) = u + 1
    BY <1>4, <1>9, ItemsType
  <2>3. ASSUME NEW i \in 1..u + 1 PROVE Items(q)[i] = Append(Items(r), v)[i]
    <3>1. Items(q)[i] = r.data[Slot(r, i)][1]
      BY <1>4, <1>6 DEF Items
    <3>2. CASE i = u + 1
      <4>1. Items(q)[i] = v
        BY <1>5, <3>1, <3>2
      <4> QED BY <2>1, <3>2, <4>1
    <3>3. CASE i # u + 1
      <4>1. i \in 1..u
        BY <1>1, <3>3, Indices
      <4>2. Items(q)[i] = Items(r)[i]
        BY <3>1, <4>1 DEF Items, u
      <4> QED BY <2>1, <4>1, <4>2
    <3> QED BY <3>2, <3>3
  <2> QED BY <2>1, <2>2, <2>3
<1> QED BY <1>9, <1>10

\* the front moves over its slot: the first element less
LEMMA ReleaseFront ==
  ASSUME NEW r, GoodBlock(r), r.front # r.localTail,
         NEW q, IsBlock(q), q.front = Beyond(r.front, r.size), q.tail = r.tail,
         q.size = r.size, q.data = [r.data EXCEPT ![r.front] = <<>>],
         q.localFront = r.localFront, q.localTail = r.localTail
  PROVE  /\ GoodBlock(q) /\ Items(q) = Tail(Items(r))
         /\ Items(r) # << >> /\ r.data[r.front] = <<Head(Items(r))>>
<1> DEFINE u == Used(r)
<1>1. u \in 0..r.size - 1 /\ u <= Dist(r.localFront, r.tail, r.size)
      /\ Dist(r.front, r.localTail, r.size) <= u
  BY Indices, Copies
<1>2. /\ Dist(r.front, r.localTail, r.size) \in 1..r.size - 1
      /\ Dist(q.front, q.localTail, q.size) = Dist(r.front, r.localTail, r.size) - 1
      /\ Dist(r.localFront, r.tail, r.size) \in Nat
      /\ q.front \in 0..r.size - 1
  <2>1. Dist(r.front, r.localTail, r.size) \in 0..r.size - 1 /\ Dist(r.front, r.localTail, r.size) # 0
    <3>1. r.size \in Nat /\ r.front \in 0..r.size - 1 /\ r.localTail \in 0..r.size - 1
      BY Indices
    <3>2. Dist(r.front, r.localTail, r.size) = 0 <=> r.front = r.localTail
      BY <3>1, Distance
    <3>3. Dist(r.front, r.localTail, r.size) \in 0..r.size - 1
      BY <3>1, Distance
    <3> QED BY <3>2, <3>3
  <2>2. Dist(q.front, q.localTail, q.size) = Dist(r.front, r.localTail, r.size) - 1
    BY Indices, FrontOn
  <2>3. Dist(r.localFront, r.tail, r.size) \in 0..r.size - 1
    BY Indices, Distance
  <2>4. Beyond(r.front, r.size) \in 0..r.size - 1
    BY Indices, OneOn
  <2> QED BY <2>1, <2>2, <2>3, <2>4
<1>3. u >= 1 /\ u \in Nat /\ r.front # r.tail
  BY <1>1, <1>2, Indices
<1>4. Used(q) = u - 1
  BY <1>3, Indices, FrontOn DEF Used
<1>5. Slot(r, 1) = r.front
  <2>1. 1 \in 1..r.size
    BY Indices
  <2> QED BY <2>1, Indices, Turn, ZenonT(30) DEF Slot
<1>6. ASSUME NEW i \in 1..u - 1
      PROVE  /\ Slot(q, i) = Slot(r, i + 1) /\ Slot(r, i + 1) # r.front
             /\ Slot(r, i + 1) \in 0..r.size - 1 /\ i + 1 \in 1..u
  <2>1. i \in 1..r.size - 1 /\ i + 1 \in 1..u /\ i + 1 \in 1..r.size
    BY <1>1, <1>3, Indices
  <2>2. Dist(r.front, r.front, r.size) = 0
    <3>1. r.front \in 0..r.size - 1 /\ r.size \in Nat
      BY Indices
    <3> QED BY <3>1, Distance
  <2>3. Slot(q, i) = Slot(r, i + 1)
    BY <2>1, Indices, TurnOn DEF Slot
  <2>4. Slot(r, i + 1) # r.front
    <3>1. Turned(r.front, i + 1, r.size) = r.front <=> i + 1 = Dist(r.front, r.front, r.size) + 1
      BY <2>1, Indices, TurnedTo
    <3> QED BY <2>1, <2>2, <3>1 DEF Slot
  <2> QED BY <2>1, <2>3, <2>4, Indices
<1>7. /\ q.data = [i \in 0..q.size - 1 |-> q.data[i]]
      /\ \A i \in 0..r.size - 1 : i # r.front => q.data[i] = r.data[i]
  BY Indices DEF GoodBlock
<1>8. \A i \in 1..u - 1 : q.data[Slot(q, i)] = r.data[Slot(r, i + 1)]
  BY <1>6, <1>7
<1>9. \A i \in 1..u : r.data[Slot(r, i)] \in Entries
  BY DEF GoodBlock
<1> HIDE DEF u
<1>10. GoodBlock(q)
  <2>1. \A i \in 1..u - 1 : q.data[Slot(q, i)] \in Entries
    BY <1>6, <1>8, <1>9
  <2>2. /\ Dist(q.front, q.localTail, q.size) <= Used(q)
        /\ Used(q) <= Dist(q.localFront, q.tail, q.size)
    BY <1>1, <1>2, <1>3, <1>4
  <2>3. /\ q.size \in Nat /\ q.size >= 2
        /\ q.front \in 0..q.size - 1 /\ q.tail \in 0..q.size - 1
        /\ q.localFront \in 0..q.size - 1 /\ q.localTail \in 0..q.size - 1
    BY <1>2 DEF GoodBlock
  <2> QED BY <1>4, <1>7, <2>1, <2>2, <2>3 DEF GoodBlock
<1>11. /\ Items(r) \in Seq(Values) /\ Len(Items(r)) = u
       /\ Items(q) \in Seq(Values) /\ Len(Items(q)) = u - 1
  BY <1>4, <1>10, ItemsType DEF u
<1>12. \A i \in 1..u - 1 : Items(q)[i] = Items(r)[i + 1]
  BY <1>4, <1>6, <1>8 DEF Items, u
<1>13. Items(q) = Tail(Items(r)) /\ Items(r) # << >>
  BY <1>3, <1>11, <1>12
<1>14. r.data[r.front] \in Entries /\ Items(r)[1] = r.data[r.front][1]
  BY <1>3, <1>5, <1>9 DEF Items, u
<1>15. r.data[r.front] = <<Head(Items(r))>>
  BY <1>13, <1>14, <1>11 DEF Entries
<1> QED BY <1>10, <1>13, <1>15

\* a block as make_block() leaves it is empty
LEMMA FreshBlock ==
  ASSUME NEW m \in Nat, m >= 2, NEW r, IsBlock(r), r.front = 0, r.tail = 0, r.size = m,
         r.localFront = 0, r.localTail = 0, r.data = [i \in 0..m - 1 |-> << >>]
  PROVE  GoodBlock(r) /\ Items(r) = << >>
<1>1. Used(r) = 0 /\ Dist(r.front, r.localTail, r.size) = 0 /\ Dist(r.localFront, r.tail, r.size) = 0
  BY Distance DEF Used
<1>2. GoodBlock(r)
  BY <1>1 DEF GoodBlock
<1> QED BY <1>2, EmptyBlock

\* make_block() with the element in it
LEMMA FreshWithItem ==
  ASSUME NEW m \in Nat, m >= 2, NEW v \in Values, NEW r, IsBlock(r), r.front = 0, r.tail = 1,
         r.localFront = 0, r.localTail = 1, r.size = m,
         r.data = [[i \in 0..m - 1 |-> << >>] EXCEPT ![0] = <<v>>]
  PROVE  GoodBlock(r) /\ Items(r) = <<v>>
<1>1. Used(r) = 1 /\ Dist(r.front, r.localTail, r.size) = 1 /\ Dist(r.localFront, r.tail, r.size) = 1
  BY DEF Used, Dist
<1>2. Slot(r, 1) = 0 /\ r.data[0] = <<v>>
  BY DEF Slot, Turned
<1>3. GoodBlock(r)
  <2>1. \A i \in 1..Used(r) : r.data[Slot(r, i)] \in Entries
    BY <1>1, <1>2 DEF Entries
  <2> QED BY <1>1, <2>1 DEF GoodBlock
<1>4. Items(r) \in Seq(Values) /\ Len(Items(r)) = 1 /\ Items(r)[1] = v
  BY <1>1, <1>2, <1>3, ItemsType DEF Items
<1> QED BY <1>3, <1>4

-----------------------------------------------------------------------------
(* The ring of blocks.                                                       *)
(* What the recursive function of the model gives for a chain of blocks.     *)

\* the induction of this module: what fails, fails first somewhere
LEMMA LeastNatural ==
  ASSUME NEW T \in SUBSET Nat, T # {}
  PROVE  \E m \in T : \A k \in T : m <= k
<1> DEFINE Less == {p \in Nat \X Nat : p[1] < p[2]}
<1>1. IsWellFoundedOn(Less, Nat)
  BY NatLessThanWellFounded, Zenon DEF IsWellFoundedOn, OpToRel
<1>2. PICK m \in T : \A k \in T : ~(<<k, m>> \in Less)
  <2> HIDE DEF Less
  <2> QED BY <1>1, WFMin
<1>3. \A k \in T : ~(k < m)
  BY <1>2
<1> QED
  BY <1>3

\* one step of SpscQueue's recursive function Rest, and that g is that function
Spread(b, n, below) ==
  IF b = tailBlock \/ n = 0 THEN << >> ELSE InBlock(block[b].next) \o below[block[b].next]

Rests(k, g) == g = [n \in 0..k |-> [b \in Blocks |-> Spread(b, n, g[n - 1])]]

\* such a function exists
LEMMA RestExists ==
  ASSUME NEW k \in Nat
  PROVE  \E g : Rests(k, g)
<1> DEFINE Bad == {n \in Nat : ~ \E g : Rests(n, g)}
<1> SUFFICES ASSUME Bad # {} PROVE FALSE
  OBVIOUS
<1>1. PICK m \in Bad : \A n \in Bad : m <= n
  <2> HIDE DEF Bad
  <2>1. Bad \in SUBSET Nat
    BY DEF Bad
  <2> QED BY <2>1, LeastNatural
<1>2. CASE m = 0
  <2> DEFINE g == [n \in 0..0 |-> [b \in Blocks |-> << >>]]
  <2>1. Rests(0, g)
    BY SMTT(30) DEF Rests, Spread
  <2> QED BY <2>1, <1>1, <1>2
<1>3. CASE m # 0
  <2>1. m \in Nat /\ m - 1 \in Nat /\ m - 1 \notin Bad
    BY <1>1, <1>3
  <2>2. PICK g : Rests(m - 1, g)
    BY <2>1
  <2> DEFINE h == [n \in 0..m |-> IF n = m THEN [b \in Blocks |-> Spread(b, n, g[n - 1])] ELSE g[n]]
  <2>3. ASSUME NEW n \in 0..m PROVE h[n] = [b \in Blocks |-> Spread(b, n, h[n - 1])]
    <3>1. CASE n = m
      <4>1. h[n - 1] = g[n - 1]
        BY <2>1, <3>1
      <4> QED BY <4>1, <3>1
    <3>2. CASE n # m /\ n # 0
      <4>1. n \in 0..m-1 /\ n - 1 \in 0..m /\ n - 1 # m
        BY <2>1, <3>2
      <4>2. h[n] = g[n] /\ h[n - 1] = g[n - 1]
        BY <4>1
      <4>3. g[n] = [b \in Blocks |-> Spread(b, n, g[n - 1])]
        BY <4>1, <2>2 DEF Rests
      <4> QED BY <4>2, <4>3
    <3>3. CASE n # m /\ n = 0
      <4>1. g[n] = [b \in Blocks |-> Spread(b, n, g[n - 1])]
        BY <2>1, <3>3, <2>2 DEF Rests
      <4>2. h[n] = g[n]
        BY <3>3, <2>1
      <4> QED BY <4>1, <4>2, <3>3 DEF Spread
    <3> QED BY <3>1, <3>2, <3>3
  <2>4. h = [n \in 0..m |-> h[n]]
    OBVIOUS
  <2>5. Rests(m, h)
    BY <2>3, <2>4 DEF Rests
  <2> QED BY <2>5, <1>1
<1> QED BY <1>2, <1>3

\* so that Rest, which is CHOSEn, is one
LEMMA RestIs == Rests(Cardinality(Blocks), Rest)
<1>1. Cardinality(Blocks) \in Nat
  <2>1. IsFiniteSet(Blocks)
    BY QueueAssumption DEF QueueAssumption
  <2> QED BY <2>1, FS_CardinalityType
<1>2. PICK g : Rests(Cardinality(Blocks), g)
  BY <1>1, RestExists
<1>3. \E h : h = [n \in 0..Cardinality(Blocks) |-> [b \in Blocks |->
     IF b = tailBlock \/ n = 0 THEN << >>
     ELSE InBlock(block[b].next) \o h[n - 1][block[b].next]]]
  BY <1>2 DEF Rests, Spread
<1> QED BY <1>3, Zenon DEF Rest, Rests, Spread
\* f[i] is what the blocks from the i-th on hold
Sums(d, part, f) ==
  /\ f \in [0..d -> Seq(Values)]
  /\ \A i \in 0..d - 1 : part[i] \in Seq(Values) /\ f[i] = part[i] \o f[i + 1]

\* concatenation and agreement, under names that keep them folded in a step
With(s, w) == s \o w
SameFrom(m, d, part, pt) == \A i \in m..d - 1 : pt[i] = part[i]

\* what is added at the end of the last is added at the end of all
LEMMA SumsGrow ==
  ASSUME NEW d \in Nat, NEW part, NEW f, NEW pt, NEW g, Sums(d, part, f), Sums(d, pt, g),
         NEW m \in 0..d, SameFrom(m, d, part, pt),
         NEW w \in Seq(Values), g[d] = With(f[d], w)
  PROVE  \A i \in m..d : g[i] = With(f[i], w)
<1> DEFINE Bad == {k \in Nat : k <= d - m /\ g[d - k] # With(f[d - k], w)}
<1>1. SUFFICES ASSUME Bad # {} PROVE FALSE
  <2>1. ASSUME NEW i \in m..d PROVE g[i] = With(f[i], w)
    <3>1. d - i \in Nat /\ d - i <= d - m /\ d - (d - i) = i
      OBVIOUS
    <3> QED BY <3>1
  <2> QED BY <2>1
<1>2. PICK k \in Bad : \A n \in Bad : k <= n
  <2> HIDE DEF Bad
  <2>1. Bad \in SUBSET Nat
    BY DEF Bad
  <2> QED BY <1>1, <2>1, LeastNatural
<1>3. k \in Nat /\ k <= d - m /\ g[d - k] # With(f[d - k], w)
  BY <1>2
<1>4. k # 0
  BY <1>3
<1>5. k - 1 \in Nat /\ k - 1 <= d - m /\ d - (k - 1) = d - k + 1 /\ d - k \in m..d - 1 /\ d - k \in 0..d - 1
  BY <1>3, <1>4
<1>6. k - 1 \notin Bad
  <2> HIDE DEF Bad
  <2> QED BY <1>2, <1>3, <1>5
<1>7. g[d - k + 1] = With(f[d - k + 1], w)
  BY <1>5, <1>6
<1>8. PICK j \in 0..d - 1 : j = d - k
  BY <1>5
<1>9. PICK a \in Seq(Values), b \in Seq(Values) : g[j] = a \o (b \o w) /\ f[j] = a \o b
  <2>1. j \in m..d - 1 /\ j + 1 \in 0..d
    BY <1>5, <1>8
  <2> QED BY <1>7, <1>8, <2>1, ZenonT(40) DEF Sums, With, SameFrom
<1>10. g[j] = With(f[j], w)
  <2>1. (a \o b) \o w = a \o (b \o w)
    BY SMTT(30)
  <2>2. f[j] \o w = (a \o b) \o w
    BY <1>9
  <2> QED BY <1>9, <2>1, <2>2 DEF With
<1> QED BY <1>3, <1>8, <1>10

\* the blocks from the front block to the tail block
Chain(d, ord) ==
  /\ d \in Nat /\ ord \in [0..d -> Blocks]
  /\ \A i, j \in 0..d : ord[i] = ord[j] => i = j
  /\ ord[0] = frontBlock /\ ord[d] = tailBlock
  /\ \A i \in 0..d - 1 : block[ord[i]].next = ord[i + 1]
  /\ \A i \in 0..d : GoodBlock(block[ord[i]])

\* what each block of the chain holds
Parts(d, ord) == [i \in 0..d |-> Items(block[ord[i]])]

\* a chain is no longer than there are blocks
LEMMA ChainShort ==
  ASSUME NEW d \in Nat, NEW ord \in [0..d -> Blocks], \A i, j \in 0..d : ord[i] = ord[j] => i = j
  PROVE  d + 1 <= Cardinality(Blocks)
<1>1. ord \in Injection(0..d, Blocks)
  BY DEF Injection, IsInjective
<1>2. IsFiniteSet(Blocks)
  BY QueueAssumption DEF QueueAssumption
<1>3. Cardinality(0..d) <= Cardinality(Blocks)
  BY <1>1, <1>2, FS_Injection
<1>4. Cardinality(0..d) = d + 1
  BY FS_Interval
<1> QED BY <1>3, <1>4

\* Content is what the blocks of the chain hold, one after the other
LEMMA ContentIs ==
  \A d, ord : Chain(d, ord) =>
    \E f : Sums(d, Parts(d, ord), f) /\ f[d] = Items(block[tailBlock]) /\ f[0] = Content
<1> SUFFICES ASSUME NEW d, NEW ord, Chain(d, ord)
    PROVE \E f : Sums(d, Parts(d, ord), f) /\ f[d] = Items(block[tailBlock]) /\ f[0] = Content
  OBVIOUS
<1> DEFINE C == Cardinality(Blocks)
           f == [i \in 0..d |-> InBlock(ord[i]) \o Rest[C - i][ord[i]]]
<1>1. d \in Nat /\ ord \in [0..d -> Blocks] /\ C \in Nat /\ d + 1 <= C
  <2>1. C \in Nat
    BY QueueAssumption, FS_CardinalityType DEF QueueAssumption
  <2> QED BY <2>1, ChainShort DEF Chain
<1> HIDE DEF C
<1>2. Rest = [n \in 0..C |-> [b \in Blocks |-> Spread(b, n, Rest[n - 1])]]
  BY RestIs DEF Rests, C
<1>3. ASSUME NEW i \in 0..d PROVE InBlock(ord[i]) = Items(block[ord[i]]) /\ Items(block[ord[i]]) \in Seq(Values)
  <2>1. GoodBlock(block[ord[i]]) /\ ord[i] \in Blocks
    BY <1>1 DEF Chain
  <2> QED BY <2>1, InBlockIsItems, ItemsType
<1>4. f[d] = Items(block[tailBlock])
  <2>1. C - d \in 0..C /\ ord[d] = tailBlock /\ ord[d] \in Blocks /\ d \in 0..d
    BY <1>1 DEF Chain
  <2>2. Rest[C - d][ord[d]] = << >>
    BY <1>2, <2>1 DEF Spread
  <2>3. f[d] = Items(block[ord[d]]) \o << >> /\ Items(block[ord[d]]) \in Seq(Values)
    BY <1>3, <2>1, <2>2
  <2>4. Items(block[ord[d]]) \o << >> = Items(block[ord[d]])
    BY <2>3, ConcatEmptySeq
  <2> QED BY <2>1, <2>3, <2>4
<1>5. ASSUME NEW i \in 0..d - 1 PROVE f[i] = Items(block[ord[i]]) \o f[i + 1]
  <2>1. C - i \in 0..C /\ C - i # 0 /\ C - i - 1 = C - (i + 1) /\ i \in 0..d /\ i + 1 \in 0..d /\ d \in 0..d /\ i # d
    BY <1>1
  <2>2. ord[i] # tailBlock /\ ord[i] \in Blocks /\ block[ord[i]].next = ord[i + 1]
    BY <1>1, <2>1 DEF Chain
  <2>3. Rest[C - i][ord[i]] = InBlock(ord[i + 1]) \o Rest[C - (i + 1)][ord[i + 1]]
    <3>1. Rest[C - i] = [b \in Blocks |-> Spread(b, C - i, Rest[C - (i + 1)])]
      BY <1>2, <2>1
    <3>2. Rest[C - i][ord[i]] = Spread(ord[i], C - i, Rest[C - (i + 1)])
      BY <2>2, <3>1
    <3> QED BY <2>1, <2>2, <3>2 DEF Spread
  <2> QED BY <1>3, <2>1, <2>3
<1>6. f[0] = Content
  <2>1. ord[0] = frontBlock /\ 0 \in 0..d /\ C - 0 = C
    BY <1>1 DEF Chain
  <2> QED BY <2>1 DEF Content, C
<1> HIDE DEF f
<1>7. ASSUME NEW i \in 0..d PROVE f[i] \in Seq(Values)
  <2> DEFINE Bad == {k \in Nat : k <= d /\ f[d - k] \notin Seq(Values)}
  <2>1. SUFFICES ASSUME Bad # {} PROVE FALSE
    <3>1. d - i \in Nat /\ d - i <= d /\ d - (d - i) = i
      BY <1>1
    <3> QED BY <3>1
  <2>2. PICK k \in Bad : \A n \in Bad : k <= n
    <3> HIDE DEF Bad
    <3>1. Bad \in SUBSET Nat
      BY DEF Bad
    <3> QED BY <2>1, <3>1, LeastNatural
  <2>3. k \in Nat /\ k <= d /\ f[d - k] \notin Seq(Values)
    BY <2>2
  <2>4. k # 0
    <3>1. d \in 0..d /\ ord[d] = tailBlock
      BY <1>1 DEF Chain
    <3>2. f[d] \in Seq(Values)
      BY <1>3, <1>4, <3>1
    <3> QED BY <1>1, <2>3, <3>2
  <2>5. k - 1 \in Nat /\ k - 1 <= d /\ d - (k - 1) = d - k + 1 /\ d - k \in 0..d - 1 /\ d - k \in 0..d
    BY <1>1, <2>3, <2>4
  <2>6. f[d - k + 1] \in Seq(Values)
    BY <2>2, <2>5
  <2>7. f[d - k] = Items(block[ord[d - k]]) \o f[d - k + 1] /\ Items(block[ord[d - k]]) \in Seq(Values)
    BY <1>3, <1>5, <2>5
  <2> QED BY <2>3, <2>6, <2>7
<1>8. \A i \in 0..d - 1 : Parts(d, ord)[i] = Items(block[ord[i]]) /\ i \in 0..d
  BY <1>1 DEF Parts
<1>9. f = [i \in 0..d |-> f[i]]
  BY DEF f
<1>10. Sums(d, Parts(d, ord), f)
  BY <1>3, <1>5, <1>7, <1>8, <1>9 DEF Sums
<1> QED BY <1>4, <1>6, <1>10

\* and so it is after a step
LEMMA ContentIsPrimed ==
  (\A d, ord : Chain(d, ord) =>
     \E f : Sums(d, Parts(d, ord), f) /\ f[d] = Items(block[tailBlock]) /\ f[0] = Content)'
BY ContentIs, PTL

\* a sequence of values
LEMMA ContentType ==
  ASSUME NEW d, NEW ord, Chain(d, ord)
  PROVE  Content \in Seq(Values)
<1>1. PICK f : Sums(d, Parts(d, ord), f) /\ f[0] = Content
  BY ContentIs
<1>2. 0 \in 0..d
  BY DEF Chain
<1> QED BY <1>1, <1>2 DEF Sums

-----------------------------------------------------------------------------
(* The invariant of the queue.                                               *)

\* the blocks that are linked: all but one that is made and not yet linked
Ringed(p) == IF prod[p].at = "link" THEN 1..made - 1 ELSE 1..made
\* b is not in the chain
Off(d, ord, b) == \A i \in 0..d : ord[i] # b

\* every block made is good, and those linked form one ring: a permutation
BlocksOK(p) ==
  /\ block = [b \in Blocks |-> block[b]] /\ made \in Blocks
  /\ \A b \in 1..made : GoodBlock(block[b])
  /\ \A b \in Ringed(p) : block[b].next \in Ringed(p)
  /\ \A a, b \in Ringed(p) : block[a].next = block[b].next => a = b

\* the chain from the front to the tail block goes along the ring, only its first block
\* may be empty, and the blocks behind the tail block are empty but for the element
\* that the producer has put into the next one and not yet handed over
Chained(d, ord, p) ==
  /\ Chain(d, ord)
  /\ \A i \in 0..d : ord[i] \in Ringed(p)
  /\ \A i \in 1..d : Items(block[ord[i]]) # << >>
  /\ \A b \in Ringed(p) : Off(d, ord, b) =>
       Items(block[b]) = IF prod[p].at = "advance" /\ b = prod[p].b THEN prod[p].v ELSE << >>
  /\ prod[p].at = "reuse" => Off(d, ord, block[tailBlock].next)
  /\ prod[p].at \in {"republish", "advance"} => Off(d, ord, prod[p].b)

\* what the producer's locals still say of the queue at each of its places: there is room
\* in the slot it is about to fill, or has filled, and the consumer sees neither
ProdOK(p) ==
  /\ prod = [x \in Producers |-> prod[x]]
  /\ prod[p] = [at |-> prod[p].at, v |-> prod[p].v, b |-> prod[p].b, tl |-> prod[p].tl]
  /\ prod[p].at # "idle" => prod[p].v \in Entries
  /\ prod[p].at \in {"put", "publish", "full", "alloc", "reuse", "link"} => prod[p].b = tailBlock
  /\ prod[p].at \in {"put", "publish", "republish"} =>
       /\ prod[p].tl = block[prod[p].b].tail
       /\ Beyond(prod[p].tl, block[prod[p].b].size) # block[prod[p].b].localFront
  /\ prod[p].at \in {"publish", "republish"} => block[prod[p].b].data[prod[p].tl] = prod[p].v
  /\ prod[p].at \in {"republish", "advance"} =>
       prod[p].b \in Ringed(p) /\ prod[p].b = block[tailBlock].next
  /\ prod[p].at = "link" =>
       block[made].next = block[tailBlock].next /\ Items(block[made]) = prod[p].v

\* and the consumer's: the block it is in is the front block, and not empty once it has
\* found an element
ConsOK ==
  /\ cons = [at |-> cons.at, b |-> cons.b, v |-> cons.v]
  /\ cons.at # "idle" => cons.b = frontBlock
  /\ cons.at \in {"recheck", "move"} => frontBlock # tailBlock
  /\ cons.at = "move" => Items(block[frontBlock]) = << >>
  /\ cons.at \in {"take", "release"} => block[frontBlock].front # block[frontBlock].localTail
  /\ cons.at = "release" => cons.v = block[frontBlock].data[block[frontBlock].front]

\* the inductive invariant of the queue
QInv(p) == BlocksOK(p) /\ ProdOK(p) /\ ConsOK /\ \E d, ord : Chained(d, ord, p)

\* blocks are made in the order of their numbers
LEMMA MadeBlocks ==
  ASSUME NEW p \in Producers, BlocksOK(p)
  PROVE  made \in Nat /\ made >= 1 /\ 1..made \subseteq Blocks /\ Ringed(p) \subseteq 1..made
<1>1. Blocks = 1..Cardinality(Blocks) /\ Cardinality(Blocks) \in Nat
  BY QueueAssumption, FS_CardinalityType DEF QueueAssumption
<1>2. made \in Blocks
  BY DEF BlocksOK
<1> QED BY <1>1, <1>2 DEF Ringed

\* the front block and the tail block are in the chain
LEMMA Ends ==
  ASSUME NEW p \in Producers, BlocksOK(p), NEW d, NEW ord, Chained(d, ord, p)
  PROVE  /\ d \in Nat /\ frontBlock \in Ringed(p) /\ tailBlock \in Ringed(p)
         /\ frontBlock \in 1..made /\ tailBlock \in 1..made
         /\ GoodBlock(block[frontBlock]) /\ GoodBlock(block[tailBlock])
         /\ ~Off(d, ord, frontBlock) /\ ~Off(d, ord, tailBlock)
<1>1. d \in Nat /\ ord[0] = frontBlock /\ ord[d] = tailBlock /\ 0 \in 0..d /\ d \in 0..d
  BY DEF Chained, Chain
<1>2. frontBlock \in Ringed(p) /\ tailBlock \in Ringed(p)
  BY <1>1 DEF Chained
<1> QED BY <1>1, <1>2, MadeBlocks DEF BlocksOK, Off

\* what is added at the end of the tail block is added at the end of the queue
LEMMA SameChain ==
  ASSUME NEW d, NEW ord, Chain(d, ord), Chain(d, ord)',
         NEW w \in Seq(Values), Items(block[tailBlock])' = With(Items(block[tailBlock]), w),
         \A i \in 0..d - 1 : Items(block[ord[i]])' = Items(block[ord[i]])
  PROVE  Content' = With(Content, w)
<1>1. PICK f : Sums(d, Parts(d, ord), f) /\ f[d] = Items(block[tailBlock]) /\ f[0] = Content
  BY ContentIs
<1>2. PICK g : Sums(d, Parts(d, ord)', g) /\ g[d] = Items(block[tailBlock])' /\ g[0] = Content'
  <2>1. (\E h : Sums(d, Parts(d, ord), h) /\ h[d] = Items(block[tailBlock]) /\ h[0] = Content)'
    BY ContentIsPrimed
  <2> QED BY <2>1 DEF Sums
<1>3. d \in Nat
  BY DEF Chain
<1>4. \A i \in 0..d - 1 : Parts(d, ord)'[i] = Parts(d, ord)[i]
  BY <1>3 DEF Parts
<1>5. g[d] = With(f[d], w)
  BY <1>1, <1>2
<1>6. 0 \in 0..d
  BY <1>3
<1>7. \A i \in 0..d : g[i] = With(f[i], w)
  <2>1. PICK part, pt : part = Parts(d, ord) /\ pt = Parts(d, ord)'
    OBVIOUS
  <2>2. Sums(d, part, f) /\ Sums(d, pt, g) /\ \A i \in 0..d - 1 : pt[i] = part[i]
    BY <1>1, <1>2, <1>4, <2>1
  <2>3. SameFrom(0, d, part, pt)
    BY <2>2 DEF SameFrom
  <2> QED BY <1>3, <1>5, <1>6, <2>2, <2>3, SumsGrow
<1> QED BY <1>1, <1>2, <1>6, <1>7

\* a step after which every block holds the same, in the same ring
LEMMA SameBlocks ==
  ASSUME NEW p \in Producers, NEW d, NEW ord, BlocksOK(p), Chained(d, ord, p),
         UNCHANGED <<frontBlock, tailBlock, made>>, Ringed(p)' = Ringed(p),
         block' = [b \in Blocks |-> block'[b]],
         \A b \in 1..made : GoodBlock(block[b])' /\ Items(block[b])' = Items(block[b])
                              /\ block'[b].next = block[b].next,
         (prod[p].at # "advance" /\ prod'[p].at # "advance") \/ prod' = prod,
         prod'[p].at = "reuse" => prod' = prod \/ Off(d, ord, block[tailBlock].next),
         prod'[p].at = "republish" => prod' = prod \/ Off(d, ord, prod'[p].b)
  PROVE  BlocksOK(p)' /\ Chained(d, ord, p)' /\ Content' = Content
<1>1. BlocksOK(p)'
  <2>1. \A b \in Ringed(p) : block'[b].next = block[b].next /\ block'[b].next \in Ringed(p)
    BY MadeBlocks DEF BlocksOK
  <2>2. \A a, b \in Ringed(p) : block'[a].next = block'[b].next => a = b
    BY <2>1 DEF BlocksOK
  <2>3. \A b \in 1..made : GoodBlock(block[b])'
    OBVIOUS
  <2>4. made' = made /\ made \in Blocks
    BY DEF BlocksOK
  <2> QED BY <2>1, <2>2, <2>3, <2>4 DEF BlocksOK
<1>2. d \in Nat /\ \A i \in 0..d : ord[i] \in 1..made
  BY MadeBlocks DEF Chained, Chain
<1>3. Chain(d, ord)'
  BY <1>2 DEF Chained, Chain
<1>4. Chained(d, ord, p)'
  <2>1. \A i \in 1..d : Items(block[ord[i]])' # << >>
    BY <1>2 DEF Chained
  <2>2. \A b \in Ringed(p) : Off(d, ord, b) =>
           Items(block[b])' = IF prod'[p].at = "advance" /\ b = prod'[p].b THEN prod'[p].v ELSE << >>
    BY MadeBlocks DEF Chained
  <2>3. block'[tailBlock].next = block[tailBlock].next
    BY Ends
  <2>4. /\ prod'[p].at = "reuse" => Off(d, ord, block'[tailBlock].next)
        /\ prod'[p].at \in {"republish", "advance"} => Off(d, ord, prod'[p].b)
    BY <2>3 DEF Chained
  <2>5. \A i \in 0..d : ord[i] \in Ringed(p)
    BY DEF Chained
  <2> QED BY <1>3, <2>1, <2>2, <2>4, <2>5 DEF Chained, Off
<1>5. Content' = With(Content, << >>)
  <2>1. Items(block[tailBlock])' = Items(block[tailBlock])
    BY Ends
  <2>2. PICK w \in Seq(Values) : w = << >>
    <3>1. << >> \in Seq(Values)
      OBVIOUS
    <3> QED BY <3>1, Zenon
  <2>6. Items(block[tailBlock])' = With(Items(block[tailBlock]), w)
    BY <2>1, <2>2, Ends, ItemsType DEF With
  <2>3. \A i \in 0..d - 1 : Items(block[ord[i]])' = Items(block[ord[i]])
    BY <1>2
  <2>5. Chain(d, ord)
    BY DEF Chained
  <2>7. Content' = With(Content, w)
    BY <1>3, <2>3, <2>5, <2>6, SameChain
  <2> QED BY <2>2, <2>7
<1>6. Content \in Seq(Values)
  BY ContentType DEF Chained
<1> QED BY <1>1, <1>4, <1>5, <1>6 DEF With

-----------------------------------------------------------------------------
(* The producer.                                                             *)

\* the element at the front is the first of the queue
LEMMA NotEmpty ==
  ASSUME NEW r, GoodBlock(r)
  PROVE  /\ r.front # r.localTail => r.front # r.tail
         /\ Beyond(r.tail, r.size) = r.front => Beyond(r.tail, r.size) = r.localFront
<1>1. r.front # r.localTail => r.front # r.tail
  <2>1. Dist(r.front, r.localTail, r.size) = 0 <=> r.front = r.localTail
    <3>1. r.size \in Nat /\ r.front \in 0..r.size - 1 /\ r.localTail \in 0..r.size - 1
      BY Indices
    <3> QED BY <3>1, Distance, ZenonT(40)
  <2> QED BY <2>1, Indices, Copies
<1>2. ASSUME Beyond(r.tail, r.size) = r.front, Beyond(r.tail, r.size) # r.localFront PROVE FALSE
  <2>1. Dist(r.front, r.tail, r.size) = r.size - 1
    BY <1>2, Indices, TailOn
  <2>2. Dist(r.localFront, r.tail, r.size) # r.size - 1
    BY <1>2, Indices, TailOn
  <2>3. Used(r) = r.size - 1
    BY <2>1 DEF Used
  <2> QED BY <2>2, <2>3, Indices, Copies
<1> QED BY <1>1, <1>2

\* a consumer's step keeps what the producer knows
LEMMA ProdKept ==
  ASSUME NEW p \in Producers, NEW d, NEW ord, BlocksOK(p), ProdOK(p), Chained(d, ord, p),
         UNCHANGED <<tailBlock, made, prod>>,
         \A b \in 1..made :
           /\ block'[b].tail = block[b].tail /\ block'[b].localFront = block[b].localFront
           /\ block'[b].next = block[b].next /\ block'[b].size = block[b].size
           /\ block'[b].data[block[b].tail] = block[b].data[block[b].tail],
         prod[p].at = "link" => Items(block[made])' = Items(block[made])
  PROVE  ProdOK(p)' /\ Ringed(p)' = Ringed(p)
<1>1. Ringed(p)' = Ringed(p)
  BY DEF Ringed
<1>2. made \in 1..made /\ tailBlock \in 1..made
  BY Ends, MadeBlocks
<1>3. prod[p].at \in {"put", "publish", "republish"} => prod[p].b \in 1..made
  BY <1>2, MadeBlocks DEF ProdOK
<1>4. prod[p].at \in {"put", "publish", "republish"} => prod[p].tl = block[prod[p].b].tail
  BY DEF ProdOK
<1> QED BY <1>1, <1>2, <1>3, <1>4 DEF ProdOK

\* a producer's step keeps what the consumer knows
LEMMA ConsKept ==
  ASSUME NEW p \in Producers, NEW d, NEW ord, BlocksOK(p), ConsOK, Chained(d, ord, p),
         UNCHANGED <<frontBlock, cons>>,
         cons.at \in {"recheck", "move"} => tailBlock' # frontBlock,
         block'[frontBlock].front = block[frontBlock].front,
         block'[frontBlock].localTail = block[frontBlock].localTail,
         cons.at = "move" => Items(block[frontBlock])' = Items(block[frontBlock]),
         block[frontBlock].front # block[frontBlock].tail =>
           block'[frontBlock].data[block[frontBlock].front] = block[frontBlock].data[block[frontBlock].front]
  PROVE  ConsOK'
<1>1. GoodBlock(block[frontBlock])
  BY Ends
<1>2. cons.at = "release" => block[frontBlock].front # block[frontBlock].tail
  BY <1>1, NotEmpty DEF ConsOK
<1> QED BY <1>2 DEF ConsOK

-----------------------------------------------------------------------------

\* Enqueue(p, v): the copy of the front is brought up to date if it must be
LEMMA EnqueueStep ==
  ASSUME NEW p \in Producers, NEW v \in Values, QInv(p), Enqueue(p, v)
  PROVE  QInv(p)' /\ Content' = Content
<1>1. PICK d, ord : Chained(d, ord, p)
  BY DEF QInv
<1> DEFINE tb == tailBlock
           r == block[tb]
<1>2. /\ tb \in 1..made /\ tb \in Blocks /\ GoodBlock(r) /\ block = [b \in Blocks |-> block[b]]
      /\ 1..made \subseteq Blocks /\ made \in Blocks
  BY <1>1, Ends, MadeBlocks DEF QInv, BlocksOK
<1>3. After(tb, r.tail) = Beyond(r.tail, r.size)
  BY <1>2, Indices, OneOn DEF After
<1>4. /\ block' = [b \in Blocks |-> block'[b]]
      /\ \A b \in Blocks : b # tb => block'[b] = block[b]
      /\ block'[tb] = r \/ block'[tb] = [r EXCEPT !.localFront = r.front]
      /\ Beyond(r.tail, r.size) = r.localFront => block'[tb] = [r EXCEPT !.localFront = r.front]
      /\ UNCHANGED <<frontBlock, tailBlock, made, cons, last>>
      /\ prod[p].at = "idle"
      /\ prod' = [prod EXCEPT ![p] =
              [at |-> IF Beyond(r.tail, r.size) = r.localFront /\ Beyond(r.tail, r.size) = r.front
                      THEN "full" ELSE "put",
               v |-> <<v>>, b |-> tb, tl |-> r.tail]]
  BY <1>2, <1>3 DEF Enqueue, ring
<1> HIDE DEF r, tb
<1>5. /\ IsBlock(block'[tb]) /\ block'[tb].front = r.front /\ block'[tb].tail = r.tail
      /\ block'[tb].size = r.size /\ block'[tb].data = r.data /\ block'[tb].localTail = r.localTail
      /\ block'[tb].localFront \in {r.localFront, r.front} /\ block'[tb].next = r.next
      /\ Beyond(r.tail, r.size) = r.localFront => block'[tb].localFront = r.front
  <2>1. IsBlock(r)
    BY <1>2 DEF GoodBlock
  <2> QED BY <1>4, <2>1 DEF IsBlock
<1>6. GoodBlock(block'[tb]) /\ Items(block'[tb]) = Items(r)
  BY <1>2, <1>5, SameItems
<1>7. \A b \in 1..made : GoodBlock(block[b])' /\ Items(block[b])' = Items(block[b])
                              /\ block'[b].next = block[b].next
  BY <1>2, <1>4, <1>5, <1>6 DEF QInv, BlocksOK, r
<1>8. prod'[p] = [at |-> IF Beyond(r.tail, r.size) = r.localFront /\ Beyond(r.tail, r.size) = r.front
                      THEN "full" ELSE "put", v |-> <<v>>, b |-> tb, tl |-> r.tail]
      /\ prod' = [x \in Producers |-> prod'[x]]
  BY <1>4 DEF QInv, ProdOK
<1>9. Ringed(p)' = Ringed(p)
  BY <1>4, <1>8 DEF Ringed
<1>10. BlocksOK(p)' /\ Chained(d, ord, p)' /\ Content' = Content
  BY <1>1, <1>4, <1>7, <1>8, <1>9, SameBlocks DEF QInv
<1>11. ProdOK(p)'
  <2>1. <<v>> \in Entries
    BY DEF Entries
  <2>2. prod'[p].at = "put" => Beyond(r.tail, r.size) # block'[tb].localFront
    BY <1>2, <1>5, <1>8, NotEmpty
  <2> QED BY <1>4, <1>5, <1>8, <2>1, <2>2 DEF ProdOK, tb
<1>12. ConsOK'
  <2>1. /\ frontBlock \in 1..made /\ frontBlock \in Blocks
    BY <1>1, <1>2, Ends DEF QInv
  <2>2. /\ block'[frontBlock].front = block[frontBlock].front
        /\ block'[frontBlock].localTail = block[frontBlock].localTail
        /\ block'[frontBlock].data = block[frontBlock].data
        /\ Items(block[frontBlock])' = Items(block[frontBlock])
    BY <1>4, <1>5, <1>6, <2>1 DEF r
  <2>3. cons.at \in {"recheck", "move"} => tailBlock' # frontBlock
    BY <1>4 DEF QInv, ConsOK
  <2> QED BY <1>1, <1>4, <2>2, <2>3, ConsKept DEF QInv
<1> QED BY <1>10, <1>11, <1>12 DEF QInv

\* Put() fills a slot that is not yet one of the elements
LEMMA PutStep ==
  ASSUME NEW p \in Producers, QInv(p), Put(p)
  PROVE  QInv(p)' /\ Content' = Content
<1>1. PICK d, ord : Chained(d, ord, p)
  BY DEF QInv
<1> DEFINE tb == tailBlock
           r == block[tb]
<1>2. /\ tb \in 1..made /\ tb \in Blocks /\ GoodBlock(r) /\ block = [b \in Blocks |-> block[b]]
      /\ 1..made \subseteq Blocks /\ made \in Blocks /\ frontBlock \in 1..made
  BY <1>1, Ends, MadeBlocks DEF QInv, BlocksOK
<1>3. /\ prod[p].at = "put" /\ prod[p].b = tb /\ prod[p].tl = r.tail /\ prod[p].v \in Entries
      /\ Beyond(r.tail, r.size) # r.localFront
  BY DEF Put, QInv, ProdOK
<1>4. /\ block' = [b \in Blocks |-> block'[b]]
      /\ \A b \in Blocks : b # tb => block'[b] = block[b]
      /\ block'[tb] = [r EXCEPT !.data[r.tail] = prod[p].v]
      /\ UNCHANGED <<frontBlock, tailBlock, made, cons, last>>
      /\ prod' = [prod EXCEPT ![p].at = "publish"]
  BY <1>2, <1>3 DEF Put, Step, ring
<1> HIDE DEF r, tb
<1>5. /\ IsBlock(block'[tb]) /\ block'[tb].front = r.front /\ block'[tb].tail = r.tail
      /\ block'[tb].size = r.size /\ block'[tb].data = [r.data EXCEPT ![r.tail] = prod[p].v]
      /\ block'[tb].localTail = r.localTail
      /\ block'[tb].localFront = r.localFront /\ block'[tb].next = r.next
  <2>1. IsBlock(r)
    BY <1>2 DEF GoodBlock
  <2> QED BY <1>4, <2>1 DEF IsBlock
<1>6. GoodBlock(block'[tb]) /\ Items(block'[tb]) = Items(r) /\ block'[tb].data[r.tail] = prod[p].v
  <2>1. /\ block'[tb].data = [i \in 0..r.size - 1 |-> block'[tb].data[i]]
        /\ block'[tb].data[r.tail] = prod[p].v
        /\ \A i \in 0..r.size - 1 : i # r.tail => block'[tb].data[i] = r.data[i]
    BY <1>2, <1>5, Indices DEF GoodBlock
  <2> QED BY <1>2, <1>5, <2>1, PutInTail
<1>7. \A b \in 1..made : GoodBlock(block[b])' /\ Items(block[b])' = Items(block[b])
                              /\ block'[b].next = block[b].next
  BY <1>2, <1>4, <1>5, <1>6 DEF QInv, BlocksOK, r
<1>8. prod'[p] = [at |-> "publish", v |-> prod[p].v, b |-> prod[p].b, tl |-> prod[p].tl]
      /\ prod' = [x \in Producers |-> prod'[x]]
  BY <1>4 DEF QInv, ProdOK
<1>9. Ringed(p)' = Ringed(p)
  BY <1>3, <1>4, <1>8 DEF Ringed
<1>10. BlocksOK(p)' /\ Chained(d, ord, p)' /\ Content' = Content
  BY <1>1, <1>3, <1>4, <1>7, <1>8, <1>9, SameBlocks DEF QInv
<1>11. ProdOK(p)'
  <2>1. /\ prod'[p].at = "publish" /\ prod'[p].v = prod[p].v /\ prod'[p].b = tb /\ prod'[p].tl = r.tail
        /\ tailBlock' = tb
    BY <1>3, <1>4, <1>8 DEF tb
  <2>2. /\ block'[tb].tail = r.tail /\ block'[tb].size = r.size /\ block'[tb].localFront = r.localFront
        /\ block'[tb].data[r.tail] = prod[p].v
    BY <1>5, <1>6
  <2> QED BY <1>3, <1>8, <2>1, <2>2 DEF ProdOK
<1>12. ConsOK'
  <2>1. block[frontBlock].front # block[frontBlock].tail =>
           block'[frontBlock].data[block[frontBlock].front] = block[frontBlock].data[block[frontBlock].front]
    BY <1>2, <1>4, <1>5, Indices, ZenonT(40) DEF r, GoodBlock
  <2>2. /\ block'[frontBlock].front = block[frontBlock].front
        /\ block'[frontBlock].localTail = block[frontBlock].localTail
        /\ Items(block[frontBlock])' = Items(block[frontBlock])
    BY <1>2, <1>4, <1>5, <1>6 DEF r
  <2>3. cons.at \in {"recheck", "move"} => tailBlock' # frontBlock
    BY <1>4 DEF QInv, ConsOK
  <2> QED BY <1>1, <1>4, <2>1, <2>2, <2>3, ConsKept DEF QInv
<1> QED BY <1>10, <1>11, <1>12 DEF QInv

\* a step of the producer that leaves the blocks alone
LEMMA ProdAlone ==
  ASSUME NEW p \in Producers, QInv(p), NEW d, NEW ord, Chained(d, ord, p),
         UNCHANGED <<block, frontBlock, tailBlock, made, cons>>,
         prod[p].at \notin {"advance", "link"}, prod'[p].at \notin {"advance", "link", "republish"},
         prod'[p].at = "reuse" => Off(d, ord, block[tailBlock].next)
  PROVE  BlocksOK(p)' /\ Chained(d, ord, p)' /\ ConsOK' /\ Content' = Content
<1>1. Ringed(p)' = Ringed(p)
  BY DEF Ringed
<1>2. BlocksOK(p)' /\ Chained(d, ord, p)' /\ Content' = Content
  BY <1>1, SameBlocks DEF QInv, BlocksOK
<1>3. ConsOK'
  BY ConsKept DEF QInv, ConsOK
<1> QED BY <1>2, <1>3

\* Ahead(): a next block that is not the front block is not in the chain, and empty
LEMMA AheadStep ==
  ASSUME NEW p \in Producers, QInv(p), Ahead(p)
  PROVE  QInv(p)' /\ Content' = Content
<1>1. PICK d, ord : Chained(d, ord, p)
  BY DEF QInv
<1>2. prod[p].at = "full" /\ prod[p].b = tailBlock /\ prod[p].v \in Entries
      /\ UNCHANGED <<block, frontBlock, tailBlock, made, cons, last>>
      /\ prod' = [prod EXCEPT ![p].at = IF block[tailBlock].next # frontBlock THEN "reuse" ELSE "alloc"]
  BY DEF Ahead, QInv, ProdOK, Step, ring
<1>3. prod'[p] = [at |-> IF block[tailBlock].next # frontBlock THEN "reuse" ELSE "alloc",
                  v |-> prod[p].v, b |-> prod[p].b, tl |-> prod[p].tl]
      /\ prod' = [x \in Producers |-> prod'[x]]
  BY <1>2 DEF QInv, ProdOK
<1>4. block[tailBlock].next # frontBlock => Off(d, ord, block[tailBlock].next)
  <2>1. SUFFICES ASSUME NEW i \in 0..d, ord[i] = block[tailBlock].next PROVE ord[i] = frontBlock
    BY DEF Off
  <2>2. CASE i = 0
    BY <1>1, <2>2 DEF Chained, Chain
  <2>3. CASE i # 0
    <3>1. d \in Nat /\ i - 1 \in 0..d - 1 /\ i - 1 \in 0..d /\ d \in 0..d /\ i - 1 # d /\ i - 1 + 1 = i
      BY <1>1, <2>3 DEF Chained, Chain
    <3>2. block[ord[i - 1]].next = ord[i] /\ ord[d] = tailBlock /\ ord[i - 1] \in Ringed(p) /\ ord[d] \in Ringed(p)
      BY <1>1, <3>1 DEF Chained, Chain
    <3>3. ord[i - 1] = ord[d]
      BY <2>1, <3>2 DEF QInv, BlocksOK
    <3> QED BY <1>1, <3>1, <3>3 DEF Chained, Chain
  <2> QED BY <2>2, <2>3
<1>5. BlocksOK(p)' /\ Chained(d, ord, p)' /\ ConsOK' /\ Content' = Content
  BY <1>1, <1>2, <1>3, <1>4, ProdAlone
<1>6. ProdOK(p)'
  BY <1>2, <1>3 DEF ProdOK
<1> QED BY <1>5, <1>6 DEF QInv

\* OutOfMemory(): the element was nowhere yet
LEMMA OutOfMemoryStep ==
  ASSUME NEW p \in Producers, QInv(p), OutOfMemory(p)
  PROVE  QInv(p)' /\ Content' = Content
<1>1. PICK d, ord : Chained(d, ord, p)
  BY DEF QInv
<1>2. prod[p].at = "alloc"
      /\ UNCHANGED <<block, frontBlock, tailBlock, made, cons, last>>
      /\ prod' = [prod EXCEPT ![p] = ResetProd]
  BY DEF OutOfMemory, ring
<1>3. prod'[p] = [at |-> "idle", v |-> << >>, b |-> 1, tl |-> 0] /\ prod' = [x \in Producers |-> prod'[x]]
  BY <1>2 DEF QInv, ProdOK, ResetProd
<1>4. BlocksOK(p)' /\ Chained(d, ord, p)' /\ ConsOK' /\ Content' = Content
  BY <1>1, <1>2, <1>3, ProdAlone
<1>5. ProdOK(p)'
  BY <1>3 DEF ProdOK
<1> QED BY <1>4, <1>5 DEF QInv

\* Reuse() fills a slot of the next block, empty and out of the consumer's sight
LEMMA ReuseStep ==
  ASSUME NEW p \in Producers, QInv(p), Reuse(p)
  PROVE  QInv(p)' /\ Content' = Content
<1>1. PICK d, ord : Chained(d, ord, p)
  BY DEF QInv
<1> DEFINE nb == block[tailBlock].next
           r == block[nb]
<1>2. /\ prod[p].at = "reuse" /\ prod[p].b = tailBlock /\ prod[p].v \in Entries
  BY DEF Reuse, QInv, ProdOK
<1>3. /\ nb \in Ringed(p) /\ nb \in 1..made /\ nb \in Blocks /\ GoodBlock(r) /\ block = [b \in Blocks |-> block[b]]
      /\ 1..made \subseteq Blocks /\ made \in Blocks /\ frontBlock \in 1..made
      /\ Off(d, ord, nb) /\ nb # frontBlock /\ nb # tailBlock /\ Items(r) = << >>
  <2>1. nb \in Ringed(p) /\ Off(d, ord, nb)
    BY <1>1, <1>2, Ends DEF QInv, BlocksOK, Chained
  <2>2. nb # frontBlock /\ nb # tailBlock
    BY <1>1, <2>1, Ends DEF QInv
  <2>3. Items(r) = << >>
    BY <1>1, <1>2, <2>1 DEF Chained
  <2> QED BY <1>1, <2>1, <2>2, <2>3, Ends, MadeBlocks DEF QInv, BlocksOK
<1>4. /\ block' = [b \in Blocks |-> block'[b]]
      /\ \A b \in Blocks : b # nb => block'[b] = block[b]
      /\ block'[nb] = [r EXCEPT !.localFront = r.front, !.data[r.tail] = prod[p].v]
      /\ UNCHANGED <<frontBlock, tailBlock, made, cons, last>>
      /\ prod' = [prod EXCEPT ![p] = [@ EXCEPT !.at = "republish", !.b = nb, !.tl = r.tail]]
  BY <1>2, <1>3 DEF Reuse, ring
<1>13. nb = block[tailBlock].next
  OBVIOUS
<1> HIDE DEF r, nb
<1>5. /\ IsBlock(block'[nb]) /\ block'[nb].front = r.front /\ block'[nb].tail = r.tail
      /\ block'[nb].size = r.size /\ block'[nb].data = [r.data EXCEPT ![r.tail] = prod[p].v]
      /\ block'[nb].localTail = r.localTail
      /\ block'[nb].localFront = r.front /\ block'[nb].next = r.next
  <2>1. IsBlock(r)
    BY <1>3 DEF GoodBlock
  <2> QED BY <1>4, <2>1 DEF IsBlock
<1>6. GoodBlock(block'[nb]) /\ Items(block'[nb]) = Items(r) /\ block'[nb].data[r.tail] = prod[p].v
  <2>1. /\ block'[nb].data = [i \in 0..r.size - 1 |-> block'[nb].data[i]]
        /\ block'[nb].data[r.tail] = prod[p].v
        /\ \A i \in 0..r.size - 1 : i # r.tail => block'[nb].data[i] = r.data[i]
    BY <1>3, <1>5, Indices DEF GoodBlock
  <2> QED BY <1>3, <1>5, <2>1, PutInTail
<1>7. \A b \in 1..made : GoodBlock(block[b])' /\ Items(block[b])' = Items(block[b])
                              /\ block'[b].next = block[b].next
  BY <1>3, <1>4, <1>5, <1>6 DEF QInv, BlocksOK, r
<1>8. prod'[p] = [at |-> "republish", v |-> prod[p].v, b |-> nb, tl |-> r.tail]
      /\ prod' = [x \in Producers |-> prod'[x]]
  BY <1>4 DEF QInv, ProdOK
<1>9. Ringed(p)' = Ringed(p)
  BY <1>2, <1>4, <1>8 DEF Ringed
<1>10. BlocksOK(p)' /\ Chained(d, ord, p)' /\ Content' = Content
  BY <1>1, <1>2, <1>3, <1>4, <1>7, <1>8, <1>9, SameBlocks, ZenonT(40) DEF QInv
<1>11. ProdOK(p)'
  <2>1. Beyond(r.tail, r.size) # r.front
    <3>1. r.front = r.tail
      BY <1>3, EmptyBlock
    <3> QED BY <1>3, <3>1, Indices, OneOn
  <2>2. nb \in Ringed(p)' /\ nb = block'[tailBlock'].next
    BY <1>3, <1>4, <1>9, <1>13, Ends, <1>1 DEF QInv
  <2>3. /\ prod'[p].at = "republish" /\ prod'[p].b = nb /\ prod'[p].tl = block'[nb].tail
        /\ prod'[p].v = prod[p].v /\ prod'[p].tl = r.tail
        /\ prod'[p] = [at |-> prod'[p].at, v |-> prod'[p].v, b |-> prod'[p].b, tl |-> prod'[p].tl]
    BY <1>5, <1>8
  <2>4. /\ Beyond(prod'[p].tl, block'[nb].size) # block'[nb].localFront
        /\ block'[nb].data[prod'[p].tl] = prod'[p].v
    BY <1>5, <1>6, <2>1, <2>3
  <2> QED BY <1>2, <1>8, <2>2, <2>3, <2>4 DEF ProdOK
<1>12. ConsOK'
  <2>1. block'[frontBlock] = block[frontBlock]
    BY <1>3, <1>4
  <2>3. cons.at \in {"recheck", "move"} => tailBlock' # frontBlock
    BY <1>4 DEF QInv, ConsOK
  <2> QED BY <1>1, <1>4, <2>1, <2>3, ConsKept DEF QInv
<1> QED BY <1>10, <1>11, <1>12 DEF QInv

\* a step that adds w at the end of the tail block, in the same ring
LEMMA RingStep ==
  ASSUME NEW p \in Producers, NEW d, NEW ord, BlocksOK(p), Chained(d, ord, p),
         UNCHANGED <<frontBlock, tailBlock>>, made' \in Blocks, Ringed(p)' = Ringed(p),
         block' = [b \in Blocks |-> block'[b]],
         \A b \in 1..made' : GoodBlock(block[b])',
         \A b \in Ringed(p) : block'[b].next = block[b].next,
         NEW w \in Seq(Values), Items(block[tailBlock])' = With(Items(block[tailBlock]), w),
         \A b \in Ringed(p) : b # tailBlock /\ ~Off(d, ord, b) => Items(block[b])' = Items(block[b]),
         \A b \in Ringed(p) : Off(d, ord, b) =>
           Items(block[b])' = IF prod'[p].at = "advance" /\ b = prod'[p].b THEN prod'[p].v ELSE << >>,
         prod'[p].at = "reuse" => Off(d, ord, block[tailBlock].next),
         prod'[p].at \in {"republish", "advance"} => Off(d, ord, prod'[p].b)
  PROVE  BlocksOK(p)' /\ Chained(d, ord, p)' /\ Content' = With(Content, w)
<1>1. BlocksOK(p)'
  <2>1. \A b \in Ringed(p) : block'[b].next = block[b].next /\ block'[b].next \in Ringed(p)
    BY DEF BlocksOK
  <2>2. \A a, b \in Ringed(p) : block'[a].next = block'[b].next => a = b
    BY <2>1 DEF BlocksOK
  <2> QED BY <2>1, <2>2 DEF BlocksOK
<1>2. d \in Nat /\ \A i \in 0..d : ord[i] \in Ringed(p) /\ ~Off(d, ord, ord[i])
  BY DEF Chained, Chain, Off
<1>3. \A b \in Ringed(p) : GoodBlock(block[b])'
  <2>1. \A b \in Ringed(p)' : b \in 1..made'
    <3>1. made' \in Nat
      BY QueueAssumption, FS_CardinalityType DEF QueueAssumption
    <3> QED BY <3>1 DEF Ringed
  <2> QED BY <2>1
<1>4. Chain(d, ord)'
  BY <1>2, <1>3 DEF Chained, Chain
<1>5. tailBlock \in Ringed(p) /\ Items(block[tailBlock]) \in Seq(Values)
  BY Ends, ItemsType
<1>6. Chained(d, ord, p)'
  <2>1. ASSUME NEW i \in 1..d PROVE Items(block[ord[i]])' # << >>
    <3>1. i \in 0..d /\ Items(block[ord[i]]) # << >>
      BY <1>2 DEF Chained
    <3>2. CASE ord[i] = tailBlock
      BY <1>5, <3>1, <3>2 DEF With
    <3>3. CASE ord[i] # tailBlock
      BY <1>2, <3>1, <3>3
    <3> QED BY <3>2, <3>3
  <2>2. block'[tailBlock].next = block[tailBlock].next
    BY <1>5
  <2>3. \A i \in 0..d : ord[i] \in Ringed(p)
    BY <1>2
  <2> QED BY <1>4, <2>1, <2>2, <2>3 DEF Chained, Off
<1>7. Content' = With(Content, w)
  <2>1. ASSUME NEW i \in 0..d - 1 PROVE Items(block[ord[i]])' = Items(block[ord[i]])
    <3>1. i \in 0..d /\ d \in 0..d /\ i # d /\ ord[d] = tailBlock
      BY <1>2 DEF Chained, Chain
    <3>2. ord[i] # tailBlock
      BY <3>1 DEF Chained, Chain
    <3> QED BY <1>2, <3>1, <3>2
  <2>2. Chain(d, ord)
    BY DEF Chained
  <2> QED BY <1>4, <2>1, <2>2, SameChain
<1> QED BY <1>1, <1>6, <1>7

\* a step that adds nothing
LEMMA NothingAdded ==
  \E w \in Seq(Values) : w = << >> /\ \A s \in Seq(Values) : With(s, w) = s
<1>1. << >> \in Seq(Values) /\ \A s \in Seq(Values) : With(s, << >>) = s
  BY DEF With
<1> QED BY <1>1, Zenon

\* Publish() moves the tail: the element is in the queue
LEMMA PublishStep ==
  ASSUME NEW p \in Producers, QInv(p), Publish(p), NEW v \in Values, prod[p].v = <<v>>
  PROVE  QInv(p)' /\ Content' = Append(Content, v)
<1>1. PICK d, ord : Chained(d, ord, p)
  BY DEF QInv
<1> DEFINE tb == tailBlock
           r == block[tb]
<1>2. /\ tb \in 1..made /\ tb \in Blocks /\ GoodBlock(r) /\ block = [b \in Blocks |-> block[b]]
      /\ 1..made \subseteq Blocks /\ made \in Blocks /\ frontBlock \in 1..made /\ tb \in Ringed(p)
  BY <1>1, Ends, MadeBlocks DEF QInv, BlocksOK
<1>3. /\ prod[p].at = "publish" /\ prod[p].b = tb /\ prod[p].tl = r.tail
      /\ Beyond(r.tail, r.size) # r.localFront /\ r.data[r.tail] = <<v>>
  BY DEF Publish, QInv, ProdOK
<1>14. After(tb, r.tail) = Beyond(r.tail, r.size)
  BY <1>2, Indices, OneOn DEF After
<1>4. /\ block' = [b \in Blocks |-> block'[b]]
      /\ \A b \in Blocks : b # tb => block'[b] = block[b]
      /\ block'[tb] = [r EXCEPT !.tail = Beyond(r.tail, r.size)]
      /\ UNCHANGED <<frontBlock, tailBlock, made, cons, last>>
      /\ prod' = [prod EXCEPT ![p] = ResetProd]
  BY <1>2, <1>3, <1>14 DEF Publish, ring
<1>13. tb = tailBlock
  OBVIOUS
<1> HIDE DEF r, tb
<1>5. /\ IsBlock(block'[tb]) /\ block'[tb].front = r.front /\ block'[tb].tail = Beyond(r.tail, r.size)
      /\ block'[tb].size = r.size /\ block'[tb].data = r.data
      /\ block'[tb].localTail = r.localTail
      /\ block'[tb].localFront = r.localFront /\ block'[tb].next = r.next
  <2>1. IsBlock(r)
    BY <1>2 DEF GoodBlock
  <2> QED BY <1>4, <2>1 DEF IsBlock
<1>6. GoodBlock(block'[tb]) /\ Items(block'[tb]) = Append(Items(r), v)
  BY <1>2, <1>3, <1>5, PublishTail
<1>7. /\ \A b \in 1..made : GoodBlock(block[b])'
      /\ \A b \in 1..made : block'[b].next = block[b].next
      /\ \A b \in 1..made : b # tb => Items(block[b])' = Items(block[b])
  BY <1>2, <1>4, <1>5, <1>6 DEF QInv, BlocksOK, r
<1>8. prod'[p] = [at |-> "idle", v |-> << >>, b |-> 1, tl |-> 0]
      /\ prod' = [x \in Producers |-> prod'[x]]
  BY <1>4 DEF QInv, ProdOK, ResetProd
<1>9. Ringed(p)' = Ringed(p) /\ Ringed(p) \subseteq 1..made
  BY <1>3, <1>4, <1>8 DEF Ringed
<1>15. PICK w \in Seq(Values) : w = <<v>>
  <2>1. <<v>> \in Seq(Values)
    OBVIOUS
  <2> QED BY <2>1, Zenon
<1>16. \A s \in Seq(Values) : Append(s, v) = With(s, w)
  BY <1>15 DEF With
<1>10. BlocksOK(p)' /\ Chained(d, ord, p)' /\ Content' = With(Content, w)
  <2>1. Items(block[tailBlock])' = With(Items(block[tailBlock]), w)
    BY <1>2, <1>4, <1>6, <1>13, <1>16, ItemsType DEF r
  <2>2. \A b \in Ringed(p) : Off(d, ord, b) => b # tb
    BY <1>1, <1>13, Ends DEF QInv
  <2>3. \A b \in Ringed(p) : Off(d, ord, b) => Items(block[b])' = << >>
    BY <1>1, <1>3, <1>7, <1>9, <2>2 DEF Chained
  <2>4. \A b \in Ringed(p) : b # tailBlock /\ ~Off(d, ord, b) => Items(block[b])' = Items(block[b])
    BY <1>7, <1>9, <1>13
  <2>5. /\ \A b \in 1..made' : GoodBlock(block[b])'
        /\ \A b \in Ringed(p) : block'[b].next = block[b].next
        /\ made' \in Blocks
    BY <1>2, <1>4, <1>7, <1>9
  <2>6. BlocksOK(p)
    BY DEF QInv
  <2>7. UNCHANGED <<frontBlock, tailBlock>> /\ block' = [b \in Blocks |-> block'[b]]
    BY <1>4
  <2>8. prod'[p].at = "idle"
    BY <1>8
  <2> QED BY <1>1, <1>9, <2>1, <2>3, <2>4, <2>5, <2>6, <2>7, <2>8, RingStep
<1>17. Content \in Seq(Values)
  BY <1>1, ContentType DEF Chained
<1>11. ProdOK(p)'
  BY <1>8 DEF ProdOK
<1>12. ConsOK'
  <2>2. /\ block'[frontBlock].front = block[frontBlock].front
        /\ block'[frontBlock].localTail = block[frontBlock].localTail
        /\ block'[frontBlock].data = block[frontBlock].data
    BY <1>2, <1>4, <1>5 DEF r
  <2>3. cons.at \in {"recheck", "move"} => tailBlock' # frontBlock
    BY <1>4 DEF QInv, ConsOK
  <2>4. cons.at = "move" => Items(block[frontBlock])' = Items(block[frontBlock])
    BY <1>2, <1>7, <1>13, <1>4 DEF QInv, ConsOK
  <2> QED BY <1>1, <1>4, <2>2, <2>3, <2>4, ConsKept DEF QInv
<1> QED BY <1>10, <1>11, <1>12, <1>16, <1>17 DEF QInv

\* Republish() moves the tail of a block that the consumer does not see
LEMMA RepublishStep ==
  ASSUME NEW p \in Producers, QInv(p), Republish(p)
  PROVE  QInv(p)' /\ Content' = Content
<1>1. PICK d, ord : Chained(d, ord, p)
  BY DEF QInv
<1> DEFINE nb == prod[p].b
           r == block[nb]
<1>2. /\ prod[p].at = "republish" /\ nb = block[tailBlock].next /\ prod[p].tl = r.tail
      /\ Beyond(r.tail, r.size) # r.localFront /\ r.data[r.tail] = prod[p].v
      /\ prod[p].v \in Entries /\ nb \in Ringed(p)
  BY DEF Republish, QInv, ProdOK
<1>3. /\ nb \in 1..made /\ nb \in Blocks /\ GoodBlock(r) /\ block = [b \in Blocks |-> block[b]]
      /\ 1..made \subseteq Blocks /\ made \in Blocks /\ frontBlock \in 1..made
      /\ Off(d, ord, nb) /\ nb # frontBlock /\ nb # tailBlock /\ Items(r) = << >>
      /\ tailBlock \in 1..made
  <2>1. Off(d, ord, nb)
    BY <1>1, <1>2 DEF Chained
  <2>2. nb # frontBlock /\ nb # tailBlock
    BY <1>1, <2>1, Ends DEF QInv
  <2>3. Items(r) = << >>
    BY <1>1, <1>2, <2>1 DEF Chained
  <2> QED BY <1>1, <1>2, <2>1, <2>2, <2>3, Ends, MadeBlocks DEF QInv, BlocksOK
<1>14. After(nb, r.tail) = Beyond(r.tail, r.size)
  BY <1>3, Indices, OneOn DEF After
<1>4. /\ block' = [b \in Blocks |-> block'[b]]
      /\ \A b \in Blocks : b # nb => block'[b] = block[b]
      /\ block'[nb] = [r EXCEPT !.tail = Beyond(r.tail, r.size)]
      /\ UNCHANGED <<frontBlock, tailBlock, made, cons, last>>
      /\ prod' = [prod EXCEPT ![p].at = "advance"]
  BY <1>2, <1>3, <1>14 DEF Republish, ring, Step
<1>13. nb = prod[p].b
  OBVIOUS
<1> HIDE DEF r, nb
<1>5. /\ IsBlock(block'[nb]) /\ block'[nb].front = r.front /\ block'[nb].tail = Beyond(r.tail, r.size)
      /\ block'[nb].size = r.size /\ block'[nb].data = r.data
      /\ block'[nb].localTail = r.localTail
      /\ block'[nb].localFront = r.localFront /\ block'[nb].next = r.next
  <2>1. IsBlock(r)
    BY <1>3 DEF GoodBlock
  <2> QED BY <1>4, <2>1 DEF IsBlock
<1>15. PICK v \in Values : prod[p].v = <<v>>
  BY <1>2 DEF Entries
<1>6. GoodBlock(block'[nb]) /\ Items(block'[nb]) = prod[p].v
  <2>1. GoodBlock(block'[nb]) /\ Items(block'[nb]) = Append(Items(r), v)
    BY <1>2, <1>3, <1>5, <1>15, PublishTail
  <2> QED BY <1>3, <1>15, <2>1
<1>7. /\ \A b \in 1..made : GoodBlock(block[b])'
      /\ \A b \in 1..made : block'[b].next = block[b].next
      /\ \A b \in 1..made : b # nb => Items(block[b])' = Items(block[b])
  BY <1>3, <1>4, <1>5, <1>6 DEF QInv, BlocksOK, r
<1>8. prod'[p] = [at |-> "advance", v |-> prod[p].v, b |-> nb, tl |-> prod[p].tl]
      /\ prod' = [x \in Producers |-> prod'[x]]
  BY <1>4, <1>13 DEF QInv, ProdOK
<1>9. Ringed(p)' = Ringed(p) /\ Ringed(p) \subseteq 1..made
  BY <1>2, <1>4, <1>8 DEF Ringed
<1>16. PICK w \in Seq(Values) : w = << >> /\ \A s \in Seq(Values) : With(s, w) = s
  BY NothingAdded
<1>10. BlocksOK(p)' /\ Chained(d, ord, p)' /\ Content' = With(Content, w)
  <2>1. Items(block[tailBlock])' = With(Items(block[tailBlock]), w)
    <3>1. Items(block[tailBlock]) \in Seq(Values)
      BY <1>1, Ends, ItemsType DEF QInv
    <3> QED BY <1>3, <1>4, <1>7, <1>16, <3>1
  <2>3. \A b \in Ringed(p) : Off(d, ord, b) =>
           Items(block[b])' = IF prod'[p].at = "advance" /\ b = prod'[p].b THEN prod'[p].v ELSE << >>
    BY <1>1, <1>2, <1>6, <1>7, <1>8, <1>9 DEF Chained
  <2>4. \A b \in Ringed(p) : b # tailBlock /\ ~Off(d, ord, b) => Items(block[b])' = Items(block[b])
    BY <1>3, <1>7, <1>9
  <2>5. /\ \A b \in 1..made' : GoodBlock(block[b])'
        /\ \A b \in Ringed(p) : block'[b].next = block[b].next
        /\ made' \in Blocks
    BY <1>3, <1>4, <1>7, <1>9
  <2>6. BlocksOK(p)
    BY DEF QInv
  <2>7. UNCHANGED <<frontBlock, tailBlock>> /\ block' = [b \in Blocks |-> block'[b]]
    BY <1>4
  <2>8. prod'[p].at = "advance" /\ Off(d, ord, prod'[p].b)
    BY <1>3, <1>8
  <2> QED BY <1>1, <1>9, <2>1, <2>3, <2>4, <2>5, <2>6, <2>7, <2>8, RingStep
<1>17. Content \in Seq(Values)
  BY <1>1, ContentType DEF Chained
<1>11. ProdOK(p)'
  <2>1. prod'[p].b \in Ringed(p)' /\ prod'[p].b = block'[tailBlock'].next
    BY <1>2, <1>3, <1>4, <1>7, <1>8, <1>9
  <2> QED BY <1>2, <1>8, <2>1 DEF ProdOK
<1>12. ConsOK'
  <2>1. block'[frontBlock] = block[frontBlock]
    BY <1>3, <1>4
  <2>3. cons.at \in {"recheck", "move"} => tailBlock' # frontBlock
    BY <1>4 DEF QInv, ConsOK
  <2> QED BY <1>1, <1>4, <2>1, <2>3, ConsKept DEF QInv
<1> QED BY <1>10, <1>11, <1>12, <1>16, <1>17 DEF QInv

\* Alloc() makes a block with the element in it, outside the ring
LEMMA AllocStep ==
  ASSUME NEW p \in Producers, QInv(p), Alloc(p)
  PROVE  QInv(p)' /\ Content' = Content
<1>1. PICK d, ord : Chained(d, ord, p)
  BY DEF QInv
<1> DEFINE nb == made + 1
           size == Larger(block[made].size)
<1>2. /\ prod[p].at = "alloc" /\ prod[p].b = tailBlock /\ prod[p].v \in Entries /\ nb \in Blocks
  BY DEF Alloc, QInv, ProdOK
<1>3. /\ block = [b \in Blocks |-> block[b]] /\ made \in Nat /\ made >= 1
      /\ 1..made \subseteq Blocks /\ made \in Blocks /\ frontBlock \in 1..made
      /\ tailBlock \in 1..made /\ size \in Nat /\ size >= 2
  <2>1. made \in 1..made /\ GoodBlock(block[made])
    BY MadeBlocks DEF QInv, BlocksOK
  <2>2. size \in Nat /\ size >= 2
    BY <2>1, Indices DEF Larger
  <2> QED BY <1>1, <2>2, Ends, MadeBlocks DEF QInv, BlocksOK
<1>4. /\ block' = [b \in Blocks |-> block'[b]]
      /\ \A b \in Blocks : b # nb => block'[b] = block[b]
      /\ block'[nb] = [Fresh(size) EXCEPT !.tail = 1, !.localTail = 1,
                         !.next = block[tailBlock].next, !.data[0] = prod[p].v]
      /\ UNCHANGED <<frontBlock, tailBlock, cons, last>> /\ made' = nb
      /\ prod' = [prod EXCEPT ![p].at = "link"]
  BY <1>2, <1>3 DEF Alloc, ring, Step
<1>13. nb \notin 1..made /\ nb \in Nat /\ \A b \in 1..nb : b # nb => b \in 1..made
  BY <1>3
<1>14. 1..nb \subseteq Blocks
  <2>1. Blocks = 1..Cardinality(Blocks) /\ Cardinality(Blocks) \in Nat
    BY QueueAssumption, FS_CardinalityType DEF QueueAssumption
  <2> QED BY <1>2, <2>1
<1>18. nb = made + 1
  OBVIOUS
<1> HIDE DEF nb, size
<1>5. /\ IsBlock(block'[nb]) /\ block'[nb].front = 0 /\ block'[nb].tail = 1
      /\ block'[nb].size = size /\ block'[nb].data = [[i \in 0..size - 1 |-> << >>] EXCEPT ![0] = prod[p].v]
      /\ block'[nb].localTail = 1
      /\ block'[nb].localFront = 0 /\ block'[nb].next = block[tailBlock].next
  BY <1>4 DEF IsBlock, Fresh, NoData
<1>15. PICK v \in Values : prod[p].v = <<v>>
  BY <1>2 DEF Entries
<1>6. GoodBlock(block'[nb]) /\ Items(block'[nb]) = prod[p].v
  <2>1. block'[nb].data = [[i \in 0..size - 1 |-> << >>] EXCEPT ![0] = <<v>>]
    BY <1>5, <1>15
  <2>2. GoodBlock(block'[nb]) /\ Items(block'[nb]) = <<v>>
    BY <1>3, <1>5, <2>1, FreshWithItem
  <2> QED BY <1>15, <2>2
<1>7. /\ \A b \in 1..nb : GoodBlock(block[b])'
      /\ \A b \in 1..made : block'[b] = block[b]
  <2>1. \A b \in 1..made : block'[b] = block[b]
    BY <1>3, <1>4, <1>13
  <2> QED BY <1>6, <1>13, <2>1 DEF QInv, BlocksOK
<1>8. prod'[p] = [at |-> "link", v |-> prod[p].v, b |-> prod[p].b, tl |-> prod[p].tl]
      /\ prod' = [x \in Producers |-> prod'[x]]
  BY <1>4 DEF QInv, ProdOK
<1>9. Ringed(p)' = Ringed(p) /\ Ringed(p) \subseteq 1..made
  BY <1>2, <1>3, <1>4, <1>8, <1>18 DEF Ringed
<1>16. PICK w \in Seq(Values) : w = << >> /\ \A s \in Seq(Values) : With(s, w) = s
  BY NothingAdded
<1>10. BlocksOK(p)' /\ Chained(d, ord, p)' /\ Content' = With(Content, w)
  <2>1. Items(block[tailBlock])' = With(Items(block[tailBlock]), w)
    <3>1. Items(block[tailBlock]) \in Seq(Values)
      BY <1>1, Ends, ItemsType DEF QInv
    <3> QED BY <1>3, <1>4, <1>7, <1>16, <3>1
  <2>3. \A b \in Ringed(p) : Off(d, ord, b) => Items(block[b])' = << >>
    BY <1>1, <1>2, <1>7, <1>9 DEF Chained
  <2>4. \A b \in Ringed(p) : b # tailBlock /\ ~Off(d, ord, b) => Items(block[b])' = Items(block[b])
    BY <1>7, <1>9
  <2>5. /\ \A b \in 1..made' : GoodBlock(block[b])'
        /\ \A b \in Ringed(p) : block'[b].next = block[b].next
        /\ made' \in Blocks
    BY <1>2, <1>4, <1>7, <1>9
  <2>6. BlocksOK(p)
    BY DEF QInv
  <2>7. UNCHANGED <<frontBlock, tailBlock>> /\ block' = [b \in Blocks |-> block'[b]]
    BY <1>4
  <2>8. prod'[p].at = "link"
    BY <1>8
  <2> QED BY <1>1, <1>9, <2>1, <2>3, <2>4, <2>5, <2>6, <2>7, <2>8, RingStep
<1>17. Content \in Seq(Values)
  BY <1>1, ContentType DEF Chained
<1>11. ProdOK(p)'
  <2>1. block'[made'].next = block'[tailBlock'].next /\ Items(block'[made']) = prod'[p].v
    <3>1. block'[tailBlock'] = block[tailBlock]
      BY <1>3, <1>4, <1>7
    <3>2. prod'[p].v = prod[p].v /\ made' = nb
      BY <1>4, <1>8
    <3> QED BY <1>5, <1>6, <3>1, <3>2
  <2>2. prod'[p].b = tailBlock'
    BY <1>2, <1>4, <1>8
  <2> QED BY <1>2, <1>8, <2>1, <2>2 DEF ProdOK
<1>12. ConsOK'
  <2>1. block'[frontBlock] = block[frontBlock]
    BY <1>3, <1>7
  <2>3. cons.at \in {"recheck", "move"} => tailBlock' # frontBlock
    BY <1>4 DEF QInv, ConsOK
  <2> QED BY <1>1, <1>4, <2>1, <2>3, ConsKept DEF QInv
<1> QED BY <1>10, <1>11, <1>12, <1>16, <1>17 DEF QInv

\* Link() takes it into the ring, behind the tail block
LEMMA LinkStep ==
  ASSUME NEW p \in Producers, QInv(p), Link(p)
  PROVE  QInv(p)' /\ Content' = Content
<1>1. PICK d, ord : Chained(d, ord, p)
  BY DEF QInv
<1> DEFINE tb == tailBlock
           r == block[tb]
<1>2. /\ prod[p].at = "link" /\ prod[p].b = tb /\ prod[p].v \in Entries
      /\ block[made].next = r.next /\ Items(block[made]) = prod[p].v
  BY DEF Link, QInv, ProdOK
<1>3. /\ tb \in 1..made /\ tb \in Blocks /\ GoodBlock(r) /\ block = [b \in Blocks |-> block[b]]
      /\ 1..made \subseteq Blocks /\ made \in Blocks /\ frontBlock \in 1..made
      /\ made \in Nat /\ made >= 1
      /\ Ringed(p) = 1..made - 1 /\ tb \in Ringed(p) /\ frontBlock \in Ringed(p)
  BY <1>1, <1>2, Ends, MadeBlocks DEF QInv, BlocksOK, Ringed
<1>4. /\ block' = [b \in Blocks |-> block'[b]]
      /\ \A b \in Blocks : b # tb => block'[b] = block[b]
      /\ block'[tb] = [r EXCEPT !.next = made]
      /\ UNCHANGED <<frontBlock, tailBlock, made, cons, last>>
      /\ prod' = [prod EXCEPT ![p] = [@ EXCEPT !.at = "advance", !.b = made]]
  BY <1>2, <1>3 DEF Link, ring
<1>13. tb = tailBlock /\ r = block[tb]
  OBVIOUS
<1> HIDE DEF r, tb
<1>5. /\ IsBlock(block'[tb]) /\ block'[tb].front = r.front /\ block'[tb].tail = r.tail
      /\ block'[tb].size = r.size /\ block'[tb].data = r.data
      /\ block'[tb].localTail = r.localTail
      /\ block'[tb].localFront = r.localFront /\ block'[tb].next = made
  <2>1. IsBlock(r)
    BY <1>3 DEF GoodBlock
  <2> QED BY <1>4, <2>1 DEF IsBlock
<1>6. GoodBlock(block'[tb]) /\ Items(block'[tb]) = Items(r)
  BY <1>3, <1>5, SameItems
<1>7. /\ \A b \in 1..made : GoodBlock(block[b])' /\ Items(block[b])' = Items(block[b])
      /\ \A b \in 1..made : b # tb => block'[b].next = block[b].next
  BY <1>3, <1>4, <1>6, <1>13 DEF QInv, BlocksOK
<1>8. prod'[p] = [at |-> "advance", v |-> prod[p].v, b |-> made, tl |-> prod[p].tl]
      /\ prod' = [x \in Producers |-> prod'[x]]
  BY <1>4 DEF QInv, ProdOK
<1>9. Ringed(p)' = 1..made /\ made \notin Ringed(p) /\ \A b \in 1..made : b \in Ringed(p) \/ b = made
  BY <1>3, <1>4, <1>8 DEF Ringed
<1>21. tb \in Ringed(p) /\ \A b \in Ringed(p) : b # made /\ b \in 1..made
  BY <1>3
<1>22. made \in 1..made /\ made # tb /\ block'[tb].next = made /\ block'[made].next = block[tb].next
  <2>1. made \in 1..made
    BY <1>3
  <2>2. made # tb
    BY <1>21
  <2>3. block'[made].next = block[made].next
    BY <1>7, <2>1, <2>2
  <2> QED BY <1>2, <1>5, <1>13, <2>1, <2>2, <2>3
<1>10. BlocksOK(p)'
  <2>1. /\ \A b \in Ringed(p) : block[b].next \in Ringed(p)
        /\ \A a, b \in Ringed(p) : block[a].next = block[b].next => a = b
    BY DEF QInv, BlocksOK
  <2>2. ASSUME NEW b \in 1..made PROVE block'[b].next \in 1..made
    <3>1. block'[tb].next = made /\ block'[made].next \in Ringed(p)
      BY <1>21, <1>22, <2>1
    <3>2. b \in Ringed(p) /\ b # tb => block'[b].next \in Ringed(p)
      BY <1>7, <1>21, <2>1
    <3> QED BY <1>9, <1>21, <1>22, <3>1, <3>2
  <2>3. ASSUME NEW a \in 1..made, NEW b \in 1..made, block'[a].next = block'[b].next PROVE a = b
    <3>1. \A x \in Ringed(p) : x # tb => block'[x].next = block[x].next /\ block[x].next \in Ringed(p)
                                  /\ block[x].next # block[tb].next
      BY <1>7, <1>21, <2>1
    <3>2. block'[made].next = block[tb].next /\ block'[tb].next = made /\ block[tb].next \in Ringed(p)
      BY <1>21, <1>22, <2>1
    <3>3. CASE a \in Ringed(p) /\ b \in Ringed(p)
      BY <1>9, <2>1, <2>3, <3>1, <3>2, <3>3
    <3>4. CASE a = made \/ b = made
      BY <1>9, <2>3, <3>1, <3>2, <3>4
    <3> QED BY <1>9, <3>3, <3>4
  <2> QED BY <1>3, <1>4, <1>7, <1>9, <2>2, <2>3 DEF BlocksOK
<1>11. Chain(d, ord) /\ d \in Nat /\ \A i \in 0..d : ord[i] \in Ringed(p) /\ ord[i] \in 1..made
  BY <1>1, <1>21 DEF Chained, Chain
<1>12. Chain(d, ord)'
  <2>1. ASSUME NEW i \in 0..d - 1 PROVE block'[ord[i]].next = ord[i + 1]
    <3>1. i \in 0..d /\ d \in 0..d /\ i # d /\ ord[d] = tb
      BY <1>11, <1>13 DEF Chain
    <3>2. ord[i] # tb
      BY <1>11, <3>1 DEF Chain
    <3> QED BY <1>7, <1>11, <3>1, <3>2 DEF Chain
  <2> QED BY <1>4, <1>7, <1>11, <2>1 DEF Chain
<1>14. Off(d, ord, made)
  BY <1>9, <1>11 DEF Off
<1>15. Chained(d, ord, p)'
  <2>1. \A i \in 1..d : Items(block[ord[i]])' # << >>
    BY <1>1, <1>7, <1>11 DEF Chained
  <2>2. \A b \in 1..made : Off(d, ord, b) =>
           Items(block[b])' = IF b = made THEN prod[p].v ELSE << >>
    BY <1>1, <1>2, <1>7, <1>9 DEF Chained
  <2>3. \A i \in 0..d : ord[i] \in Ringed(p)'
    BY <1>9, <1>11
  <2> QED BY <1>8, <1>9, <1>12, <1>14, <2>1, <2>2, <2>3 DEF Chained, Off
<1>16. PICK w \in Seq(Values) : w = << >> /\ \A s \in Seq(Values) : With(s, w) = s
  BY NothingAdded
<1>17. Content' = With(Content, w)
  <2>1. Items(block[tailBlock])' = With(Items(block[tailBlock]), w)
    <3>1. Items(block[tailBlock]) \in Seq(Values)
      BY <1>1, Ends, ItemsType DEF QInv
    <3> QED BY <1>3, <1>4, <1>7, <1>13, <1>16, <3>1
  <2>2. \A i \in 0..d - 1 : Items(block[ord[i]])' = Items(block[ord[i]])
    BY <1>7, <1>11
  <2> QED BY <1>11, <1>12, <2>1, <2>2, SameChain
<1>18. Content' = Content
  BY <1>11, <1>16, <1>17, ContentType
<1>19. ProdOK(p)'
  <2>1. prod'[p].b \in Ringed(p)' /\ prod'[p].b = block'[tailBlock'].next
    BY <1>4, <1>8, <1>9, <1>13, <1>22
  <2> QED BY <1>2, <1>8, <2>1 DEF ProdOK
<1>20. ConsOK'
  <2>1. /\ block'[frontBlock].front = block[frontBlock].front
        /\ block'[frontBlock].localTail = block[frontBlock].localTail
        /\ block'[frontBlock].data = block[frontBlock].data
        /\ Items(block[frontBlock])' = Items(block[frontBlock])
    BY <1>3, <1>4, <1>5, <1>7, <1>13
  <2>3. cons.at \in {"recheck", "move"} => tailBlock' # frontBlock
    BY <1>4 DEF QInv, ConsOK
  <2> QED BY <1>1, <1>4, <2>1, <2>3, ConsKept DEF QInv
<1> QED BY <1>10, <1>15, <1>18, <1>19, <1>20 DEF QInv

\* Advance() makes it the tail block: the element is in the queue
LEMMA AdvanceStep ==
  ASSUME NEW p \in Producers, QInv(p), Advance(p), NEW v \in Values, prod[p].v = <<v>>
  PROVE  QInv(p)' /\ Content' = Append(Content, v)
<1>1. PICK d, ord : Chained(d, ord, p)
  BY DEF QInv
<1>19. PICK nb, e, path : /\ nb = prod[p].b /\ e = d + 1
                         /\ path = [i \in 0..e |-> IF i = e THEN nb ELSE ord[i]]
  OBVIOUS
<1>2. /\ prod[p].at = "advance" /\ nb \in Ringed(p) /\ nb = block[tailBlock].next
      /\ Off(d, ord, nb) /\ Items(block[nb]) = <<v>>
  BY <1>1, <1>19 DEF Advance, QInv, ProdOK, Chained
<1>3. /\ nb \in 1..made /\ nb \in Blocks /\ GoodBlock(block[nb])
      /\ 1..made \subseteq Blocks /\ made \in Blocks /\ frontBlock \in 1..made
      /\ nb # frontBlock /\ nb # tailBlock
  BY <1>1, <1>2, Ends, MadeBlocks DEF QInv, BlocksOK
<1>4. /\ UNCHANGED <<block, frontBlock, made, cons, last>> /\ tailBlock' = nb
      /\ prod' = [prod EXCEPT ![p] = ResetProd]
  BY <1>19 DEF Advance
<1>5. prod'[p] = [at |-> "idle", v |-> << >>, b |-> 1, tl |-> 0] /\ prod' = [x \in Producers |-> prod'[x]]
  BY <1>4 DEF QInv, ProdOK, ResetProd
<1>6. Ringed(p)' = Ringed(p)
  BY <1>2, <1>4, <1>5 DEF Ringed
<1>7. BlocksOK(p)'
  BY <1>4, <1>6 DEF QInv, BlocksOK
<1>8. d \in Nat /\ e \in Nat /\ Chain(d, ord) /\ \A i \in 0..e : i = e \/ i \in 0..d
  BY <1>1, <1>19 DEF Chained, Chain
<1>9. /\ path[e] = nb /\ \A i \in 0..d : path[i] = ord[i]
  BY <1>8, <1>19
<1>15. path \in [0..e -> Blocks]
  BY <1>3, <1>8, <1>19 DEF Chain
<1>16. /\ 0 \in 0..d /\ d \in 0..d /\ 0 \in 0..e /\ e \in 0..e /\ e \notin 0..d
       /\ ord[0] = frontBlock /\ ord[d] = tailBlock
  BY <1>8, <1>19 DEF Chain
<1>17. \A i \in 0..d : ord[i] # nb /\ i \in 0..e
  BY <1>2, <1>8, <1>19 DEF Off
<1>18. e = d + 1 /\ nb = prod[p].b
  BY <1>19
<1>10. Chain(e, path)'
  <2>1. path \in [0..e -> Blocks]
    BY <1>15
  <2>2. \A i, j \in 0..e : path[i] = path[j] => i = j
    <3>1. \A i, j \in 0..d : ord[i] = ord[j] => i = j
      BY <1>8 DEF Chain
    <3> QED BY <1>8, <1>9, <1>17, <3>1
  <2>3. path[0] = frontBlock' /\ path[e] = tailBlock'
    BY <1>4, <1>9, <1>16
  <2>4. ASSUME NEW i \in 0..e - 1 PROVE block'[path[i]].next = path[i + 1]
    <3>1. CASE i = d
      BY <1>2, <1>4, <1>9, <1>16, <1>18, <3>1
    <3>2. CASE i # d
      <4>1. i \in 0..d - 1 /\ i \in 0..d /\ i + 1 \in 0..d
        BY <1>8, <1>18, <3>2
      <4> QED BY <1>4, <1>8, <1>9, <4>1 DEF Chain
    <3> QED BY <3>1, <3>2
  <2>5. \A i \in 0..e : GoodBlock(block[path[i]])'
    <3>1. \A i \in 0..d : GoodBlock(block[ord[i]])
      BY <1>8 DEF Chain
    <3> QED BY <1>3, <1>4, <1>8, <1>9, <3>1
  <2>6. e \in Nat
    BY <1>8
  <2> QED BY <2>1, <2>2, <2>3, <2>4, <2>5, <2>6 DEF Chain
<1>11. Chained(e, path, p)'
  <2>1. \A i \in 0..e : path[i] \in Ringed(p)
    BY <1>1, <1>2, <1>8, <1>9 DEF Chained
  <2>2. ASSUME NEW i \in 1..e PROVE Items(block[path[i]])' # << >>
    <3>1. i = e \/ (i \in 1..d /\ i \in 0..d)
      BY <1>8, <1>18
    <3>2. \A j \in 1..d : Items(block[ord[j]]) # << >>
      BY <1>1 DEF Chained
    <3>3. Items(block[nb]) # << >>
      BY <1>2
    <3> QED BY <1>4, <1>9, <3>1, <3>2, <3>3
  <2>3. ASSUME NEW b \in Ringed(p), Off(e, path, b) PROVE Items(block[b])' = << >>
    <3>1. Off(d, ord, b) /\ b # nb
      <4>1. e \in 0..e /\ \A i \in 0..d : i \in 0..e
        BY <1>8, <1>18
      <4> QED BY <1>9, <2>3, <4>1 DEF Off
    <3> QED BY <1>1, <1>4, <1>18, <3>1 DEF Chained
  <2>4. prod'[p].at = "idle"
    BY <1>5
  <2> QED BY <1>6, <1>10, <2>1, <2>2, <2>3, <2>4 DEF Chained
<1>12. Content' = Append(Content, v)
  <2>1. PICK f : Sums(d, Parts(d, ord), f) /\ f[d] = Items(block[tailBlock]) /\ f[0] = Content
    BY <1>8, ContentIs
  <2>2. PICK h : Sums(e, Parts(e, path)', h) /\ h[e] = Items(block[tailBlock])' /\ h[0] = Content'
    <3>1. (\E x : Sums(e, Parts(e, path), x) /\ x[e] = Items(block[tailBlock]) /\ x[0] = Content)'
      BY <1>10, ContentIsPrimed
    <3> QED BY <3>1 DEF Sums
  <2> DEFINE g == [i \in 0..d |-> h[i]]
  <2>3. PICK part, pt : part = Parts(d, ord) /\ pt = Parts(e, path)'
    OBVIOUS
  <2>4. \A i \in 0..d : pt[i] = part[i] /\ part[i] = Items(block[ord[i]]) /\ i \in 0..e
    BY <1>4, <1>9, <1>17, <2>3 DEF Parts
  <2>5. g \in [0..d -> Seq(Values)]
    BY <2>2, <2>4 DEF Sums
  <2>6. ASSUME NEW i \in 0..d - 1 PROVE pt[i] \in Seq(Values) /\ g[i] = pt[i] \o g[i + 1]
    <3>1. i \in 0..d /\ i + 1 \in 0..d /\ i \in 0..e - 1
      BY <1>8, <1>18
    <3> QED BY <2>2, <2>3, <3>1 DEF Sums
  <2>7. PICK w \in Seq(Values) : w = <<v>>
    <3>1. <<v>> \in Seq(Values)
      OBVIOUS
    <3> QED BY <3>1, Zenon
  <2>8. g[d] = With(f[d], w)
    <3>1. d \in 0..d /\ d \in 0..e - 1 /\ ord[d] = tailBlock
      BY <1>8, <1>18 DEF Chain
    <3>2. g[d] = pt[d] \o h[e]
      BY <1>18, <2>2, <2>3, <3>1 DEF Sums
    <3>3. h[e] = w
      BY <1>2, <1>4, <2>2, <2>7
    <3>4. pt[d] = f[d]
      BY <2>1, <2>4, <3>1
    <3> QED BY <3>2, <3>3, <3>4 DEF With
  <2>9. 0 \in 0..d /\ g[0] = h[0]
    BY <1>8
  <2> HIDE DEF g
  <2>10. Sums(d, part, f) /\ Sums(d, pt, g) /\ SameFrom(0, d, part, pt)
    <3>1. \A i \in 0..d - 1 : i \in 0..d
      BY <1>8
    <3> QED BY <2>1, <2>3, <2>4, <2>5, <2>6, <3>1 DEF Sums, SameFrom
  <2>11. \A i \in 0..d : g[i] = With(f[i], w)
    BY <1>8, <2>8, <2>9, <2>10, SumsGrow
  <2>12. Content' = With(Content, w)
    BY <2>1, <2>2, <2>9, <2>11
  <2>13. Content \in Seq(Values)
    BY <1>8, ContentType
  <2> QED BY <2>7, <2>12, <2>13 DEF With
<1>13. ProdOK(p)'
  BY <1>5 DEF ProdOK
<1>14. ConsOK'
  <2>3. cons.at \in {"recheck", "move"} => tailBlock' # frontBlock
    BY <1>3, <1>4
  <2> QED BY <1>1, <1>4, <2>3, ConsKept DEF QInv
<1> QED BY <1>7, <1>11, <1>12, <1>13, <1>14 DEF QInv

-----------------------------------------------------------------------------
(* The consumer.                                                             *)

\* a step of the consumer that touches no more than its copy of the tail
LEMMA ConsAlone ==
  ASSUME NEW p \in Producers, QInv(p), UNCHANGED <<frontBlock, tailBlock, made, prod>>,
         NEW r, r = block[frontBlock],
         block' = block \/ block' = [block EXCEPT ![frontBlock].localTail = r.tail]
  PROVE  /\ BlocksOK(p)' /\ (\E d, ord : Chained(d, ord, p))' /\ ProdOK(p)' /\ Content' = Content
         /\ GoodBlock(r) /\ frontBlock \in Blocks /\ frontBlock \in 1..made
         /\ block'[frontBlock].front = r.front /\ block'[frontBlock].tail = r.tail
         /\ block'[frontBlock].data = r.data /\ Items(block'[frontBlock]) = Items(r)
         /\ block' = block => block'[frontBlock].localTail = r.localTail
         /\ block' = [block EXCEPT ![frontBlock].localTail = r.tail] => block'[frontBlock].localTail = r.tail
<1>1. PICK d, ord : Chained(d, ord, p)
  BY DEF QInv
<1>2. /\ frontBlock \in 1..made /\ frontBlock \in Blocks /\ GoodBlock(r) /\ block = [b \in Blocks |-> block[b]]
      /\ 1..made \subseteq Blocks
  BY <1>1, Ends, MadeBlocks DEF QInv, BlocksOK
<1>3. PICK q : q = block'[frontBlock]
  OBVIOUS
<1>4. /\ block' = [b \in Blocks |-> block'[b]]
      /\ \A b \in Blocks : b # frontBlock => block'[b] = block[b]
      /\ q = r \/ (q = [r EXCEPT !.localTail = r.tail] /\ block' # block)
  BY <1>2, <1>3
<1>5. /\ IsBlock(q) /\ q.front = r.front /\ q.tail = r.tail
      /\ q.size = r.size /\ q.data = r.data /\ q.next = r.next
      /\ q.localTail \in {r.localTail, r.tail} /\ q.localFront = r.localFront
  <2>1. IsBlock(r)
    BY <1>2 DEF GoodBlock
  <2> QED BY <1>4, <2>1 DEF IsBlock
<1>6. GoodBlock(q) /\ Items(q) = Items(r)
  BY <1>2, <1>5, SameItems
<1>7. \A b \in 1..made : GoodBlock(block[b])' /\ Items(block[b])' = Items(block[b])
                              /\ block'[b].next = block[b].next
  BY <1>2, <1>3, <1>4, <1>5, <1>6 DEF QInv, BlocksOK
<1>8. ProdOK(p)' /\ Ringed(p)' = Ringed(p)
  <2>1. \A b \in 1..made :
           /\ block'[b].tail = block[b].tail /\ block'[b].localFront = block[b].localFront
           /\ block'[b].next = block[b].next /\ block'[b].size = block[b].size
           /\ block'[b].data[block[b].tail] = block[b].data[block[b].tail]
    BY <1>2, <1>3, <1>4, <1>5
  <2>2. made \in 1..made
    BY MadeBlocks DEF QInv
  <2> QED BY <1>1, <1>7, <2>1, <2>2, ProdKept DEF QInv
<1>9. BlocksOK(p)' /\ Chained(d, ord, p)' /\ Content' = Content
  <2>1. BlocksOK(p)
    BY DEF QInv
  <2>2. block' = [b \in Blocks |-> block'[b]]
    BY <1>4
  <2> QED BY <1>1, <1>7, <1>8, <2>1, <2>2, SameBlocks
<1>10. block' = [block EXCEPT ![frontBlock].localTail = r.tail] => block'[frontBlock].localTail = r.tail
  <2>1. IsBlock(r)
    BY <1>2 DEF GoodBlock
  <2>2. block' = [block EXCEPT ![frontBlock].localTail = r.tail] =>
          block'[frontBlock] = [r EXCEPT !.localTail = r.tail]
    BY <1>2
  <2> QED BY <2>1, <2>2 DEF IsBlock
<1> QED BY <1>2, <1>3, <1>5, <1>6, <1>8, <1>9, <1>10

\* TryDequeue() finds an element only where there is one
LEMMA TryDequeueStep ==
  ASSUME NEW p \in Producers, QInv(p), TryDequeue
  PROVE  QInv(p)' /\ Content' = Content
<1>1. PICK r : r = block[frontBlock]
  OBVIOUS
<1>2. /\ UNCHANGED <<frontBlock, tailBlock, made, prod>>
      /\ cons.at = "idle"
      /\ block' = IF r.front = r.localTail THEN [block EXCEPT ![frontBlock].localTail = r.tail] ELSE block
      /\ cons' = [cons EXCEPT !.b = frontBlock,
                    !.at = IF r.front = r.localTail /\ r.front = r.tail THEN "empty" ELSE "take"]
  BY <1>1 DEF TryDequeue, ring
<1>3. /\ BlocksOK(p)' /\ (\E d, ord : Chained(d, ord, p))' /\ ProdOK(p)' /\ Content' = Content
      /\ block'[frontBlock].front = r.front
      /\ block' = block => block'[frontBlock].localTail = r.localTail
      /\ GoodBlock(r) /\ frontBlock \in Blocks
  BY <1>1, <1>2, ConsAlone
<1>4. /\ cons'.b = frontBlock /\ cons'.v = cons.v
      /\ cons'.at = IF r.front = r.localTail /\ r.front = r.tail THEN "empty" ELSE "take"
      /\ cons' = [at |-> cons'.at, b |-> cons'.b, v |-> cons'.v]
  BY <1>2 DEF QInv, ConsOK
<1>5. cons'.at = "take" => block'[frontBlock].front # block'[frontBlock].localTail
  <2>1. CASE r.front = r.localTail
    <3>1. block'[frontBlock].localTail = r.tail
      <4>1. block' = [block EXCEPT ![frontBlock].localTail = r.tail]
        BY <1>2, <2>1
      <4>2. GoodBlock(r) /\ frontBlock \in Blocks
        BY <1>3, Zenon
      <4>3. block = [b \in Blocks |-> block[b]]
        BY DEF QInv, BlocksOK
      <4>4. block'[frontBlock] = [r EXCEPT !.localTail = r.tail]
        BY <1>1, <4>1, <4>2, <4>3
      <4>5. IsBlock(r)
        BY <4>2 DEF GoodBlock
      <4> QED BY <4>4, <4>5 DEF IsBlock
    <3> QED BY <1>3, <1>4, <2>1, <3>1
  <2>2. CASE r.front # r.localTail
    <3>1. block'[frontBlock].localTail = r.localTail
      BY <1>2, <1>3, <2>2, Zenon
    <3> QED BY <1>3, <2>2, <3>1
  <2> QED BY <2>1, <2>2
<1>6. ConsOK'
  BY <1>2, <1>4, <1>5 DEF ConsOK
<1> QED BY <1>3, <1>6 DEF QInv

\* LookAhead(): a front block that is not the tail block has a next one
LEMMA LookAheadStep ==
  ASSUME NEW p \in Producers, QInv(p), LookAhead
  PROVE  QInv(p)' /\ Content' = Content
<1>1. PICK r : r = block[frontBlock]
  OBVIOUS
<1>2. /\ UNCHANGED <<block, frontBlock, tailBlock, made, prod>> /\ cons.b = frontBlock
      /\ \/ cons' = [at |-> "recheck", b |-> cons.b, v |-> cons.v] /\ frontBlock # tailBlock
         \/ cons' = [at |-> "idle", b |-> 1, v |-> << >>]
  BY DEF LookAhead, ring, QInv, ConsOK, ResetCons
<1>3. BlocksOK(p)' /\ (\E d, ord : Chained(d, ord, p))' /\ ProdOK(p)' /\ Content' = Content
  BY <1>1, <1>2, ConsAlone
<1>4. ConsOK'
  BY <1>2 DEF ConsOK
<1> QED BY <1>3, <1>4 DEF QInv

\* Recheck(): the front block is left only when nothing came into it meanwhile
LEMMA RecheckStep ==
  ASSUME NEW p \in Producers, QInv(p), Recheck
  PROVE  QInv(p)' /\ Content' = Content
<1>1. PICK r : r = block[frontBlock]
  OBVIOUS
<1>2. /\ UNCHANGED <<frontBlock, tailBlock, made, prod>> /\ frontBlock # tailBlock
      /\ block' = [block EXCEPT ![frontBlock].localTail = r.tail]
      /\ cons' = [at |-> IF r.front # r.tail THEN "take" ELSE "move", b |-> frontBlock, v |-> cons.v]
  BY <1>1 DEF Recheck, ring, QInv, ConsOK
<1>3. /\ BlocksOK(p)' /\ (\E d, ord : Chained(d, ord, p))' /\ ProdOK(p)' /\ Content' = Content
      /\ GoodBlock(r) /\ frontBlock \in Blocks
      /\ block'[frontBlock].front = r.front /\ block'[frontBlock].tail = r.tail
      /\ Items(block'[frontBlock]) = Items(r) /\ block'[frontBlock].localTail = r.tail
  BY <1>1, <1>2, ConsAlone
<1>5. r.front = r.tail => Items(r) = << >>
  BY <1>3, EmptyBlock
<1>6. ConsOK'
  BY <1>2, <1>3, <1>5 DEF ConsOK
<1> QED BY <1>3, <1>6 DEF QInv

\* Take() copies the first element
LEMMA TakeStep ==
  ASSUME NEW p \in Producers, QInv(p), Take
  PROVE  QInv(p)' /\ Content' = Content
<1>1. PICK r : r = block[frontBlock]
  OBVIOUS
<1>2. /\ UNCHANGED <<block, frontBlock, tailBlock, made, prod>> /\ r.front # r.localTail
      /\ cons' = [at |-> "release", b |-> frontBlock, v |-> r.data[r.front]]
  BY <1>1 DEF Take, ring, QInv, ConsOK
<1>3. BlocksOK(p)' /\ (\E d, ord : Chained(d, ord, p))' /\ ProdOK(p)' /\ Content' = Content
  BY <1>1, <1>2, ConsAlone
<1>4. ConsOK'
  BY <1>1, <1>2 DEF ConsOK
<1> QED BY <1>3, <1>4 DEF QInv

\* the front block is left behind, empty: what the others hold is all there is
LEMMA FrontLeft ==
  ASSUME NEW p \in Producers, BlocksOK(p), NEW d, NEW ord, Chained(d, ord, p),
         Items(block[frontBlock]) = << >>, frontBlock # tailBlock,
         UNCHANGED <<tailBlock, made, prod>>, BlocksOK(p)', Ringed(p)' = Ringed(p),
         frontBlock' = block[frontBlock].next,
         \A b \in 1..made : Items(block[b])' = Items(block[b])
                              /\ block'[b].next = block[b].next
  PROVE  (\E dd, oo : Chained(dd, oo, p))' /\ Content' = Content
<1>1. PICK e, path : e = d - 1 /\ path = [i \in 0..e |-> ord[i + 1]]
  OBVIOUS
<1>2. /\ d \in Nat /\ ord[0] = frontBlock /\ ord[d] = tailBlock /\ 0 \in 0..d /\ d \in 0..d
      /\ Chain(d, ord) /\ \A i \in 0..d : ord[i] \in Ringed(p) /\ ord[i] \in 1..made /\ ord[i] \in Blocks
  BY MadeBlocks DEF Chained, Chain
<1>3. d # 0 /\ e \in Nat /\ d = e + 1
  BY <1>1, <1>2
<1>4. /\ \A i \in 0..e : path[i] = ord[i + 1] /\ i + 1 \in 1..d /\ i + 1 \in 0..d
      /\ \A j \in 1..d : j - 1 \in 0..e /\ path[j - 1] = ord[j]
      /\ 0 \in 0..e /\ e \in 0..e
  BY <1>1, <1>3
<1>5. path \in [0..e -> Blocks]
  BY <1>1, <1>2, <1>4
<1>6. Chain(e, path)'
  <2>1. \A i, j \in 0..e : path[i] = path[j] => i = j
    <3>1. \A i, j \in 0..d : ord[i] = ord[j] => i = j
      BY <1>2 DEF Chain
    <3>2. \A i, j \in 0..e : i + 1 = j + 1 => i = j
      OBVIOUS
    <3> QED BY <1>4, <3>1, <3>2
  <2>2. path[0] = frontBlock' /\ path[e] = tailBlock'
    <3>1. block[ord[0]].next = ord[1]
      BY <1>2, <1>3 DEF Chain
    <3> QED BY <1>2, <1>3, <1>4, <3>1
  <2>3. ASSUME NEW i \in 0..e - 1 PROVE block'[path[i]].next = path[i + 1]
    <3>1. i \in 0..e /\ i + 1 \in 0..e /\ i + 1 \in 0..d - 1 /\ i + 1 + 1 \in 0..d
      BY <1>3
    <3>2. block[ord[i + 1]].next = ord[i + 1 + 1]
      BY <1>2, <3>1 DEF Chain
    <3> QED BY <1>2, <1>4, <3>1, <3>2
  <2>4. \A i \in 0..e : GoodBlock(block[path[i]])'
    BY <1>2, <1>4 DEF BlocksOK
  <2> QED BY <1>3, <1>5, <2>1, <2>2, <2>3, <2>4 DEF Chain
<1>7. Chained(e, path, p)'
  <2>1. \A i \in 0..e : path[i] \in Ringed(p)
    BY <1>2, <1>4
  <2>2. ASSUME NEW i \in 1..e PROVE Items(block[path[i]])' # << >>
    <3>1. i \in 0..e
      BY <1>3
    <3>2. \A j \in 1..d : Items(block[ord[j]]) # << >>
      BY DEF Chained
    <3>3. path[i] = ord[i + 1] /\ i + 1 \in 1..d /\ ord[i + 1] \in 1..made
      BY <1>2, <1>4, <3>1
    <3> QED BY <3>2, <3>3
  <2>3. \A b : Off(d, ord, b) => Off(e, path, b)
    BY <1>4 DEF Off
  <2>4. ASSUME NEW b \in Ringed(p), Off(e, path, b), ~Off(d, ord, b) PROVE b = frontBlock
    <3>1. PICK j \in 0..d : ord[j] = b
      BY <2>4 DEF Off
    <3>2. j = 0 \/ j \in 1..d
      BY <1>2
    <3> QED BY <1>2, <1>4, <2>4, <3>1, <3>2 DEF Off
  <2>5. ~Off(d, ord, frontBlock)
    BY <1>2 DEF Off
  <2>6. Ringed(p) \subseteq 1..made
    BY MadeBlocks
  <2>7. ASSUME NEW b \in Ringed(p), Off(e, path, b)
        PROVE Items(block[b])' = IF prod[p].at = "advance" /\ b = prod[p].b THEN prod[p].v ELSE << >>
    <3>1. CASE Off(d, ord, b)
      BY <2>6, <3>1 DEF Chained
    <3>2. CASE ~Off(d, ord, b)
      <4>1. b = frontBlock /\ Items(block[b])' = << >>
        BY <2>4, <2>6, <2>7, <3>2
      <4>2. prod[p].at = "advance" => b # prod[p].b
        BY <2>5, <4>1 DEF Chained
      <4> QED BY <4>1, <4>2
    <3> QED BY <3>1, <3>2
  <2>8. /\ prod[p].at = "reuse" => Off(e, path, block'[tailBlock].next)
        /\ prod[p].at \in {"republish", "advance"} => Off(e, path, prod[p].b)
    BY <1>2, <2>3 DEF Chained
  <2>9. prod' = prod /\ tailBlock' = tailBlock
    OBVIOUS
  <2> QED BY <1>6, <2>1, <2>2, <2>7, <2>8, <2>9 DEF Chained, Off
<1>8. Content' = Content
  <2>1. PICK f : Sums(d, Parts(d, ord), f) /\ f[d] = Items(block[tailBlock]) /\ f[0] = Content
    BY <1>2, ContentIs
  <2>2. PICK g : Sums(e, Parts(e, path)', g) /\ g[e] = Items(block[tailBlock])' /\ g[0] = Content'
    <3>1. (\E x : Sums(e, Parts(e, path), x) /\ x[e] = Items(block[tailBlock]) /\ x[0] = Content)'
      BY <1>6, ContentIsPrimed
    <3> QED BY <3>1 DEF Sums
  <2>3. PICK h, part, pt : /\ h = [i \in 0..e |-> f[i + 1]]
                           /\ part = Parts(e, path)' /\ pt = Parts(d, ord)
    OBVIOUS
  <2>4. /\ \A i \in 0..d : pt[i] = Items(block[ord[i]])
        /\ \A i \in 0..e : part[i] = Items(block[path[i]])' /\ h[i] = f[i + 1]
    BY <2>3 DEF Parts
  <2>5. \A i \in 0..e : part[i] = pt[i + 1]
    BY <1>2, <1>4, <2>4
  <2>6. Sums(e, part, h)
    <3>1. h \in [0..e -> Seq(Values)]
      BY <1>4, <2>1, <2>3 DEF Sums
    <3>2. ASSUME NEW i \in 0..e - 1 PROVE part[i] \in Seq(Values) /\ h[i] = part[i] \o h[i + 1]
      <4>1. i \in 0..e /\ i + 1 \in 0..e /\ i + 1 \in 0..d - 1
        BY <1>3
      <4>2. pt[i + 1] \in Seq(Values) /\ f[i + 1] = pt[i + 1] \o f[i + 1 + 1]
        BY <2>1, <2>3, <4>1 DEF Sums
      <4> QED BY <2>4, <2>5, <4>1, <4>2
    <3> QED BY <3>1, <3>2 DEF Sums
  <2>7. PICK w \in Seq(Values) : w = << >> /\ \A s \in Seq(Values) : With(s, w) = s
    BY NothingAdded
  <2>8. g[e] = With(h[e], w)
    <3>1. h[e] = f[d] /\ f[d] \in Seq(Values)
      BY <1>2, <1>3, <1>4, <2>1, <2>4 DEF Sums
    <3>2. tailBlock \in 1..made
      BY <1>2
    <3> QED BY <2>1, <2>2, <2>7, <3>1, <3>2
  <2>9. \A i \in 0..e : g[i] = With(h[i], w)
    <3>1. SameFrom(0, e, part, part) /\ Sums(e, part, g)
      BY <2>2, <2>3 DEF SameFrom
    <3> QED BY <1>3, <1>4, <2>6, <2>8, <3>1, SumsGrow
  <2>10. f[1] \in Seq(Values) /\ h[0] = f[1]
    <3>1. 1 \in 0..d /\ 0 + 1 = 1
      BY <1>3
    <3> QED BY <1>4, <2>1, <2>4, <3>1 DEF Sums
  <2>11. f[0] = f[1]
    <3>1. 0 \in 0..d - 1 /\ 0 + 1 = 1
      BY <1>3
    <3>2. f[0] = pt[0] \o f[1] /\ pt[0] = << >>
      BY <1>2, <2>1, <2>3, <2>4, <3>1 DEF Sums
    <3> QED BY <2>10, <3>2
  <2> QED BY <1>4, <2>1, <2>2, <2>7, <2>9, <2>10, <2>11
<1> QED BY <1>7, <1>8

\* MoveOn() leaves an empty block for the next one
LEMMA MoveOnStep ==
  ASSUME NEW p \in Producers, QInv(p), MoveOn
  PROVE  QInv(p)' /\ Content' = Content
<1>1. PICK d, ord : Chained(d, ord, p)
  BY DEF QInv
<1>2. PICK nb, r : nb = block[frontBlock].next /\ r = block[nb]
  OBVIOUS
<1>3. /\ UNCHANGED <<tailBlock, made, prod>> /\ frontBlock # tailBlock /\ frontBlock' = nb
      /\ block' = [block EXCEPT ![nb].localTail = r.tail] /\ Items(block[frontBlock]) = << >>
      /\ cons' = [at |-> "take", b |-> nb, v |-> cons.v]
  BY <1>2 DEF MoveOn, QInv, ConsOK
<1>4. nb \in Ringed(p) /\ Items(r) # << >>
  <2>1. d \in Nat /\ ord[0] = frontBlock /\ ord[d] = tailBlock /\ 0 \in 0..d
    BY <1>1 DEF Chained, Chain
  <2>2. d # 0 /\ 0 \in 0..d - 1 /\ 1 \in 1..d /\ 1 \in 0..d /\ 0 + 1 = 1
    BY <1>3, <2>1
  <2>3. nb = ord[1]
    BY <1>1, <1>2, <2>1, <2>2 DEF Chained, Chain
  <2> QED BY <1>1, <1>2, <2>2, <2>3 DEF Chained
<1>5. nb \in 1..made /\ nb \in Blocks /\ GoodBlock(r) /\ 1..made \subseteq Blocks /\ IsBlock(r)
  <2>1. nb \in 1..made /\ nb \in Blocks /\ GoodBlock(r) /\ 1..made \subseteq Blocks
    BY <1>2, <1>4, MadeBlocks DEF QInv, BlocksOK
  <2> QED BY <2>1 DEF GoodBlock
<1>6. PICK q : q = block'[nb]
  OBVIOUS
<1>7. /\ block' = [b \in Blocks |-> block'[b]]
      /\ \A b \in Blocks : b # nb => block'[b] = block[b]
      /\ q = [r EXCEPT !.localTail = r.tail]
  BY <1>2, <1>3, <1>5, <1>6 DEF QInv, BlocksOK
<1>8. /\ IsBlock(q) /\ q.front = r.front /\ q.tail = r.tail
      /\ q.size = r.size /\ q.data = r.data /\ q.next = r.next
      /\ q.localTail = r.tail /\ q.localFront = r.localFront
  BY <1>5, <1>7 DEF IsBlock
<1>9. GoodBlock(q) /\ Items(q) = Items(r)
  BY <1>5, <1>8, SameItems
<1>10. \A b \in 1..made : GoodBlock(block[b])' /\ Items(block[b])' = Items(block[b])
                              /\ block'[b].next = block[b].next
  <2>1. \A b \in 1..made : GoodBlock(block[b])
    BY DEF QInv, BlocksOK
  <2>2. \A b \in 1..made : b # nb => block'[b] = block[b]
    BY <1>5, <1>7
  <2> QED BY <1>2, <1>5, <1>6, <1>8, <1>9, <2>1, <2>2
<1>11. ProdOK(p)' /\ Ringed(p)' = Ringed(p)
  <2>1. \A b \in 1..made :
           /\ block'[b].tail = block[b].tail /\ block'[b].localFront = block[b].localFront
           /\ block'[b].next = block[b].next /\ block'[b].size = block[b].size
           /\ block'[b].data[block[b].tail] = block[b].data[block[b].tail]
    <3>1. ASSUME NEW b \in 1..made, b # nb PROVE block'[b] = block[b]
      BY <1>5, <1>7, <3>1
    <3>2. block'[nb] = q /\ block[nb] = r
      BY <1>2, <1>6
    <3> QED BY <1>8, <3>1, <3>2
  <2>2. made \in 1..made
    BY MadeBlocks DEF QInv
  <2> QED BY <1>1, <1>3, <1>10, <2>1, <2>2, ProdKept DEF QInv
<1>12. BlocksOK(p)'
  <2>1. Ringed(p) \subseteq 1..made
    BY MadeBlocks DEF QInv
  <2>2. /\ \A b \in Ringed(p) : block[b].next \in Ringed(p)
        /\ \A a, b \in Ringed(p) : block[a].next = block[b].next => a = b
        /\ made \in Blocks
    BY DEF QInv, BlocksOK
  <2>3. made' = made
    BY <1>3
  <2> QED BY <1>7, <1>10, <1>11, <2>1, <2>2, <2>3 DEF BlocksOK
<1>13. (\E dd, oo : Chained(dd, oo, p))' /\ Content' = Content
  <2>1. BlocksOK(p)
    BY DEF QInv
  <2> QED BY <1>1, <1>2, <1>3, <1>10, <1>11, <1>12, <2>1, FrontLeft
<1>14. ConsOK'
  <2>1. r.front # r.tail
    BY <1>4, <1>5, EmptyBlock
  <2> QED BY <1>3, <1>6, <1>8, <2>1 DEF ConsOK
<1> QED BY <1>11, <1>12, <1>13, <1>14 DEF QInv

\* the first of two parts loses its head
LEMMA OutOfFirst ==
  ASSUME NEW s \in Seq(Values), s # << >>, NEW t \in Seq(Values)
  PROVE  Tail(s \o t) = Tail(s) \o t /\ Head(s \o t) = Head(s) /\ s \o t # << >>
<1>1. Tail(s) \in Seq(Values) /\ Len(Tail(s)) = Len(s) - 1 /\ Len(s) \in Nat /\ Len(s) >= 1
  OBVIOUS
<1>2. Len(s \o t) = Len(s) + Len(t) /\ s \o t \in Seq(Values) /\ s \o t # << >>
  BY <1>1
<1>3. Len(Tail(s \o t)) = Len(Tail(s) \o t)
  BY <1>1, <1>2
<1>4. Tail(s \o t) = Tail(s) \o t
  BY <1>1, <1>2, <1>3
<1> QED BY <1>1, <1>2, <1>4

\* Release() gives the slot back: the head of the queue is the result
LEMMA ReleaseStep ==
  ASSUME NEW p \in Producers, QInv(p), Release
  PROVE  /\ QInv(p)' /\ Content # << >> /\ Content' = Tail(Content)
         /\ last' = <<Head(Content)>> /\ cons.v = <<Head(Content)>>
<1>1. PICK d, ord : Chained(d, ord, p)
  BY DEF QInv
<1>2. PICK r : r = block[frontBlock]
  OBVIOUS
<1>3. /\ frontBlock \in 1..made /\ frontBlock \in Blocks /\ GoodBlock(r) /\ block = [b \in Blocks |-> block[b]]
      /\ 1..made \subseteq Blocks /\ made \in Blocks /\ made \in 1..made
  BY <1>1, <1>2, Ends, MadeBlocks DEF QInv, BlocksOK
<1>4. After(frontBlock, r.front) = Beyond(r.front, r.size)
  BY <1>2, <1>3, Indices, OneOn DEF After
<1>5. /\ UNCHANGED <<frontBlock, tailBlock, made, prod>> /\ last' = cons.v
      /\ block' = [block EXCEPT ![frontBlock].data[r.front] = <<>>,
                                ![frontBlock].front = Beyond(r.front, r.size)]
      /\ cons' = [at |-> "idle", b |-> 1, v |-> << >>]
      /\ cons.v = r.data[r.front] /\ r.front # r.localTail
  BY <1>2, <1>4 DEF Release, ring, ResetCons, QInv, ConsOK
<1>6. PICK q : q = block'[frontBlock]
  OBVIOUS
<1>7. /\ block' = [b \in Blocks |-> block'[b]]
      /\ \A b \in Blocks : b # frontBlock => block'[b] = block[b]
      /\ q = [r EXCEPT !.data[r.front] = <<>>, !.front = Beyond(r.front, r.size)]
  BY <1>2, <1>3, <1>5, <1>6
<1>8. /\ IsBlock(q) /\ q.front = Beyond(r.front, r.size) /\ q.tail = r.tail
      /\ q.size = r.size /\ q.data = [r.data EXCEPT ![r.front] = <<>>] /\ q.next = r.next
      /\ q.localTail = r.localTail /\ q.localFront = r.localFront
  <2>1. IsBlock(r)
    BY <1>3 DEF GoodBlock
  <2> QED BY <1>7, <2>1 DEF IsBlock
<1>9. /\ GoodBlock(q) /\ Items(q) = Tail(Items(r)) /\ Items(r) # << >>
      /\ r.data[r.front] = <<Head(Items(r))>>
  BY <1>3, <1>5, <1>8, ReleaseFront
<1>10. /\ \A b \in 1..made : GoodBlock(block[b])' /\ block'[b].next = block[b].next
       /\ \A b \in 1..made : b # frontBlock => Items(block[b])' = Items(block[b])
  <2>1. \A b \in 1..made : GoodBlock(block[b])
    BY DEF QInv, BlocksOK
  <2>2. \A b \in 1..made : b # frontBlock => block'[b] = block[b]
    BY <1>3, <1>7
  <2> QED BY <1>2, <1>3, <1>6, <1>8, <1>9, <2>1, <2>2
<1>11. r.data[r.tail] = q.data[r.tail]
  <2>1. r.front # r.tail /\ r.tail \in 0..r.size - 1
    BY <1>3, <1>9, EmptyBlock, Indices
  <2> QED BY <1>3, <1>8, <2>1 DEF GoodBlock
<1>12. prod[p].at = "link" => made # frontBlock
  <2>1. frontBlock \in Ringed(p)
    BY <1>1, Ends DEF QInv
  <2> QED BY <1>3, <2>1 DEF Ringed
<1>13. ProdOK(p)' /\ Ringed(p)' = Ringed(p)
  <2>1. \A b \in 1..made :
           /\ block'[b].tail = block[b].tail /\ block'[b].localFront = block[b].localFront
           /\ block'[b].next = block[b].next /\ block'[b].size = block[b].size
           /\ block'[b].data[block[b].tail] = block[b].data[block[b].tail]
    BY <1>2, <1>3, <1>6, <1>7, <1>8, <1>11, ZenonT(40)
  <2> QED BY <1>1, <1>3, <1>5, <1>10, <1>12, <2>1, ProdKept DEF QInv
<1>14. BlocksOK(p)' /\ Ringed(p) \subseteq 1..made
  <2>1. Ringed(p) \subseteq 1..made
    BY MadeBlocks DEF QInv
  <2>2. /\ \A b \in Ringed(p) : block[b].next \in Ringed(p)
        /\ \A a, b \in Ringed(p) : block[a].next = block[b].next => a = b
    BY DEF QInv, BlocksOK
  <2>3. made' = made
    BY <1>5
  <2>4. block' = [b \in Blocks |-> block'[b]] /\ made' \in Blocks /\ Ringed(p)' = Ringed(p)
    BY <1>3, <1>7, <1>13, <2>3
  <2>5. \A b \in Ringed(p) : block'[b].next = block[b].next
    BY <1>10, <2>1
  <2>6. \A b \in 1..made : GoodBlock(block'[b])
    BY <1>10
  <2> QED BY <2>1, <2>2, <2>3, <2>4, <2>5, <2>6 DEF BlocksOK
<1>15. /\ d \in Nat /\ ord[0] = frontBlock /\ ord[d] = tailBlock /\ 0 \in 0..d /\ d \in 0..d
       /\ Chain(d, ord) /\ \A i \in 0..d : ord[i] \in Ringed(p) /\ ord[i] \in 1..made
       /\ \A i \in 1..d : i \in 0..d /\ ord[i] # frontBlock
  <2>1. \A i, j \in 0..d : ord[i] = ord[j] => i = j
    BY <1>1 DEF Chained, Chain
  <2>2. d \in Nat /\ 0 \in 0..d /\ \A i \in 1..d : i \in 0..d /\ i # 0
    BY <1>1 DEF Chained, Chain
  <2> QED BY <1>1, <1>14, <2>1, <2>2 DEF Chained, Chain
<1>16. Chain(d, ord)'
  <2>1. \A i \in 0..d : GoodBlock(block[ord[i]])'
    BY <1>10, <1>15
  <2>2. \A i \in 0..d - 1 : i \in 0..d /\ block[ord[i]].next = ord[i + 1]
    BY <1>15 DEF Chain
  <2>3. \A i \in 0..d - 1 : block'[ord[i]].next = ord[i + 1]
    BY <1>10, <1>15, <2>2
  <2>4. ord[0] = frontBlock' /\ ord[d] = tailBlock'
    BY <1>5, <1>15
  <2> QED BY <1>15, <2>1, <2>3, <2>4 DEF Chain
<1>17. Chained(d, ord, p)'
  <2>1. \A i \in 1..d : Items(block[ord[i]])' # << >>
    BY <1>1, <1>10, <1>15 DEF Chained
  <2>2. ~Off(d, ord, frontBlock)
    BY <1>15 DEF Off
  <2>3. \A b \in Ringed(p) : Off(d, ord, b) =>
           Items(block[b])' = IF prod[p].at = "advance" /\ b = prod[p].b THEN prod[p].v ELSE << >>
    BY <1>1, <1>10, <1>14, <2>2 DEF Chained
  <2>4. /\ prod[p].at = "reuse" => Off(d, ord, block'[tailBlock].next)
        /\ prod[p].at \in {"republish", "advance"} => Off(d, ord, prod[p].b)
    BY <1>1, <1>10, <1>15 DEF Chained
  <2>5. prod' = prod /\ tailBlock' = tailBlock
    BY <1>5
  <2> QED BY <1>13, <1>15, <1>16, <2>1, <2>3, <2>4, <2>5 DEF Chained, Off
<1>18. Content # << >> /\ Content' = Tail(Content) /\ Head(Content) = Head(Items(r))
  <2>1. PICK f : Sums(d, Parts(d, ord), f) /\ f[d] = Items(block[tailBlock]) /\ f[0] = Content
    BY <1>15, ContentIs
  <2>2. PICK g : Sums(d, Parts(d, ord)', g) /\ g[d] = Items(block[tailBlock])' /\ g[0] = Content'
    <3>1. (\E x : Sums(d, Parts(d, ord), x) /\ x[d] = Items(block[tailBlock]) /\ x[0] = Content)'
      BY <1>16, ContentIsPrimed
    <3> QED BY <3>1 DEF Sums
  <2>3. CASE d = 0
    BY <1>2, <1>5, <1>6, <1>9, <1>15, <2>1, <2>2, <2>3
  <2>4. CASE d # 0
    <3>1. PICK part, pt : part = Parts(d, ord) /\ pt = Parts(d, ord)'
      OBVIOUS
    <3>2. /\ \A i \in 0..d : part[i] = Items(block[ord[i]]) /\ pt[i] = Items(block[ord[i]])'
      BY <3>1 DEF Parts
    <3>3. \A i \in 1..d : pt[i] = part[i]
      BY <1>10, <1>15, <3>2
    <3>4. 1 \in 1..d /\ 1 \in 0..d /\ d \in 1..d /\ 0 \in 0..d - 1 /\ 0 + 1 = 1
      BY <1>15, <2>4
    <3>5. SameFrom(1, d, part, pt)
      BY <1>15, <3>3 DEF SameFrom
    <3>6. PICK w \in Seq(Values) : w = << >> /\ \A s \in Seq(Values) : With(s, w) = s
      BY NothingAdded
    <3>7. \A i \in 0..d : f[i] \in Seq(Values)
      BY <2>1 DEF Sums
    <3>8. g[d] = With(f[d], w)
      <4>1. g[d] = f[d]
        <5>1. tailBlock \in 1..made /\ tailBlock # frontBlock /\ tailBlock' = tailBlock
          BY <1>5, <1>15, <3>4
        <5> QED BY <1>10, <2>1, <2>2, <5>1
      <4> QED BY <1>15, <3>6, <3>7, <4>1
    <3>9. Sums(d, part, f) /\ Sums(d, pt, g)
      BY <2>1, <2>2, <3>1
    <3>10. \A i \in 1..d : g[i] = With(f[i], w)
      BY <1>15, <3>4, <3>5, <3>8, <3>9, SumsGrow
    <3>11. g[1] = f[1] /\ f[1] \in Seq(Values)
      BY <3>4, <3>6, <3>7, <3>10
    <3>12. f[0] = part[0] \o f[1] /\ g[0] = pt[0] \o g[1]
      BY <3>4, <3>9 DEF Sums
    <3>13. part[0] = Items(r) /\ pt[0] = Tail(Items(r))
      BY <1>2, <1>6, <1>9, <1>15, <1>5, <3>2
    <3>14. PICK s \in Seq(Values), t \in Seq(Values) : s = Items(r) /\ t = f[1] /\ s # << >>
      BY <1>3, <1>9, <3>11, ItemsType
    <3>15. Content = s \o t /\ Content' = Tail(s) \o t
      BY <2>1, <2>2, <3>11, <3>12, <3>13, <3>14
    <3> QED BY <3>14, <3>15, OutOfFirst
  <2> QED BY <2>3, <2>4
<1>19. ConsOK'
  BY <1>5 DEF ConsOK
<1>20. last' = <<Head(Content)>> /\ cons.v = <<Head(Content)>>
  BY <1>5, <1>9, <1>18
<1> QED BY <1>13, <1>14, <1>17, <1>18, <1>19, <1>20 DEF QInv

-----------------------------------------------------------------------------
(* The queue.                                                                *)

\* with a count of lines, what Logging enqueues are values
QueueInv(p) == lines \in Nat /\ QInv(p)

\* the queue starts empty, in one block
LEMMA QueueInitially == ASSUME NEW p \in Producers, Producers = {p}, Init PROVE QueueInv(p) /\ Content = << >>
<1>1. /\ block = [b \in Blocks |-> Fresh(FirstSize)]
      /\ frontBlock = 1 /\ tailBlock = 1 /\ made = 1
      /\ prod = [x \in Producers |-> ResetProd]
      /\ cons = ResetCons /\ lines = 0
  BY DEF Init, QInit
<1>2. 1 \in Blocks /\ FirstSize \in Nat /\ FirstSize >= 2
  BY QueueAssumption DEF QueueAssumption
<1>3. PICK r : r = Fresh(FirstSize)
  OBVIOUS
<1>4. /\ IsBlock(r) /\ r.front = 0 /\ r.tail = 0 /\ r.size = FirstSize /\ r.next = 1
      /\ r.localFront = 0 /\ r.localTail = 0 /\ r.data = [i \in 0..FirstSize - 1 |-> << >>]
  BY <1>3 DEF Fresh, NoData, IsBlock
<1>5. GoodBlock(r) /\ Items(r) = << >>
  BY <1>2, <1>4, FreshBlock
<1>6. prod[p] = [at |-> "idle", v |-> << >>, b |-> 1, tl |-> 0] /\ block[1] = r
  BY <1>1, <1>2, <1>3 DEF ResetProd
<1>7. Ringed(p) = {1} /\ 1..made = {1}
  BY <1>1, <1>6 DEF Ringed
<1>8. BlocksOK(p)
  BY <1>1, <1>2, <1>4, <1>5, <1>6, <1>7 DEF BlocksOK
<1>9. ProdOK(p)
  BY <1>1, <1>6 DEF ProdOK
<1>10. ConsOK
  BY <1>1 DEF ConsOK, ResetCons
<1>11. PICK ord : ord = [i \in 0..0 |-> 1]
  OBVIOUS
<1>12. Chain(0, ord)
  BY <1>1, <1>2, <1>5, <1>6, <1>11 DEF Chain
<1>13. Chained(0, ord, p)
  BY <1>6, <1>7, <1>11, <1>12 DEF Chained, Off
<1>14. Content = << >>
  <2>1. PICK f : f[0] = Items(block[tailBlock]) /\ f[0] = Content
    BY <1>12, ContentIs
  <2> QED BY <1>1, <1>5, <1>6, <2>1
<1> QED BY <1>1, <1>8, <1>9, <1>10, <1>13, <1>14 DEF QueueInv, QInv

\* what the rest of Logging does leaves it alone
LEMMA QueueUnchanged ==
  ASSUME NEW p \in Producers, QInv(p), UNCHANGED qvars
  PROVE  QInv(p)' /\ Content' = Content /\ last' = last
<1>1. UNCHANGED <<block, frontBlock, tailBlock, made, prod, cons, last>>
  BY DEF qvars
<1>2. PICK r : r = block[frontBlock]
  OBVIOUS
<1>3. BlocksOK(p)' /\ (\E d, ord : Chained(d, ord, p))' /\ ProdOK(p)' /\ Content' = Content
  BY <1>1, <1>2, ConsAlone
<1>4. ConsOK'
  BY <1>1 DEF QInv, ConsOK
<1> QED BY <1>1, <1>3, <1>4 DEF QInv

\* the producer's steps but the first: one of them adds its element
LEMMA EnqueuedStep ==
  ASSUME NEW p \in Producers, QInv(p), Enqueuing(p) \/ OutOfMemory(p)
  PROVE  /\ QInv(p)' /\ last' = last /\ cons' = cons
         /\ \/ Content' = Content
            \/ \E v \in Values : /\ prod[p].at \in {"publish", "advance"} /\ prod[p].v = <<v>>
                                 /\ prod'[p] = ResetProd /\ Content' = Append(Content, v)
<1>1. last' = last /\ cons' = cons
  BY DEF Enqueuing, OutOfMemory, Put, Publish, Ahead, Reuse, Republish, Alloc, Link, Advance
<1>2. CASE Put(p) \/ Ahead(p) \/ Reuse(p) \/ Republish(p) \/ Alloc(p) \/ Link(p) \/ OutOfMemory(p)
  BY <1>1, <1>2, PutStep, AheadStep, ReuseStep, RepublishStep, AllocStep, LinkStep, OutOfMemoryStep
<1>3. CASE Publish(p) \/ Advance(p)
  <2>1. prod[p].at \in {"publish", "advance"} /\ prod[p].v \in Entries /\ prod = [x \in Producers |-> prod[x]]
    BY <1>3 DEF Publish, Advance, QInv, ProdOK
  <2>2. PICK v \in Values : prod[p].v = <<v>>
    BY <2>1 DEF Entries
  <2>3. prod'[p] = ResetProd
    BY <1>3, <2>1 DEF Publish, Advance
  <2>4. QInv(p)' /\ Content' = Append(Content, v)
    BY <1>3, <2>2, PublishStep, AdvanceStep
  <2> QED BY <1>1, <2>1, <2>2, <2>3, <2>4
<1> QED BY <1>2, <1>3 DEF Enqueuing

\* the consumer's steps but the last leave the queue as it is
LEMMA DequeuingStep ==
  ASSUME NEW p \in Producers, QInv(p), TryDequeue \/ LookAhead \/ Recheck \/ MoveOn \/ Take
  PROVE  QInv(p)' /\ Content' = Content /\ last' = last /\ prod' = prod
<1>1. last' = last /\ prod' = prod
  BY DEF TryDequeue, LookAhead, Recheck, MoveOn, Take
<1> QED BY <1>1, TryDequeueStep, LookAheadStep, RecheckStep, MoveOnStep, TakeStep

\* a step of Logging adds at the end, takes the head or changes nothing
LEMMA FifoStep ==
  ASSUME NEW p \in Producers, Producers = {p}, QueueInv(p), [Next]_vars
  PROVE  /\ QueueInv(p)'
         /\ \/ Content' = Content /\ last' = last
            \/ (\E v \in Values : Content' = Append(Content, v)) /\ last' = last
            \/ Content # << >> /\ last' = <<Head(Content)>> /\ Content' = Tail(Content)
<1>1. QInv(p) /\ lines \in Nat
  BY DEF QueueInv
<1>2. CASE EnqueueLog(p)
  <2>1. lines' \in Nat /\ lines' \in Values /\ Enqueue(p, lines')
    BY <1>1, <1>2, LoggingAssumption DEF EnqueueLog, LoggingAssumption
  <2>2. QInv(p)' /\ Content' = Content
    BY <1>1, <2>1, EnqueueStep
  <2>3. last' = last
    BY <2>1 DEF Enqueue
  <2> QED BY <2>1, <2>2, <2>3 DEF QueueInv
<1>3. CASE Enqueued(p)
  <2>1. lines' = lines /\ (Enqueuing(p) \/ OutOfMemory(p))
    BY <1>3 DEF Enqueued, lvars
  <2>2. QInv(p)' /\ last' = last /\ (Content' = Content \/ \E v \in Values : Content' = Append(Content, v))
    BY <1>1, <2>1, EnqueuedStep
  <2> QED BY <1>1, <2>1, <2>2 DEF QueueInv
<1>4. CASE UNCHANGED qvars /\ (lines' = lines \/ lines' = lines + 1)
  <2>1. lines' \in Nat
    BY <1>1, <1>4
  <2> QED BY <1>1, <1>4, <2>1, QueueUnchanged DEF QueueInv
<1>5. CASE Flush \/ FlushNext
  <2>1. lines' = lines
    BY <1>5 DEF Flush, FlushNext
  <2>2. CASE TryDequeue \/ LookAhead \/ Recheck \/ MoveOn \/ Take
    BY <1>1, <2>1, <2>2, DequeuingStep DEF QueueInv
  <2>3. CASE Release
    BY <1>1, <2>1, <2>3, ReleaseStep DEF QueueInv
  <2> QED BY <1>5, <2>2, <2>3 DEF Flush, FlushNext
<1>6. ASSUME NEW t \in Tasks, Log(t) PROVE UNCHANGED qvars /\ lines' = lines + 1
  BY <1>6 DEF Log
<1>7. ASSUME NEW t \in Printers, Printing(t) PROVE UNCHANGED qvars /\ lines' = lines
  BY <1>7 DEF Printing, Snapshot, Deliver, Capture, CaptureLocked
<1>8. ASSUME NEW s \in Sinks, Connect(s) \/ Attach(s) \/ Replay(s) \/ Disconnect(s) \/ RemoveSink(s)
      PROVE  UNCHANGED qvars /\ lines' = lines
  BY <1>8 DEF Connect, Attach, Replay, Disconnect, RemoveSink
<1>9. CASE DropLog(p)
  BY <1>4, <1>9 DEF DropLog
<1>10. CASE UNCHANGED vars
  BY <1>4, <1>10 DEF vars, lvars
<1> QED BY <1>2, <1>3, <1>4, <1>5, <1>6, <1>7, <1>8, <1>9, <1>10 DEF Next

\* With one producer nothing is lost, duplicated or overtaken in readerwriterqueue.h,
\* through full blocks, blocks taken up again and blocks made: the queue of log lines
\* implements Fifo.
THEOREM QueueIsFifo ==
  ASSUME NEW rt, Producers = {rt}
  PROVE  Spec => RefinesFifo
<1>1. rt \in Producers
  OBVIOUS
<1>2. Init => QueueInv(rt) /\ Abstract!Init
  <2>1. Init => last = << >>
    BY DEF Init, QInit
  <2> QED BY <1>1, <2>1, QueueInitially DEF Abstract!Init
<1>3. QueueInv(rt) /\ [Next]_vars => QueueInv(rt)' /\ [Abstract!Next]_<<Content, last>>
  BY <1>1, FifoStep DEF Abstract!Next, Abstract!Enqueue, Abstract!Dequeue
<1> QED BY <1>2, <1>3, PTL DEF Spec, RefinesFifo, Abstract!Spec

-----------------------------------------------------------------------------
(* The lines.                                                                *)

\* task t has printed a line and is on its way through the sinks
Busy(t) == task[t].at \in {"snapshot", "deliver", "capture"}
\* the line the producer is about to enqueue, and with it those that wait for the UART
Waiting(p) == {l \in Values : prod[p].at # "idle" /\ prod[p].v = <<l>>}
Queued(p) == Range(Content) \cup Waiting(p)
\* the lines of the boot log
Backlog == Range(boot.text)
\* line l is nowhere on core 0: not in the boot log, with a sink or in a task
Clear(l) ==
  /\ l \notin Backlog /\ \A s \in Sinks : l \notin Range(got[s])
  /\ \A t \in Printers : Busy(t) => task[t].line # l

\* where a task and a client may be
Places == {"idle", "dequeue", "snapshot", "deliver", "capture"}
Events == {"off", "attach", "replay", "on", "remove"}
\* types
LogTypes ==
  /\ lines \in Nat /\ sinks \in Seq(Sinks)
  /\ task \in [Printers -> [at : Places, line : Nat, todo : Seq(Sinks)]]
  /\ link \in [Sinks -> [at : Events, len : Nat]]
  /\ got \in [Sinks -> Seq(Nat)]
  /\ boot \in [text : Seq(Nat), open : BOOLEAN]
\* no line is ahead of the count
Logged ==
  /\ Backlog \subseteq 1..lines /\ \A s \in Sinks : Range(got[s]) \subseteq 1..lines
  /\ \A t \in Printers : Busy(t) => task[t].line \in 1..lines
\* a queued line is there once, and nowhere else
QueueLines(p) ==
  /\ IsInjective(Content) /\ Range(Content) \cap Waiting(p) = {}
  /\ \A l \in Queued(p) : l \in 1..lines /\ Clear(l)
\* a line is in one task; until it has captured it, it is not in the boot log; before
\* the snapshot no sink has it, and then no sink it still has to call
TaskLines ==
  /\ \A t, u \in Printers : Busy(t) /\ Busy(u) /\ task[t].line = task[u].line => t = u
  /\ \A t \in Printers :
       /\ Busy(t) => task[t].line \notin Backlog
       /\ task[t].at = "snapshot" => \A s \in Sinks : task[t].line \notin Range(got[s])
       /\ task[t].at = "deliver" => /\ IsInjective(task[t].todo)
                                    /\ \A s \in Range(task[t].todo) : task[t].line \notin Range(got[s])
\* a sink is in the table once; it has a line twice neither directly nor through the
\* backlog: what it was given is not in the boot log, unless it is about to be replayed
\* and then it came after it
SinkLines ==
  /\ IsInjective(sinks) /\ IsInjective(boot.text)
  /\ \A s \in Sinks :
       /\ IsInjective(got[s])
       /\ link[s].at \in {"off", "remove"} => got[s] = <<>>
       /\ link[s].at = "replay" => s \in Range(sinks) /\ link[s].len <= Len(boot.text)
       /\ link[s].at = "replay" \/ s \notin Range(sinks) => Range(got[s]) \cap Backlog = {}
\* while the boot log is open there are no sinks: what a task is about to capture, none has
OpenLog ==
  boot.open => /\ sinks = <<>>
               /\ \A s \in Sinks : got[s] = <<>> /\ link[s].at # "replay"
               /\ \A t \in Printers : task[t].at = "deliver" => task[t].todo = <<>>

\* the inductive invariant of the lines
LineInv(p) == LogTypes /\ Logged /\ QueueLines(p) /\ TaskLines /\ SinkLines /\ OpenLog

-----------------------------------------------------------------------------
\* sequences without repetition
LEMMA RangeOfEmpty == Range(<<>>) = {} /\ IsInjective(<<>>)
BY DEF Range, IsInjective

LEMMA RangeOf == \A S : \A s \in Seq(S) : Range(s) \subseteq S
BY DEF Range

\* one more at the end
LEMMA RangeAppend ==
  ASSUME NEW S, NEW s \in Seq(S), NEW x \in S
  PROVE  /\ Append(s, x) \in Seq(S) /\ Range(Append(s, x)) = Range(s) \cup {x}
         /\ IsInjective(s) /\ x \notin Range(s) => IsInjective(Append(s, x))
<1>1. /\ Len(Append(s, x)) = Len(s) + 1 /\ Append(s, x)[Len(s) + 1] = x /\ Len(s) \in Nat
      /\ \A i \in 1..Len(s) : Append(s, x)[i] = s[i]
      /\ DOMAIN s = 1..Len(s) /\ DOMAIN Append(s, x) = 1..Len(s) + 1 /\ Append(s, x) \in Seq(S)
  OBVIOUS
<1>2. \A i \in 1..Len(s) + 1 : i = Len(s) + 1 \/ i \in 1..Len(s)
  BY <1>1
<1>3. \A i \in 1..Len(s) : i \in 1..Len(s) + 1
  BY <1>1
<1>4. Len(s) + 1 \in 1..Len(s) + 1
  BY <1>1
<1> HIDE <1>2
<1>5. Range(Append(s, x)) = Range(s) \cup {x}
  BY <1>1, <1>2, <1>3, <1>4 DEF Range
<1>6. ASSUME IsInjective(s), x \notin Range(s) PROVE IsInjective(Append(s, x))
  BY <1>1, <1>2, <1>6 DEF IsInjective, Range
<1> QED BY <1>1, <1>5, <1>6

\* without the head
LEMMA RangeTail ==
  ASSUME NEW S, NEW s \in Seq(S), s # << >>
  PROVE  /\ Tail(s) \in Seq(S) /\ Head(s) \in S /\ Range(s) = Range(Tail(s)) \cup {Head(s)}
         /\ IsInjective(s) => IsInjective(Tail(s)) /\ Head(s) \notin Range(Tail(s))
<1>1. /\ Len(Tail(s)) = Len(s) - 1 /\ Head(s) = s[1] /\ Len(s) \in Nat /\ Len(s) >= 1
      /\ Tail(s) \in Seq(S) /\ Head(s) \in S /\ DOMAIN s = 1..Len(s) /\ DOMAIN Tail(s) = 1..Len(s) - 1
  OBVIOUS
<1>2. \A i \in 1..Len(s) - 1 : Tail(s)[i] = s[i + 1] /\ i + 1 \in 1..Len(s) /\ i + 1 # 1
  BY <1>1
<1>3. \A i \in 1..Len(s) : i = 1 \/ (i - 1 \in 1..Len(s) - 1 /\ Tail(s)[i - 1] = s[i])
  BY <1>1
<1>4. 1 \in 1..Len(s)
  BY <1>1
<1>5. Range(s) = Range(Tail(s)) \cup {Head(s)}
  <2>1. \A y : y \in Range(s) <=> \E i \in 1..Len(s) : s[i] = y
    BY <1>1 DEF Range
  <2>2. \A y : y \in Range(Tail(s)) <=> \E i \in 1..Len(s) - 1 : Tail(s)[i] = y
    BY <1>1 DEF Range
  <2>3. \A y \in Range(s) : y = Head(s) \/ y \in Range(Tail(s))
    BY <1>1, <1>3, <2>1, <2>2
  <2>4. \A y \in Range(Tail(s)) : y \in Range(s)
    BY <1>2, <2>1, <2>2
  <2>5. Head(s) \in Range(s)
    BY <1>1, <1>4, <2>1
  <2> QED BY <2>3, <2>4, <2>5
<1>6. ASSUME IsInjective(s) PROVE IsInjective(Tail(s)) /\ Head(s) \notin Range(Tail(s))
  <2>1. \A i, j \in 1..Len(s) - 1 : i + 1 = j + 1 => i = j
    BY <1>1
  <2> QED BY <1>1, <1>2, <1>4, <1>6, <2>1 DEF IsInjective, Range
<1> QED BY <1>1, <1>5, <1>6

\* two of them
LEMMA RangeConcat ==
  ASSUME NEW S, NEW s \in Seq(S), NEW t \in Seq(S)
  PROVE  /\ s \o t \in Seq(S) /\ Range(s \o t) = Range(s) \cup Range(t)
         /\ IsInjective(s) /\ IsInjective(t) /\ Range(s) \cap Range(t) = {} => IsInjective(s \o t)
<1>1. /\ Len(s \o t) = Len(s) + Len(t) /\ Len(s) \in Nat /\ Len(t) \in Nat /\ s \o t \in Seq(S)
      /\ DOMAIN s = 1..Len(s) /\ DOMAIN t = 1..Len(t) /\ DOMAIN (s \o t) = 1..Len(s) + Len(t)
  OBVIOUS
<1>2. \A i \in 1..Len(s) : (s \o t)[i] = s[i] /\ i \in 1..Len(s) + Len(t)
  BY <1>1
<1>3. \A i \in 1..Len(t) : (s \o t)[i + Len(s)] = t[i] /\ i + Len(s) \in 1..Len(s) + Len(t)
  BY <1>1
<1>4. \A i \in 1..Len(s) + Len(t) : i \in 1..Len(s) \/ (i - Len(s) \in 1..Len(t) /\ (s \o t)[i] = t[i - Len(s)])
  BY <1>1
<1>5. Range(s \o t) = Range(s) \cup Range(t)
  BY <1>1, <1>2, <1>3, <1>4, SMTT(30) DEF Range
<1>6. ASSUME IsInjective(s), IsInjective(t), Range(s) \cap Range(t) = {},
             NEW i \in 1..Len(s) + Len(t), NEW j \in 1..Len(s) + Len(t), (s \o t)[i] = (s \o t)[j]
      PROVE  i = j
  <2>1. CASE i \in 1..Len(s) /\ j \in 1..Len(s)
    BY <1>1, <1>2, <1>6, <2>1 DEF IsInjective
  <2>2. CASE i \notin 1..Len(s) /\ j \notin 1..Len(s)
    <3>1. i - Len(s) = j - Len(s)
      BY <1>1, <1>4, <1>6, <2>2 DEF IsInjective
    <3> QED BY <1>1, <3>1
  <2>3. CASE i \in 1..Len(s) /\ j \notin 1..Len(s)
    BY <1>1, <1>2, <1>4, <1>6, <2>3 DEF Range
  <2>4. CASE i \notin 1..Len(s) /\ j \in 1..Len(s)
    BY <1>1, <1>2, <1>4, <1>6, <2>4 DEF Range
  <2> QED BY <2>1, <2>2, <2>3, <2>4
<1> QED BY <1>1, <1>5, <1>6 DEF IsInjective

\* a prefix
LEMMA RangeSub ==
  ASSUME NEW S, NEW s \in Seq(S), NEW n \in 0..Len(s)
  PROVE  /\ SubSeq(s, 1, n) \in Seq(S) /\ Range(SubSeq(s, 1, n)) \subseteq Range(s)
         /\ IsInjective(s) => IsInjective(SubSeq(s, 1, n))
<1>1. /\ Len(SubSeq(s, 1, n)) = n /\ SubSeq(s, 1, n) \in Seq(S) /\ n \in Nat /\ Len(s) \in Nat
      /\ DOMAIN SubSeq(s, 1, n) = 1..n /\ DOMAIN s = 1..Len(s)
  OBVIOUS
<1>2. \A i \in 1..n : SubSeq(s, 1, n)[i] = s[i] /\ i \in 1..Len(s)
  BY <1>1
<1> QED BY <1>1, <1>2 DEF Range, IsInjective

\* the last element in the place of the i-th
Removed(s, i) == SubSeq([s EXCEPT ![i] = s[Len(s)]], 1, Len(s) - 1)

\* the last in the place of one that goes
LEMMA RangeRemove ==
  ASSUME NEW S, NEW s \in Seq(S), NEW x \in Range(s), NEW i \in 1..Len(s), s[i] = x,
         NEW r, r = Removed(s, i), IsInjective(s)
  PROVE  r \in Seq(S) /\ Range(r) = Range(s) \ {x} /\ IsInjective(r)
<1>1. /\ Len(s) \in Nat /\ Len(s) >= 1 /\ DOMAIN s = 1..Len(s) /\ Len(s) \in 1..Len(s)
      /\ \A j \in 1..Len(s) : s[j] \in S
  OBVIOUS
<1>2. PICK e : e = [s EXCEPT ![i] = s[Len(s)]]
  OBVIOUS
<1>3. e \in Seq(S) /\ Len(e) = Len(s) /\ \A j \in 1..Len(s) : e[j] = IF j = i THEN s[Len(s)] ELSE s[j]
  BY <1>1, <1>2
<1>4. r \in Seq(S) /\ Len(r) = Len(s) - 1 /\ DOMAIN r = 1..Len(s) - 1 /\ \A j \in 1..Len(s) - 1 : r[j] = e[j]
  BY <1>1, <1>2, <1>3 DEF Removed
<1>5. \A j \in 1..Len(s) - 1 : r[j] = IF j = i THEN s[Len(s)] ELSE s[j]
  BY <1>1, <1>3, <1>4, SMTT(30)
<1>10. \A n \in Nat : /\ \A j \in 1..n - 1 : j \in 1..n /\ j # n
                     /\ \A j \in 1..n : j = n \/ j \in 1..n - 1
  OBVIOUS
<1>6. \A j \in 1..Len(s) - 1 : j \in 1..Len(s) /\ j # Len(s)
  BY <1>1, <1>10
<1>7. \A j \in 1..Len(s) : j = Len(s) \/ j \in 1..Len(s) - 1
  BY <1>1, <1>10
<1>8. IsInjective(r)
  <2>1. \A a, b \in 1..Len(s) : s[a] = s[b] => a = b
    BY <1>1 DEF IsInjective
  <2>2. ASSUME NEW a \in 1..Len(s) - 1, NEW b \in 1..Len(s) - 1, r[a] = r[b] PROVE a = b
    <3>1. a \in 1..Len(s) /\ a # Len(s) /\ b \in 1..Len(s) /\ b # Len(s)
      BY <1>6
    <3>2. /\ r[a] = IF a = i THEN s[Len(s)] ELSE s[a]
          /\ r[b] = IF b = i THEN s[Len(s)] ELSE s[b]
      BY <1>5
    <3> QED BY <1>1, <2>1, <2>2, <3>1, <3>2
  <2> QED BY <1>4, <2>2 DEF IsInjective
<1>9. Range(r) = Range(s) \ {x}
  <2>1. ASSUME NEW j \in 1..Len(s) - 1 PROVE r[j] \in Range(s) /\ r[j] # x
    BY <1>1, <1>5, <1>6 DEF Range, IsInjective
  <2>2. ASSUME NEW y \in Range(s), y # x PROVE \E j \in 1..Len(s) - 1 : r[j] = y
    <3>1. PICK j \in 1..Len(s) : s[j] = y
      BY <1>1 DEF Range
    <3>2. j # i
      BY <2>2, <3>1
    <3>3. CASE j = Len(s)
      <4>1. i \in 1..Len(s) - 1
        BY <1>7, <3>2, <3>3
      <4> QED BY <1>5, <3>1, <3>3, <4>1
    <3>4. CASE j # Len(s)
      BY <1>5, <1>7, <3>1, <3>2, <3>4
    <3> QED BY <3>3, <3>4
  <2>3. \A y : y \in Range(r) <=> \E j \in 1..Len(s) - 1 : r[j] = y
    BY <1>4 DEF Range
  <2>4. \A y \in Range(r) : y \in Range(s) /\ y # x
    BY <2>1, <2>3
  <2>5. \A y \in Range(s) : y # x => y \in Range(r)
    BY <2>2, <2>3
  <2> QED BY <2>4, <2>5
<1> QED BY <1>4, <1>8, <1>9

\* a new line is nowhere yet
LEMMA NewLine ==
  ASSUME NEW p \in Producers, LineInv(p)
  PROVE  Clear(lines + 1) /\ lines + 1 \notin Queued(p) /\ lines + 1 \notin 1..lines
<1>1. lines + 1 \notin 1..lines
  BY DEF LineInv, LogTypes
<1> QED BY <1>1 DEF LineInv, Logged, QueueLines, Clear

\* only the queue and the count of lines change
LEMMA QueueOnly ==
  ASSUME NEW p \in Producers, LineInv(p), UNCHANGED <<sinks, boot, task, link, got>>,
         lines' \in {lines, lines + 1}, IsInjective(Content)', (Range(Content) \cap Waiting(p) = {})',
         \A l \in Queued(p)' : l \in Queued(p) \/ l = lines'
  PROVE  lines' = lines + 1 \/ Queued(p)' \subseteq Queued(p) => LineInv(p)'
<1> SUFFICES ASSUME lines' = lines + 1 \/ Queued(p)' \subseteq Queued(p) PROVE LineInv(p)'
  OBVIOUS
<1>1. lines \in Nat /\ lines' \in Nat /\ \A l \in 1..lines : l \in 1..lines'
  BY DEF LineInv, LogTypes
<1>2. LogTypes' /\ TaskLines' /\ SinkLines' /\ OpenLog'
  BY <1>1 DEF LineInv, LogTypes, TaskLines, SinkLines, OpenLog, Busy, Backlog
<1>3. Logged'
  BY <1>1 DEF LineInv, Logged, Backlog, Busy
<1>4. QueueLines(p)'
  <2>1. \A l : Clear(l) => Clear(l)'
    BY DEF Clear, Backlog, Busy
  <2>2. ASSUME NEW l \in Queued(p)' PROVE l \in 1..lines' /\ Clear(l)'
    <3>1. CASE l \in Queued(p)
      BY <1>1, <2>1, <3>1 DEF LineInv, QueueLines
    <3>2. CASE l \notin Queued(p)
      <4>1. l = lines + 1 /\ lines' = lines + 1
        BY <2>2, <3>2
      <4> QED BY <1>1, <2>1, <4>1, NewLine
    <3> QED BY <3>1, <3>2
  <2> QED BY <2>2 DEF QueueLines
<1> QED BY <1>2, <1>3, <1>4 DEF LineInv

\* the queue holds the lines it held
LEMMA SameQueued ==
  ASSUME NEW p \in Producers, Content' = Content, prod' = prod
  PROVE  Queued(p)' = Queued(p) /\ Waiting(p)' = Waiting(p)
BY DEF Queued, Waiting

\* nothing but the count of lines changes on core 0
LEMMA NoNewLine ==
  ASSUME NEW p \in Producers, LineInv(p), UNCHANGED <<sinks, boot, task, link, got>>,
         lines' \in {lines, lines + 1}, Content' = Content, prod' = prod
  PROVE  LineInv(p)'
<1>1. IsInjective(Content)' /\ (Range(Content) \cap Waiting(p) = {})'
  BY SameQueued DEF LineInv, QueueLines
<1> QED BY <1>1, SameQueued, QueueOnly

\* the producer takes up a new line
LEMMA EnqueueLogLines ==
  ASSUME NEW p \in Producers, QInv(p), LineInv(p), EnqueueLog(p)
  PROVE  QInv(p)' /\ LineInv(p)'
<1>1. /\ lines' = lines + 1 /\ lines' \in Values /\ Enqueue(p, lines') /\ prod[p].at = "idle"
      /\ UNCHANGED <<sinks, boot, task, link, got>>
  <2>1. lines \in Nat
    BY DEF LineInv, LogTypes
  <2> QED BY <2>1, LoggingAssumption DEF EnqueueLog, LoggingAssumption
<1>2. QInv(p)' /\ Content' = Content
  BY <1>1, EnqueueStep
<1>3. Waiting(p) = {} /\ Waiting(p)' = {lines'}
  <2>1. prod = [x \in Producers |-> prod[x]]
    BY DEF QInv, ProdOK
  <2>2. prod'[p].at # "idle" /\ prod'[p].v = <<lines'>>
    BY <1>1, <2>1 DEF Enqueue
  <2> QED BY <1>1, <2>2 DEF Waiting
<1>4. Range(Content)' = Range(Content) /\ lines' \notin Range(Content) /\ IsInjective(Content)'
  BY <1>1, <1>2, NewLine DEF Queued, LineInv, QueueLines
<1>5. Queued(p)' = Range(Content) \cup {lines'} /\ Queued(p) = Range(Content)
  BY <1>3, <1>4 DEF Queued
<1>6. (Range(Content) \cap Waiting(p) = {})'
  BY <1>3, <1>4
<1> QED BY <1>1, <1>2, <1>4, <1>5, <1>6, QueueOnly

\* the rest of enqueue(): the line waits, is in the queue or is lost
LEMMA EnqueuedLines ==
  ASSUME NEW p \in Producers, QInv(p), LineInv(p), Enqueued(p)
  PROVE  QInv(p)' /\ LineInv(p)'
<1>1. /\ lines' = lines /\ UNCHANGED <<sinks, boot, task, link, got>>
      /\ Enqueuing(p) \/ OutOfMemory(p)
  BY DEF Enqueued, lvars
<1>2. /\ QInv(p)'
      /\ \/ Content' = Content
         \/ \E v \in Values : /\ prod[p].at \in {"publish", "advance"} /\ prod[p].v = <<v>>
                              /\ prod'[p] = ResetProd /\ Content' = Append(Content, v)
  BY <1>1, EnqueuedStep
<1>3. Waiting(p)' \subseteq Waiting(p)
  <2>1. prod = [x \in Producers |-> prod[x]]
    BY DEF QInv, ProdOK
  <2>2. prod[p].at # "idle"
    BY <1>1 DEF Enqueuing, OutOfMemory, Put, Publish, Ahead, Reuse, Republish, Alloc, Link, Advance
  <2>3. prod'[p].at = "idle" \/ prod'[p].v = prod[p].v
    <3>1. CASE Put(p) \/ Ahead(p) \/ Reuse(p) \/ Republish(p) \/ Alloc(p) \/ Link(p)
      BY <2>1, <3>1 DEF Put, Ahead, Reuse, Republish, Alloc, Link, Step, QInv, ProdOK
    <3>2. CASE Publish(p) \/ Advance(p) \/ OutOfMemory(p)
      BY <2>1, <3>2 DEF Publish, Advance, OutOfMemory, ResetProd
    <3> QED BY <1>1, <3>1, <3>2 DEF Enqueuing
  <2> QED BY <2>2, <2>3 DEF Waiting
<1>4. /\ Content \in Seq(Values) /\ IsInjective(Content) /\ Range(Content) \cap Waiting(p) = {}
  BY ContentType DEF QInv, Chained, LineInv, QueueLines
<1>5. CASE Content' = Content
  <2>1. IsInjective(Content)' /\ (Range(Content) \cap Waiting(p) = {})' /\ Queued(p)' \subseteq Queued(p)
    BY <1>3, <1>4, <1>5 DEF Queued
  <2> QED BY <1>1, <1>2, <2>1, QueueOnly
<1>6. CASE Content' # Content
  <2>1. PICK v \in Values : /\ prod[p].at \in {"publish", "advance"} /\ prod[p].v = <<v>>
                            /\ prod'[p] = ResetProd /\ Content' = Append(Content, v)
    BY <1>2, <1>6
  <2>2. v \in Waiting(p) /\ Waiting(p)' = {}
    BY <2>1 DEF Waiting, ResetProd
  <2>3. Range(Content)' = Range(Content) \cup {v} /\ IsInjective(Content)'
    BY <1>4, <2>1, <2>2, RangeAppend
  <2>4. (Range(Content) \cap Waiting(p) = {})' /\ Queued(p)' \subseteq Queued(p)
    BY <2>2, <2>3 DEF Queued
  <2> QED BY <1>1, <1>2, <2>3, <2>4, QueueOnly
<1> QED BY <1>5, <1>6

\* one task's record changes
LEMMA OneTask ==
  ASSUME LogTypes, NEW t \in Printers, NEW at \in Places, NEW l \in Nat, NEW todo \in Seq(Sinks),
         NEW f, f = [u \in Printers |-> f[u]], f[t] = [at |-> at, line |-> l, todo |-> todo],
         \A u \in Printers : u # t => f[u] = task[u]
  PROVE  f \in [Printers -> [at : Places, line : Nat, todo : Seq(Sinks)]]
         /\ f[t].at = at /\ f[t].line = l /\ f[t].todo = todo
<1>1. f[t] \in [at : Places, line : Nat, todo : Seq(Sinks)]
  OBVIOUS
<1>2. \A u \in Printers : f[u] \in [at : Places, line : Nat, todo : Seq(Sinks)]
  BY <1>1 DEF LogTypes
<1> QED BY <1>2

\* a task comes to have a line that is nowhere else
LEMMA PrintedLines ==
  ASSUME NEW p \in Producers, LineInv(p), NEW t \in Printers, ~Busy(t), NEW l, Clear(l),
         lines' \in {lines, lines + 1}, l \in 1..lines', Printed(t, l),
         UNCHANGED <<sinks, boot, link, got>>,
         IsInjective(Content)', (Range(Content) \cap Waiting(p) = {})',
         \A k \in Queued(p)' : k \in Queued(p) /\ k # l
  PROVE  LineInv(p)'
<1>1. lines \in Nat /\ lines' \in Nat /\ \A k \in 1..lines : k \in 1..lines'
  BY DEF LineInv, LogTypes
<1>2. /\ task' \in [Printers -> [at : Places, line : Nat, todo : Seq(Sinks)]]
      /\ task'[t].line = l /\ task'[t].at \in {"snapshot", "idle"}
      /\ \A u \in Printers : u # t => task'[u] = task[u]
  <2>1. PICK at \in {"snapshot", "idle"} : task' = [task EXCEPT ![t].line = l, ![t].at = at]
    BY DEF Printed
  <2>2. task[t] \in [at : Places, line : Nat, todo : Seq(Sinks)] /\ task = [u \in Printers |-> task[u]]
    BY DEF LineInv, LogTypes
  <2>3. l \in Nat /\ at \in Places /\ task[t].todo \in Seq(Sinks)
    <3>1. l \in Nat
      BY <1>1
    <3>2. at \in Places
      BY <2>1 DEF Places
    <3>3. task[t].todo \in Seq(Sinks)
      BY <2>2
    <3> QED BY <3>1, <3>2, <3>3
  <2>4. task'[t] = [at |-> at, line |-> l, todo |-> task[t].todo]
    BY <2>1, <2>2
  <2>5. task' = [u \in Printers |-> task'[u]] /\ \A u \in Printers : u # t => task'[u] = task[u]
    BY <2>1, <2>2
  <2> QED BY <2>3, <2>4, <2>5, OneTask DEF LineInv
<1>3. LogTypes' /\ SinkLines' /\ OpenLog'
  BY <1>1, <1>2 DEF LineInv, LogTypes, SinkLines, OpenLog, Backlog
<1>4. Logged'
  BY <1>1, <1>2 DEF LineInv, Logged, Backlog, Busy
<1>5. TaskLines'
  BY <1>2, ZenonT(40) DEF LineInv, TaskLines, Clear, Backlog, Busy
<1>6. QueueLines(p)'
  <2>1. ASSUME NEW k \in Queued(p)' PROVE k \in 1..lines' /\ Clear(k)'
    <3>1. k \in 1..lines /\ Clear(k) /\ k # l
      BY <2>1 DEF LineInv, QueueLines
    <3> QED BY <1>1, <1>2, <3>1 DEF Clear, Backlog, Busy
  <2> QED BY <2>1 DEF QueueLines
<1> QED BY <1>3, <1>4, <1>5, <1>6 DEF LineInv

\* a task prints a new line
LEMMA LogLines ==
  ASSUME NEW p \in Producers, QInv(p), LineInv(p), NEW t \in Tasks, Log(t)
  PROVE  QInv(p)' /\ LineInv(p)'
<1>1. /\ UNCHANGED qvars /\ lines' = lines + 1 /\ Printed(t, lines') /\ ~Busy(t) /\ t \in Printers
      /\ UNCHANGED <<sinks, boot, link, got>> /\ prod' = prod
  BY DEF Log, Printers, Busy, qvars
<1>2. QInv(p)' /\ Content' = Content
  BY <1>1, QueueUnchanged
<1>3. Queued(p)' = Queued(p) /\ Waiting(p)' = Waiting(p)
  BY <1>1, <1>2, SameQueued
<1>4. Clear(lines') /\ lines' \notin Queued(p) /\ lines' \in 1..lines'
  <2>1. lines' \in Nat /\ lines' >= 1
    BY <1>1 DEF LineInv, LogTypes
  <2> QED BY <1>1, <2>1, NewLine
<1>5. IsInjective(Content)' /\ (Range(Content) \cap Waiting(p) = {})'
  BY <1>2, <1>3 DEF LineInv, QueueLines
<1> QED BY <1>1, <1>2, <1>3, <1>4, <1>5, PrintedLines

\* a task that is not busy afterwards: nothing else changes
LEMMA NotBusyLines ==
  ASSUME NEW p \in Producers, LineInv(p), NEW t \in Printers, UNCHANGED <<lines, sinks, boot, link, got>>,
         NEW at \in {"idle", "dequeue"}, task' = [task EXCEPT ![t].at = at] \/ task' = task,
         Content' = Content, prod' = prod
  PROVE  LineInv(p)'
<1>1. CASE task' = task
  BY <1>1, NoNewLine
<1>2. CASE task' = [task EXCEPT ![t].at = at]
  <2>1. /\ task' \in [Printers -> [at : Places, line : Nat, todo : Seq(Sinks)]]
        /\ task'[t].at \in {"idle", "dequeue"}
        /\ \A u \in Printers : u # t => task'[u] = task[u]
    <3>2. task[t] \in [at : Places, line : Nat, todo : Seq(Sinks)] /\ task = [u \in Printers |-> task[u]]
      BY DEF LineInv, LogTypes
    <3>3. task[t].line \in Nat /\ at \in Places /\ task[t].todo \in Seq(Sinks)
      <4>1. task[t].line \in Nat
        BY <3>2
      <4>2. at \in Places
        BY DEF Places
      <4>3. task[t].todo \in Seq(Sinks)
        BY <3>2
      <4> QED BY <4>1, <4>2, <4>3
    <3>4. task'[t] = [at |-> at, line |-> task[t].line, todo |-> task[t].todo]
      BY <1>2, <3>2
    <3>5. task' = [u \in Printers |-> task'[u]] /\ \A u \in Printers : u # t => task'[u] = task[u]
      BY <1>2, <3>2
    <3> QED BY <3>3, <3>4, <3>5, OneTask DEF LineInv
  <2>2. LogTypes' /\ SinkLines' /\ OpenLog'
    BY <2>1 DEF LineInv, LogTypes, SinkLines, OpenLog, Backlog
  <2>3. Logged' /\ TaskLines'
    BY <2>1 DEF LineInv, Logged, TaskLines, Backlog, Busy
  <2>4. QueueLines(p)'
    <3>1. \A l : Clear(l) => Clear(l)'
      BY <2>1 DEF Clear, Backlog, Busy
    <3> QED BY <3>1, SameQueued DEF LineInv, QueueLines
  <2> QED BY <2>2, <2>3, <2>4 DEF LineInv
<1> QED BY <1>1, <1>2

\* a dequeued line leaves the queue for the network loop
LEMMA FlushLines ==
  ASSUME NEW p \in Producers, QInv(p), LineInv(p), Flush \/ FlushNext
  PROVE  QInv(p)' /\ LineInv(p)'
<1>1. UNCHANGED <<lines, sinks, boot, link, got>> /\ Net \in Printers
  BY DEF Flush, FlushNext, Printers
<1>2. CASE TryDequeue \/ LookAhead \/ Recheck \/ MoveOn \/ Take
  <2>1. QInv(p)' /\ Content' = Content /\ prod' = prod
    BY <1>2, DequeuingStep
  <2>2. \/ task' = [task EXCEPT ![Net].at = "dequeue"]
        \/ task' = [task EXCEPT ![Net].at = "idle"] \/ task' = task
    <3>1. ~Release
      BY <1>2, <2>1 DEF Release, QInv, ConsOK, TryDequeue, LookAhead, Recheck, MoveOn, Take
    <3> QED BY <3>1 DEF Flush, FlushNext
  <2> QED BY <1>1, <2>1, <2>2, NotBusyLines
<1>3. CASE FlushNext /\ Release /\ Printed(Net, cons.v[1])
  <2>1. /\ QInv(p)' /\ Content # << >> /\ Content' = Tail(Content) /\ cons.v = <<Head(Content)>>
        /\ prod' = prod
    BY <1>3, ReleaseStep DEF Release
  <2>2. Content \in Seq(Values) /\ IsInjective(Content)
    BY ContentType DEF QInv, Chained, LineInv, QueueLines
  <2>3. /\ Range(Content) = Range(Content)' \cup {Head(Content)} /\ IsInjective(Content)'
        /\ Head(Content) \notin Range(Content)'
    BY <2>1, <2>2, RangeTail
  <2>4. PICK l : l = Head(Content)
    OBVIOUS
  <2>5. Waiting(p)' = Waiting(p) /\ Range(Content) \cap Waiting(p) = {}
    BY <2>1 DEF Waiting, LineInv, QueueLines
  <2>6. \A k \in Queued(p)' : k \in Queued(p) /\ k # l
    BY <2>3, <2>4, <2>5 DEF Queued
  <2>7. (Range(Content) \cap Waiting(p) = {})'
    BY <2>3, <2>5
  <2>8. l \in Queued(p)
    BY <2>3, <2>4 DEF Queued
  <2>9. Clear(l) /\ l \in 1..lines
    BY <2>8 DEF LineInv, QueueLines
  <2>10. Printed(Net, l) /\ ~Busy(Net)
    BY <1>3, <2>1, <2>4 DEF FlushNext, Busy
  <2> QED BY <1>1, <2>1, <2>3, <2>6, <2>7, <2>9, <2>10, PrintedLines
<1> QED BY <1>2, <1>3 DEF Flush, FlushNext

\* Snapshot(): none of the sinks it takes has the line
LEMMA SnapshotLines ==
  ASSUME NEW p \in Producers, QInv(p), LineInv(p), NEW t \in Printers, Snapshot(t)
  PROVE  QInv(p)' /\ LineInv(p)'
<1>1. /\ task[t].at = "snapshot" /\ task' = [task EXCEPT ![t].at = "deliver", ![t].todo = sinks]
      /\ UNCHANGED <<qvars, lines, sinks, boot, link, got>> /\ prod' = prod
  BY DEF Snapshot, qvars
<1>2. QInv(p)' /\ Content' = Content
  BY <1>1, QueueUnchanged
<1>3. /\ task' \in [Printers -> [at : Places, line : Nat, todo : Seq(Sinks)]]
      /\ task'[t].line = task[t].line /\ task'[t].at = "deliver" /\ task'[t].todo = sinks
      /\ \A u \in Printers : u # t => task'[u] = task[u]
  <2>1. /\ task[t] \in [at : Places, line : Nat, todo : Seq(Sinks)] /\ task = [u \in Printers |-> task[u]]
        /\ sinks \in Seq(Sinks)
    BY DEF LineInv, LogTypes
  <2>2. task[t].line \in Nat /\ "deliver" \in Places
    BY <2>1 DEF Places
  <2>3. task'[t] = [at |-> "deliver", line |-> task[t].line, todo |-> sinks]
    BY <1>1, <2>1
  <2>4. task' = [u \in Printers |-> task'[u]] /\ \A u \in Printers : u # t => task'[u] = task[u]
    BY <1>1, <2>1
  <2>5. LogTypes /\ sinks \in Seq(Sinks)
    BY DEF LineInv, LogTypes
  <2>6. PICK l \in Nat : l = task[t].line
    BY <2>2
  <2>7. task'[t] = [at |-> "deliver", line |-> l, todo |-> sinks]
    BY <2>3, <2>6
  <2> QED BY <2>2, <2>4, <2>5, <2>6, <2>7, OneTask
<1>4. Busy(t) /\ \A u \in Printers : Busy(u)' = Busy(u) /\ task'[u].line = task[u].line
  BY <1>1, <1>3 DEF Busy
<1>5. LogTypes' /\ SinkLines' /\ Logged'
  BY <1>1, <1>3, <1>4 DEF LineInv, LogTypes, SinkLines, Logged, Backlog
<1>6. OpenLog'
  BY <1>1, <1>3 DEF LineInv, OpenLog
<1>7. TaskLines'
  <2>1. \A u, w \in Printers : Busy(u)' /\ Busy(w)' /\ task'[u].line = task'[w].line => u = w
    BY <1>4 DEF LineInv, TaskLines
  <2>2. \A s \in Range(sinks) : s \in Sinks
    BY RangeOf DEF LineInv, LogTypes
  <2>3. IsInjective(sinks)
    BY DEF LineInv, SinkLines
  <2>4. ASSUME NEW u \in Printers
        PROVE  /\ Busy(u)' => task'[u].line \notin Backlog'
               /\ task'[u].at = "snapshot" => \A s \in Sinks : task'[u].line \notin Range(got'[s])
               /\ task'[u].at = "deliver" => /\ IsInjective(task'[u].todo)
                                    /\ \A s \in Range(task'[u].todo) : task'[u].line \notin Range(got'[s])
    <3>1. /\ Busy(u) => task[u].line \notin Backlog
          /\ task[u].at = "snapshot" => \A s \in Sinks : task[u].line \notin Range(got[s])
          /\ task[u].at = "deliver" => /\ IsInjective(task[u].todo)
                                    /\ \A s \in Range(task[u].todo) : task[u].line \notin Range(got[s])
      BY DEF LineInv, TaskLines
    <3>2. Backlog' = Backlog /\ got' = got
      BY <1>1 DEF Backlog
    <3>3. CASE u = t
      BY <1>1, <1>3, <1>4, <2>2, <2>3, <3>1, <3>2, <3>3
    <3>4. CASE u # t
      BY <1>3, <1>4, <3>1, <3>2, <3>4
    <3> QED BY <3>3, <3>4
  <2> QED BY <2>1, <2>4 DEF TaskLines
<1>8. QueueLines(p)'
  <2>1. \A l : Clear(l) => Clear(l)'
    BY <1>1, <1>4 DEF Clear, Backlog
  <2> QED BY <1>1, <1>2, <2>1, SameQueued DEF LineInv, QueueLines
<1> QED BY <1>2, <1>5, <1>6, <1>7, <1>8 DEF LineInv

\* Deliver(): the sink gets a line it has not, and is not called with it again
LEMMA DeliverLines ==
  ASSUME NEW p \in Producers, QInv(p), LineInv(p), NEW t \in Printers, Deliver(t)
  PROVE  QInv(p)' /\ LineInv(p)'
<1>1. PICK s, l, todo : s = Head(task[t].todo) /\ l = task[t].line /\ todo = Tail(task[t].todo)
  OBVIOUS
<1>2. /\ task[t].at = "deliver" /\ task[t].todo # << >> /\ task' = [task EXCEPT ![t].todo = todo]
      /\ got' = IF Connected(s) THEN [got EXCEPT ![s] = Append(got[s], l)] ELSE got
      /\ UNCHANGED <<qvars, lines, sinks, boot, link>> /\ prod' = prod
  BY <1>1 DEF Deliver, qvars
<1>3. QInv(p)' /\ Content' = Content
  BY <1>2, QueueUnchanged
<1>4. /\ task[t] \in [at : Places, line : Nat, todo : Seq(Sinks)] /\ task = [u \in Printers |-> task[u]]
      /\ task[t].todo \in Seq(Sinks)
  BY DEF LineInv, LogTypes
<1>5. IsInjective(task[t].todo) /\ \A k \in Range(task[t].todo) : l \notin Range(got[k])
  BY <1>1, <1>2 DEF LineInv, TaskLines
<1>6. /\ todo \in Seq(Sinks) /\ IsInjective(todo) /\ s \in Sinks /\ s \notin Range(todo)
      /\ Range(task[t].todo) = Range(todo) \cup {s} /\ l \notin Range(got[s])
  <2>1. PICK a \in Seq(Sinks) : a = task[t].todo
    BY <1>4
  <2>2. a # << >> /\ IsInjective(a) /\ s = Head(a) /\ todo = Tail(a)
    BY <1>1, <1>2, <1>5, <2>1
  <2> QED BY <1>5, <2>1, <2>2, RangeTail
<1>7. /\ task' \in [Printers -> [at : Places, line : Nat, todo : Seq(Sinks)]]
      /\ task'[t].line = l /\ task'[t].at = "deliver" /\ task'[t].todo = todo
      /\ \A u \in Printers : u # t => task'[u] = task[u]
  <2>2. l \in Nat /\ "deliver" \in Places
    BY <1>1, <1>4 DEF Places
  <2>3. task'[t] = [at |-> "deliver", line |-> l, todo |-> todo]
    BY <1>1, <1>2, <1>4
  <2>4. task' = [u \in Printers |-> task'[u]] /\ \A u \in Printers : u # t => task'[u] = task[u]
    BY <1>2, <1>4
  <2> QED BY <1>6, <2>2, <2>3, <2>4, OneTask DEF LineInv
<1>8. Busy(t) /\ \A u \in Printers : Busy(u)' = Busy(u) /\ task'[u].line = task[u].line
  BY <1>1, <1>2, <1>7 DEF Busy
<1>9. ~boot.open
  BY <1>2 DEF LineInv, OpenLog
<1>10. l \in 1..lines /\ l \notin Backlog /\ l \in Nat
  BY <1>1, <1>8 DEF LineInv, Logged, TaskLines, LogTypes
<1>11. /\ got' \in [Sinks -> Seq(Nat)]
       /\ \A k \in Sinks : Range(got'[k]) \subseteq Range(got[k]) \cup (IF k = s THEN {l} ELSE {})
       /\ \A k \in Sinks : IsInjective(got'[k])
       /\ ~Connected(s) => got' = got
       /\ \A k \in Sinks : k # s => got'[k] = got[k]
  <2>1. got \in [Sinks -> Seq(Nat)] /\ \A k \in Sinks : IsInjective(got[k])
    BY DEF LineInv, LogTypes, SinkLines
  <2>2. CASE ~Connected(s)
    BY <1>2, <2>1, <2>2
  <2>3. CASE Connected(s)
    <3>1. PICK g \in Seq(Nat) : g = got[s]
      BY <1>6, <2>1
    <3>2. /\ Append(g, l) \in Seq(Nat) /\ Range(Append(g, l)) = Range(g) \cup {l}
          /\ IsInjective(Append(g, l))
      BY <1>6, <1>10, <2>1, <3>1, RangeAppend
    <3>3. got' = [got EXCEPT ![s] = Append(g, l)]
      BY <1>2, <2>3, <3>1
    <3> QED BY <1>6, <2>1, <2>3, <3>1, <3>2, <3>3
  <2> QED BY <2>2, <2>3
<1>12. LogTypes' /\ Logged' /\ OpenLog'
  <2>1. LogTypes'
    BY <1>2, <1>7, <1>11 DEF LineInv, LogTypes
  <2>2. \A k \in Sinks : Range(got'[k]) \subseteq 1..lines
    BY <1>10, <1>11 DEF LineInv, Logged
  <2>3. Logged'
    BY <1>2, <1>8, <2>2 DEF LineInv, Logged, Backlog
  <2>4. OpenLog'
    BY <1>2, <1>9 DEF OpenLog
  <2> QED BY <2>1, <2>3, <2>4
<1>13. TaskLines'
  <2>1. \A u, w \in Printers : Busy(u)' /\ Busy(w)' /\ task'[u].line = task'[w].line => u = w
    BY <1>8 DEF LineInv, TaskLines
  <2>4. ASSUME NEW u \in Printers
        PROVE  /\ Busy(u)' => task'[u].line \notin Backlog'
               /\ task'[u].at = "snapshot" => \A k \in Sinks : task'[u].line \notin Range(got'[k])
               /\ task'[u].at = "deliver" => /\ IsInjective(task'[u].todo)
                                    /\ \A k \in Range(task'[u].todo) : task'[u].line \notin Range(got'[k])
    <3>1. /\ Busy(u) => task[u].line \notin Backlog
          /\ task[u].at = "snapshot" => \A k \in Sinks : task[u].line \notin Range(got[k])
          /\ task[u].at = "deliver" => /\ IsInjective(task[u].todo)
                                    /\ \A k \in Range(task[u].todo) : task[u].line \notin Range(got[k])
          /\ Busy(u) /\ u # t => task[u].line # l
      BY <1>1, <1>8 DEF LineInv, TaskLines
    <3>2. Backlog' = Backlog
      BY <1>2 DEF Backlog
    <3>3. CASE u = t
      <4>1. \A k \in Range(todo) : k \in Sinks /\ k # s /\ l \notin Range(got[k])
        BY <1>5, <1>6, RangeOf
      <4> QED BY <1>6, <1>7, <1>10, <1>11, <3>2, <3>3, <4>1
    <3>4. CASE u # t
      <4>1. task'[u] = task[u] /\ Busy(u)' = Busy(u)
        BY <1>7, <1>8, <3>4
      <4>2. task[u].at = "snapshot" => \A k \in Sinks : task[u].line \notin Range(got'[k])
        BY <1>11, <3>1, <3>4 DEF Busy
      <4>3. \A k \in Range(task[u].todo) : k \in Sinks
        BY RangeOf DEF LineInv, LogTypes
      <4>4. task[u].at = "deliver" => \A k \in Range(task[u].todo) : task[u].line \notin Range(got'[k])
        BY <1>11, <3>1, <3>4, <4>3 DEF Busy
      <4> QED BY <3>1, <3>2, <4>1, <4>2, <4>4
    <3> QED BY <3>3, <3>4
  <2> QED BY <2>1, <2>4 DEF TaskLines
<1>14. SinkLines'
  <2>1. Backlog' = Backlog
    BY <1>2 DEF Backlog
  <2>2. ASSUME NEW k \in Sinks
        PROVE  /\ link[k].at \in {"off", "remove"} => got'[k] = <<>>
               /\ link[k].at = "replay" \/ k \notin Range(sinks) => Range(got'[k]) \cap Backlog = {}
    <3>1. /\ link[k].at \in {"off", "remove"} => got[k] = <<>>
          /\ link[k].at = "replay" \/ k \notin Range(sinks) => Range(got[k]) \cap Backlog = {}
      BY DEF LineInv, SinkLines
    <3>2. link[k].at \in {"off", "remove"} => got'[k] = got[k]
      BY <1>11 DEF Connected
    <3> QED BY <1>10, <1>11, <3>1, <3>2
  <2> QED BY <1>2, <1>11, <2>1, <2>2 DEF LineInv, SinkLines
<1>15. QueueLines(p)'
  <2>1. ASSUME NEW k \in Queued(p)' PROVE k \in 1..lines' /\ Clear(k)'
    <3>1. k \in 1..lines /\ Clear(k)
      BY <1>2, <1>3, <2>1, SameQueued DEF LineInv, QueueLines
    <3>2. k # l
      BY <1>1, <1>8, <3>1 DEF Clear
    <3> QED BY <1>2, <1>8, <1>11, <3>1, <3>2 DEF Clear, Backlog
  <2>2. IsInjective(Content)' /\ (Range(Content) \cap Waiting(p) = {})'
    BY <1>2, <1>3, SameQueued DEF LineInv, QueueLines
  <2> QED BY <2>1, <2>2 DEF QueueLines
<1> QED BY <1>3, <1>12, <1>13, <1>14, <1>15 DEF LineInv

\* Capture(): the line goes on to the lock only when no sink got it
LEMMA CaptureLines ==
  ASSUME NEW p \in Producers, QInv(p), LineInv(p), NEW t \in Printers, Capture(t)
  PROVE  QInv(p)' /\ LineInv(p)'
<1>1. /\ task[t].at = "deliver" /\ UNCHANGED <<qvars, lines, sinks, boot, link, got>> /\ prod' = prod
      /\ \/ task' = [task EXCEPT ![t].at = "capture"]
         \/ task' = [task EXCEPT ![t].at = "idle"]
  BY DEF Capture, qvars
<1>2. QInv(p)' /\ Content' = Content
  BY <1>1, QueueUnchanged
<1>3. CASE task' = [task EXCEPT ![t].at = "idle"]
  BY <1>1, <1>2, <1>3, NotBusyLines
<1>4. CASE task' = [task EXCEPT ![t].at = "capture"]
  <2>1. /\ task[t] \in [at : Places, line : Nat, todo : Seq(Sinks)] /\ task = [u \in Printers |-> task[u]]
    BY DEF LineInv, LogTypes
  <2>2. PICK l \in Nat, todo \in Seq(Sinks) : l = task[t].line /\ todo = task[t].todo
    BY <2>1
  <2>3. task'[t] = [at |-> "capture", line |-> l, todo |-> todo] /\ "capture" \in Places
    BY <1>4, <2>1, <2>2 DEF Places
  <2>4. task' = [u \in Printers |-> task'[u]] /\ \A u \in Printers : u # t => task'[u] = task[u]
    BY <1>4, <2>1
  <2>5. LogTypes
    BY DEF LineInv
  <2>6. /\ task' \in [Printers -> [at : Places, line : Nat, todo : Seq(Sinks)]]
        /\ task'[t].line = l /\ task'[t].at = "capture"
    BY <2>2, <2>3, <2>4, <2>5, OneTask
  <2>7. \A u \in Printers : Busy(u)' = Busy(u) /\ task'[u].line = task[u].line
    BY <1>1, <2>2, <2>4, <2>6 DEF Busy
  <2>8. LogTypes' /\ SinkLines' /\ Logged'
    BY <1>1, <2>6, <2>7 DEF LineInv, LogTypes, SinkLines, Logged, Backlog
  <2>9. OpenLog'
    BY <1>1, <2>4, <2>6 DEF LineInv, OpenLog
  <2>10. TaskLines'
    BY <1>1, <2>4, <2>6, <2>7, SMTT(30) DEF LineInv, TaskLines, Backlog
  <2>11. QueueLines(p)'
    <3>1. \A k : Clear(k) => Clear(k)'
      BY <1>1, <2>7 DEF Clear, Backlog
    <3> QED BY <1>1, <1>2, <3>1, SameQueued DEF LineInv, QueueLines
  <2> QED BY <1>2, <2>8, <2>9, <2>10, <2>11 DEF LineInv
<1> QED BY <1>1, <1>3, <1>4

\* the line goes to the boot log only while that is open, when no sink was given any
LEMMA CaptureLockedLines ==
  ASSUME NEW p \in Producers, QInv(p), LineInv(p), NEW t \in Printers, CaptureLocked(t)
  PROVE  QInv(p)' /\ LineInv(p)'
<1>1. /\ task[t].at = "capture" /\ UNCHANGED <<qvars, lines, sinks, link, got>> /\ prod' = prod
      /\ task' = [task EXCEPT ![t].at = "idle"]
      /\ \/ boot' = boot
         \/ boot.open /\ boot' = [boot EXCEPT !.text = Append(boot.text, task[t].line)]
         \/ boot' = [boot EXCEPT !.open = FALSE]
  BY DEF CaptureLocked, qvars
<1>2. QInv(p)' /\ Content' = Content
  BY <1>1, QueueUnchanged
<1>3. boot \in [text : Seq(Nat), open : BOOLEAN] /\ boot.text \in Seq(Nat)
  BY DEF LineInv, LogTypes
<1>4. CASE boot' = boot
  BY <1>1, <1>2, <1>4, NotBusyLines
<1>5. PICK l \in Nat, todo \in Seq(Sinks) : l = task[t].line /\ todo = task[t].todo
  BY DEF LineInv, LogTypes
<1>6. /\ task' \in [Printers -> [at : Places, line : Nat, todo : Seq(Sinks)]]
      /\ task'[t].line = l /\ task'[t].at = "idle"
      /\ \A u \in Printers : u # t => task'[u] = task[u]
  <2>1. /\ task[t] \in [at : Places, line : Nat, todo : Seq(Sinks)] /\ task = [u \in Printers |-> task[u]]
    BY DEF LineInv, LogTypes
  <2>3. task'[t] = [at |-> "idle", line |-> l, todo |-> todo] /\ "idle" \in Places
    BY <1>1, <1>5, <2>1 DEF Places
  <2>4. task' = [u \in Printers |-> task'[u]] /\ \A u \in Printers : u # t => task'[u] = task[u]
    BY <1>1, <2>1
  <2>5. LogTypes
    BY DEF LineInv
  <2> QED BY <1>5, <2>3, <2>4, <2>5, OneTask
<1>7. /\ \A u \in Printers : u # t => (Busy(u)' = Busy(u) /\ task'[u] = task[u])
      /\ ~Busy(t)' /\ Busy(t)
  BY <1>1, <1>6 DEF Busy
<1>8. CASE boot' = [boot EXCEPT !.open = FALSE]
  <2>1. /\ boot' \in [text : Seq(Nat), open : BOOLEAN] /\ boot'.text = boot.text /\ ~boot'.open
    BY <1>3, <1>8
  <2>2. Backlog' = Backlog
    BY <2>1 DEF Backlog
  <2>3. LogTypes' /\ OpenLog'
    BY <1>1, <1>6, <2>1 DEF LineInv, LogTypes, OpenLog
  <2>4. SinkLines'
    BY <1>1, <2>1, <2>2 DEF LineInv, SinkLines
  <2>5. Logged'
    BY <1>1, <1>7, <2>2 DEF LineInv, Logged
  <2>6. TaskLines'
    BY <1>1, <1>6, <1>7, <2>2 DEF LineInv, TaskLines
  <2>7. QueueLines(p)'
    <3>1. \A k : Clear(k) => Clear(k)'
      BY <1>1, <1>7, <2>2 DEF Clear
    <3> QED BY <1>1, <1>2, <3>1, SameQueued DEF LineInv, QueueLines
  <2> QED BY <1>2, <2>3, <2>4, <2>5, <2>6, <2>7 DEF LineInv
<1>9. CASE boot.open /\ boot' = [boot EXCEPT !.text = Append(boot.text, task[t].line)]
  <2>1. PICK text \in Seq(Nat) : text = boot.text /\ IsInjective(text) /\ Backlog = Range(text)
    BY <1>3 DEF LineInv, SinkLines, Backlog
  <2>2. l \in 1..lines /\ l \notin Backlog
    BY <1>5, <1>7 DEF LineInv, Logged, TaskLines
  <2>3. /\ boot' \in [text : Seq(Nat), open : BOOLEAN] /\ boot'.text = Append(text, l) /\ boot'.open
        /\ boot'.text \in Seq(Nat) /\ Range(boot'.text) = Backlog \cup {l} /\ IsInjective(boot'.text)
    <3>1. /\ Append(text, l) \in Seq(Nat) /\ Range(Append(text, l)) = Range(text) \cup {l}
          /\ IsInjective(Append(text, l))
      BY <1>5, <2>1, <2>2, RangeAppend
    <3>2. boot' = [boot EXCEPT !.text = Append(text, l)]
      BY <1>5, <1>9, <2>1
    <3> QED BY <1>3, <1>9, <2>1, <3>1, <3>2
  <2>4. Backlog' = Backlog \cup {l}
    BY <2>3 DEF Backlog
  <2>5. \A s \in Sinks : got[s] = <<>> /\ link[s].at # "replay" /\ Range(got[s]) = {}
    BY <1>9, RangeOfEmpty DEF LineInv, OpenLog
  <2>6. LogTypes' /\ OpenLog'
    BY <1>1, <1>6, <1>9, <2>3 DEF LineInv, LogTypes, OpenLog
  <2>7. SinkLines'
    BY <1>1, <2>3, <2>4, <2>5, RangeOfEmpty DEF LineInv, SinkLines
  <2>8. Logged'
    BY <1>1, <1>7, <2>2, <2>4 DEF LineInv, Logged
  <2>9. TaskLines'
    <3>1. \A u \in Printers : Busy(u) /\ u # t => task[u].line # l
      BY <1>5, <1>7 DEF LineInv, TaskLines
    <3> QED BY <1>1, <1>6, <1>7, <2>4, <3>1 DEF LineInv, TaskLines
  <2>10. QueueLines(p)'
    <3>1. \A k : Clear(k) => Clear(k)'
      BY <1>1, <1>5, <1>7, <2>4 DEF Clear
    <3> QED BY <1>1, <1>2, <3>1, SameQueued DEF LineInv, QueueLines
  <2> QED BY <1>2, <2>6, <2>7, <2>8, <2>9, <2>10 DEF LineInv
<1> QED BY <1>1, <1>4, <1>8, <1>9

-----------------------------------------------------------------------------
\* a sink's step: the tasks and the queue do not see it but by what the sinks were given
LEMMA SinkStep ==
  ASSUME NEW p \in Producers, QInv(p), LineInv(p), UNCHANGED <<qvars, lines, task>>, boot'.text = boot.text,
         LogTypes', SinkLines', OpenLog',
         \A s \in Sinks : Range(got'[s]) \subseteq Range(got[s]) \cup Backlog
  PROVE  QInv(p)' /\ LineInv(p)'
<1>1. prod' = prod /\ lines' = lines /\ task' = task
  BY DEF qvars
<1>2. QInv(p)' /\ Content' = Content
  BY QueueUnchanged
<1>3. Backlog' = Backlog /\ \A u : Busy(u)' = Busy(u)
  BY <1>1 DEF Backlog, Busy
<1>4. Logged'
  BY <1>1, <1>3 DEF LineInv, Logged
<1>5. TaskLines'
  <2>1. ASSUME NEW u \in Printers PROVE \A s \in Range(task[u].todo) : s \in Sinks
    BY RangeOf DEF LineInv, LogTypes
  <2>2. ASSUME NEW u \in Printers
        PROVE  /\ Busy(u) => task[u].line \notin Backlog
               /\ task[u].at = "snapshot" => \A s \in Sinks : task[u].line \notin Range(got'[s])
               /\ task[u].at = "deliver" => /\ IsInjective(task[u].todo)
                                    /\ \A s \in Range(task[u].todo) : task[u].line \notin Range(got'[s])
    <3>1. /\ Busy(u) => task[u].line \notin Backlog
          /\ task[u].at = "snapshot" => \A s \in Sinks : task[u].line \notin Range(got[s])
          /\ task[u].at = "deliver" => /\ IsInjective(task[u].todo)
                                    /\ \A s \in Range(task[u].todo) : task[u].line \notin Range(got[s])
      BY DEF LineInv, TaskLines
    <3> QED BY <2>1, <3>1 DEF Busy
  <2> QED BY <1>1, <1>3, <2>2 DEF LineInv, TaskLines
<1>6. QueueLines(p)'
  <2>1. \A k : Clear(k) => Clear(k)'
    BY <1>1, <1>3 DEF Clear
  <2> QED BY <1>1, <1>2, <2>1, SameQueued DEF LineInv, QueueLines
<1> QED BY <1>2, <1>4, <1>5, <1>6 DEF LineInv

\* one sink's place in the events of its connection
MovedTo(f, s, at, n) ==
  \/ f = [link EXCEPT ![s].at = at] /\ n = link[s].len
  \/ f = [link EXCEPT ![s] = [at |-> at, len |-> n]]

\* one client's record changes
LEMMA OneLink ==
  ASSUME LogTypes, NEW s \in Sinks, NEW at \in Events, NEW n \in Nat, NEW f, MovedTo(f, s, at, n)
  PROVE  /\ f \in [Sinks -> [at : Events, len : Nat]] /\ f[s].at = at /\ f[s].len = n
         /\ \A k \in Sinks : k # s => f[k] = link[k]
<1>1. link \in [Sinks -> [at : Events, len : Nat]] /\ link[s].len \in Nat
  BY DEF LogTypes
<1>2. f[s] = [at |-> at, len |-> n] /\ f = [k \in Sinks |-> f[k]]
      /\ \A k \in Sinks : k # s => f[k] = link[k]
  <2>1. CASE f = [link EXCEPT ![s] = [at |-> at, len |-> n]]
    BY <1>1, <2>1
  <2>2. CASE f = [link EXCEPT ![s].at = at] /\ n = link[s].len
    BY <1>1, <2>2
  <2> QED BY <2>1, <2>2 DEF MovedTo
<1>3. f[s] \in [at : Events, len : Nat]
  BY <1>2
<1>4. \A k \in Sinks : f[k] \in [at : Events, len : Nat]
  BY <1>1, <1>2, <1>3
<1> QED BY <1>2, <1>4

\* a sink's step that leaves the table of sinks and the boot log alone
LEMMA LinkOnly ==
  ASSUME NEW p \in Producers, QInv(p), LineInv(p), UNCHANGED <<qvars, lines, task, sinks, boot>>,
         NEW s \in Sinks, NEW at \in Events \ {"replay"},
         link' = [link EXCEPT ![s].at = at] \/ link' = [link EXCEPT ![s] = [at |-> at, len |-> 0]],
         NEW g \in Seq(Nat), got' = [got EXCEPT ![s] = g],
         IsInjective(g), Range(g) \subseteq Range(got[s]) \cup Backlog,
         at \in {"off", "remove"} \/ boot.open => g = << >>,
         s \notin Range(sinks) => Range(g) \cap Backlog = {}
  PROVE  QInv(p)' /\ LineInv(p)'
<1>1. LogTypes /\ SinkLines /\ OpenLog /\ got \in [Sinks -> Seq(Nat)]
  BY DEF LineInv, LogTypes
<1>2. /\ link' \in [Sinks -> [at : Events, len : Nat]] /\ link'[s].at = at
      /\ \A k \in Sinks : k # s => link'[k] = link[k]
  <2>1. PICK n \in Nat : MovedTo(link', s, at, n)
    <3>1. link[s].len \in Nat /\ 0 \in Nat
      BY <1>1 DEF LogTypes
    <3> QED BY <3>1, Zenon DEF MovedTo
  <2>2. at \in Events
    OBVIOUS
  <2> QED BY <1>1, <2>1, <2>2, OneLink
<1>3. got' \in [Sinks -> Seq(Nat)] /\ got'[s] = g /\ \A k \in Sinks : k # s => got'[k] = got[k]
  BY <1>1
<1>4. Backlog' = Backlog
  BY DEF Backlog
<1>5. LogTypes'
  BY <1>1, <1>2, <1>3 DEF LogTypes
<1>6. SinkLines'
  <2>1. ASSUME NEW k \in Sinks
        PROVE  /\ IsInjective(got'[k])
               /\ link'[k].at \in {"off", "remove"} => got'[k] = <<>>
               /\ link'[k].at = "replay" => k \in Range(sinks) /\ link'[k].len <= Len(boot.text)
               /\ link'[k].at = "replay" \/ k \notin Range(sinks) => Range(got'[k]) \cap Backlog = {}
    <3>1. CASE k = s
      BY <1>2, <1>3, <3>1
    <3>2. CASE k # s
      <4>1. link'[k] = link[k] /\ got'[k] = got[k]
        BY <1>2, <1>3, <3>2
      <4> QED BY <1>1, <4>1 DEF SinkLines
    <3> QED BY <3>1, <3>2
  <2>2. IsInjective(sinks') /\ IsInjective(boot'.text) /\ Range(sinks') = Range(sinks) /\ boot' = boot
    BY <1>1 DEF SinkLines
  <2> QED BY <1>4, <2>1, <2>2 DEF SinkLines
<1>7. OpenLog'
  BY <1>1, <1>2, <1>3 DEF OpenLog
<1>8. \A k \in Sinks : Range(got'[k]) \subseteq Range(got[k]) \cup Backlog
  BY <1>3
<1> QED BY <1>5, <1>6, <1>7, <1>8, SinkStep

\* Connect() and Disconnect(): a connection that begins has no lines
LEMMA ConnectLines ==
  ASSUME NEW p \in Producers, QInv(p), LineInv(p), NEW s \in Sinks, Connect(s)
  PROVE  QInv(p)' /\ LineInv(p)'
<1>1. /\ link[s].at \in {"off", "on"} /\ UNCHANGED <<qvars, lines, task, sinks, boot>>
      /\ link' = [link EXCEPT ![s].at = "attach"]
      /\ got' = IF link[s].at = "off" THEN [got EXCEPT ![s] = << >>] ELSE got
  BY DEF Connect
<1>2. PICK g \in Seq(Nat) : g = got[s]
  BY DEF LineInv, LogTypes
<1>3. /\ IsInjective(g) /\ (link[s].at = "off" => g = << >>)
      /\ s \notin Range(sinks) => Range(g) \cap Backlog = {}
      /\ boot.open => g = << >>
  BY <1>2 DEF LineInv, SinkLines, OpenLog
<1>4. got' = [got EXCEPT ![s] = g]
  BY <1>1, <1>2, <1>3 DEF LineInv, LogTypes
<1>5. PICK at \in Events \ {"replay"} : at = "attach"
  BY DEF Events
<1>6. Range(g) \subseteq Range(got[s])
  BY <1>2
<1> QED BY <1>1, <1>3, <1>4, <1>5, <1>6, LinkOnly

LEMMA DisconnectLines ==
  ASSUME NEW p \in Producers, QInv(p), LineInv(p), NEW s \in Sinks, Disconnect(s)
  PROVE  QInv(p)' /\ LineInv(p)'
<1>1. /\ UNCHANGED <<qvars, lines, task, sinks, boot>>
      /\ link' = [link EXCEPT ![s].at = "remove"] /\ got' = [got EXCEPT ![s] = << >>]
  BY DEF Disconnect
<1>2. PICK g \in Seq(Nat) : g = << >>
  <2>1. << >> \in Seq(Nat)
    OBVIOUS
  <2> QED BY <2>1, Zenon
<1>3. Range(g) = {} /\ IsInjective(g)
  BY <1>2, RangeOfEmpty
<1>4. PICK at \in Events \ {"replay"} : at = "remove"
  BY DEF Events
<1>5. got' = [got EXCEPT ![s] = g]
  BY <1>1, <1>2
<1> QED BY <1>1, <1>2, <1>3, <1>4, <1>5, LinkOnly

\* what it was given before is not in the backlog
LEMMA ReplayLines ==
  ASSUME NEW p \in Producers, QInv(p), LineInv(p), NEW s \in Sinks, Replay(s)
  PROVE  QInv(p)' /\ LineInv(p)'
<1>1. PICK g \in Seq(Nat), text \in Seq(Nat), n \in Nat : g = got[s] /\ text = boot.text /\ n = link[s].len
  BY DEF LineInv, LogTypes
<1>2. /\ link[s].at = "replay" /\ UNCHANGED <<qvars, lines, task, sinks, boot>>
      /\ link' = [link EXCEPT ![s] = [at |-> "on", len |-> 0]]
      /\ got' = [got EXCEPT ![s] = g \o SubSeq(text, 1, n)]
  BY <1>1 DEF Replay, LineInv, LogTypes
<1>3. /\ IsInjective(g) /\ IsInjective(text) /\ Backlog = Range(text) /\ n <= Len(text)
      /\ s \in Range(sinks) /\ Range(g) \cap Backlog = {} /\ ~boot.open
  BY <1>1, <1>2 DEF LineInv, SinkLines, OpenLog, Backlog
<1>4. n \in 0..Len(text)
  BY <1>1, <1>3
<1>5. PICK h : h = SubSeq(text, 1, n)
  OBVIOUS
<1>6. h \in Seq(Nat) /\ Range(h) \subseteq Backlog /\ IsInjective(h)
  BY <1>3, <1>4, <1>5, RangeSub
<1>7. /\ g \o h \in Seq(Nat) /\ Range(g \o h) = Range(g) \cup Range(h)
      /\ IsInjective(g \o h)
  BY <1>3, <1>6, RangeConcat
<1>8. PICK at \in Events \ {"replay"} : at = "on"
  BY DEF Events
<1>9. PICK f \in Seq(Nat) : f = g \o h
  BY <1>7, Zenon
<1>10. /\ got' = [got EXCEPT ![s] = f] /\ link' = [link EXCEPT ![s] = [at |-> at, len |-> 0]]
       /\ IsInjective(f) /\ Range(f) \subseteq Range(got[s]) \cup Backlog
  BY <1>1, <1>2, <1>5, <1>6, <1>7, <1>8, <1>9
<1> QED BY <1>2, <1>3, <1>8, <1>10, LinkOnly, ZenonT(40)

\* Attach(): the boot log is closed, and what is in it the sink is owed
LEMMA AttachLines ==
  ASSUME NEW p \in Producers, QInv(p), LineInv(p), NEW s \in Sinks, Attach(s)
  PROVE  QInv(p)' /\ LineInv(p)'
<1>1. /\ link[s].at = "attach" /\ UNCHANGED <<qvars, lines, task, got>> /\ got' = got
  BY DEF Attach
<1>2. CASE link' = [link EXCEPT ![s].at = "on"] /\ UNCHANGED <<sinks, boot>>
  <2>1. PICK at \in Events \ {"replay"} : at = "on"
    BY DEF Events
  <2>2. PICK g \in Seq(Nat) : g = got[s]
    BY DEF LineInv, LogTypes
  <2>3. /\ got' = [got EXCEPT ![s] = g] /\ Range(g) \subseteq Range(got[s])
    BY <1>1, <2>2 DEF LineInv, LogTypes
  <2>4. /\ IsInjective(g)
        /\ s \notin Range(sinks) => Range(g) \cap Backlog = {}
        /\ boot.open => g = << >>
    BY <2>2 DEF LineInv, SinkLines, OpenLog
  <2> QED BY <1>1, <1>2, <2>1, <2>3, <2>4, LinkOnly
<1>3. CASE /\ s \notin Range(sinks) /\ sinks' = Append(sinks, s)
           /\ boot' = [boot EXCEPT !.open = FALSE]
           /\ link' = [link EXCEPT ![s] = [at |-> "replay", len |-> Len(boot.text)]]
  <2>1. /\ sinks \in Seq(Sinks) /\ IsInjective(sinks) /\ LogTypes /\ SinkLines
        /\ boot \in [text : Seq(Nat), open : BOOLEAN]
    BY DEF LineInv, LogTypes, SinkLines
  <2>2. sinks' \in Seq(Sinks) /\ Range(sinks') = Range(sinks) \cup {s} /\ IsInjective(sinks')
    BY <1>3, <2>1, RangeAppend
  <2>3. /\ boot' \in [text : Seq(Nat), open : BOOLEAN] /\ boot'.text = boot.text /\ ~boot'.open
        /\ Backlog' = Backlog
    BY <1>3, <2>1 DEF Backlog
  <2>4. PICK n \in Nat : n = Len(boot.text)
    BY <2>1
  <2>5. "replay" \in Events
    BY DEF Events
  <2>6. PICK at \in Events : at = "replay"
    BY <2>5
  <2>7. MovedTo(link', s, at, n)
    BY <1>3, <2>4, <2>6, Zenon DEF MovedTo
  <2>8. /\ link' \in [Sinks -> [at : Events, len : Nat]] /\ link'[s].at = "replay" /\ link'[s].len = n
        /\ \A k \in Sinks : k # s => link'[k] = link[k]
    <3>1. LogTypes
      BY <2>1
    <3>2. /\ link' \in [Sinks -> [at : Events, len : Nat]] /\ link'[s].at = at /\ link'[s].len = n
          /\ \A k \in Sinks : k # s => link'[k] = link[k]
      BY <2>7, <3>1, OneLink
    <3> QED BY <2>6, <3>2
  <2>9. LogTypes' /\ OpenLog'
    <3>1. OpenLog'
      BY <2>3 DEF OpenLog
    <3>2. /\ lines' \in Nat /\ got' \in [Sinks -> Seq(Nat)]
          /\ task' \in [Printers -> [at : Places, line : Nat, todo : Seq(Sinks)]]
      BY <1>1, <2>1 DEF LogTypes
    <3> QED BY <2>2, <2>3, <2>8, <3>1, <3>2 DEF LogTypes
  <2>10. SinkLines'
    <3>1. ASSUME NEW k \in Sinks
          PROVE  /\ IsInjective(got'[k])
                 /\ link'[k].at \in {"off", "remove"} => got'[k] = <<>>
                 /\ link'[k].at = "replay" => k \in Range(sinks') /\ link'[k].len <= Len(boot'.text)
                 /\ link'[k].at = "replay" \/ k \notin Range(sinks') => Range(got'[k]) \cap Backlog' = {}
      <4>1. /\ IsInjective(got[k])
            /\ link[k].at \in {"off", "remove"} => got[k] = <<>>
            /\ link[k].at = "replay" => k \in Range(sinks) /\ link[k].len <= Len(boot.text)
            /\ link[k].at = "replay" \/ k \notin Range(sinks) => Range(got[k]) \cap Backlog = {}
        BY <2>1 DEF SinkLines
      <4>2. CASE k = s
        BY <1>1, <1>3, <2>2, <2>3, <2>4, <2>8, <4>1, <4>2
      <4>3. CASE k # s
        BY <1>1, <2>2, <2>3, <2>8, <4>1, <4>3
      <4> QED BY <4>2, <4>3
    <3>2. IsInjective(boot'.text)
      BY <2>1, <2>3 DEF SinkLines
    <3> QED BY <2>2, <3>1, <3>2 DEF SinkLines
  <2>11. \A k \in Sinks : Range(got'[k]) \subseteq Range(got[k]) \cup Backlog
    BY <1>1
  <2> QED BY <1>1, <2>3, <2>9, <2>10, <2>11, SinkStep
<1> QED BY <1>2, <1>3 DEF Attach

\* RemoveSink(): the sinks that stay are in the table once
LEMMA RemoveLines ==
  ASSUME NEW p \in Producers, QInv(p), LineInv(p), NEW s \in Sinks, RemoveSink(s)
  PROVE  QInv(p)' /\ LineInv(p)'
<1>1. /\ link[s].at = "remove" /\ UNCHANGED <<qvars, lines, task, boot, got>> /\ got' = got /\ boot' = boot
      /\ link' = [link EXCEPT ![s].at = "off"]
  BY DEF RemoveSink
<1>2. sinks \in Seq(Sinks) /\ IsInjective(sinks) /\ LogTypes /\ SinkLines
  BY DEF LineInv, LogTypes, SinkLines
<1>3. /\ sinks' \in Seq(Sinks) /\ Range(sinks') \subseteq Range(sinks)
      /\ Range(sinks) \subseteq Range(sinks') \cup {s} /\ IsInjective(sinks')
      /\ sinks = << >> => sinks' = << >>
  <2>1. CASE s \notin Range(sinks)
    BY <1>2, <2>1 DEF RemoveSink
  <2>2. CASE s \in Range(sinks)
    <3>1. PICK i : /\ i = CHOOSE j \in 1..Len(sinks) : sinks[j] = s
                   /\ sinks' = Removed(sinks, i)
      BY <2>2 DEF RemoveSink, Removed
    <3>2. \E j \in 1..Len(sinks) : sinks[j] = s
      BY <1>2, <2>2 DEF Range
    <3>3. i \in 1..Len(sinks) /\ sinks[i] = s
      BY <3>1, <3>2
    <3>4. sinks' \in Seq(Sinks) /\ Range(sinks') = Range(sinks) \ {s} /\ IsInjective(sinks')
      BY <1>2, <2>2, <3>1, <3>3, RangeRemove
    <3>5. sinks # << >>
      BY <2>2, RangeOfEmpty
    <3> QED BY <3>4, <3>5
  <2> QED BY <2>1, <2>2
<1>4. PICK at \in Events : at = "off"
  BY DEF Events
<1>5. /\ link' \in [Sinks -> [at : Events, len : Nat]] /\ link'[s].at = "off"
      /\ \A k \in Sinks : k # s => link'[k] = link[k]
  <2>1. PICK n \in Nat : MovedTo(link', s, at, n)
    <3>1. link[s].len \in Nat
      BY <1>2 DEF LogTypes
    <3> QED BY <1>1, <1>4, <3>1, Zenon DEF MovedTo
  <2> QED BY <1>2, <1>4, <2>1, OneLink
<1>6. Backlog' = Backlog
  BY <1>1 DEF Backlog
<1>7. LogTypes' /\ OpenLog'
  BY <1>1, <1>2, <1>3, <1>5 DEF LineInv, LogTypes, OpenLog
<1>8. SinkLines'
  <2>1. ASSUME NEW k \in Sinks
        PROVE  /\ IsInjective(got'[k])
               /\ link'[k].at \in {"off", "remove"} => got'[k] = <<>>
               /\ link'[k].at = "replay" => k \in Range(sinks') /\ link'[k].len <= Len(boot'.text)
               /\ link'[k].at = "replay" \/ k \notin Range(sinks') => Range(got'[k]) \cap Backlog' = {}
    <3>1. /\ IsInjective(got[k])
          /\ link[k].at \in {"off", "remove"} => got[k] = <<>>
          /\ link[k].at = "replay" => k \in Range(sinks) /\ link[k].len <= Len(boot.text)
          /\ link[k].at = "replay" \/ k \notin Range(sinks) => Range(got[k]) \cap Backlog = {}
      BY <1>2 DEF SinkLines
    <3>2. CASE k = s
      BY <1>1, <1>5, <1>6, <3>1, <3>2, RangeOfEmpty
    <3>3. CASE k # s
      BY <1>1, <1>3, <1>5, <1>6, <3>1, <3>3
    <3> QED BY <3>2, <3>3
  <2> QED BY <1>1, <1>2, <1>3, <2>1 DEF SinkLines
<1>9. boot'.text = boot.text /\ \A k \in Sinks : Range(got'[k]) \subseteq Range(got[k]) \cup Backlog
  BY <1>1
<1> QED BY <1>1, <1>7, <1>8, <1>9, SinkStep

\* LineInv is inductive, with QInv
LEMMA LineInitially ==
  ASSUME NEW p \in Producers, Producers = {p}, Init
  PROVE  QInv(p) /\ LineInv(p)
<1>1. QInv(p) /\ Content = << >>
  BY QueueInitially DEF QueueInv
<1>2. /\ lines = 0 /\ sinks = << >> /\ boot = [text |-> << >>, open |-> TRUE]
      /\ task = [t \in Printers |-> [at |-> "idle", line |-> 0, todo |-> << >>]]
      /\ link = [s \in Sinks |-> [at |-> "off", len |-> 0]]
      /\ got = [s \in Sinks |-> << >>]
      /\ prod = [x \in Producers |-> ResetProd]
  BY DEF Init, QInit
<1>3. << >> \in Seq(Sinks) /\ << >> \in Seq(Nat) /\ "idle" \in Places /\ "off" \in Events
  BY DEF Places, Events
<1>4. /\ \A s \in Sinks : got[s] = << >> /\ link[s].at = "off"
      /\ \A t \in Printers : ~Busy(t) /\ task[t].at = "idle"
  BY <1>2 DEF Busy
<1>5. Waiting(p) = {}
  BY <1>2 DEF Waiting, ResetProd
<1>6. LogTypes
  BY <1>2, <1>3 DEF LogTypes
<1>7. Backlog = {} /\ boot.text = << >> /\ \A s \in Sinks : Range(got[s]) = {}
  BY <1>2, <1>4, RangeOfEmpty DEF Backlog
<1>8. Logged
  BY <1>4, <1>7 DEF Logged
<1>9. QueueLines(p)
  BY <1>1, <1>5, RangeOfEmpty DEF QueueLines, Queued
<1>10. TaskLines
  BY <1>4 DEF TaskLines
<1>11. SinkLines
  BY <1>2, <1>4, <1>7, RangeOfEmpty DEF SinkLines
<1>12. OpenLog
  BY <1>2, <1>4 DEF OpenLog
<1> QED BY <1>1, <1>6, <1>8, <1>9, <1>10, <1>11, <1>12 DEF LineInv

LEMMA LineStep ==
  ASSUME NEW p \in Producers, Producers = {p}, QInv(p), LineInv(p), [Next]_vars
  PROVE  QInv(p)' /\ LineInv(p)'
<1>1. CASE EnqueueLog(p)
  BY <1>1, EnqueueLogLines
<1>2. CASE Enqueued(p)
  BY <1>2, EnqueuedLines
<1>3. CASE UNCHANGED <<qvars, sinks, boot, task, link, got>> /\ lines' \in {lines, lines + 1}
  <2>1. prod' = prod
    BY <1>3 DEF qvars
  <2> QED BY <1>3, <2>1, QueueUnchanged, NoNewLine
<1>4. CASE DropLog(p)
  BY <1>3, <1>4 DEF DropLog
<1>5. CASE UNCHANGED vars
  BY <1>3, <1>5 DEF vars, lvars
<1>6. ASSUME NEW t \in Tasks, Log(t) PROVE QInv(p)' /\ LineInv(p)'
  BY <1>6, LogLines
<1>7. ASSUME NEW t \in Printers, Printing(t) PROVE QInv(p)' /\ LineInv(p)'
  BY <1>7, SnapshotLines, DeliverLines, CaptureLines, CaptureLockedLines DEF Printing
<1>8. CASE Flush \/ FlushNext
  BY <1>8, FlushLines
<1>9. ASSUME NEW s \in Sinks, Connect(s) \/ Attach(s) \/ Replay(s) \/ Disconnect(s) \/ RemoveSink(s)
      PROVE  QInv(p)' /\ LineInv(p)'
  BY <1>9, ConnectLines, AttachLines, ReplayLines, DisconnectLines, RemoveLines
<1> QED BY <1>1, <1>2, <1>4, <1>5, <1>6, <1>7, <1>8, <1>9 DEF Next

\* Whatever tasks log, flush and capture while clients come and go, a sink of
\* logging.cpp gets a line once in a connection, from the boot log or directly.
THEOREM LinesComeOnce ==
  ASSUME NEW rt, Producers = {rt}
  PROVE  Spec => []OncePerConnection
<1>1. rt \in Producers
  OBVIOUS
<1>2. Init => QInv(rt) /\ LineInv(rt)
  BY <1>1, LineInitially
<1>3. QInv(rt) /\ LineInv(rt) /\ [Next]_vars => QInv(rt)' /\ LineInv(rt)'
  BY <1>1, LineStep
<1>4. LineInv(rt) => OncePerConnection
  BY DEF LineInv, SinkLines, OncePerConnection
<1> QED BY <1>2, <1>3, <1>4, PTL DEF Spec
=============================================================================
