------------------------------ MODULE SpscQueue ------------------------------
(***************************************************************************)
(* moodycamel::ReaderWriterQueue (etc/readerwriterqueue.h), access by       *)
(* access: a ring of blocks, each a circular buffer that leaves one slot    *)
(* free.  The producer owns the tails, the consumer the fronts, and each    *)
(* keeps shadow copies of the other's.  enqueue() may allocate a block,     *)
(* and fails when it cannot.  The fences of the code order these accesses,  *)
(* so they are steps of one total order here.                               *)
(*                                                                         *)
(* The firmware uses it for the log lines and the deferred tasks of the RT  *)
(* core (logging.cpp), for telemetry points and for the bytes of the BLE    *)
(* console.                                                                *)
(***************************************************************************)
EXTENDS Integers, Sequences, FiniteSets

CONSTANTS
  Producers,  \* tasks that enqueue; the queue is made for one
  Values,     \* what they enqueue
  Blocks,     \* the first one, and those that malloc() can provide: 1..n
  FirstSize,  \* slots of the first block, a power of 2
  MaxSize     \* MAX_BLOCK_SIZE

ASSUME QueueAssumption ==
  /\ Producers # {} /\ 1 \in Blocks /\ IsFiniteSet(Blocks) /\ Blocks = 1..Cardinality(Blocks)
  /\ FirstSize \in Nat /\ MaxSize \in Nat /\ 2 <= FirstSize /\ FirstSize <= MaxSize

VARIABLES
  block,       \* of each block: front, localTail, tail, localFront, next, size, data
  frontBlock, tailBlock,
  made,        \* blocks made so far
  prod,        \* each producer's place and locals in inner_enqueue()
  cons,        \* the consumer's in try_dequeue()
  last         \* its result

qvars == <<block, frontBlock, tailBlock, made, prod, cons, last>>
ring  == <<frontBlock, tailBlock, made>>

NoData(size) == [s \in 0..size - 1 |-> <<>>]
Fresh(size) ==
  [front |-> 0, localTail |-> 0, tail |-> 0, localFront |-> 0, next |-> 1,
   size |-> size, data |-> NoData(size)]
\* the slot after s, with the block's sizeMask
After(b, s) == (s + 1) % block[b].size
Larger(size) == IF size >= MaxSize THEN size ELSE size * 2

ResetProd == [at |-> "idle", v |-> <<>>, b |-> 1, tl |-> 0]
ResetCons == [at |-> "idle", b |-> 1, v |-> <<>>]

\* ReaderWriterQueue(size) with one block
QInit ==
  /\ block = [b \in Blocks |-> Fresh(FirstSize)]
  /\ frontBlock = 1 /\ tailBlock = 1 /\ made = 1
  /\ prod = [p \in Producers |-> ResetProd]
  /\ cons = ResetCons /\ last = <<>>

-----------------------------------------------------------------------------
(* inner_enqueue(): the producer.                                          *)

Step(p, at) == prod' = [prod EXCEPT ![p].at = at]

\* is there room in the tail block?  The shadow front first, the front then
Enqueue(p, v) ==
  /\ prod[p].at = "idle"
  /\ LET tb == tailBlock
         next == After(tb, block[tb].tail)
         stale == next = block[tb].localFront
     IN  /\ prod' = [prod EXCEPT ![p] =
              [at |-> IF stale /\ next = block[tb].front THEN "full" ELSE "put",
               v |-> <<v>>, b |-> tb, tl |-> block[tb].tail]]
         /\ block' = IF stale THEN [block EXCEPT ![tb].localFront = block[tb].front] ELSE block
  /\ UNCHANGED <<ring, cons, last>>

Put(p) ==
  /\ prod[p].at = "put"
  /\ block' = [block EXCEPT ![prod[p].b].data[prod[p].tl] = prod[p].v]
  /\ Step(p, "publish")
  /\ UNCHANGED <<ring, cons, last>>

Publish(p) ==
  /\ prod[p].at = "publish"
  /\ block' = [block EXCEPT ![prod[p].b].tail = After(prod[p].b, prod[p].tl)]
  /\ prod' = [prod EXCEPT ![p] = ResetProd]
  /\ UNCHANGED <<ring, cons, last>>

\* the block is full: go on in the next one unless the consumer is there
Ahead(p) ==
  /\ prod[p].at = "full"
  /\ Step(p, IF block[prod[p].b].next # frontBlock THEN "reuse" ELSE "alloc")
  /\ UNCHANGED <<block, ring, cons, last>>

Reuse(p) ==
  /\ prod[p].at = "reuse"
  /\ LET nb == block[prod[p].b].next
         t == block[nb].tail
     IN  /\ block' = [block EXCEPT ![nb].localFront = block[nb].front, ![nb].data[t] = prod[p].v]
         /\ prod' = [prod EXCEPT ![p] = [@ EXCEPT !.at = "republish", !.b = nb, !.tl = t]]
  /\ UNCHANGED <<ring, cons, last>>

Republish(p) ==
  /\ prod[p].at = "republish"
  /\ block' = [block EXCEPT ![prod[p].b].tail = After(prod[p].b, prod[p].tl)]
  /\ Step(p, "advance")
  /\ UNCHANGED <<ring, cons, last>>

\* make_block(): with the element in it, and the ring goes on behind it
Alloc(p) ==
  /\ prod[p].at = "alloc" /\ made + 1 \in Blocks
  /\ made' = made + 1
  /\ LET tb == prod[p].b
         size == Larger(block[made].size)
     IN  block' = [block EXCEPT ![made + 1] =
           [Fresh(size) EXCEPT !.tail = 1, !.localTail = 1, !.next = block[tb].next,
                               !.data[0] = prod[p].v]]
  /\ Step(p, "link")
  /\ UNCHANGED <<frontBlock, tailBlock, cons, last>>

Link(p) ==
  /\ prod[p].at = "link"
  /\ block' = [block EXCEPT ![prod[p].b].next = made]
  /\ prod' = [prod EXCEPT ![p] = [@ EXCEPT !.at = "advance", !.b = made]]
  /\ UNCHANGED <<ring, cons, last>>

Advance(p) ==
  /\ prod[p].at = "advance"
  /\ tailBlock' = prod[p].b
  /\ prod' = [prod EXCEPT ![p] = ResetProd]
  /\ UNCHANGED <<block, frontBlock, made, cons, last>>

\* make_block() gets no memory: enqueue() returns false
OutOfMemory(p) ==
  /\ prod[p].at = "alloc"
  /\ prod' = [prod EXCEPT ![p] = ResetProd]
  /\ UNCHANGED <<block, ring, cons, last>>

Enqueuing(p) ==
  Put(p) \/ Publish(p) \/ Ahead(p) \/ Reuse(p) \/ Republish(p)
    \/ Alloc(p) \/ Link(p) \/ Advance(p)

-----------------------------------------------------------------------------
(* try_dequeue(): the consumer.                                            *)

\* is the front block empty?  The shadow tail first, the tail then
TryDequeue ==
  /\ cons.at = "idle"
  /\ LET fb == frontBlock
         stale == block[fb].front = block[fb].localTail
     IN  /\ block' = IF stale THEN [block EXCEPT ![fb].localTail = block[fb].tail] ELSE block
         /\ cons' = [cons EXCEPT !.b = fb,
                       !.at = IF stale /\ block[fb].front = block[fb].tail
                              THEN "empty" ELSE "take"]
  /\ UNCHANGED <<ring, prod, last>>

\* a queue of one block
NoLookAhead ==
  /\ cons.at = "empty"
  /\ cons' = ResetCons
  /\ UNCHANGED <<block, ring, prod, last>>

\* is there a block ahead?
LookAhead ==
  /\ cons.at = "empty"
  /\ cons' = IF cons.b # tailBlock THEN [cons EXCEPT !.at = "recheck"] ELSE ResetCons
  /\ UNCHANGED <<block, ring, prod, last>>

NoRecheck ==
  /\ cons.at = "recheck"
  /\ block' = [block EXCEPT ![cons.b].localTail = block[cons.b].tail]
  /\ cons' = [cons EXCEPT !.at = "move"]
  /\ UNCHANGED <<ring, prod, last>>

\* the producer may have filled the front block before it moved on
Recheck ==
  /\ cons.at = "recheck"
  /\ block' = [block EXCEPT ![cons.b].localTail = block[cons.b].tail]
  /\ cons' = [cons EXCEPT !.at = IF block[cons.b].front # block[cons.b].tail
                                 THEN "take" ELSE "move"]
  /\ UNCHANGED <<ring, prod, last>>

MoveOn ==
  /\ cons.at = "move"
  /\ LET nb == block[cons.b].next
     IN  /\ block' = [block EXCEPT ![nb].localTail = block[nb].tail]
         /\ frontBlock' = nb
         /\ cons' = [cons EXCEPT !.b = nb, !.at = "take"]
  /\ UNCHANGED <<tailBlock, made, prod, last>>

Take ==
  /\ cons.at = "take"
  /\ cons' = [cons EXCEPT !.v = block[cons.b].data[block[cons.b].front], !.at = "release"]
  /\ UNCHANGED <<block, ring, prod, last>>

\* the element is destroyed and the slot is the producer's again
Release ==
  /\ cons.at = "release"
  /\ block' = [block EXCEPT ![cons.b].data[block[cons.b].front] = <<>>,
                           ![cons.b].front = After(cons.b, block[cons.b].front)]
  /\ last' = cons.v /\ cons' = ResetCons
  /\ UNCHANGED <<ring, prod>>

Dequeuing == LookAhead \/ Recheck \/ MoveOn \/ Take \/ Release

QNext ==
  \/ \E p \in Producers : (\E v \in Values : Enqueue(p, v)) \/ Enqueuing(p) \/ OutOfMemory(p)
  \/ TryDequeue \/ Dequeuing

-----------------------------------------------------------------------------
(* What the queue holds.                                                   *)

InBlock(b) ==
  LET len == (block[b].tail - block[b].front + block[b].size) % block[b].size
  IN  [i \in 1..len |-> block[b].data[(block[b].front + i - 1) % block[b].size][1]]

\* the blocks after b up to the tail block
Rest[n \in 0..Cardinality(Blocks)] ==
  [b \in Blocks |->
     IF b = tailBlock \/ n = 0 THEN << >>
     ELSE InBlock(block[b].next) \o Rest[n - 1][block[b].next]]

Content == InBlock(frontBlock) \o Rest[Cardinality(Blocks)][frontBlock]

\* size_approx(): the consumer only makes it smaller while the producer counts, so
\* that what the producer gets is the size at some moment in between
size_approx == Len(Content)

Abstract == INSTANCE Fifo WITH queue <- Content

\* With one producer the queue is a queue: nothing is lost, duplicated or
\* overtaken, across full blocks, blocks that are taken up again and new ones.
RefinesFifo == Abstract!Spec
=============================================================================
