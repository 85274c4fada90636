-------------------------------- MODULE Fifo --------------------------------
(* What etc/readerwriterqueue.h promises one producer and one consumer: a     *)
(* queue that gives back what was put in, in that order, each element once.   *)
EXTENDS Sequences

CONSTANT Values

VARIABLES
  queue,  \* what was enqueued and not yet dequeued
  last    \* what try_dequeue() has stored into its result, <<>> before the first

Init == queue = <<>> /\ last = <<>>

Enqueue(v) == queue' = Append(queue, v) /\ UNCHANGED last

Dequeue ==
  /\ queue # <<>>
  /\ last' = <<Head(queue)>> /\ queue' = Tail(queue)

Next == (\E v \in Values : Enqueue(v)) \/ Dequeue

Spec == Init /\ [][Next]_<<queue, last>>
=============================================================================
