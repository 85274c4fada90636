----------------------------- MODULE MCLogging -----------------------------
\* Instances of Logging: the network loop and one more task that logs on core 0, a sink
\* that comes and goes, and lines enough to fill a block of the queue, go on in a new
\* one and take up the first again.
EXTENDS Logging

OneProducer == {"rt"}
\* bound: lines
TestLines == 1..MaxLines
\* bound: blocks of the queue
TestBlocks == 1..2
TestTasks == {"mqtt"}
=============================================================================
