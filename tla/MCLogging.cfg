SPECIFICATION FairSpec
CONSTANTS
 Producers <- OneProducer
 Values <- TestLines
 Blocks <- TestBlocks
 FirstSize = 2
 MaxSize = 2
 Tasks <- TestTasks
 Net = "net"
 Sinks = {"s1"}
 MaxSinks = 2
 BootRoom = 1
 QueueCap = 2
 MaxLines = 4
INVARIANTS OncePerConnection
PROPERTIES RefinesFifo BacklogFrozen RtLinesArrive
CHECK_DEADLOCK FALSE
