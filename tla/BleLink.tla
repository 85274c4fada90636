------------------------------- MODULE BleLink -------------------------------
(***************************************************************************)
(* The BLE console and the telemetry stream that shares its link            *)
(* (tele/console_ble.cpp, tele/tele_ble.cpp).  Replies and mirrored log      *)
(* lines wait in one FIFO, telemetry packets in another; the network loop    *)
(* notifies both in chunks, paced by the buffers the BLE stack has free.      *)
(* Connections come and go in callbacks of the stack's host task, and the      *)
(* log mirror writes from other tasks.                                      *)
(*                                                                         *)
(* A byte is a lump of bytes, and a notification takes one buffer of the     *)
(* pool (the code reserves eight, and a notification may take four).         *)
(***************************************************************************)
EXTENDS Integers, Sequences

CONSTANTS
  Cap,           \* TX_BUF_CAP
  Chunk,         \* the longest notification, by the MTU
  Settle,        \* TX_SETTLE_MS
  RawCap,        \* RAW_CAP: frames that wait for a packet
  OutCap,        \* OUT_CAP: packets that wait for the link
  Pool,          \* buffers of the stack (external)
  ConsoleFloor,  \* free buffers below which the console waits, 8
  TeleFloor      \* and below which the stream waits, 12

ASSUME LinkAssumption ==
  /\ {Cap, Chunk, Settle, RawCap, OutCap, Pool, ConsoleFloor, TeleFloor} \subseteq Nat
  /\ Chunk > 0 /\ ConsoleFloor > 0 /\ TeleFloor > ConsoleFloor /\ Pool >= TeleFloor

VARIABLES
  radio,    \* is the service started, does it advertise, is there a link?
  host,     \* the host task's place in onConnect() or onDisconnect()
  up,       \* deviceConnected
  sink,     \* is bleLogWrite() a log sink?
  request,  \* connParamsPending
  armed,    \* txArmSettle
  age,      \* time since txConnectMs, up to Settle
  txBuf,    \* the FIFO: of each byte, who wrote it
  txHead,   \* its consumed prefix
  loop,     \* the network loop's place in bleConsoleLoop()
  late,     \* txConnectMs lies after this turn's nowMs
  tele,     \* the stream: streaming, stopRequested, rawBatch, outBuf
  free      \* os_msys_num_free()

conn == <<radio, host, up, sink>>
fifo == <<txBuf, txHead>>
vars == <<conn, request, armed, age, fifo, loop, late, tele, free>>

Lesser(a, b) == IF a < b THEN a ELSE b

Backlog == Len(txBuf) - txHead
Unsent == SubSeq(txBuf, txHead + 1, Len(txBuf))
Locked == loop \in {"sending", "flushing"}   \* txMutex, held by the network loop
NoStream == [on |-> FALSE, stop |-> FALSE, raw |-> 0, out |-> 0]

Init ==
  /\ radio = [started |-> TRUE, adv |-> TRUE, link |-> FALSE] /\ host = "idle"
  /\ up = FALSE /\ sink = FALSE /\ request = FALSE /\ armed = FALSE /\ age = Settle
  /\ txBuf = <<>> /\ txHead = 0 /\ loop = "console" /\ late = FALSE /\ tele = NoStream /\ free = Pool

-----------------------------------------------------------------------------
(* The FIFO.                                                               *)

\* keeps the consumed prefix
AppendAtEnd(who, len) ==
  /\ txBuf' = txBuf \o [i \in 1..Lesser(len, Cap - Backlog) |-> who]
  /\ UNCHANGED txHead

\* bleWrite() under the lock: a consumed prefix makes way before the buffer grows
BleWrite(who, len) ==
  LET drop == IF txHead = Len(txBuf) \/ Len(txBuf) + len > Cap THEN txHead ELSE 0
  IN /\ txBuf' = SubSeq(txBuf, drop + 1, Len(txBuf))
                   \o [i \in 1..Lesser(len, Cap - Backlog) |-> who]
     /\ txHead' = txHead - drop

\* the mirror takes what there is
MirrorAll(len) == IF sink /\ up THEN BleWrite("log", len) ELSE UNCHANGED fifo

\* bleLogWrite(): the mirror only gets half the FIFO
Mirror(len) ==
  IF sink /\ up /\ Backlog + len <= Cap \div 2 THEN BleWrite("log", len) ELSE UNCHANGED fifo

\* a task of core 0, or the network loop's flush, logs a line
LogWrite ==
  /\ ~Locked /\ \E len \in 1..Chunk : Mirror(len)
  /\ UNCHANGED <<conn, request, armed, age, loop, late, tele, free>>

-----------------------------------------------------------------------------
(* The host task of the BLE stack.                                         *)

ClientConnects ==
  /\ host = "idle" /\ radio.adv /\ ~radio.link
  /\ radio' = [radio EXCEPT !.link = TRUE, !.adv = FALSE] /\ host' = "connected"
  /\ UNCHANGED <<up, sink, request, armed, age, fifo, loop, late, tele, free>>

LinkLost ==
  /\ host = "idle" /\ radio.link
  /\ radio' = [radio EXCEPT !.link = FALSE] /\ host' = "lost"
  /\ UNCHANGED <<up, sink, request, armed, age, fifo, loop, late, tele, free>>

\* onConnect(): the window in which nothing is sent is armed last
OnConnect ==
  /\ \/ /\ host = "connected" /\ host' = "mirror"
        /\ up' = TRUE /\ UNCHANGED <<sink, request, armed>>
     \/ /\ host = "mirror" /\ host' = "settle"
        /\ sink' = TRUE /\ request' = TRUE /\ UNCHANGED <<up, armed>>
     \/ /\ host = "settle" /\ host' = "idle"
        /\ armed' = TRUE /\ UNCHANGED <<up, sink, request>>
  /\ UNCHANGED <<radio, age, fifo, loop, late, tele, free>>

\* onDisconnect(): the network loop frees the stream; advertising is taken up again
OnDisconnect ==
  /\ \/ /\ host = "lost" /\ host' = "unmirror"
        /\ up' = FALSE /\ UNCHANGED <<radio, sink, tele, fifo>>
     \/ /\ host = "unmirror" /\ host' = "clear"
        /\ tele' = [tele EXCEPT !.stop = TRUE] /\ sink' = FALSE /\ UNCHANGED <<radio, up, fifo>>
     \/ /\ host = "clear" /\ ~Locked /\ host' = "idle"
        /\ txBuf' = <<>> /\ txHead' = 0
        /\ radio' = [radio EXCEPT !.adv = TRUE] /\ UNCHANGED <<up, sink, tele>>
  /\ UNCHANGED <<request, armed, age, loop, late, free>>

\* the stack has sent a notification (external)
Refill ==
  /\ free < Pool /\ free' = free + 1
  /\ UNCHANGED <<conn, request, armed, age, fifo, loop, late, tele>>

Tick ==
  /\ age < Settle /\ age' = age + 1
  /\ UNCHANGED <<conn, request, armed, fifo, loop, late, tele, free>>

-----------------------------------------------------------------------------
(* The network loop.                                                       *)

\* teleBleSetStreaming() and teleBleStop()
SetStreaming ==
  \/ /\ radio.link /\ up /\ ~tele.on
     /\ tele' = [tele EXCEPT !.on = TRUE]
  \/ tele' = [NoStream EXCEPT !.stop = tele.stop]

\* loopConsole(): a command answers if the client is there, turns the stream on or
\* off, or pushes what is pending (consoleFlush(), bleConsoleAwaitTxDrain())
Console ==
  /\ loop = "console" /\ radio.started
  /\ \/ up /\ (\E len \in 1..Cap : BleWrite("reply", len)) /\ UNCHANGED <<loop, tele>>
     \/ SetStreaming /\ UNCHANGED <<loop, fifo>>
     \/ loop' \in {"flush", "drain"} /\ UNCHANGED <<fifo, tele>>
  /\ UNCHANGED <<conn, request, armed, age, late, free>>

\* after the drain of a command the command goes on, after the turn's own the stream
Back == loop' = IF loop \in {"flush", "flushing"} THEN "console" ELSE "tele"

\* bleTxDrain(): arms and awaits the window, then asks for the fast interval.  Time is
\* unsigned: a window that a flush of this turn has armed reads as long over.
Drain ==
  /\ loop \in {"flush", "drain"}
  /\ IF ~up THEN Back /\ UNCHANGED <<request, armed, age, late>>
     ELSE /\ armed' = FALSE
          /\ age' = IF armed THEN 0 ELSE age
          /\ late' = IF armed THEN loop = "flush" ELSE late
          /\ IF ~armed /\ (age = Settle \/ (late /\ loop = "drain"))
             THEN /\ loop' = IF loop = "flush" THEN "flushing" ELSE "sending"
                  /\ request' = FALSE
             ELSE Back /\ UNCHANGED request
  /\ UNCHANGED <<conn, fifo, tele, free>>

\* a chunk, cut before a character
Send ==
  /\ Locked /\ Backlog > 0 /\ free >= ConsoleFloor
  /\ \E n \in 1..Lesser(Chunk, Backlog) : txHead' = txHead + n
  /\ free' = free - 1
  /\ UNCHANGED <<conn, request, armed, age, txBuf, loop, late, tele>>

\* one that fails is sent again by the next drain; its error is logged, and mirrored
SendFails ==
  /\ Locked /\ Backlog > 0 /\ free >= ConsoleFloor
  /\ Mirror(1) /\ Back
  /\ UNCHANGED <<conn, request, armed, age, late, tele, free>>

DrainEnds ==
  /\ Locked /\ (Backlog = 0 \/ free < ConsoleFloor) /\ Back
  /\ IF Backlog = 0 THEN txBuf' = <<>> /\ txHead' = 0 ELSE UNCHANGED fifo
  /\ UNCHANGED <<conn, request, armed, age, late, tele, free>>

\* both streams wait for the same room
NoHeadroom == ConsoleFloor

\* the stream leaves buffers to the console
Headroom == TeleFloor

\* bleConsoleLinkSettled()
LinkSettled == up /\ ~armed /\ age >= Settle

\* mppt.telemetry() adds a frame, or drops it; a full or old batch becomes a packet
\* if there is room for it
Batched(t) ==
  LET raw == IF t.raw < RawCap THEN t.raw + 1 ELSE t.raw
  IN {[t EXCEPT !.raw = raw],
      [t EXCEPT !.raw = 0, !.out = IF t.out + raw > OutCap THEN t.out ELSE t.out + raw]}

\* teleBleTick(): a packet that is begun may go out in part
TeleTick ==
  /\ loop = "tele" /\ loop' = "console" /\ late' = FALSE
  /\ LET s == IF tele.stop THEN NoStream ELSE tele
     IN IF ~(s.on /\ LinkSettled) THEN tele' = s /\ UNCHANGED free
        ELSE \E t \in Batched(s), n \in 0..OutCap :
               /\ n <= t.out /\ (n > 0 => free - n + 1 >= Headroom)
               /\ tele' = [t EXCEPT !.out = t.out - n]
               /\ free' = free - n
  /\ UNCHANGED <<conn, request, armed, age, fifo>>

\* `svc stop ble`: onStop() frees the stream; bleConsoleEnd() stops advertising and
\* asks the stack to drop the client
End ==
  /\ loop = "console" /\ radio.started
  /\ radio' = [radio EXCEPT !.started = FALSE, !.adv = FALSE]
  /\ up' = FALSE /\ sink' = FALSE /\ tele' = [NoStream EXCEPT !.stop = tele.stop]
  /\ UNCHANGED <<host, request, armed, age, fifo, loop, late, free>>

\* bleConsoleBegin() of a stack that is up: resumes advertising
Begin ==
  /\ loop = "console" /\ ~radio.started
  /\ radio' = [radio EXCEPT !.started = TRUE, !.adv = ~radio.link]
  /\ UNCHANGED <<host, up, sink, request, armed, age, fifo, loop, late, tele, free>>

Next ==
  \/ LogWrite \/ ClientConnects \/ LinkLost \/ OnConnect \/ OnDisconnect \/ Refill \/ Tick
  \/ Console \/ Drain \/ Send \/ SendFails \/ DrainEnds \/ TeleTick \/ End \/ Begin

Spec == Init /\ [][Next]_vars
=============================================================================
