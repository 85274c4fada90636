------------------------------- MODULE Logging -------------------------------
(***************************************************************************)
(* logging.cpp.  The RT core never prints: its lines go through the queue   *)
(* of SpscQueue, and the network loop, its only consumer, gives them to the *)
(* UART and the log sinks.  The tasks of core 0 print at once.  Both then   *)
(* snapshot the table of sinks under a lock, call the sinks outside of it,  *)
(* and add the line to the boot log while that is open.  A sink (MQTT, BLE) *)
(* adds itself when its client connects; that closes the boot log, which    *)
(* is replayed to it outside the lock.                                      *)
(*                                                                         *)
(* A line is a number; the boot log holds BootRoom of them.                 *)
(***************************************************************************)
EXTENDS SpscQueue, Functions

CONSTANTS
  Tasks,      \* tasks of core 0 that log, besides the network loop
  Net,        \* the network loop
  Sinks,      \* log callbacks
  MaxSinks,   \* kMaxLogCallbacks
  BootRoom,   \* lines that fit s_bootLog
  QueueCap,   \* enqueue_log() drops a line above this size, 200
  MaxLines    \* bound: lines logged

ASSUME LoggingAssumption ==
  /\ Net \notin Tasks /\ MaxSinks \in Nat /\ BootRoom \in Nat /\ QueueCap \in Nat
  /\ MaxLines \in Nat /\ 1..MaxLines \subseteq Values

VARIABLES
  lines,      \* lines logged so far
  uart,       \* those the UART printed
  sinks,      \* logCallbacks
  boot,       \* s_bootLog and s_bootLogOpen
  task,       \* each core-0 task's place and locals in vprintf_mux() or the flush
  link,       \* each sink's client: its task's place in the connection events
  got         \* what a sink was given in this connection

lvars == <<lines, uart, sinks, boot, task, link, got>>
vars  == <<qvars, lvars>>

Printers == Tasks \cup {Net}
Connected(s) == link[s].at \in {"attach", "replay", "on"}

Init ==
  /\ QInit
  /\ lines = 0 /\ uart = {} /\ sinks = <<>>
  /\ boot = [text |-> <<>>, open |-> TRUE]
  /\ task = [t \in Printers |-> [at |-> "idle", line |-> 0, todo |-> <<>>]]
  /\ link = [s \in Sinks |-> [at |-> "off", len |-> 0]]
  /\ got = [s \in Sinks |-> <<>>]

-----------------------------------------------------------------------------
(* The RT core.                                                            *)

\* enqueue_log(): a line is dropped when the queue is long or the heap is empty
EnqueueLog(p) ==
  /\ lines < MaxLines /\ prod[p].at = "idle" /\ size_approx <= QueueCap
  /\ lines' = lines + 1
  /\ Enqueue(p, lines')
  /\ UNCHANGED <<uart, sinks, boot, task, link, got>>

DropLog(p) ==
  /\ lines < MaxLines /\ prod[p].at = "idle"
  /\ lines' = lines + 1
  /\ UNCHANGED <<qvars, uart, sinks, boot, task, link, got>>

\* the rest of enqueue(), whose result enqueue_log() ignores
Enqueued(p) == (Enqueuing(p) \/ OutOfMemory(p)) /\ UNCHANGED lvars

-----------------------------------------------------------------------------
(* Core 0: vprintf_mux(), and the flush of the network loop.               *)

\* on the UART first; anyone else to tell?
Printed(t, l) ==
  /\ uart' = uart \cup {l}
  /\ task' = [task EXCEPT ![t].line = l,
                ![t].at = IF t = Net \/ sinks # <<>> \/ boot.open THEN "snapshot" ELSE "idle"]

Log(t) ==
  /\ lines < MaxLines /\ task[t].at = "idle"
  /\ lines' = lines + 1
  /\ Printed(t, lines')
  /\ UNCHANGED <<qvars, sinks, boot, link, got>>

\* flush_async_uart_log(): the call returns after 32 lines, and here after any number
Flush ==
  /\ task[Net].at = "idle" /\ TryDequeue
  /\ task' = [task EXCEPT ![Net].at = "dequeue"]
  /\ UNCHANGED <<lines, uart, sinks, boot, link, got>>

FlushNext ==
  /\ task[Net].at = "dequeue"
  /\ \/ LookAhead /\ cons'.at = "idle"
        /\ task' = [task EXCEPT ![Net].at = "idle"] /\ UNCHANGED uart
     \/ LookAhead /\ cons'.at # "idle" /\ UNCHANGED <<task, uart>>
     \/ (Recheck \/ MoveOn \/ Take) /\ UNCHANGED <<task, uart>>
     \/ Release /\ Printed(Net, cons.v[1])
  /\ UNCHANGED <<lines, sinks, boot, link, got>>

\* snapshotLogCallbacks()
Snapshot(t) ==
  /\ task[t].at = "snapshot"
  /\ task' = [task EXCEPT ![t].at = "deliver", ![t].todo = sinks]
  /\ UNCHANGED <<qvars, lines, uart, sinks, boot, link, got>>

\* the callback, which looks first whether its client is connected
Deliver(t) ==
  /\ task[t].at = "deliver" /\ task[t].todo # <<>>
  /\ LET s == Head(task[t].todo)
     IN  got' = IF Connected(s) THEN [got EXCEPT ![s] = Append(@, task[t].line)] ELSE got
  /\ task' = [task EXCEPT ![t].todo = Tail(@)]
  /\ UNCHANGED <<qvars, lines, uart, sinks, boot, link>>

\* bootLogCapture(), until it takes the lock
Capture(t) ==
  /\ task[t].at = "deliver" /\ task[t].todo = <<>>
  /\ task' = [task EXCEPT ![t].at = IF boot.open THEN "capture" ELSE "idle"]
  /\ UNCHANGED <<qvars, lines, uart, sinks, boot, link, got>>

CaptureUnchecked(t) ==
  /\ task[t].at = "capture"
  /\ task' = [task EXCEPT ![t].at = "idle"]
  /\ boot' = IF Len(boot.text) < BootRoom THEN [boot EXCEPT !.text = Append(@, task[t].line)]
             ELSE [boot EXCEPT !.open = FALSE]
  /\ UNCHANGED <<qvars, lines, uart, sinks, link, got>>

\* under the lock it looks again: a sink may have come in between
CaptureLocked(t) ==
  /\ task[t].at = "capture"
  /\ task' = [task EXCEPT ![t].at = "idle"]
  /\ boot' = IF ~boot.open THEN boot
             ELSE IF Len(boot.text) < BootRoom THEN [boot EXCEPT !.text = Append(@, task[t].line)]
             ELSE [boot EXCEPT !.open = FALSE]
  /\ UNCHANGED <<qvars, lines, uart, sinks, link, got>>

Printing(t) == Snapshot(t) \/ Deliver(t) \/ Capture(t) \/ CaptureLocked(t)

-----------------------------------------------------------------------------
(* The sinks.                                                              *)

\* the event of a connection; BLE takes a second client as well
Connect(s) ==
  /\ link[s].at \in {"off", "on"}
  /\ link' = [link EXCEPT ![s].at = "attach"]
  /\ got' = IF link[s].at = "off" THEN [got EXCEPT ![s] = <<>>] ELSE got
  /\ UNCHANGED <<qvars, lines, uart, sinks, boot, task>>

\* without the look for a duplicate
AttachAgain(s) ==
  /\ link[s].at = "attach"
  /\ IF Len(sinks) >= MaxSinks
     THEN /\ link' = [link EXCEPT ![s].at = "on"]
          /\ UNCHANGED <<sinks, boot>>
     ELSE /\ sinks' = Append(sinks, s)
          /\ boot' = [boot EXCEPT !.open = FALSE]
          /\ link' = [link EXCEPT ![s] = [at |-> "replay", len |-> Len(boot.text)]]
  /\ UNCHANGED <<qvars, lines, uart, task, got>>

\* addLogCallback(), under the lock
Attach(s) ==
  /\ link[s].at = "attach"
  /\ IF s \in Range(sinks) \/ Len(sinks) >= MaxSinks
     THEN /\ link' = [link EXCEPT ![s].at = "on"]
          /\ UNCHANGED <<sinks, boot>>
     ELSE /\ sinks' = Append(sinks, s)
          /\ boot' = [boot EXCEPT !.open = FALSE]
          /\ link' = [link EXCEPT ![s] = [at |-> "replay", len |-> Len(boot.text)]]
  /\ UNCHANGED <<qvars, lines, uart, task, got>>

\* and outside the lock the backlog it found there
Replay(s) ==
  /\ link[s].at = "replay"
  /\ got' = [got EXCEPT ![s] = @ \o SubSeq(boot.text, 1, link[s].len)]
  /\ link' = [link EXCEPT ![s] = [at |-> "on", len |-> 0]]
  /\ UNCHANGED <<qvars, lines, uart, sinks, boot, task>>

\* the event of a disconnection, and its removeLogCallback()
Disconnect(s) ==
  /\ link[s].at = "on"
  /\ link' = [link EXCEPT ![s].at = "remove"]
  /\ got' = [got EXCEPT ![s] = <<>>]
  /\ UNCHANGED <<qvars, lines, uart, sinks, boot, task>>

\* the last sink takes the place of the one that goes
RemoveSink(s) ==
  /\ link[s].at = "remove"
  /\ link' = [link EXCEPT ![s].at = "off"]
  /\ sinks' = IF s \in Range(sinks)
              THEN LET i == CHOOSE j \in 1..Len(sinks) : sinks[j] = s
                   IN  SubSeq([sinks EXCEPT ![i] = sinks[Len(sinks)]], 1, Len(sinks) - 1)
              ELSE sinks
  /\ UNCHANGED <<qvars, lines, uart, boot, task, got>>

-----------------------------------------------------------------------------
Next ==
  \/ \E p \in Producers : EnqueueLog(p) \/ DropLog(p) \/ Enqueued(p)
  \/ \E t \in Tasks : Log(t)
  \/ \E t \in Printers : Printing(t)
  \/ Flush \/ FlushNext
  \/ \E s \in Sinks : Connect(s) \/ Attach(s) \/ Replay(s) \/ Disconnect(s) \/ RemoveSink(s)

Spec == Init /\ [][Next]_vars

\* The network loop flushes on every turn and the scheduler runs it.
FairSpec == Spec /\ WF_vars(Flush) /\ WF_vars(FlushNext) /\ WF_vars(Printing(Net))

-----------------------------------------------------------------------------
(* Properties.                                                             *)

\* A sink is given a line once in a connection, directly or with the backlog: the
\* line of a task that took its snapshot before the sink came and that captures it
\* afterwards finds the boot log closed, and a sink that adds itself again (a second
\* BLE client) is in the table once and gets no second backlog.
OncePerConnection == \A s \in Sinks : IsInjective(got[s])

\* Once closed, as by the first attachment, the boot log is what it was: replay reads it
\* outside the lock, while tasks that found it open are on their way to add to it.
BacklogFrozen == [][~boot.open => boot' = boot]_boot

\* A line that reached the queue gets to the UART, whatever connects, logs or runs
\* out of memory meanwhile.
RtLinesArrive == \A l \in 1..MaxLines : (l \in Range(Content)) ~> (l \in uart)
=============================================================================
