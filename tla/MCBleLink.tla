------------------------------ MODULE MCBleLink ------------------------------
(* BleLink with its properties and the fairness of its tasks.               *)
EXTENDS BleLink, FiniteSets

\* the loop turns (its commands end), the host task's callbacks return, time passes,
\* the stack sends what it has, and a notification it has room for does not fail for ever
FairSpec ==
  /\ Spec
  /\ SF_vars(Console /\ loop' = "drain")
  /\ WF_vars(Drain) /\ WF_vars(DrainEnds) /\ WF_vars(TeleTick)
  /\ WF_vars(OnConnect) /\ WF_vars(OnDisconnect)
  /\ WF_vars(Tick) /\ WF_vars(Refill)
  /\ SF_vars(Send)

-----------------------------------------------------------------------------
(* Properties.                                                             *)

\* "With size bounded to TX_BUF_CAP (compaction in bleWrite) the append path then
\* never reallocates" (console_ble.cpp): whatever replies, mirrored lines, partial
\* drains and failed notifications came before, the buffer stays inside what was
\* reserved, its consumed prefix included.
NeverReallocates == Len(txBuf) <= Cap

\* "The mirror only gets half the FIFO" (console_ble.cpp): however logs, replies and
\* drains follow one another, log lines never hold more than half of it.
LogsLeaveRoom ==
  Cardinality({i \in 1..Len(Unsent) : Unsent[i] = "log"}) <= Cap \div 2

\* The console is served while its client stays, however much the stream sends
\* ("telemetry ... must not starve the console/log mirror sharing the link",
\* tele_ble.cpp): a backlog that is never sent off means that chunks go out for ever.
BacklogMoves ==
  \/ []<>(Backlog = 0 \/ ~up \/ ~radio.started)
  \/ []<><<Send>>_vars
=============================================================================
