---------------------------- MODULE MCStartGate -----------------------------
(* StartGate with a memory of what really happened: for how long the BMS    *)
(* is known.                                                                *)
EXTENDS StartGate

VARIABLE up  \* time since the subscription, up to Wait

\* one step of a clock that stops at its limit
Advance(clock, limit) == IF clock < limit THEN clock + 1 ELSE limit

MemoryNext ==
  \/ (Gate \/ Subscribe \/ CurrentFrame \/ \E drawn \in BOOLEAN : UpdateTermination(drawn))
       /\ UNCHANGED up
  \/ (Stop \/ Unblock \/ Block) /\ UNCHANGED up
  \/ \E v \in {"low", "between", "full"} : CellFrame(v) /\ UNCHANGED up
  \/ Tick /\ up' = IF source THEN Advance(up, Wait) ELSE 0

MemoryInit == GateInit /\ up = 0

MemorySpec == MemoryInit /\ [][MemoryNext]_<<gateVars, up>>

\* Time passes, and samples keep reaching a ready controller.
FairMemorySpec == MemorySpec /\ WF_gateVars(Tick) /\ WF_gateVars(Gate)

Starts == status = "ready" /\ status' = "running"

\* From the subscription on the gate waits for the charger's verdict (cell voltage
\* and a warm battery current), not for the first frame, and lets no scan through
\* before it unless the window is over.
GateWaitsForVerdict ==
  [][Starts /\ source => (decided /\ ~Full) \/ up = Wait]_<<gateVars, up>>
=============================================================================
