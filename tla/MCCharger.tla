------------------------------ MODULE MCCharger ------------------------------
(* Charger with a memory of what really happened: the charge drawn since the *)
(* pack was last full.                                                      *)
EXTENDS Charger

VARIABLES
  drawn,    \* Ah of the current frames that began after the last latch
  counted   \* the frame being added is one of them

memory == <<drawn, counted>>

TestCharges == {-1, 0, 1}
TestIbatFloor == -1
TestCurrents == {-1, 0, 2}

MemoryInit == Init /\ drawn = 0 /\ counted = TRUE

Full == ~term /\ term'

MemoryNext ==
  \/ (\E v \in Cells : CellFrame(v)) /\ UNCHANGED memory
  \/ \E i \in Currents : BeginCurrent(i) /\ counted' = TRUE /\ UNCHANGED drawn
  \/ \E q \in Charges :
       /\ EndCurrent(q)
       /\ drawn' = IF counted THEN drawn + q ELSE drawn
       /\ UNCHANGED counted
  \/ \E authority \in BOOLEAN :
       /\ Update(authority)
       /\ drawn' = IF Full THEN 0 ELSE drawn
       /\ counted' = (counted /\ ~Full)
  \/ (Expire \/ StuckRelease \/ Tick) /\ UNCHANGED memory

MemorySpec == MemoryInit /\ [][MemoryNext]_<<vars, memory>>

\* the low-frequency loop goes on, and so does time
FairSpec ==
  MemorySpec /\ WF_vars(Tick) /\ WF_vars(\E authority \in BOOLEAN : Update(authority))

-----------------------------------------------------------------------------
(* Properties.                                                             *)

\* Between two frames the counter reads the charge of the frames that began
\* since the pack was full, however the reset of the loop fell into a frame of
\* the MQTT task (coulomb_counter.h: the flag that asks for it is never lost).
CountsSinceFull == ~adding => AhSinceFull = drawn

\* "Terminated float - open-loop hold at Vbat_fallback" (charger.h): a full pack
\* whose cells are at rest is held there once the glide of the latch is over.
FloatHolds ==
  [][Update(TRUE) /\ term' /\ BatDataOk /\ cell < Eoc /\ ~float'.on
       => pin' # NoPin /\ pin' <= Fallback]_<<vars, memory>>

\* When the BMS falls silent for good the set point ends on the fallback voltage,
\* whatever regime was at work (unless the stuck watchdog releases it for ever).
SilentPackFallsBack ==
  <>[]~fresh => []<>(pin = Fallback) \/ []<><<StuckRelease>>_vars
=============================================================================
