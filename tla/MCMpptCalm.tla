---------------------------- MODULE MCMpptCalm -----------------------------
(* MpptControl with a last fault: from `calm` on no protection trips, no    *)
(* calibration fails, nobody types, and a converter that is off reads no    *)
(* limit.  Does the controller always find its way back to power?           *)
EXTENDS MCMpptControl

VARIABLE calm

CalmRt == Rt /\ (calm /\ Disabled /\ sweeping => sweeping')

CalmNext ==
  \/ (CalmRt \/ CalibDone \/ Tick) /\ UNCHANGED calm
  \/ ~calm /\ (Fault \/ Console) /\ UNCHANGED calm
  \/ ~calm /\ calm' = TRUE /\ UNCHANGED vars

HealthyScan ==
  \E better, above \in BOOLEAN : UpdateScan(TRUE, FALSE, FALSE, "None", better, above)

CalmInit == Init /\ calm = FALSE

\* Time passes, a calibration of a healthy ADC ends, and the RT loop goes on
\* handling samples that allow a start.
CalmSpec ==
  /\ CalmInit
  /\ [][CalmNext]_<<vars, calm>>
  /\ WF_<<vars, calm>>(Tick /\ UNCHANGED calm)
  /\ WF_<<vars, calm>>(CalibDone /\ UNCHANGED calm)
  /\ WF_<<vars, calm>>(RtStart(TRUE, TRUE) /\ UNCHANGED calm)
  /\ WF_<<vars, calm>>(HealthyScan /\ UNCHANGED calm)
  /\ WF_<<vars, calm>>(RtManual(FALSE) /\ UNCHANGED calm)

\* No order of trips, failed or cancelled calibrations and commands strands an
\* automatic controller: after the last of them it powers the converter again.
RestartsWhenCalm == (calm /\ ~manual) ~> ~Disabled
=============================================================================
