--------------------------- MODULE MCMpptControl ---------------------------
(* Instances of MpptControl: a tick is a few seconds, so that the delays of *)
(* the code (4, 5, 16 and 30 s) keep their order; the duty has a floor, a   *)
(* ceiling and values between them.                                         *)
EXTENDS MpptControl

MCSteps == {-2, -1, 0, 1}
MCTrips == {"brief", "long", "ovLasting"}
MCLfTrips == {"supplyUV", "undetected", "temp"}
MCAutomatic == {0}
MCBootTargets == {0, 2}
MCNoTargets == {}
MCDcTargets == {0, 1, 3}
MCManualSteps == {-1, 2}
=============================================================================
