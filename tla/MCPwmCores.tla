----------------------------- MODULE MCPwmCores -----------------------------
(* Small instances of PwmCores: a duty of up to four counts, moved by one   *)
(* down and by one or two up, so that a first step and a duty under way     *)
(* differ.                                                                  *)
EXTENDS PwmCores

MCSteps == -1..2
MCBoth == {"trip", "sweep"}
=============================================================================
