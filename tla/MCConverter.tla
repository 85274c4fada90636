---------------------------- MODULE MCConverter ----------------------------
(* Instances of Converter: a period of a dozen counts in which every clamp, *)
(* fade and step length of the real 2047..4095 counts has its own value.    *)
EXTENDS Converter

MCDirections == -12..12
MCDcmIdeals == {0, 1, 3, 7, 40}
MCManualLs == {-1, 0, 3, 9, 30}
=============================================================================
