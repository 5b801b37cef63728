---------------------------- MODULE MCPwmLevel ----------------------------
(* One channel and the master, levels 0..3, a fade of two steps.  OnLevel  *)
(* can be written to 0, below every level a Level command reaches.         *)
EXTENDS PwmLevel

MCOnLevels == {0, MAX_LEVEL + 1}
MCStepSizes == {2}
=============================================================================
