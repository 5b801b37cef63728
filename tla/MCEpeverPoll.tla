--------------------------- MODULE MCEpeverPoll ---------------------------
(* One tick is about 250 ms of the code's 500 ms timeout.                  *)
EXTENDS EpeverPoll

MCIntervals == {DEFAULT_INTERVAL + 1}
===========================================================================
