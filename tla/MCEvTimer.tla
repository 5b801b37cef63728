----------------------------- MODULE MCEvTimer -----------------------------
(***************************************************************************)
(* Instances of EvTimer for TLC.  led and ident keep a handle, as the LED  *)
(* and identify timers do; steer is posted and forgotten.                  *)
(***************************************************************************)
EXTENDS EvTimer, TLC

CONSTANTS led, ident, steer

\* The clients that keep a handle differ in nothing but their names.
Symmetry == Permutations(Tracked)
=============================================================================
