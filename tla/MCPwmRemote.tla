---------------------------- MODULE MCPwmRemote ----------------------------
(***************************************************************************)
(* The dimmer and the receiver of its remote, for TLC.  PwmLevel lets any  *)
(* key come between any two of its handlers, whatever the receiver makes   *)
(* of the signal, and the receiver takes nothing from the dimmer; so each  *)
(* is followed with the other one at rest.                                 *)
(***************************************************************************)
EXTENDS MCPwmLevel

CONSTANTS Toggles, UpDown, NoKey, BITS, UPDN, SAME, DIFF,
          TickMod, MaxLag, MaxFrames, MaxNoise

ASSUME RemoteAssumption ==
    /\ Toggles \cap UpDown = {} /\ NoKey \notin Toggles \cup UpDown
    /\ BITS \in Nat \ {0}
    /\ UPDN \in Nat /\ DIFF \in Nat /\ SAME \in Nat /\ TickMod \in Nat
    /\ MaxLag \in Nat /\ MaxLag < SAME /\ SAME < TickMod
    /\ MaxFrames \in Nat /\ MaxNoise \in Nat

VARIABLES part,   \* the part that is followed
          s_state, s_bits, polarity, s_cmd, s_repeat, s_ready,
          pc, late, cmd, repeat, s_last_cmd, s_last_key_time,
          clock, lag, sending, heard, silent, frames, noise,
          sent, acted, ofRepeat, mixed

Remote == INSTANCE IrRecv

remoteVars == <<s_state, s_bits, polarity, s_cmd, s_repeat, s_ready,
                pc, late, cmd, repeat, s_last_cmd, s_last_key_time,
                clock, lag, sending, heard, silent, frames, noise,
                sent, acted, ofRepeat, mixed>>

BothInit == Init /\ Remote!Init /\ part \in {"dimmer", "remote"}

BothNext ==
    /\ UNCHANGED part
    /\ \/ part = "dimmer" /\ Next /\ UNCHANGED remoteVars
       \/ part = "remote" /\ Remote!Next /\ UNCHANGED vars

BothSpec == BothInit /\ [][BothNext]_<<part, vars, remoteVars>> /\ Fairness

\* A decoder at rest waits for the signal to fall (IrRecv).
NeverDeaf == Remote!NeverDeaf

\* A key that toggles acts no more than once each time it is pressed, but for a held
\* one that is read while another frame ends (IrRecv).
TogglesOnce == Remote!TogglesOnce
=============================================================================
