------------------------------- MODULE IrRecv -------------------------------
(***************************************************************************)
(* The remote's receiver of the dimmer (apps/pwm5ch/ir_recv.c, and the     *)
(* filter of keys in ir_recv_cmd.c).  Each edge of the demodulated signal  *)
(* may interrupt the main loop between any two of its lines; the interrupt *)
(* decodes the NEC frame and leaves a key in s_cmd, s_repeat and s_ready,  *)
(* which the main loop polls.  What a key then does is in PwmLevel.        *)
(*                                                                         *)
(* The time between two edges is one of the lengths the decoder tells      *)
(* apart; "odd" fits none.  A bit carries the key it belongs to.  Noise    *)
(* adds edges at odd times and turns no bit into another one.              *)
(***************************************************************************)
EXTENDS Integers, Sequences

CONSTANTS
    Toggles,      \* keys that act once each time they are pressed
    UpDown,       \* keys that go on acting while they are held (ir_is_updn)
    NoKey,        \* IR_CMD_NONE
    BITS,         \* bits of a frame: 32
    UPDN, SAME, DIFF,   \* IR_DEBOUNCE_*_MS, in ticks of the model's clock
    TickMod,      \* range of clock_time()
    MaxLag,       \* bound: ticks between a key's being ready and its poll
    MaxFrames,    \* bound: frames the remote sends
    MaxNoise      \* bound: edges that are noise

VARIABLES
    s_state, s_bits, polarity,       \* the decoder, and the edge it waits for
    s_cmd, s_repeat, s_ready,        \* the key it leaves
    pc,                              \* where the main loop is
    late,                            \* ir_recv_poll: dt is over the timeout
    cmd, repeat,                     \* arguments of ir_recv_on_cmd
    s_last_cmd, s_last_key_time,     \* ir_debounce
    clock, lag,
    sending,      \* the frame on air and its edges so far
    heard,        \* the last interrupt was that frame's last edge
    silent,       \* no interrupt for NEC_TIMEOUT_US
    frames, noise,
    sent, acted,  \* history: frames of a key, and times it acted
    ofRepeat,     \* history: cmd was read first, and was a repeated key then
    mixed         \* history: times such a key acted as one that is pressed

decoder == <<s_state, s_bits, polarity, s_cmd, s_repeat, s_ready>>
poller  == <<pc, late, cmd, repeat, s_last_cmd, s_last_key_time>>
time    == <<clock, lag>>
air     == <<sending, heard, frames, noise, sent>>
done    == <<acted, ofRepeat, mixed>>
vars    == <<decoder, poller, time, air, silent, done>>

Keys == Toggles \cup UpDown

Quiet == [kind |-> "none"]

\* The length of the time before each edge; the first one is to low, then they
\* take turns.  A bit is a short low and a high that tells its value.
FrameEdges(kind) ==
    IF kind = "repeat" THEN <<"any", "leader_low", "repeat_high", "bit_low">>
    ELSE <<"any", "leader_low", "leader_high">>
         \o [i \in 1 .. 2 * BITS |-> IF i % 2 = 1 THEN "bit_low" ELSE "bit_value"]
         \o <<"bit_low">>

-----------------------------------------------------------------------------
Init ==
    /\ s_state = "idle" /\ s_bits = <<>> /\ polarity = "falling"
    /\ s_cmd = NoKey /\ s_repeat = FALSE /\ s_ready = FALSE
    /\ pc = "task" /\ late = FALSE /\ cmd = NoKey /\ repeat = FALSE
    /\ s_last_cmd = NoKey /\ s_last_key_time = 0
    /\ clock = 0 /\ lag = 0
    /\ sending = Quiet /\ heard = FALSE /\ silent = TRUE
    /\ frames = MaxFrames /\ noise = MaxNoise
    /\ sent = [k \in Keys |-> 0] /\ acted = [k \in Keys |-> 0]
    /\ ofRepeat = FALSE /\ mixed = 0

(***************************************************************************)
(* ir_recv_gpio_irq.                                                       *)
(***************************************************************************)
\* Mutated form: the polarity stays switched to the next edge.
ToIdleOnly(level) ==
    s_state' = "idle" /\ polarity' = IF level = 0 THEN "rising" ELSE "falling"

\* ir_reset_to_idle, in the interrupt.
ToIdle(level) == s_state' = "idle" /\ polarity' = "falling"

Goto(state, level) ==
    s_state' = state /\ polarity' = IF level = 0 THEN "rising" ELSE "falling"

KeepKey == UNCHANGED <<s_cmd, s_repeat, s_ready>>

\* A complete frame leaves its key, its bytes passing the check by their inverses; a
\* repeat leaves the last key again.
NewKey(k) == s_cmd' = k /\ s_repeat' = FALSE /\ s_ready' = TRUE

RepeatKey ==
    IF s_cmd # NoKey
    THEN s_repeat' = TRUE /\ s_ready' = TRUE /\ UNCHANGED s_cmd
    ELSE KeepKey

\* What an edge does that ends a time of length gap, k being the bit's frame.
EdgeIn(level, gap, k) ==
    \/ /\ s_state = "idle" /\ level = 0
       /\ Goto("leader_low", 0) /\ s_bits' = <<>> /\ KeepKey
    \/ /\ s_state \in {"leader_low", "data"} /\ level = 1
       /\ IF s_state = "leader_low" /\ gap = "leader_low" THEN Goto("leader_high", 1)
          ELSE IF s_state = "data" /\ gap = "bit_low" THEN Goto("data_high", 1)
          ELSE ToIdle(1)
       /\ UNCHANGED s_bits /\ KeepKey
    \/ /\ s_state = "leader_high" /\ level = 0
       /\ UNCHANGED s_bits
       /\ IF gap = "leader_high" THEN Goto("data", 0) /\ KeepKey
          ELSE /\ ToIdle(0)
               /\ IF gap = "repeat_high" THEN RepeatKey ELSE KeepKey
    \/ /\ s_state = "data_high" /\ level = 0 /\ gap = "bit_value"
       /\ s_bits' = Append(s_bits, k)
       /\ IF Len(s_bits') < BITS THEN Goto("data", 0) /\ KeepKey
          ELSE /\ ToIdle(0)
               /\ IF \A i \in 1 .. BITS : s_bits'[i] = k THEN NewKey(k) ELSE KeepKey
    \/ /\ s_state = "data_high" /\ level = 0 /\ gap # "bit_value"
       /\ ToIdle(0) /\ UNCHANGED s_bits /\ KeepKey
    \/ /\ \/ s_state \in {"leader_low", "data"} /\ level = 0
          \/ s_state \in {"leader_high", "data_high"} /\ level = 1
       /\ Goto(s_state, level) /\ UNCHANGED s_bits /\ KeepKey

Awaited(edge) == polarity = IF edge = 0 THEN "falling" ELSE "rising"

\* The interrupt for an edge, level being what the pin reads by then.  If the poll
\* has read the clock but not yet s_last_time, the time it computes is negative,
\* that is, very long.
Irq(edge, level, gap, k) ==
    /\ Awaited(edge)
    /\ IF s_state = "idle" /\ level = 1
       THEN UNCHANGED <<decoder, silent, late>>
       ELSE /\ EdgeIn(level, gap, k)
            /\ silent' = FALSE
            /\ late' = (late \/ pc = "timeout")

(***************************************************************************)
(* The remote, noise and the clock.                                        *)
(***************************************************************************)
\* A key is pressed: a frame of its own.  Held: a repeat frame.
Press(k) ==
    /\ sending = Quiet /\ frames > 0
    /\ sending' = [kind |-> "frame", key |-> k, edge |-> 0]
    /\ frames' = frames - 1
    /\ sent' = [sent EXCEPT ![k] = @ + 1]
    /\ heard' = FALSE
    /\ UNCHANGED <<decoder, poller, time, noise, silent, done>>

Hold ==
    /\ sending = Quiet /\ frames > 0 /\ frames < MaxFrames
    /\ sending' = [kind |-> "repeat", key |-> NoKey, edge |-> 0]
    /\ frames' = frames - 1
    /\ heard' = FALSE
    /\ UNCHANGED <<decoder, poller, time, noise, sent, silent, done>>

NextLevel == sending.edge % 2
NextGap   == LET g == FrameEdges(sending.kind)[sending.edge + 1]
             IN  IF sending.edge = 0 THEN g ELSE IF heard THEN g ELSE "odd"

Advance ==
    sending' = IF sending.edge + 1 = Len(FrameEdges(sending.kind)) THEN Quiet
               ELSE [sending EXCEPT !.edge = @ + 1]

\* The next edge of the frame, which interrupts if it is the one waited for.
EdgeHeard ==
    /\ sending # Quiet
    /\ Irq(NextLevel, NextLevel, NextGap, sending.key)
    /\ Advance
    /\ heard' = TRUE
    /\ UNCHANGED <<pc, cmd, repeat, s_last_cmd, s_last_key_time, time,
                   frames, noise, sent, done>>

EdgeMissed ==
    /\ sending # Quiet
    /\ ~Awaited(NextLevel)
    /\ Advance
    /\ heard' = FALSE
    /\ UNCHANGED <<decoder, poller, time, frames, noise, sent, silent, done>>

\* Another edge.  A short pulse may be over when the interrupt reads the pin.
Noise ==
    /\ noise > 0 /\ noise' = noise - 1
    /\ heard' = FALSE
    /\ \E edge, level \in {0, 1} : Irq(edge, level, "odd", NoKey)
    /\ UNCHANGED <<pc, cmd, repeat, s_last_cmd, s_last_key_time, time,
                   sending, frames, sent, done>>

\* NEC_TIMEOUT_US pass without an interrupt.
Silence ==
    /\ ~silent
    /\ sending = Quiet \/ ~heard
    /\ silent' = TRUE
    /\ UNCHANGED <<decoder, poller, time, air, done>>

\* ir_recv_poll itself is over within a tick; the rest of the loop may take some.
Tick ==
    /\ pc = "task"
    /\ s_ready => lag < MaxLag
    /\ clock' = (clock + 1) % TickMod
    /\ lag' = IF s_ready THEN lag + 1 ELSE lag
    /\ UNCHANGED <<decoder, poller, air, silent, done>>

(***************************************************************************)
(* ir_recv_poll, in the main loop.                                         *)
(***************************************************************************)
\* The clock is read, and compared with s_last_time a moment later.
PollState ==
    /\ pc = "task"
    /\ IF s_state # "idle" THEN pc' = "timeout" /\ late' = silent
       ELSE pc' = "ready" /\ UNCHANGED late
    /\ UNCHANGED <<decoder, cmd, repeat, s_last_cmd, s_last_key_time,
                   time, air, silent, done>>

PollTimeout ==
    /\ pc = "timeout"
    /\ pc' = IF late THEN "reset" ELSE "ready"
    /\ late' = FALSE
    /\ UNCHANGED <<decoder, cmd, repeat, s_last_cmd, s_last_key_time,
                   time, air, silent, done>>

\* ir_reset_to_idle, where an edge may come between its two assignments.
ResetState ==
    /\ pc = "reset"
    /\ s_state' = "idle"
    /\ pc' = "polarity"
    /\ UNCHANGED <<s_bits, polarity, s_cmd, s_repeat, s_ready, late, cmd, repeat,
                   s_last_cmd, s_last_key_time, time, air, silent, done>>

ResetPolarity ==
    /\ pc = "polarity"
    /\ polarity' = "falling"
    /\ pc' = "ready"
    /\ UNCHANGED <<s_state, s_bits, s_cmd, s_repeat, s_ready, late, cmd, repeat,
                   s_last_cmd, s_last_key_time, time, air, silent, done>>

\* ir_recv_init, when the stack is up.  No frame is over before its last line.
InitRecv ==
    /\ pc = "task"
    /\ s_state' = "idle" /\ s_ready' = FALSE /\ s_cmd' = NoKey
    /\ silent' = FALSE /\ lag' = 0
    /\ pc' = "polarity"
    /\ UNCHANGED <<s_bits, polarity, s_repeat, late, cmd, repeat,
                   s_last_cmd, s_last_key_time, clock, air, done>>

PollReady ==
    /\ pc = "ready"
    /\ s_ready' = FALSE
    /\ lag' = 0
    /\ pc' = IF s_ready THEN "arguments" ELSE "task"
    /\ UNCHANGED <<s_state, s_bits, polarity, s_cmd, s_repeat, late, cmd, repeat,
                   s_last_cmd, s_last_key_time, clock, air, silent, done>>

\* The arguments are read one by one, in either order.
ReadFirst ==
    /\ pc = "arguments"
    /\ \/ cmd' = s_cmd /\ ofRepeat' = s_repeat /\ pc' = "repeat" /\ UNCHANGED repeat
       \/ repeat' = s_repeat /\ pc' = "cmd" /\ UNCHANGED <<cmd, ofRepeat>>
    /\ UNCHANGED <<decoder, late, s_last_cmd, s_last_key_time, time, air, silent,
                   acted, mixed>>

ReadSecond ==
    /\ \/ pc = "cmd" /\ cmd' = s_cmd /\ UNCHANGED repeat
       \/ pc = "repeat" /\ repeat' = s_repeat /\ UNCHANGED cmd
    /\ pc' = "on_cmd"
    /\ UNCHANGED <<decoder, late, s_last_cmd, s_last_key_time, time, air, silent, done>>

(***************************************************************************)
(* ir_recv_on_cmd.                                                         *)
(***************************************************************************)
\* Mutated form: the same key may act again at once.
LimitDiff(k) == IF k \in UpDown THEN UPDN ELSE IF k = s_last_cmd THEN 0 ELSE DIFF

Limit(k) == IF k \in UpDown THEN UPDN ELSE IF k = s_last_cmd THEN SAME ELSE DIFF

Debounced(k) == (clock - s_last_key_time) % TickMod < Limit(k)

Accepted == IF repeat THEN cmd \in UpDown ELSE ~Debounced(cmd)

\* NoKey is an unknown key: it does nothing but to be remembered.  The arguments are
\* gone when the call returns.
OnCmd ==
    /\ pc = "on_cmd"
    /\ pc' = "task"
    /\ IF Accepted /\ ~repeat
       THEN s_last_cmd' = cmd /\ s_last_key_time' = clock
       ELSE UNCHANGED <<s_last_cmd, s_last_key_time>>
    /\ acted' = IF Accepted /\ cmd # NoKey THEN [acted EXCEPT ![cmd] = @ + 1] ELSE acted
    /\ mixed' = IF Accepted /\ ~repeat /\ ofRepeat /\ cmd # NoKey THEN mixed + 1 ELSE mixed
    /\ cmd' = NoKey /\ repeat' = FALSE /\ ofRepeat' = FALSE
    /\ UNCHANGED <<decoder, late, time, air, silent>>

-----------------------------------------------------------------------------
MainLoop ==
    \/ PollState \/ PollTimeout \/ ResetState \/ ResetPolarity \/ InitRecv
    \/ PollReady \/ ReadFirst \/ ReadSecond \/ OnCmd

Next ==
    \/ \E k \in Keys : Press(k)
    \/ Hold \/ EdgeHeard \/ EdgeMissed \/ Noise \/ Silence \/ Tick
    \/ MainLoop

Spec == Init /\ [][Next]_vars

-----------------------------------------------------------------------------
(***************************************************************************)
(* Properties.                                                             *)
(***************************************************************************)
\* A decoder at rest waits for the signal to fall, wherever the main loop's
\* reset and the interrupt's met: ir_recv_poll only wakes a decoder that is not at
\* rest, so one at rest that waited for the other edge would be deaf for good.
NeverDeaf == s_state = "idle" /\ pc # "polarity" => polarity = "falling"

\* A key that toggles acts no more often than it was pressed, even if the next frame
\* comes between the lines of ir_recv_poll that take the key; but for a held one whose
\* s_repeat is cleared by that frame after its s_cmd was read, which acts as if pressed.
TogglesOnce == \A k \in Toggles : acted[k] <= sent[k] + mixed
=============================================================================
