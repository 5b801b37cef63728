------------------------------ MODULE PwmLevel ------------------------------
(***************************************************************************)
(* The five-channel PWM dimmer (apps/pwm5ch).  Every endpoint has ZCL      *)
(* attributes in RAM and a copy of them in NV, and two transition timers:  *)
(* Move (level_move_cb) and MoveToLevel (level_move2lv_cb).  Applying an   *)
(* endpoint computes the target duty of one channel, or of all of them for *)
(* the master; one fade timer (pwm_fade_cb) walks the outputs there.  ZCL  *)
(* commands, the IR remote, the timers and power cycles interleave; each   *)
(* handler runs to completion, as the main loop never preempts one.        *)
(*                                                                         *)
(* A scheduled timer is a count `running` kept apart from the handle `tmr` *)
(* that the code tests, so that a timer whose handle is lost would show.   *)
(* When timers fire is left open: periods and their rounding are not       *)
(* modelled (EvTimer models the clock).                                    *)
(***************************************************************************)
EXTENDS Integers

CONSTANTS Channels,        \* the endpoints with an output, indices 0..4
          MASTER,          \* the master endpoint, index 5
          MAX_LEVEL,       \* 254
          MAX_TICK,        \* PWM_MAX_TICK
          FADE_STEP_TICK,  \* duty change of one fade step
          IR_STEP,         \* level change of one IR key: 254 * 5 / 100
          IR_MIN,          \* lowest level the IR keys reach: 13
          OnLevels,        \* values written to the OnLevel attribute
          StepSizes,       \* step sizes of the ZCL Step command
          MaxCmds,         \* bound: commands received
          MaxPowerCycles   \* bound: power cycles

ASSUME PwmAssumption ==
    /\ MASTER \notin Channels
    /\ MAX_LEVEL \in Nat \ {0} /\ MAX_TICK \in Nat \ {0}
    /\ FADE_STEP_TICK \in Nat \ {0} /\ IR_STEP \in Nat
    /\ IR_MIN \in 1..MAX_LEVEL
    /\ OnLevels \subseteq 0..(MAX_LEVEL + 1)
    /\ StepSizes \subseteq Nat
    /\ MaxCmds \in Nat /\ MaxPowerCycles \in Nat

VARIABLES g_pwmChAttrs,   \* attributes in RAM, by endpoint
          nv,             \* the record saved for each endpoint, or NoRecord
          s_moveCtx,      \* Move timers, by endpoint
          s_m2lvCtx,      \* MoveToLevel timers, by endpoint
          s_target_tick,  \* duty wanted, by channel
          s_cur_tick,     \* duty in the PWM registers, by channel
          s_fade,         \* the fade timer
          budget          \* commands and power cycles left

vars == <<g_pwmChAttrs, nv, s_moveCtx, s_m2lvCtx, s_target_tick, s_cur_tick,
          s_fade, budget>>

transitions == <<s_moveCtx, s_m2lvCtx>>

Endpoints == Channels \cup {MASTER}

PREV == MAX_LEVEL + 1     \* 0xFF: keep the present level, or the previous one

Levels == 0..MAX_LEVEL

Attrs == [onOff : BOOLEAN, currentLevel : Levels, onLevel : 0..PREV,
          startUpOnOff : {0, 1, 255}, startUpLevel : 1..PREV]

NoRecord == [found |-> FALSE]

Default == [onOff |-> FALSE, currentLevel |-> MAX_LEVEL, onLevel |-> PREV,
            startUpOnOff |-> 255, startUpLevel |-> PREV]

MoveIdle == [tmr |-> FALSE, running |-> 0, moveUp |-> FALSE, withOnOff |-> FALSE]
M2lvIdle == [tmr |-> FALSE, running |-> 0, targetLevel |-> 0, withOnOff |-> FALSE]
FadeIdle == [tmr |-> FALSE, running |-> 0]

Lesser(a, b) == IF a < b THEN a ELSE b
Greater(a, b) == IF a > b THEN a ELSE b

-----------------------------------------------------------------------------
(* Timers: TL_ZB_TIMER_SCHEDULE into a handle, TL_ZB_TIMER_CANCEL of it,   *)
(* and a callback that clears its handle and returns -1.                   *)

Scheduled(ctx) == [ctx EXCEPT !.tmr = TRUE, !.running = @ + 1]

Released(ctx) == [ctx EXCEPT !.tmr = FALSE, !.running = @ - 1]

\* Mutated form: the handle is cleared, the timer keeps running.
CancelledForgotten(ctx) == [ctx EXCEPT !.tmr = FALSE]

(* level_move_stop and the head of level_move2lv test the handle.          *)
Cancelled(ctx) == IF ctx.tmr THEN Released(ctx) ELSE ctx

Kicked(ctx) == IF ctx.tmr THEN ctx ELSE Scheduled(ctx)

-----------------------------------------------------------------------------
(* pwm_hw_apply: the duty wanted from attributes a.                        *)

Ticks(lv) == (lv * MAX_TICK + MAX_LEVEL \div 2) \div MAX_LEVEL

Own(a, c) == IF a[c].onOff THEN Ticks(a[c].currentLevel) ELSE 0

Scaled(a, c) ==
    IF a[MASTER].onOff /\ a[c].onOff
    THEN Ticks((a[c].currentLevel * a[MASTER].currentLevel) \div MAX_LEVEL)
    ELSE 0

Applied(target, a, i) ==
    IF i = MASTER THEN [c \in Channels |-> Scaled(a, c)]
                  ELSE [target EXCEPT ![i] = Own(a, i)]

pwm_hw_apply(i) ==
    /\ s_target_tick' = Applied(s_target_tick, g_pwmChAttrs', i)
    /\ s_fade' = Kicked(s_fade)

Unapplied == UNCHANGED <<s_target_tick, s_fade>>

pwm_attrs_save(i) == nv' = [nv EXCEPT ![i] = [found |-> TRUE, attrs |-> g_pwmChAttrs'[i]]]

-----------------------------------------------------------------------------
(* pwm_attrs_init and the loop of user_app_init over the endpoints, master *)
(* last.                                                                   *)

Restored(rec) ==
    IF ~rec.found THEN Default
    ELSE LET saved == rec.attrs IN
         [saved EXCEPT
            !.onOff = CASE saved.startUpOnOff = 0 -> FALSE
                        [] saved.startUpOnOff = 1 -> TRUE
                        [] saved.startUpOnOff = 2 -> ~saved.onOff
                        [] OTHER -> saved.onOff,
            !.currentLevel = IF saved.startUpLevel = PREV THEN @
                             ELSE saved.startUpLevel]

BootTargets(a) == Applied([c \in Channels |-> Own(a, c)], a, MASTER)

Init ==
    /\ nv = [i \in Endpoints |-> NoRecord]
    /\ g_pwmChAttrs = [i \in Endpoints |-> Default]
    /\ s_moveCtx = [i \in Endpoints |-> MoveIdle]
    /\ s_m2lvCtx = [i \in Endpoints |-> M2lvIdle]
    /\ s_target_tick = BootTargets(g_pwmChAttrs)
    /\ s_cur_tick = [c \in Channels |-> 0]
    /\ s_fade = Kicked(FadeIdle)
    /\ budget = [cmds |-> MaxCmds, cycles |-> MaxPowerCycles]

(* A power cycle or SYSTEM_RESET: RAM and timers are gone, NV stays.       *)
PowerCycle ==
    /\ budget.cycles > 0
    /\ budget' = [budget EXCEPT !.cycles = @ - 1]
    /\ g_pwmChAttrs' = [i \in Endpoints |-> Restored(nv[i])]
    /\ s_moveCtx' = [i \in Endpoints |-> MoveIdle]
    /\ s_m2lvCtx' = [i \in Endpoints |-> M2lvIdle]
    /\ s_target_tick' = BootTargets(g_pwmChAttrs')
    /\ s_cur_tick' = [c \in Channels |-> 0]
    /\ s_fade' = Kicked(FadeIdle)
    /\ UNCHANGED nv

-----------------------------------------------------------------------------
(* Timer callbacks.                                                        *)

\* Mutated form: the timer ends when the first output arrives.
pwm_fade_cbFirst ==
    /\ s_fade.running > 0
    /\ s_cur_tick' =
         [c \in Channels |->
            IF s_cur_tick[c] < s_target_tick[c]
            THEN Lesser(s_cur_tick[c] + FADE_STEP_TICK, s_target_tick[c])
            ELSE Greater(s_cur_tick[c] - FADE_STEP_TICK, s_target_tick[c])]
    /\ s_fade' = IF \E c \in Channels : s_cur_tick[c] = s_target_tick[c]
                 THEN Released(s_fade) ELSE s_fade
    /\ UNCHANGED <<g_pwmChAttrs, nv, transitions, s_target_tick, budget>>

pwm_fade_cb ==
    LET active == {c \in Channels : s_cur_tick[c] # s_target_tick[c]} IN
    /\ s_fade.running > 0
    /\ s_cur_tick' =
         [c \in Channels |->
            IF s_cur_tick[c] < s_target_tick[c]
            THEN Lesser(s_cur_tick[c] + FADE_STEP_TICK, s_target_tick[c])
            ELSE Greater(s_cur_tick[c] - FADE_STEP_TICK, s_target_tick[c])]
    /\ s_fade' = IF active = {} THEN Released(s_fade) ELSE s_fade
    /\ UNCHANGED <<g_pwmChAttrs, nv, transitions, s_target_tick, budget>>

MoveNext(i) ==
    LET lv == g_pwmChAttrs[i].currentLevel IN
    IF s_moveCtx[i].moveUp THEN Lesser(lv + 1, MAX_LEVEL)
    ELSE IF lv > 1 THEN lv - 1 ELSE lv

\* Mutated form: a Move looks for the level after the last one.
MoveAtEndPast(i) ==
    IF s_moveCtx[i].moveUp THEN MoveNext(i) > MAX_LEVEL ELSE MoveNext(i) < 1

MoveAtEnd(i) ==
    IF s_moveCtx[i].moveUp THEN MoveNext(i) >= MAX_LEVEL ELSE MoveNext(i) <= 1

MoveTurnsOff(i) == MoveAtEnd(i) /\ s_moveCtx[i].withOnOff /\ ~s_moveCtx[i].moveUp

\* Mutated form: turning off at the lowest level is not applied.
MoveAppliesSteps(i) == MoveNext(i) # g_pwmChAttrs[i].currentLevel

MoveApplies(i) == MoveNext(i) # g_pwmChAttrs[i].currentLevel \/ MoveTurnsOff(i)

level_move_cb(i) ==
    LET stepped == MoveNext(i) # g_pwmChAttrs[i].currentLevel IN
    /\ s_moveCtx[i].running > 0
    /\ g_pwmChAttrs' = [g_pwmChAttrs EXCEPT
                          ![i].currentLevel = MoveNext(i),
                          ![i].onOff = ~MoveTurnsOff(i)
                                       /\ (@ \/ (stepped /\ s_moveCtx[i].withOnOff))]
    /\ IF MoveApplies(i) THEN pwm_hw_apply(i) ELSE Unapplied
    /\ IF MoveAtEnd(i)
       THEN pwm_attrs_save(i) /\ s_moveCtx' = [s_moveCtx EXCEPT ![i] = Released(@)]
       ELSE UNCHANGED <<nv, s_moveCtx>>
    /\ UNCHANGED <<s_m2lvCtx, s_cur_tick, budget>>

level_move2lv_cb(i) ==
    LET ctx  == s_m2lvCtx[i]
        lv   == g_pwmChAttrs[i].currentLevel
        next == CASE lv < ctx.targetLevel -> lv + 1
                  [] lv > ctx.targetLevel -> lv - 1
                  [] OTHER -> lv
    IN
    /\ ctx.running > 0
    /\ g_pwmChAttrs' = [g_pwmChAttrs EXCEPT
                          ![i].currentLevel = next,
                          ![i].onOff = IF ctx.withOnOff THEN next > 0 ELSE @]
    /\ pwm_hw_apply(i)
    /\ IF next = ctx.targetLevel
       THEN pwm_attrs_save(i) /\ s_m2lvCtx' = [s_m2lvCtx EXCEPT ![i] = Released(@)]
       ELSE UNCHANGED <<nv, s_m2lvCtx>>
    /\ UNCHANGED <<s_moveCtx, s_cur_tick, budget>>

-----------------------------------------------------------------------------
(* ZCL commands.                                                           *)

Command ==
    /\ budget.cmds > 0
    /\ budget' = [budget EXCEPT !.cmds = @ - 1]

(* pwm_onOffCb: off, on and toggle; turning on takes OnLevel if it is set. *)
pwm_onOffCb(i, on) ==
    /\ Command
    /\ g_pwmChAttrs' = [g_pwmChAttrs EXCEPT
                          ![i].onOff = on,
                          ![i].currentLevel = IF on /\ g_pwmChAttrs[i].onLevel # PREV
                                              THEN g_pwmChAttrs[i].onLevel ELSE @]
    /\ pwm_hw_apply(i)
    /\ pwm_attrs_save(i)
    /\ UNCHANGED <<transitions, s_cur_tick>>

OnOff(i) == \E on \in BOOLEAN : pwm_onOffCb(i, on)

Toggle(i) == pwm_onOffCb(i, ~g_pwmChAttrs[i].onOff)

(* level_move2lv: cancel the present transition, then start one, unless    *)
(* the level is already there.                                             *)
level_move2lv(i, target, withOnOff) ==
    LET there == target = g_pwmChAttrs[i].currentLevel
        old   == Cancelled(s_m2lvCtx[i])
    IN
    /\ Command
    /\ g_pwmChAttrs' = [g_pwmChAttrs EXCEPT ![i].onOff = IF withOnOff THEN target > 0 ELSE @]
    /\ IF withOnOff THEN pwm_hw_apply(i) ELSE Unapplied
    /\ IF there /\ withOnOff THEN pwm_attrs_save(i) ELSE UNCHANGED nv
    /\ s_m2lvCtx' = [s_m2lvCtx EXCEPT ![i] =
                       IF there THEN old
                       ELSE [Scheduled(old) EXCEPT !.targetLevel = target,
                                                   !.withOnOff = withOnOff]]
    /\ UNCHANGED <<s_moveCtx, s_cur_tick>>

MoveToLevel(i) ==
    \E lv \in 1..MAX_LEVEL, withOnOff \in BOOLEAN : level_move2lv(i, lv, withOnOff)

\* Mutated form: a step up is not held at the highest level.
SteppedUnheld(lv, up, size) == IF up THEN lv + size ELSE Greater(lv - size, 1)

Stepped(lv, up, size) ==
    IF up THEN Lesser(lv + size, MAX_LEVEL) ELSE Greater(lv - size, 1)

Step(i) ==
    \E up, withOnOff \in BOOLEAN, size \in StepSizes :
        level_move2lv(i, Stepped(g_pwmChAttrs[i].currentLevel, up, size), withOnOff)

(* level_move_stop, called by Stop and at the head of level_move_start,    *)
(* saves the level reached.                                                *)
StopSaves(i) ==
    nv' = IF s_moveCtx[i].tmr
          THEN [nv EXCEPT ![i] = [found |-> TRUE, attrs |-> g_pwmChAttrs[i]]]
          ELSE nv

Stop(i) ==
    /\ Command
    /\ StopSaves(i)
    /\ s_moveCtx' = [s_moveCtx EXCEPT ![i] = Cancelled(@)]
    /\ Unapplied
    /\ UNCHANGED <<g_pwmChAttrs, s_m2lvCtx, s_cur_tick>>

level_move_start(i, moveUp, withOnOff) ==
    /\ Command
    /\ StopSaves(i)
    /\ s_moveCtx' = [s_moveCtx EXCEPT ![i] =
                       [Scheduled(Cancelled(@)) EXCEPT !.moveUp = moveUp,
                                                       !.withOnOff = withOnOff]]
    /\ IF withOnOff /\ moveUp
       THEN /\ g_pwmChAttrs' = [g_pwmChAttrs EXCEPT ![i].onOff = TRUE]
            /\ pwm_hw_apply(i)
       ELSE UNCHANGED g_pwmChAttrs /\ Unapplied
    /\ UNCHANGED <<s_m2lvCtx, s_cur_tick>>

Move(i) == \E moveUp, withOnOff \in BOOLEAN : level_move_start(i, moveUp, withOnOff)

(* OnLevel is the one attribute of the model a ZCL Write reaches; the      *)
(* application does nothing on a write.                                    *)
WriteOnLevel(i) ==
    /\ Command
    /\ \E lv \in OnLevels :
          /\ lv # g_pwmChAttrs[i].onLevel
          /\ g_pwmChAttrs' = [g_pwmChAttrs EXCEPT ![i].onLevel = lv]
    /\ Unapplied
    /\ UNCHANGED <<nv, transitions, s_cur_tick>>

-----------------------------------------------------------------------------
(* IR remote keys; a key also fixes what the endpoint starts up with.      *)

IrSwitched(a, on) == [a EXCEPT !.onOff = on, !.startUpOnOff = IF on THEN 1 ELSE 0]

IrToggle(i) ==
    /\ Command
    /\ g_pwmChAttrs' = [g_pwmChAttrs EXCEPT ![i] = IrSwitched(@, ~@.onOff)]
    /\ pwm_hw_apply(i)
    /\ pwm_attrs_save(i)
    /\ UNCHANGED <<transitions, s_cur_tick>>

(* ALL ON and ALL OFF: every endpoint in turn, the master last.            *)
IrAll ==
    /\ Command
    /\ \E on \in BOOLEAN :
          g_pwmChAttrs' = [i \in Endpoints |-> IrSwitched(g_pwmChAttrs[i], on)]
    /\ s_target_tick' = BootTargets(g_pwmChAttrs')
    /\ s_fade' = Kicked(s_fade)
    /\ nv' = [i \in Endpoints |-> [found |-> TRUE, attrs |-> g_pwmChAttrs'[i]]]
    /\ UNCHANGED <<transitions, s_cur_tick>>

(* ir_ch_adjust, and ir_master_adjust for the master.                      *)
IrAdjust(i) ==
    /\ Command
    /\ \E delta \in {IR_STEP, -IR_STEP} :
          LET cur == Lesser(Greater(g_pwmChAttrs[i].currentLevel + delta, IR_MIN), MAX_LEVEL) IN
          g_pwmChAttrs' = [g_pwmChAttrs EXCEPT ![i].currentLevel = cur,
                                               ![i].startUpLevel = cur,
                                               ![i].onOff = TRUE]
    /\ pwm_hw_apply(i)
    /\ pwm_attrs_save(i)
    /\ UNCHANGED <<transitions, s_cur_tick>>

-----------------------------------------------------------------------------
Next ==
    \/ PowerCycle
    \/ pwm_fade_cb
    \/ IrAll
    \/ \E i \in Endpoints :
         \/ level_move_cb(i)
         \/ level_move2lv_cb(i)
         \/ OnOff(i) \/ Toggle(i)
         \/ MoveToLevel(i) \/ Step(i) \/ Move(i) \/ Stop(i)
         \/ WriteOnLevel(i)
         \/ IrToggle(i) \/ IrAdjust(i)

Spec == Init /\ [][Next]_vars

(* A scheduled timer is served: Serviced of EvTimer, with fewer timers     *)
(* here (two per endpoint and the fade) than the pool has slots.           *)
Fairness ==
    /\ WF_vars(pwm_fade_cb)
    /\ \A i \in Endpoints : WF_vars(level_move_cb(i)) /\ WF_vars(level_move2lv_cb(i))

FairSpec == Spec /\ Fairness

-----------------------------------------------------------------------------
(* Properties.                                                             *)

(* Every level the handlers compute, clamp or step stays within 0..254.    *)
TypeOK ==
    /\ g_pwmChAttrs \in [Endpoints -> Attrs]
    /\ nv \in [Endpoints -> {NoRecord} \cup [found : {TRUE}, attrs : Attrs]]
    /\ s_moveCtx \in [Endpoints -> [tmr : BOOLEAN, running : Nat,
                                     moveUp : BOOLEAN, withOnOff : BOOLEAN]]
    /\ s_m2lvCtx \in [Endpoints -> [tmr : BOOLEAN, running : Nat,
                                     targetLevel : Levels, withOnOff : BOOLEAN]]
    /\ s_fade \in [tmr : BOOLEAN, running : Nat]
    /\ s_target_tick \in [Channels -> 0..MAX_TICK]
    /\ s_cur_tick \in [Channels -> 0..MAX_TICK]
    /\ budget \in [cmds : 0..MaxCmds, cycles : 0..MaxPowerCycles]

(* A timer runs exactly when its handle says so: no command, callback or   *)
(* cancel leaves a timer nobody can cancel, or a handle without a timer.   *)
NoOrphanTimer ==
    \A ctx \in {s_fade} \cup {s_moveCtx[i] : i \in Endpoints}
                        \cup {s_m2lvCtx[i] : i \in Endpoints} :
        ctx.running = IF ctx.tmr THEN 1 ELSE 0

(* The fade timer never stops short of the duty that was asked for, even   *)
(* when a handler changes the target between two of its steps.             *)
FadeArmed == s_cur_tick # s_target_tick => s_fade.running > 0

(* What an output is driven to follows the attributes as they are now: the *)
(* channel's own level, or that level scaled by the master.  No handler    *)
(* changes an attribute of a channel and leaves its output behind.         *)
TargetFollows ==
    \A c \in Channels :
        s_target_tick[c] \in {Own(g_pwmChAttrs, c), Scaled(g_pwmChAttrs, c)}

Resting(i) == ~s_moveCtx[i].tmr /\ ~s_m2lvCtx[i].tmr

(* Once commands stop, the device comes to rest with every output at its   *)
(* target, unless a Move and a MoveToLevel of one endpoint keep undoing    *)
(* each other's steps.                                                     *)
Quiesces ==
    <>[]( \/ \E i \in Endpoints : s_moveCtx[i].tmr /\ s_m2lvCtx[i].tmr
          \/ /\ \A i \in Endpoints : Resting(i)
             /\ s_cur_tick = s_target_tick )

(* A power cycle of a device at rest brings back the on/off state it had:  *)
(* "NV 저장으로 전원 복구 시 상태 복원" (pwm5ch_monitor.c:9).               *)
OnOffRestored ==
    [][ PowerCycle => \A i \in Endpoints :
            Resting(i) => g_pwmChAttrs'[i].onOff = g_pwmChAttrs[i].onOff ]_vars

(* A level at rest is the level in NV, so that a power cycle restores it   *)
(* (the same line).                                                        *)
LevelSaved ==
    \A i \in Endpoints :
        Resting(i) => Restored(nv[i]).currentLevel = g_pwmChAttrs[i].currentLevel
=============================================================================
