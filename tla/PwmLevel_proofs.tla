--------------------------- MODULE PwmLevel_proofs ---------------------------
(***************************************************************************)
(* Proofs about PwmLevel, for every set of channels and every scale of     *)
(* levels and duties: the handlers keep attributes and duties in range, no *)
(* transition or fade timer is orphaned, the fade is armed while an output *)
(* has to move, and every output follows the attributes as they are.       *)
(***************************************************************************)
EXTENDS PwmLevel, TLAPS

MoveCtx == [tmr : BOOLEAN, running : Nat, moveUp : BOOLEAN, withOnOff : BOOLEAN]
M2lvCtx == [tmr : BOOLEAN, running : Nat, targetLevel : Levels, withOnOff : BOOLEAN]
FadeCtx == [tmr : BOOLEAN, running : Nat]

\* The handle of ctx is set exactly when its timer runs.
Synced(ctx) == ctx.running = IF ctx.tmr THEN 1 ELSE 0

Records == {NoRecord} \cup [found : {TRUE}, attrs : Attrs]

AttrsOK == g_pwmChAttrs \in [Endpoints -> Attrs]
NvOK    == nv \in [Endpoints -> Records]
MoveOK  == s_moveCtx \in [Endpoints -> MoveCtx] /\ \A i \in Endpoints : Synced(s_moveCtx[i])
M2lvOK  == s_m2lvCtx \in [Endpoints -> M2lvCtx] /\ \A i \in Endpoints : Synced(s_m2lvCtx[i])

\* What pwm_hw_apply and pwm_fade_cb keep.
OutputOK ==
    /\ s_fade \in FadeCtx
    /\ Synced(s_fade)
    /\ s_target_tick \in [Channels -> 0..MAX_TICK]
    /\ s_cur_tick \in [Channels -> 0..MAX_TICK]
    /\ FadeArmed
    /\ TargetFollows

BudgetOK == budget \in [cmds : 0..MaxCmds, cycles : 0..MaxPowerCycles]

\* The inductive invariant.
IInv == AttrsOK /\ NvOK /\ MoveOK /\ M2lvOK /\ OutputOK /\ BudgetOK

-----------------------------------------------------------------------------
(***************************************************************************)
(* Lemmas on the helpers.                                                  *)
(***************************************************************************)
\* A product of naturals grows with each of its factors.
LEMMA ProductGrows ==
    ASSUME NEW a \in Nat, NEW b \in Nat, NEW c \in Nat, a <= b
    PROVE  a * c <= b * c /\ a * c \in Nat /\ b * c \in Nat
<1>1. PICK d \in Nat : b = a + d
    <2>1. b - a \in Nat /\ b = a + (b - a)
        OBVIOUS
    <2> QED
        BY <2>1
<1>2. b * c = a * c + d * c
    BY <1>1
<1>3. a * c \in Nat /\ d * c \in Nat
    BY <1>1
<1> QED
    BY <1>2, <1>3

\* A quotient is bounded when its dividend is less than a multiple.
LEMMA QuotientBound ==
    ASSUME NEW n \in Nat, NEW m \in Nat \ {0}, NEW k \in Nat, n < (k + 1) * m
    PROVE  n \div m \in 0..k
<1> DEFINE q == n \div m
<1>1. q \in Nat /\ q * m <= n
    OBVIOUS
<1>2. CASE q >= k + 1
    <2>1. (k + 1) * m <= q * m
        BY <1>1, <1>2, ProductGrows
    <2> HIDE DEF q
    <2> QED
        BY <1>1, <2>1
<1> HIDE DEF q
<1>3. q \in 0..k
    BY <1>1, <1>2
<1> QED
    BY <1>3 DEF q

\* A level's duty is within 0..MAX_TICK (lv_to_tick).
LEMMA TicksRange ==
    ASSUME NEW lv \in Levels
    PROVE  Ticks(lv) \in 0..MAX_TICK
<1>1. lv \in Nat /\ MAX_LEVEL \in Nat \ {0} /\ MAX_TICK \in Nat /\ lv <= MAX_LEVEL
    BY PwmAssumption DEF Levels
<1>2. lv * MAX_TICK <= MAX_LEVEL * MAX_TICK /\ lv * MAX_TICK \in Nat
    BY <1>1, ProductGrows
<1>3. MAX_LEVEL \div 2 \in Nat /\ MAX_LEVEL \div 2 < MAX_LEVEL
    BY <1>1
<1>4. (MAX_TICK + 1) * MAX_LEVEL = MAX_LEVEL * MAX_TICK + MAX_LEVEL
    BY <1>1
<1> DEFINE num == lv * MAX_TICK + MAX_LEVEL \div 2
<1>5. num \in Nat /\ num < (MAX_TICK + 1) * MAX_LEVEL
    <2>1. MAX_LEVEL * MAX_TICK \in Nat
        BY <1>1
    <2> QED
        BY <1>1, <1>2, <1>3, <1>4, <2>1
<1> HIDE DEF num
<1>6. num \div MAX_LEVEL \in 0..MAX_TICK
    BY <1>1, <1>5, QuotientBound
<1> QED
    BY <1>6 DEF Ticks, num

\* The master scales a level to a level.
LEMMA ScaledLevel ==
    ASSUME NEW a \in Levels, NEW b \in Levels
    PROVE  (a * b) \div MAX_LEVEL \in Levels
<1>1. a \in Nat /\ b \in Nat /\ MAX_LEVEL \in Nat \ {0} /\ a <= MAX_LEVEL /\ b <= MAX_LEVEL
    BY PwmAssumption DEF Levels
<1>2. a * b <= MAX_LEVEL * b /\ a * b \in Nat /\ b * MAX_LEVEL <= MAX_LEVEL * MAX_LEVEL
    BY <1>1, ProductGrows
<1>3. (MAX_LEVEL + 1) * MAX_LEVEL = MAX_LEVEL * MAX_LEVEL + MAX_LEVEL
    BY <1>1
<1>4. a * b < (MAX_LEVEL + 1) * MAX_LEVEL
    <2>1. MAX_LEVEL * b = b * MAX_LEVEL /\ MAX_LEVEL * b \in Nat /\ MAX_LEVEL * MAX_LEVEL \in Nat
        BY <1>1
    <2> QED
        BY <1>1, <1>2, <1>3, <2>1
<1> QED
    BY <1>1, <1>2, <1>4, QuotientBound DEF Levels

\* pwm_hw_apply computes duties in range.
LEMMA DutyRange ==
    ASSUME NEW a \in [Endpoints -> Attrs], NEW c \in Channels
    PROVE  Own(a, c) \in 0..MAX_TICK /\ Scaled(a, c) \in 0..MAX_TICK
<1>1. a[c].currentLevel \in Levels /\ a[MASTER].currentLevel \in Levels
    BY DEF Endpoints, Attrs
<1>2. 0 \in 0..MAX_TICK
    BY PwmAssumption
<1>3. Own(a, c) \in 0..MAX_TICK
    BY <1>1, <1>2, TicksRange DEF Own
<1>4. (a[c].currentLevel * a[MASTER].currentLevel) \div MAX_LEVEL \in Levels
    BY <1>1, ScaledLevel
<1>5. Scaled(a, c) \in 0..MAX_TICK
    BY <1>2, <1>4, TicksRange DEF Scaled
<1> QED
    BY <1>3, <1>5

\* user_app_init leaves every output scaled by the master, applied last.
LEMMA BootScaled ==
    ASSUME NEW a \in [Endpoints -> Attrs]
    PROVE  /\ BootTargets(a) \in [Channels -> 0..MAX_TICK]
           /\ \A c \in Channels : BootTargets(a)[c] = Scaled(a, c)
<1>1. BootTargets(a) = [c \in Channels |-> Scaled(a, c)]
    BY DEF BootTargets, Applied
<1> QED
    BY <1>1, DutyRange

-----------------------------------------------------------------------------
(***************************************************************************)
(* Lemmas on the timers.                                                   *)
(***************************************************************************)
\* TL_ZB_TIMER_SCHEDULE, TL_ZB_TIMER_CANCEL and a callback's end keep a Move
\* timer and its handle together.
LEMMA MoveTimer ==
    ASSUME NEW ctx \in MoveCtx, Synced(ctx)
    PROVE  /\ Cancelled(ctx) \in MoveCtx /\ Synced(Cancelled(ctx))
           /\ \A u, w \in BOOLEAN :
                LET new == [Scheduled(Cancelled(ctx)) EXCEPT !.moveUp = u, !.withOnOff = w]
                IN  new \in MoveCtx /\ Synced(new)
           /\ ctx.running > 0 => Released(ctx) \in MoveCtx /\ Synced(Released(ctx))
<1>1. Cancelled(ctx) = [tmr |-> FALSE, running |-> 0, moveUp |-> ctx.moveUp,
                        withOnOff |-> ctx.withOnOff]
    <2>1. CASE ctx.tmr
        <3>1. ctx.running = 1
            BY <2>1 DEF Synced
        <3>2. ctx.running - 1 = 0
            BY <3>1
        <3>3. Cancelled(ctx) = [ctx EXCEPT !.tmr = FALSE, !.running = 0]
            BY <2>1, <3>2, Zenon DEF Cancelled, Released
        <3> QED
            BY <3>3 DEF MoveCtx
    <2>2. CASE ~ctx.tmr
        <3>1. ctx.running = 0 /\ ctx.tmr = FALSE
            BY <2>2 DEF MoveCtx, Synced
        <3> QED
            BY <2>2, <3>1 DEF MoveCtx, Cancelled
    <2> QED
        BY <2>1, <2>2
<1>2. Cancelled(ctx) \in MoveCtx /\ Synced(Cancelled(ctx))
    BY <1>1 DEF MoveCtx, Synced
<1>3. ASSUME NEW u \in BOOLEAN, NEW w \in BOOLEAN
      PROVE  LET new == [Scheduled(Cancelled(ctx)) EXCEPT !.moveUp = u, !.withOnOff = w]
             IN  new \in MoveCtx /\ Synced(new)
    <2> DEFINE idle == [tmr |-> FALSE, running |-> 0, moveUp |-> ctx.moveUp,
                        withOnOff |-> ctx.withOnOff]
    <2>1. idle.running + 1 = 1
        OBVIOUS
    <2> DEFINE sch == Scheduled(Cancelled(ctx))
    <2>2. sch = [idle EXCEPT !.tmr = TRUE, !.running = 1]
        BY <1>1, <2>1, Zenon DEF Scheduled
    <2> HIDE DEF sch
    <2>3. sch \in MoveCtx /\ sch.running = 1 /\ sch.tmr
        <3>1. idle \in MoveCtx
            BY DEF MoveCtx
        <3> HIDE DEF idle
        <3> QED
            BY <2>2, <3>1 DEF MoveCtx
    <2> DEFINE new == [sch EXCEPT !.moveUp = u, !.withOnOff = w]
    <2>4. new \in MoveCtx
        BY <2>3 DEF MoveCtx
    <2>5. new.running = 1 /\ new.tmr
        BY <2>3 DEF MoveCtx
    <2>6. Synced(new)
        BY <2>5 DEF Synced
    <2> QED
        BY <2>4, <2>6 DEF sch
<1>4. ctx.running > 0 => Released(ctx) = Cancelled(ctx)
    BY DEF MoveCtx, Synced, Cancelled
<1> QED
    BY <1>2, <1>3, <1>4

\* The same of a MoveToLevel timer.
LEMMA M2lvTimer ==
    ASSUME NEW ctx \in M2lvCtx, Synced(ctx)
    PROVE  /\ Cancelled(ctx) \in M2lvCtx /\ Synced(Cancelled(ctx))
           /\ \A lv \in Levels, w \in BOOLEAN :
                LET new == [Scheduled(Cancelled(ctx)) EXCEPT !.targetLevel = lv,
                                                             !.withOnOff = w]
                IN  new \in M2lvCtx /\ Synced(new)
           /\ ctx.running > 0 => Released(ctx) \in M2lvCtx /\ Synced(Released(ctx))
<1>1. Cancelled(ctx) = [tmr |-> FALSE, running |-> 0, targetLevel |-> ctx.targetLevel,
                        withOnOff |-> ctx.withOnOff]
    <2>1. CASE ctx.tmr
        <3>1. ctx.running = 1
            BY <2>1 DEF Synced
        <3>2. ctx.running - 1 = 0
            BY <3>1
        <3>3. Cancelled(ctx) = [ctx EXCEPT !.tmr = FALSE, !.running = 0]
            BY <2>1, <3>2, Zenon DEF Cancelled, Released
        <3> QED
            BY <3>3 DEF M2lvCtx
    <2>2. CASE ~ctx.tmr
        <3>1. ctx.running = 0 /\ ctx.tmr = FALSE
            BY <2>2 DEF M2lvCtx, Synced
        <3> QED
            BY <2>2, <3>1 DEF M2lvCtx, Cancelled
    <2> QED
        BY <2>1, <2>2
<1>2. Cancelled(ctx) \in M2lvCtx /\ Synced(Cancelled(ctx))
    BY <1>1 DEF M2lvCtx, Synced
<1>3. ASSUME NEW lv \in Levels, NEW w \in BOOLEAN
      PROVE  LET new == [Scheduled(Cancelled(ctx)) EXCEPT !.targetLevel = lv,
                                                          !.withOnOff = w]
             IN  new \in M2lvCtx /\ Synced(new)
    <2> DEFINE idle == [tmr |-> FALSE, running |-> 0, targetLevel |-> ctx.targetLevel,
                        withOnOff |-> ctx.withOnOff]
    <2>1. idle.running + 1 = 1
        OBVIOUS
    <2> DEFINE sch == Scheduled(Cancelled(ctx))
    <2>2. sch = [idle EXCEPT !.tmr = TRUE, !.running = 1]
        BY <1>1, <2>1, Zenon DEF Scheduled
    <2> HIDE DEF sch
    <2>3. sch \in M2lvCtx /\ sch.running = 1 /\ sch.tmr
        <3>1. idle \in M2lvCtx
            BY DEF M2lvCtx
        <3> HIDE DEF idle
        <3> QED
            BY <2>2, <3>1 DEF M2lvCtx
    <2> DEFINE new == [sch EXCEPT !.targetLevel = lv, !.withOnOff = w]
    <2>4. new \in M2lvCtx
        BY <2>3 DEF M2lvCtx
    <2>5. new.running = 1 /\ new.tmr
        BY <2>3 DEF M2lvCtx
    <2>6. Synced(new)
        BY <2>5 DEF Synced
    <2> QED
        BY <2>4, <2>6 DEF sch
<1>4. ctx.running > 0 => Released(ctx) = Cancelled(ctx)
    BY DEF M2lvCtx, Synced, Cancelled
<1> QED
    BY <1>2, <1>3, <1>4

\* The same of the fade timer, which pwm_hw_apply leaves running.
LEMMA FadeTimer ==
    ASSUME NEW ctx \in FadeCtx, Synced(ctx)
    PROVE  /\ Kicked(ctx) \in FadeCtx /\ Synced(Kicked(ctx)) /\ Kicked(ctx).running > 0
           /\ ctx.running > 0 => Released(ctx) \in FadeCtx /\ Synced(Released(ctx))
<1>1. CASE ctx.tmr
    <2>1. ctx.running = 1
        BY <1>1 DEF Synced
    <2>2. ctx.running - 1 = 0
        BY <2>1
    <2>3. Released(ctx) = [ctx EXCEPT !.tmr = FALSE, !.running = 0]
        BY <2>2, Zenon DEF Released
    <2>4. Released(ctx) = [tmr |-> FALSE, running |-> 0]
        BY <2>3 DEF FadeCtx
    <2>5. Released(ctx) \in FadeCtx /\ Synced(Released(ctx))
        BY <2>4 DEF FadeCtx, Synced
    <2>6. Kicked(ctx) = ctx
        BY <1>1 DEF Kicked
    <2> QED
        BY <2>1, <2>5, <2>6
<1>2. CASE ~ctx.tmr
    <2>1. ctx.running = 0 /\ ctx.tmr = FALSE
        BY <1>2 DEF FadeCtx, Synced
    <2>2. ctx.running + 1 = 1
        BY <2>1
    <2>3. Kicked(ctx) = [ctx EXCEPT !.tmr = TRUE, !.running = 1]
        BY <1>2, <2>2, Zenon DEF Kicked, Scheduled
    <2>4. Kicked(ctx) = [tmr |-> TRUE, running |-> 1]
        BY <2>3 DEF FadeCtx
    <2> QED
        BY <2>1, <2>4 DEF FadeCtx, Synced
<1> QED
    BY <1>1, <1>2

\* The timers after a reset.
LEMMA IdleTimers ==
    /\ MoveIdle \in MoveCtx /\ Synced(MoveIdle)
    /\ M2lvIdle \in M2lvCtx /\ Synced(M2lvIdle)
    /\ FadeIdle \in FadeCtx /\ Synced(FadeIdle)
    BY PwmAssumption DEF MoveIdle, M2lvIdle, FadeIdle, MoveCtx, M2lvCtx, FadeCtx, Synced, Levels

-----------------------------------------------------------------------------
(***************************************************************************)
(* Lemmas on the parts of the handlers.                                    *)
(***************************************************************************)
\* After pwm_hw_apply(i) the outputs follow the attributes, when the handler
\* changed no other endpoint's.
LEMMA AppliedOutput ==
    ASSUME AttrsOK, AttrsOK', OutputOK, NEW i \in Endpoints,
           \A j \in Endpoints \ {i} : g_pwmChAttrs'[j] = g_pwmChAttrs[j],
           pwm_hw_apply(i), UNCHANGED s_cur_tick
    PROVE  OutputOK'
<1>1. s_target_tick' = Applied(s_target_tick, g_pwmChAttrs', i) /\ s_fade' = Kicked(s_fade)
    BY DEF pwm_hw_apply
<1>2. s_fade' \in FadeCtx /\ Synced(s_fade)' /\ s_fade'.running > 0
    BY <1>1, FadeTimer DEF OutputOK, Synced
<1>3. CASE i = MASTER
    <2>1. s_target_tick' = [c \in Channels |-> Scaled(g_pwmChAttrs', c)]
        BY <1>1, <1>3 DEF Applied
    <2>2. s_target_tick' \in [Channels -> 0..MAX_TICK]
        BY <2>1, DutyRange DEF AttrsOK
    <2>3. TargetFollows'
        BY <2>1 DEF TargetFollows
    <2> QED
        BY <1>2, <2>2, <2>3 DEF OutputOK, FadeArmed
<1>4. CASE i # MASTER
    <2>1. i \in Channels
        BY <1>4 DEF Endpoints
    <2>2. s_target_tick' = [s_target_tick EXCEPT ![i] = Own(g_pwmChAttrs', i)]
        BY <1>1, <1>4 DEF Applied
    <2>3. Own(g_pwmChAttrs', i) \in 0..MAX_TICK
        BY <2>1, DutyRange DEF AttrsOK
    <2>4. s_target_tick' \in [Channels -> 0..MAX_TICK]
        BY <2>1, <2>2, <2>3 DEF OutputOK
    <2>5. ASSUME NEW c \in Channels
          PROVE  s_target_tick'[c] \in {Own(g_pwmChAttrs', c), Scaled(g_pwmChAttrs', c)}
        <3>1. CASE c = i
            BY <2>1, <2>2, <3>1 DEF OutputOK
        <3>2. CASE c # i
            <4>1. s_target_tick'[c] = s_target_tick[c]
                BY <2>2, <3>2 DEF OutputOK
            <4>2. g_pwmChAttrs'[c] = g_pwmChAttrs[c] /\ g_pwmChAttrs'[MASTER] = g_pwmChAttrs[MASTER]
                BY <1>4, <3>2 DEF Endpoints
            <4>3. Own(g_pwmChAttrs', c) = Own(g_pwmChAttrs, c)
                  /\ Scaled(g_pwmChAttrs', c) = Scaled(g_pwmChAttrs, c)
                BY <4>2 DEF Own, Scaled
            <4> QED
                BY <4>1, <4>3 DEF OutputOK, TargetFollows
        <3> QED
            BY <3>1, <3>2
    <2>6. TargetFollows'
        BY <2>5 DEF TargetFollows
    <2> QED
        BY <1>2, <2>4, <2>6 DEF OutputOK, FadeArmed
<1> QED
    BY <1>3, <1>4

\* A handler that leaves the outputs alone keeps what the duties are computed
\* from.
LEMMA UnappliedOutput ==
    ASSUME OutputOK, Unapplied, UNCHANGED s_cur_tick,
           \A j \in Endpoints :
               /\ g_pwmChAttrs'[j].onOff = g_pwmChAttrs[j].onOff
               /\ g_pwmChAttrs'[j].currentLevel = g_pwmChAttrs[j].currentLevel
    PROVE  OutputOK'
<1>1. s_target_tick' = s_target_tick /\ s_fade' = s_fade
    BY DEF Unapplied
<1>2. ASSUME NEW c \in Channels
      PROVE  Own(g_pwmChAttrs', c) = Own(g_pwmChAttrs, c)
             /\ Scaled(g_pwmChAttrs', c) = Scaled(g_pwmChAttrs, c)
    <2>1. c \in Endpoints /\ MASTER \in Endpoints
        BY DEF Endpoints
    <2> QED
        BY <2>1 DEF Own, Scaled
<1>3. TargetFollows'
    BY <1>1, <1>2 DEF OutputOK, TargetFollows
<1> QED
    BY <1>1, <1>3 DEF OutputOK, FadeArmed, Synced

\* pwm_attrs_save stores a well-formed record.
LEMMA SavedNv ==
    ASSUME AttrsOK', NvOK, NEW i \in Endpoints, pwm_attrs_save(i)
    PROVE  NvOK'
<1>1. [found |-> TRUE, attrs |-> g_pwmChAttrs'[i]] \in Records
    BY DEF AttrsOK, Records
<1> QED
    BY <1>1 DEF NvOK, pwm_attrs_save

\* A command received spends the budget of commands.
LEMMA CommandBudget ==
    ASSUME BudgetOK, Command
    PROVE  BudgetOK'
<1>1. budget.cmds - 1 \in 0..MaxCmds
    BY PwmAssumption DEF BudgetOK, Command
<1>2. budget' = [cmds |-> budget.cmds - 1, cycles |-> budget.cycles]
    BY DEF BudgetOK, Command
<1> QED
    BY <1>1, <1>2 DEF BudgetOK

\* Attributes stay well formed when single ones are set in range.
LEMMA SetAttrs ==
    ASSUME NEW a \in Attrs, NEW on \in BOOLEAN, NEW lv \in Levels
    PROVE  /\ [a EXCEPT !.onOff = on, !.currentLevel = lv] \in Attrs
           /\ [a EXCEPT !.currentLevel = lv, !.onOff = on] \in Attrs
    BY DEF Attrs

\* The same when only the switch is set.
LEMMA SwitchAttrs ==
    ASSUME NEW a \in Attrs, NEW on \in BOOLEAN
    PROVE  [a EXCEPT !.onOff = on] \in Attrs /\ IrSwitched(a, on) \in Attrs
    BY DEF Attrs, IrSwitched

\* pwm_attrs_init makes well-formed attributes of any record.
LEMMA RestoredAttrs ==
    ASSUME NEW rec \in Records
    PROVE  Restored(rec) \in Attrs
<1>1. CASE rec = NoRecord
    <2>1. Default \in Attrs
        BY PwmAssumption DEF Default, Attrs, Levels, PREV
    <2> QED
        BY <1>1, <2>1 DEF Restored, NoRecord
<1>2. CASE rec \in [found : {TRUE}, attrs : Attrs]
    <2>1. rec.attrs \in Attrs /\ rec.found
        BY <1>2
    <2> DEFINE a  == rec.attrs
               on == CASE a.startUpOnOff = 0 -> FALSE
                       [] a.startUpOnOff = 1 -> TRUE
                       [] a.startUpOnOff = 2 -> ~a.onOff
                       [] OTHER -> a.onOff
               lv == IF a.startUpLevel = PREV THEN a.currentLevel ELSE a.startUpLevel
    <2>2. on \in BOOLEAN
        BY <2>1 DEF Attrs
    <2>3. lv \in Levels
        BY <2>1, PwmAssumption DEF Attrs, Levels, PREV
    <2>4. Restored(rec) = [a EXCEPT !.onOff = on, !.currentLevel = lv]
        BY <2>1 DEF Restored
    <2> HIDE DEF on, lv, a
    <2>5. a \in Attrs
        BY <2>1 DEF a
    <2>6. [a EXCEPT !.onOff = on, !.currentLevel = lv] \in Attrs
        BY <2>2, <2>3, <2>5, SetAttrs, Zenon
    <2> QED
        BY <2>4, <2>6, Zenon
<1> QED
    BY <1>1, <1>2 DEF Records

\* Boot and power cycle: the outputs are at rest at 0 and the fade starts.
LEMMA BootOutput ==
    ASSUME AttrsOK', s_target_tick' = BootTargets(g_pwmChAttrs'),
           s_cur_tick' = [c \in Channels |-> 0], s_fade' = Kicked(FadeIdle)
    PROVE  OutputOK'
<1>1. s_fade' \in FadeCtx /\ Synced(s_fade)' /\ s_fade'.running > 0
    BY IdleTimers, FadeTimer DEF Synced
<1>2. s_target_tick' \in [Channels -> 0..MAX_TICK] /\ TargetFollows'
    BY BootScaled DEF AttrsOK, TargetFollows
<1>3. s_cur_tick' \in [Channels -> 0..MAX_TICK]
    BY PwmAssumption
<1> QED
    BY <1>1, <1>2, <1>3 DEF OutputOK, FadeArmed

-----------------------------------------------------------------------------
(***************************************************************************)
(* Every action keeps the inductive invariant.                             *)
(***************************************************************************)
\* The device starts with the default attributes.
LEMMA InitInv == Init => IInv
<1> SUFFICES ASSUME Init PROVE IInv
    OBVIOUS
<1>1. AttrsOK
    BY PwmAssumption DEF Init, AttrsOK, Default, Attrs, Levels, PREV
<1>2. NvOK
    BY DEF Init, NvOK, Records
<1>3. MoveOK /\ M2lvOK
    BY IdleTimers DEF Init, MoveOK, M2lvOK
<1>4. s_fade \in FadeCtx /\ Synced(s_fade) /\ s_fade.running > 0
    BY IdleTimers, FadeTimer DEF Init
<1>5. s_target_tick \in [Channels -> 0..MAX_TICK] /\ TargetFollows
    BY <1>1, BootScaled DEF AttrsOK, TargetFollows, Init
<1>6. s_cur_tick \in [Channels -> 0..MAX_TICK]
    BY PwmAssumption DEF Init
<1>7. BudgetOK
    BY PwmAssumption DEF Init, BudgetOK
<1> QED
    BY <1>1, <1>2, <1>3, <1>4, <1>5, <1>6, <1>7 DEF IInv, OutputOK, FadeArmed

\* RAM and timers are gone, NV stays.
LEMMA PowerCycleInv == IInv /\ PowerCycle => IInv'
<1> SUFFICES ASSUME IInv, PowerCycle PROVE IInv'
    OBVIOUS
<1>1. AttrsOK'
    BY RestoredAttrs DEF PowerCycle, IInv, NvOK, AttrsOK
<1>2. NvOK'
    BY DEF PowerCycle, IInv, NvOK
<1>3. MoveOK' /\ M2lvOK'
    BY IdleTimers DEF PowerCycle, MoveOK, M2lvOK, Synced
<1>4. OutputOK'
    BY <1>1, BootOutput DEF PowerCycle
<1>5. BudgetOK'
    <2>1. budget.cycles - 1 \in 0..MaxPowerCycles
        BY PwmAssumption DEF IInv, BudgetOK, PowerCycle
    <2>2. budget' = [cmds |-> budget.cmds, cycles |-> budget.cycles - 1]
        BY DEF IInv, BudgetOK, PowerCycle
    <2> QED
        BY <2>1, <2>2 DEF IInv, BudgetOK
<1> QED
    BY <1>1, <1>2, <1>3, <1>4, <1>5 DEF IInv

\* The fade steps every output, and ends only when all have arrived.
LEMMA FadeInv == IInv /\ pwm_fade_cb => IInv'
<1> SUFFICES ASSUME IInv, pwm_fade_cb PROVE IInv'
    OBVIOUS
<1>1. AttrsOK' /\ NvOK' /\ MoveOK' /\ M2lvOK' /\ BudgetOK'
    BY DEF IInv, pwm_fade_cb, AttrsOK, NvOK, MoveOK, M2lvOK, BudgetOK, transitions, Synced
<1> DEFINE active == {c \in Channels : s_cur_tick[c] # s_target_tick[c]}
<1>2. s_fade' = IF active = {} THEN Released(s_fade) ELSE s_fade
    BY DEF pwm_fade_cb
<1>3. s_fade' \in FadeCtx /\ Synced(s_fade)'
    <2>1. s_fade \in FadeCtx /\ Synced(s_fade) /\ s_fade.running > 0
        BY DEF IInv, OutputOK, pwm_fade_cb
    <2>2. Released(s_fade) \in FadeCtx /\ Synced(Released(s_fade))
        BY <2>1, FadeTimer
    <2>3. CASE active = {}
        BY <1>2, <2>2, <2>3 DEF Synced
    <2>4. CASE active # {}
        BY <1>2, <2>1, <2>4 DEF Synced
    <2> QED
        BY <2>3, <2>4
<1>4. s_target_tick' = s_target_tick /\ s_target_tick \in [Channels -> 0..MAX_TICK]
      /\ s_cur_tick \in [Channels -> 0..MAX_TICK] /\ g_pwmChAttrs' = g_pwmChAttrs
    BY DEF IInv, OutputOK, pwm_fade_cb
<1>5. s_cur_tick' =
         [c \in Channels |->
            IF s_cur_tick[c] < s_target_tick[c]
            THEN Lesser(s_cur_tick[c] + FADE_STEP_TICK, s_target_tick[c])
            ELSE Greater(s_cur_tick[c] - FADE_STEP_TICK, s_target_tick[c])]
    BY DEF pwm_fade_cb
<1>6. ASSUME NEW c \in Channels
      PROVE  /\ s_cur_tick'[c] \in 0..MAX_TICK
             /\ s_cur_tick[c] = s_target_tick[c] => s_cur_tick'[c] = s_target_tick'[c]
    <2>1. s_cur_tick[c] \in 0..MAX_TICK /\ s_target_tick[c] \in 0..MAX_TICK
        BY <1>4
    <2> QED
        BY <1>4, <1>5, <2>1, PwmAssumption DEF Lesser, Greater
<1>7. s_cur_tick' \in [Channels -> 0..MAX_TICK]
    BY <1>5, <1>6
<1>8. FadeArmed'
    <2>1. CASE active = {}
        <3>1. \A c \in Channels : s_cur_tick'[c] = s_target_tick'[c]
            BY <1>6, <2>1
        <3>2. s_cur_tick' = s_target_tick'
            BY <1>4, <1>7, <3>1
        <3> QED
            BY <3>2 DEF FadeArmed
    <2>2. CASE active # {}
        <3>1. s_fade'.running > 0
            BY <1>2, <2>2 DEF pwm_fade_cb
        <3> QED
            BY <3>1 DEF FadeArmed
    <2> QED
        BY <2>1, <2>2
<1>9. TargetFollows'
    BY <1>4 DEF IInv, OutputOK, TargetFollows
<1> QED
    BY <1>1, <1>3, <1>4, <1>7, <1>8, <1>9 DEF IInv, OutputOK

\* A handler writes one endpoint's attributes.
LEMMA SetEndpoint ==
    ASSUME AttrsOK, NEW i \in Endpoints, NEW a \in Attrs,
           g_pwmChAttrs' = [g_pwmChAttrs EXCEPT ![i] = a]
    PROVE  /\ AttrsOK'
           /\ g_pwmChAttrs'[i] = a
           /\ \A j \in Endpoints \ {i} : g_pwmChAttrs'[j] = g_pwmChAttrs[j]
    BY DEF AttrsOK

\* A command that writes one endpoint, applies and saves it, and leaves the
\* transitions alone: on/off, toggle, and the IR keys of one endpoint.
LEMMA AppliedAndSaved ==
    ASSUME IInv, NEW i \in Endpoints, NEW a \in Attrs,
           g_pwmChAttrs' = [g_pwmChAttrs EXCEPT ![i] = a],
           Command, pwm_hw_apply(i), pwm_attrs_save(i),
           UNCHANGED <<transitions, s_cur_tick>>
    PROVE  IInv'
<1>1. AttrsOK' /\ \A j \in Endpoints \ {i} : g_pwmChAttrs'[j] = g_pwmChAttrs[j]
    BY SetEndpoint DEF IInv
<1>2. OutputOK'
    BY <1>1, AppliedOutput DEF IInv
<1>3. NvOK'
    BY <1>1, SavedNv DEF IInv
<1>4. MoveOK' /\ M2lvOK'
    BY DEF IInv, MoveOK, M2lvOK, Synced, transitions
<1>5. BudgetOK'
    BY CommandBudget DEF IInv
<1> QED
    BY <1>1, <1>2, <1>3, <1>4, <1>5 DEF IInv

\* off, on and toggle.
LEMMA OnOffInv ==
    ASSUME IInv, NEW i \in Endpoints, NEW on \in BOOLEAN, pwm_onOffCb(i, on)
    PROVE  IInv'
<1> DEFINE lv == IF on /\ g_pwmChAttrs[i].onLevel # PREV
                 THEN g_pwmChAttrs[i].onLevel ELSE g_pwmChAttrs[i].currentLevel
           a  == [g_pwmChAttrs[i] EXCEPT !.onOff = on, !.currentLevel = lv]
<1>1. g_pwmChAttrs[i] \in Attrs
    BY DEF IInv, AttrsOK
<1>2. lv \in Levels
    BY <1>1, PwmAssumption DEF Attrs, Levels, PREV
<1>3. a \in Attrs
    <2> HIDE DEF lv
    <2> QED
        BY <1>1, <1>2, SetAttrs
<1>4. g_pwmChAttrs' = [g_pwmChAttrs EXCEPT ![i] = a]
    BY DEF IInv, AttrsOK, pwm_onOffCb
<1> HIDE DEF a
<1> QED
    BY <1>3, <1>4, AppliedAndSaved DEF pwm_onOffCb

\* The IR key that toggles an endpoint.
LEMMA IrToggleInv ==
    ASSUME IInv, NEW i \in Endpoints, IrToggle(i)
    PROVE  IInv'
<1> DEFINE a == IrSwitched(g_pwmChAttrs[i], ~g_pwmChAttrs[i].onOff)
<1>1. g_pwmChAttrs[i] \in Attrs /\ (~g_pwmChAttrs[i].onOff) \in BOOLEAN
    BY DEF IInv, AttrsOK
<1>2. a \in Attrs
    BY <1>1, SwitchAttrs, Zenon
<1>3. g_pwmChAttrs' = [g_pwmChAttrs EXCEPT ![i] = a]
    BY DEF IrToggle
<1> HIDE DEF a
<1> QED
    BY <1>2, <1>3, AppliedAndSaved DEF IrToggle

\* The IR keys that dim an endpoint or the master.
LEMMA IrAdjustInv ==
    ASSUME IInv, NEW i \in Endpoints, IrAdjust(i)
    PROVE  IInv'
<1>1. PICK delta \in {IR_STEP, -IR_STEP} :
          LET cur == Lesser(Greater(g_pwmChAttrs[i].currentLevel + delta, IR_MIN), MAX_LEVEL)
          IN  g_pwmChAttrs' = [g_pwmChAttrs EXCEPT ![i].currentLevel = cur,
                                                   ![i].startUpLevel = cur,
                                                   ![i].onOff = TRUE]
    BY DEF IrAdjust
<1> DEFINE cur == Lesser(Greater(g_pwmChAttrs[i].currentLevel + delta, IR_MIN), MAX_LEVEL)
           a   == [g_pwmChAttrs[i] EXCEPT !.currentLevel = cur, !.startUpLevel = cur,
                                          !.onOff = TRUE]
<1>2. g_pwmChAttrs[i] \in Attrs
    BY DEF IInv, AttrsOK
<1>3. cur \in 1..MAX_LEVEL
    <2>1. g_pwmChAttrs[i].currentLevel + delta \in Int
        BY <1>2, PwmAssumption DEF Attrs, Levels
    <2> QED
        BY <2>1, PwmAssumption DEF Lesser, Greater
<1>4. a \in Attrs
    <2>1. cur \in Levels /\ cur \in 1..PREV
        BY <1>3, PwmAssumption DEF Levels, PREV
    <2> HIDE DEF cur
    <2> QED
        BY <1>2, <2>1 DEF Attrs
<1>5. g_pwmChAttrs' = [g_pwmChAttrs EXCEPT ![i] = a]
    BY <1>1 DEF IInv, AttrsOK
<1> HIDE DEF a
<1> QED
    BY <1>4, <1>5, AppliedAndSaved DEF IrAdjust

\* ALL ON and ALL OFF.
LEMMA IrAllInv == IInv /\ IrAll => IInv'
<1> SUFFICES ASSUME IInv, IrAll PROVE IInv'
    OBVIOUS
<1>1. PICK on \in BOOLEAN :
          g_pwmChAttrs' = [i \in Endpoints |-> IrSwitched(g_pwmChAttrs[i], on)]
    BY DEF IrAll
<1>2. AttrsOK'
    <2>1. \A i \in Endpoints : IrSwitched(g_pwmChAttrs[i], on) \in Attrs
        <3>1. \A i \in Endpoints : g_pwmChAttrs[i] \in Attrs
            BY DEF IInv, AttrsOK
        <3> QED
            BY <3>1, SwitchAttrs, Zenon
    <2> QED
        BY <1>1, <2>1 DEF AttrsOK
<1>3. NvOK'
    <2>1. \A i \in Endpoints : [found |-> TRUE, attrs |-> g_pwmChAttrs'[i]] \in Records
        BY <1>2 DEF AttrsOK, Records
    <2> QED
        BY <2>1 DEF NvOK, IrAll
<1>4. OutputOK'
    <2>1. s_fade' \in FadeCtx /\ Synced(s_fade)' /\ s_fade'.running > 0
        BY FadeTimer DEF IrAll, IInv, OutputOK, Synced
    <2>2. s_target_tick' \in [Channels -> 0..MAX_TICK] /\ TargetFollows'
        BY <1>2, BootScaled DEF AttrsOK, TargetFollows, IrAll
    <2> QED
        BY <2>1, <2>2 DEF OutputOK, FadeArmed, IrAll, IInv
<1>5. MoveOK' /\ M2lvOK'
    BY DEF IInv, MoveOK, M2lvOK, Synced, transitions, IrAll
<1>6. BudgetOK'
    BY CommandBudget DEF IInv, IrAll
<1> QED
    BY <1>2, <1>3, <1>4, <1>5, <1>6 DEF IInv

\* A Move timer's callback: a step, and at the end of the range the level is
\* saved and the timer ends.
LEMMA MoveCbInv ==
    ASSUME IInv, NEW i \in Endpoints, level_move_cb(i)
    PROVE  IInv'
<1> DEFINE lv == MoveNext(i)
           on == /\ ~MoveTurnsOff(i)
                 /\ \/ g_pwmChAttrs[i].onOff
                    \/ /\ MoveNext(i) # g_pwmChAttrs[i].currentLevel
                       /\ s_moveCtx[i].withOnOff
           a  == [g_pwmChAttrs[i] EXCEPT !.currentLevel = lv, !.onOff = on]
<1>1. g_pwmChAttrs[i] \in Attrs
    BY DEF IInv, AttrsOK
<1>2. lv \in Levels
    BY <1>1, PwmAssumption DEF Attrs, Levels, MoveNext, Lesser
<1>3. on \in BOOLEAN
    OBVIOUS
<1>4. a \in Attrs
    <2> HIDE DEF lv, on
    <2> QED
        BY <1>1, <1>2, <1>3, SetAttrs
<1>5. g_pwmChAttrs' = [g_pwmChAttrs EXCEPT ![i] = a]
    BY DEF IInv, AttrsOK, level_move_cb
<1>6. AttrsOK' /\ g_pwmChAttrs'[i] = a
      /\ \A j \in Endpoints \ {i} : g_pwmChAttrs'[j] = g_pwmChAttrs[j]
    <2> HIDE DEF a
    <2> QED
        BY <1>4, <1>5, SetEndpoint DEF IInv
<1>7. OutputOK'
    <2>1. UNCHANGED s_cur_tick
        BY DEF level_move_cb
    <2>2. CASE MoveApplies(i)
        <3>1. pwm_hw_apply(i)
            BY <2>2 DEF level_move_cb
        <3> QED
            BY <1>6, <2>1, <3>1, AppliedOutput DEF IInv
    <2>3. CASE ~MoveApplies(i)
        <3>1. Unapplied
            BY <2>3 DEF level_move_cb
        <3>2. lv = g_pwmChAttrs[i].currentLevel /\ on = g_pwmChAttrs[i].onOff
            BY <1>1, <2>3 DEF MoveApplies, Attrs
        <3>3. a.onOff = g_pwmChAttrs[i].onOff /\ a.currentLevel = g_pwmChAttrs[i].currentLevel
            <4> HIDE DEF lv, on
            <4> QED
                BY <1>1, <3>2 DEF Attrs
        <3> HIDE DEF a
        <3>4. \A j \in Endpoints :
                 /\ g_pwmChAttrs'[j].onOff = g_pwmChAttrs[j].onOff
                 /\ g_pwmChAttrs'[j].currentLevel = g_pwmChAttrs[j].currentLevel
            BY <1>6, <3>3
        <3> QED
            BY <2>1, <3>1, <3>4, UnappliedOutput DEF IInv
    <2> QED
        BY <2>2, <2>3
<1>8. NvOK' /\ MoveOK'
    <2>1. CASE MoveAtEnd(i)
        <3>1. pwm_attrs_save(i) /\ s_moveCtx' = [s_moveCtx EXCEPT ![i] = Released(@)]
            BY <2>1 DEF level_move_cb
        <3>2. NvOK'
            BY <1>6, <3>1, SavedNv DEF IInv
        <3>3. Released(s_moveCtx[i]) \in MoveCtx /\ Synced(Released(s_moveCtx[i]))
            BY MoveTimer DEF IInv, MoveOK, level_move_cb
        <3>4. MoveOK'
            BY <3>1, <3>3 DEF IInv, MoveOK, Synced
        <3> QED
            BY <3>2, <3>4
    <2>2. CASE ~MoveAtEnd(i)
        BY <2>2 DEF level_move_cb, IInv, NvOK, MoveOK, Synced
    <2> QED
        BY <2>1, <2>2
<1>9. M2lvOK' /\ BudgetOK'
    BY DEF level_move_cb, IInv, M2lvOK, Synced, BudgetOK
<1> QED
    BY <1>6, <1>7, <1>8, <1>9 DEF IInv

\* A MoveToLevel timer's callback: a step, and at the target the level is saved
\* and the timer ends.
LEMMA M2lvCbInv ==
    ASSUME IInv, NEW i \in Endpoints, level_move2lv_cb(i)
    PROVE  IInv'
<1> DEFINE ctx == s_m2lvCtx[i]
           cur == g_pwmChAttrs[i].currentLevel
           lv  == CASE cur < ctx.targetLevel -> cur + 1
                    [] cur > ctx.targetLevel -> cur - 1
                    [] OTHER -> cur
           lit == lv > 0
           on  == IF ctx.withOnOff THEN lit ELSE g_pwmChAttrs[i].onOff
           a   == [g_pwmChAttrs[i] EXCEPT !.currentLevel = lv, !.onOff = on]
<1>1. g_pwmChAttrs[i] \in Attrs /\ ctx \in M2lvCtx /\ Synced(ctx) /\ ctx.running > 0
    BY DEF IInv, AttrsOK, M2lvOK, level_move2lv_cb
<1>2. lv \in Levels
    <2>1. cur \in Levels /\ ctx.targetLevel \in Levels
        BY <1>1 DEF Attrs, M2lvCtx
    <2> HIDE DEF cur, ctx
    <2> QED
        BY <2>1, PwmAssumption DEF Levels
<1>3. on \in BOOLEAN
    <2>1. (lv > 0) \in BOOLEAN /\ g_pwmChAttrs[i].onOff \in BOOLEAN
        BY <1>1 DEF Attrs
    <2> HIDE DEF lv, ctx
    <2> QED
        BY <2>1, Zenon
<1>4. a \in Attrs
    <2> HIDE DEF lv, on
    <2> QED
        BY <1>1, <1>2, <1>3, SetAttrs
<1>5. g_pwmChAttrs' = [g_pwmChAttrs EXCEPT ![i] = a]
    <2>1. g_pwmChAttrs' = [g_pwmChAttrs EXCEPT
                             ![i].currentLevel = lv,
                             ![i].onOff = IF ctx.withOnOff THEN lit ELSE @]
        BY DEF level_move2lv_cb
    <2> HIDE DEF lv, lit, ctx
    <2> QED
        BY <2>1 DEF IInv, AttrsOK
<1>6. AttrsOK' /\ \A j \in Endpoints \ {i} : g_pwmChAttrs'[j] = g_pwmChAttrs[j]
    <2> HIDE DEF a
    <2> QED
        BY <1>4, <1>5, SetEndpoint DEF IInv
<1>7. OutputOK'
    BY <1>6, AppliedOutput DEF IInv, level_move2lv_cb
<1>8. NvOK' /\ M2lvOK'
    <2>1. CASE lv = ctx.targetLevel
        <3>1. pwm_attrs_save(i) /\ s_m2lvCtx' = [s_m2lvCtx EXCEPT ![i] = Released(@)]
            BY <2>1 DEF level_move2lv_cb
        <3>2. NvOK'
            BY <1>6, <3>1, SavedNv DEF IInv
        <3>3. Released(ctx) \in M2lvCtx /\ Synced(Released(ctx))
            <4> HIDE DEF ctx
            <4> QED
                BY <1>1, M2lvTimer
        <3>4. M2lvOK'
            BY <3>1, <3>3 DEF IInv, M2lvOK, Synced
        <3> QED
            BY <3>2, <3>4
    <2>2. CASE lv # ctx.targetLevel
        <3>1. UNCHANGED <<nv, s_m2lvCtx>>
            BY <2>2 DEF level_move2lv_cb
        <3> QED
            BY <3>1 DEF IInv, NvOK, M2lvOK, Synced
    <2> QED
        BY <2>1, <2>2
<1>9. MoveOK' /\ BudgetOK'
    BY DEF level_move2lv_cb, IInv, MoveOK, Synced, BudgetOK
<1> QED
    BY <1>6, <1>7, <1>8, <1>9 DEF IInv

\* Move to Level and Step: the transition present is cancelled, and another
\* started unless the level is there.
LEMMA MoveToLevelInv ==
    ASSUME IInv, NEW i \in Endpoints, NEW target \in Levels, NEW withOnOff \in BOOLEAN,
           level_move2lv(i, target, withOnOff)
    PROVE  IInv'
<1> DEFINE lit == target > 0
           on  == IF withOnOff THEN lit ELSE g_pwmChAttrs[i].onOff
           a   == [g_pwmChAttrs[i] EXCEPT !.onOff = on]
           old == Cancelled(s_m2lvCtx[i])
           new == [Scheduled(old) EXCEPT !.targetLevel = target, !.withOnOff = withOnOff]
<1>1. g_pwmChAttrs[i] \in Attrs /\ s_m2lvCtx[i] \in M2lvCtx /\ Synced(s_m2lvCtx[i])
    BY DEF IInv, AttrsOK, M2lvOK
<1>2. on \in BOOLEAN
    <2>1. lit \in BOOLEAN /\ g_pwmChAttrs[i].onOff \in BOOLEAN
        BY <1>1 DEF Attrs
    <2> HIDE DEF lit
    <2> QED
        BY <2>1, Zenon
<1>3. a \in Attrs
    <2> HIDE DEF on
    <2> QED
        BY <1>1, <1>2, SwitchAttrs, Zenon
<1>4. g_pwmChAttrs' = [g_pwmChAttrs EXCEPT ![i] = a]
    <2>1. g_pwmChAttrs' = [g_pwmChAttrs EXCEPT ![i].onOff = IF withOnOff THEN lit ELSE @]
        BY DEF level_move2lv
    <2> HIDE DEF lit
    <2> QED
        BY <2>1 DEF IInv, AttrsOK
<1>5. AttrsOK' /\ g_pwmChAttrs'[i] = a
      /\ \A j \in Endpoints \ {i} : g_pwmChAttrs'[j] = g_pwmChAttrs[j]
    <2> HIDE DEF a
    <2> QED
        BY <1>3, <1>4, SetEndpoint DEF IInv
<1>6. OutputOK'
    <2>1. UNCHANGED s_cur_tick
        BY DEF level_move2lv
    <2>2. CASE withOnOff
        <3>1. pwm_hw_apply(i)
            BY <2>2 DEF level_move2lv
        <3> QED
            BY <1>5, <2>1, <3>1, AppliedOutput DEF IInv
    <2>3. CASE ~withOnOff
        <3>1. Unapplied
            BY <2>3 DEF level_move2lv
        <3>2. a.onOff = g_pwmChAttrs[i].onOff /\ a.currentLevel = g_pwmChAttrs[i].currentLevel
            BY <1>1, <2>3 DEF Attrs
        <3> HIDE DEF a
        <3>3. \A j \in Endpoints :
                 /\ g_pwmChAttrs'[j].onOff = g_pwmChAttrs[j].onOff
                 /\ g_pwmChAttrs'[j].currentLevel = g_pwmChAttrs[j].currentLevel
            BY <1>5, <3>2
        <3> QED
            BY <2>1, <3>1, <3>3, UnappliedOutput DEF IInv
    <2> QED
        BY <2>2, <2>3
<1>7. NvOK'
    <2>1. CASE pwm_attrs_save(i)
        BY <1>5, <2>1, SavedNv DEF IInv
    <2>2. CASE UNCHANGED nv
        BY <2>2 DEF IInv, NvOK
    <2> QED
        BY <2>1, <2>2 DEF level_move2lv
<1>8. M2lvOK'
    <2>1. old \in M2lvCtx /\ Synced(old) /\ new \in M2lvCtx /\ Synced(new)
        BY <1>1, M2lvTimer, Zenon
    <2>2. \/ s_m2lvCtx' = [s_m2lvCtx EXCEPT ![i] = old]
          \/ s_m2lvCtx' = [s_m2lvCtx EXCEPT ![i] = new]
        <3>1. CASE target = g_pwmChAttrs[i].currentLevel
            BY <3>1 DEF level_move2lv
        <3>2. CASE target # g_pwmChAttrs[i].currentLevel
            BY <3>2 DEF level_move2lv
        <3> QED
            BY <3>1, <3>2
    <2> HIDE DEF old, new
    <2> QED
        BY <2>1, <2>2 DEF IInv, M2lvOK, Synced
<1>9. MoveOK' /\ BudgetOK'
    BY CommandBudget DEF level_move2lv, IInv, MoveOK, Synced
<1> QED
    BY <1>5, <1>6, <1>7, <1>8, <1>9 DEF IInv

\* A step's target is a level.
LEMMA SteppedLevel ==
    ASSUME NEW lv \in Levels, NEW up \in BOOLEAN, NEW size \in StepSizes
    PROVE  Stepped(lv, up, size) \in Levels
    BY PwmAssumption DEF Levels, Stepped, Lesser, Greater

\* level_move_stop saves a well-formed record.
LEMMA StopSavesNv ==
    ASSUME AttrsOK, NvOK, NEW i \in Endpoints, StopSaves(i)
    PROVE  NvOK'
<1>1. [found |-> TRUE, attrs |-> g_pwmChAttrs[i]] \in Records
    BY DEF AttrsOK, Records
<1> QED
    BY <1>1 DEF NvOK, StopSaves

\* Stop.
LEMMA StopInv ==
    ASSUME IInv, NEW i \in Endpoints, Stop(i)
    PROVE  IInv'
<1>1. AttrsOK' /\ M2lvOK' /\ BudgetOK'
    BY CommandBudget DEF Stop, IInv, AttrsOK, M2lvOK, Synced
<1>2. NvOK'
    BY StopSavesNv DEF Stop, IInv
<1>3. Cancelled(s_moveCtx[i]) \in MoveCtx /\ Synced(Cancelled(s_moveCtx[i]))
    BY MoveTimer DEF IInv, MoveOK
<1>4. MoveOK'
    BY <1>3 DEF Stop, IInv, MoveOK, Synced
<1>5. OutputOK'
    BY UnappliedOutput DEF Stop, IInv
<1> QED
    BY <1>1, <1>2, <1>4, <1>5 DEF IInv

\* Move: the transition present is stopped and another started.
LEMMA MoveInv ==
    ASSUME IInv, NEW i \in Endpoints, NEW moveUp \in BOOLEAN, NEW withOnOff \in BOOLEAN,
           level_move_start(i, moveUp, withOnOff)
    PROVE  IInv'
<1> DEFINE a   == [g_pwmChAttrs[i] EXCEPT !.onOff = TRUE]
           new == [Scheduled(Cancelled(s_moveCtx[i])) EXCEPT !.moveUp = moveUp,
                                                             !.withOnOff = withOnOff]
<1>1. NvOK'
    BY StopSavesNv DEF level_move_start, IInv
<1>2. MoveOK'
    <2>1. s_moveCtx[i] \in MoveCtx /\ Synced(s_moveCtx[i])
        BY DEF IInv, MoveOK
    <2>2. new \in MoveCtx /\ Synced(new)
        BY <2>1, MoveTimer, Zenon
    <2>3. s_moveCtx' = [s_moveCtx EXCEPT ![i] = new]
        BY DEF level_move_start
    <2> HIDE DEF new
    <2> QED
        BY <2>2, <2>3 DEF IInv, MoveOK, Synced
<1>3. M2lvOK' /\ BudgetOK' /\ UNCHANGED s_cur_tick
    BY CommandBudget DEF level_move_start, IInv, M2lvOK, Synced
<1>4. AttrsOK' /\ OutputOK'
    <2>1. CASE withOnOff /\ moveUp
        <3>1. g_pwmChAttrs' = [g_pwmChAttrs EXCEPT ![i].onOff = TRUE] /\ pwm_hw_apply(i)
            BY <2>1 DEF level_move_start
        <3>2. g_pwmChAttrs' = [g_pwmChAttrs EXCEPT ![i] = a]
            BY <3>1 DEF IInv, AttrsOK
        <3>3. g_pwmChAttrs[i] \in Attrs
            BY DEF IInv, AttrsOK
        <3>4. a \in Attrs
            BY <3>3, SwitchAttrs
        <3> HIDE DEF a
        <3>5. AttrsOK' /\ \A j \in Endpoints \ {i} : g_pwmChAttrs'[j] = g_pwmChAttrs[j]
            BY <3>2, <3>4, SetEndpoint DEF IInv
        <3> QED
            BY <1>3, <3>1, <3>5, AppliedOutput DEF IInv
    <2>2. CASE ~(withOnOff /\ moveUp)
        <3>1. UNCHANGED g_pwmChAttrs /\ Unapplied
            BY <2>2 DEF level_move_start
        <3>2. AttrsOK'
            BY <3>1 DEF IInv, AttrsOK
        <3> QED
            BY <1>3, <3>1, <3>2, UnappliedOutput DEF IInv
    <2> QED
        BY <2>1, <2>2
<1> QED
    BY <1>1, <1>2, <1>3, <1>4 DEF IInv

\* A write of OnLevel, which no duty depends on.
LEMMA WriteOnLevelInv ==
    ASSUME IInv, NEW i \in Endpoints, WriteOnLevel(i)
    PROVE  IInv'
<1>1. PICK lv \in OnLevels : g_pwmChAttrs' = [g_pwmChAttrs EXCEPT ![i].onLevel = lv]
    BY DEF WriteOnLevel
<1> DEFINE a == [g_pwmChAttrs[i] EXCEPT !.onLevel = lv]
<1>2. g_pwmChAttrs[i] \in Attrs /\ lv \in 0..PREV
    BY PwmAssumption DEF IInv, AttrsOK, PREV
<1>3. a \in Attrs /\ a.onOff = g_pwmChAttrs[i].onOff
      /\ a.currentLevel = g_pwmChAttrs[i].currentLevel
    BY <1>2 DEF Attrs
<1>4. g_pwmChAttrs' = [g_pwmChAttrs EXCEPT ![i] = a]
    BY <1>1 DEF IInv, AttrsOK
<1> HIDE DEF a
<1>5. AttrsOK' /\ g_pwmChAttrs'[i] = a
      /\ \A j \in Endpoints \ {i} : g_pwmChAttrs'[j] = g_pwmChAttrs[j]
    BY <1>3, <1>4, SetEndpoint DEF IInv
<1>6. \A j \in Endpoints :
         /\ g_pwmChAttrs'[j].onOff = g_pwmChAttrs[j].onOff
         /\ g_pwmChAttrs'[j].currentLevel = g_pwmChAttrs[j].currentLevel
    BY <1>3, <1>5
<1>7. OutputOK'
    BY <1>6, UnappliedOutput DEF WriteOnLevel, IInv
<1>8. NvOK' /\ MoveOK' /\ M2lvOK' /\ BudgetOK'
    BY CommandBudget DEF WriteOnLevel, IInv, NvOK, MoveOK, M2lvOK, Synced, transitions
<1> QED
    BY <1>5, <1>7, <1>8 DEF IInv

\* A step of the device.
LEMMA NextInv == IInv /\ [Next]_vars => IInv'
<1> SUFFICES ASSUME IInv, [Next]_vars PROVE IInv'
    OBVIOUS
<1>1. CASE PowerCycle
    BY <1>1, PowerCycleInv
<1>2. CASE pwm_fade_cb
    BY <1>2, FadeInv
<1>3. CASE IrAll
    BY <1>3, IrAllInv
<1>4. ASSUME NEW i \in Endpoints,
             \/ level_move_cb(i) \/ level_move2lv_cb(i) \/ OnOff(i) \/ Toggle(i)
             \/ MoveToLevel(i) \/ Step(i) \/ Move(i) \/ Stop(i) \/ WriteOnLevel(i)
             \/ IrToggle(i) \/ IrAdjust(i)
      PROVE  IInv'
    <2>1. g_pwmChAttrs[i].onOff \in BOOLEAN /\ g_pwmChAttrs[i].currentLevel \in Levels
        BY DEF IInv, AttrsOK, Attrs
    <2>2. CASE level_move_cb(i)
        BY <2>2, MoveCbInv
    <2>3. CASE level_move2lv_cb(i)
        BY <2>3, M2lvCbInv
    <2>4. CASE OnOff(i)
        BY <2>4, OnOffInv DEF OnOff
    <2>5. CASE Toggle(i)
        <3>1. (~g_pwmChAttrs[i].onOff) \in BOOLEAN
            BY <2>1
        <3> QED
            BY <2>5, <3>1, OnOffInv DEF Toggle
    <2>6. CASE MoveToLevel(i)
        <3>1. 1..MAX_LEVEL \subseteq Levels
            BY PwmAssumption DEF Levels
        <3> QED
            BY <2>6, <3>1, MoveToLevelInv DEF MoveToLevel
    <2>7. CASE Step(i)
        <3>1. PICK up \in BOOLEAN, withOnOff \in BOOLEAN, size \in StepSizes :
                level_move2lv(i, Stepped(g_pwmChAttrs[i].currentLevel, up, size), withOnOff)
            BY <2>7 DEF Step
        <3>2. Stepped(g_pwmChAttrs[i].currentLevel, up, size) \in Levels
            BY <2>1, SteppedLevel
        <3> QED
            BY <3>1, <3>2, MoveToLevelInv
    <2>8. CASE Move(i)
        BY <2>8, MoveInv DEF Move
    <2>9. CASE Stop(i)
        BY <2>9, StopInv
    <2>10. CASE WriteOnLevel(i)
        BY <2>10, WriteOnLevelInv
    <2>11. CASE IrToggle(i)
        BY <2>11, IrToggleInv
    <2>12. CASE IrAdjust(i)
        BY <2>12, IrAdjustInv
    <2> QED
        BY <1>4, <2>2, <2>3, <2>4, <2>5, <2>6, <2>7, <2>8, <2>9, <2>10, <2>11, <2>12
<1>5. CASE UNCHANGED vars
    BY <1>5 DEF vars, IInv, AttrsOK, NvOK, MoveOK, M2lvOK, OutputOK, FadeArmed,
                TargetFollows, Synced, Own, Scaled, BudgetOK
<1> QED
    BY <1>1, <1>2, <1>3, <1>4, <1>5 DEF Next

-----------------------------------------------------------------------------
(***************************************************************************)
(* Theorems.                                                               *)
(***************************************************************************)
\* The device never leaves the inductive invariant.
THEOREM Invariant == Spec => []IInv
    BY InitInv, NextInv, PTL DEF Spec

\* Whatever commands, keys, callbacks and power cycles interleave, every level,
\* duty and timer count stays in range (the clamps of zcl_pwm5chCb.c and
\* pwm5ch_ctrl.c).
THEOREM TypeCorrect == Spec => []TypeOK
<1>1. IInv => TypeOK
    BY DEF IInv, TypeOK, AttrsOK, NvOK, MoveOK, M2lvOK, OutputOK, BudgetOK, Records,
           MoveCtx, M2lvCtx, FadeCtx
<1> QED
    BY <1>1, Invariant, PTL

\* No handler leaves a transition or fade timer running without its handle, nor
\* a handle without its timer (level_move_stop, level_move2lv, pwm_hw_apply).
THEOREM TimersSynced == Spec => []NoOrphanTimer
<1>1. IInv => NoOrphanTimer
    <2> SUFFICES ASSUME IInv,
                        NEW ctx \in {s_fade} \cup {s_moveCtx[i] : i \in Endpoints}
                                             \cup {s_m2lvCtx[i] : i \in Endpoints}
                 PROVE  Synced(ctx)
        BY DEF NoOrphanTimer, Synced
    <2> QED
        BY DEF IInv, OutputOK, MoveOK, M2lvOK
<1> QED
    BY <1>1, Invariant, PTL

\* While an output is not where pwm_hw_apply wants it, the fade timer runs.
THEOREM FadeStaysArmed == Spec => []FadeArmed
<1>1. IInv => FadeArmed
    BY DEF IInv, OutputOK
<1> QED
    BY <1>1, Invariant, PTL

\* No handler changes an attribute a duty depends on without pwm_hw_apply.
THEOREM OutputsFollow == Spec => []TargetFollows
<1>1. IInv => TargetFollows
    BY DEF IInv, OutputOK
<1> QED
    BY <1>1, Invariant, PTL

=============================================================================
