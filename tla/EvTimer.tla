------------------------------- MODULE EvTimer -------------------------------
(***************************************************************************)
(* The software timers of the SDK (proj/os/ev_timer.c, ev_timer.h) and the *)
(* way the applications use them.                                          *)
(*                                                                         *)
(* Timers live in a pool of TIMER_EVENT_NUM slots.  An armed slot is       *)
(* linked into the list ev_timer.timer_head.  ev_timer_process, called     *)
(* from the main loop, charges the elapsed time to every listed timer and  *)
(* then walks the list, running the callback of every timer whose timeout  *)
(* is 0.  The callback decides by its return value whether its timer is    *)
(* freed (< 0), re-armed with the same period (0) or with a new one (> 0), *)
(* and while it runs it may post and cancel other timers: the walk must    *)
(* survive a list that changes under it.                                   *)
(*                                                                         *)
(* A client is a piece of code that owns timers.  A Tracked client keeps   *)
(* one handle (s_led_tmr, s_identifyTimerEvt, ctx->tmr, ...) and clears it *)
(* when its callback returns -1; the other clients post timers they never  *)
(* cancel (steer_retry_cb, report_all_cb).                                 *)
(*                                                                         *)
(* Fields of a free slot that are always rewritten before they are read    *)
(* (cb, data, timeout, period) are blanked when the slot is freed, and the *)
(* registration tick when it has been used; `next' is kept, because the    *)
(* walk reads it after the free.  The tick counter has TickMod values      *)
(* (2^32 in the code).                                                     *)
(***************************************************************************)
EXTENDS Integers, FiniteSets

CONSTANTS
    TIMER_EVENT_NUM,  \* slots in the pool
    Clients,          \* owners of timers
    Tracked,          \* the clients that keep a handle
    Timeouts,         \* the periods clients ask for, in ms
    TicksPerMs,       \* S_TIMER_CLOCK_1US * 1000
    TickMod,          \* the tick counter wraps at this value
    MaxLag,           \* bound: ticks between two calls of ev_timer_process
    AgeCap            \* bound: ages (history variable) are not counted further

Slots == 1 .. TIMER_EVENT_NUM
NULL  == 0
NoCb  == "no callback"

ASSUME ClientsAssumption ==
    /\ Tracked \subseteq Clients
    /\ NoCb \notin Clients
ASSUME PoolAssumption == TIMER_EVENT_NUM \in Nat \ {0}
ASSUME TimeAssumption ==
    /\ Timeouts \subseteq Nat \ {0}
    /\ TicksPerMs \in Nat \ {0}
    /\ TickMod \in Nat \ {0}
    /\ MaxLag \in Nat \ {0}
    /\ MaxLag + TicksPerMs < TickMod
    /\ AgeCap \in Nat

VARIABLES
    ev_timer,     \* the control block: list head, nearest timer, pool
    clock,        \* clock_time()
    prevSysTick,
    remSysTick,
    pc,           \* "main": main loop, "walk": in executeCB, "cb": in a callback
    timerEvt,     \* the cursor of executeCB
    prev_head,    \* the list head executeCB compares with
    handle,       \* the handle each client keeps
    age,          \* history: ticks since each slot was armed
    due           \* history: timers that were due when the walk began and
                  \* have neither run nor been cancelled since

vars == <<ev_timer, clock, prevSysTick, remSysTick, pc, timerEvt, prev_head,
          handle, age, due>>

Ticks == 0 .. TickMod - 1

Event == [next       : Slots \cup {NULL},
          cb         : Clients \cup {NoCb},
          timeout    : Nat,
          period     : Nat,
          curSysTick : Ticks,
          isBusy     : BOOLEAN,
          isRunning  : BOOLEAN,
          used       : BOOLEAN]

Blank == [next |-> NULL, cb |-> NoCb, timeout |-> 0, period |-> 0,
          curSysTick |-> 0, isBusy |-> FALSE, isRunning |-> FALSE,
          used |-> FALSE]

EmptyControl == [head |-> NULL, nearest |-> NULL, used_num |-> 0,
                 evt |-> [s \in Slots |-> Blank]]

-----------------------------------------------------------------------------
(***************************************************************************)
(* The linked list: the macros of utlist.h.                                *)
(***************************************************************************)
\* The nodes a loop from the head along `next' meets: LIST_EXIST finds these.
Closed(T, S) ==
    /\ T.head # NULL => T.head \in S
    /\ \A s \in S : T.evt[s].next # NULL => T.evt[s].next \in S

Listed(T) == {s \in Slots : \A S \in SUBSET Slots : Closed(T, S) => s \in S}

ListAdd(T, s) == [T EXCEPT !.evt[s].next = T.head, !.head = s]

\* Mutated form: the node's own link is cleared as well.
ListDeleteClearing(T, s) ==
    IF T.head = s
    THEN [T EXCEPT !.head = T.evt[s].next]
    ELSE LET lst == CHOOSE p \in Listed(T) : T.evt[p].next = s
         IN  [T EXCEPT !.evt[lst].next = T.evt[s].next, !.evt[s].next = NULL]

\* Mutated form: the list is cut at the deleted node.
ListDeleteCut(T, s) ==
    IF T.head = s
    THEN [T EXCEPT !.head = T.evt[s].next]
    ELSE LET lst == CHOOSE p \in Listed(T) : T.evt[p].next = s
         IN  [T EXCEPT !.evt[lst].next = NULL]

ListDelete(T, s) ==
    IF T.head = s
    THEN [T EXCEPT !.head = T.evt[s].next]
    ELSE LET lst == CHOOSE p \in Listed(T) : T.evt[p].next = s
         IN  [T EXCEPT !.evt[lst].next = T.evt[s].next]

-----------------------------------------------------------------------------
(***************************************************************************)
(* The functions of ev_timer.c, as operators on the control block.         *)
(***************************************************************************)
UsedSlots(T) == {s \in Slots : T.evt[s].used}

nearestUpdate(T) ==
    [T EXCEPT !.nearest =
        IF T.head = NULL THEN NULL
        ELSE CHOOSE s \in Listed(T) :
                \A m \in Listed(T) : T.evt[s].timeout <= T.evt[m].timeout]

PoolFull(T) == T.used_num >= TIMER_EVENT_NUM

\* The slot freeGet takes: the first free one.
FreeSlot(T) ==
    CHOOSE s \in Slots \ UsedSlots(T) : \A f \in Slots \ UsedSlots(T) : s <= f

\* taskPost: freeGet, ev_timer_add and ev_on_timer for client c.
taskPost(T, c, t) ==
    LET s    == FreeSlot(T)
        slot == [T.evt[s] EXCEPT !.used = TRUE, !.cb = c, !.isBusy = FALSE,
                                 !.period = t, !.timeout = t,
                                 !.curSysTick = IF T.evt[s].isRunning
                                                THEN @ ELSE clock]
    IN  nearestUpdate(ListAdd([T EXCEPT !.evt[s] = slot,
                                        !.used_num = @ + 1], s))

\* Mutated form: used_num is not decremented.
poolDelUpdateLeak(T, s) ==
    [T EXCEPT !.evt[s] = [Blank EXCEPT !.next = T.evt[s].next,
                                       !.isBusy = T.evt[s].isBusy]]

\* Mutated form: used_num is decremented without a look at `used'.
poolDelUpdateTwice(T, s) ==
    [T EXCEPT !.evt[s] = [Blank EXCEPT !.next = T.evt[s].next,
                                       !.isBusy = T.evt[s].isBusy],
              !.used_num = @ - 2]

poolDelUpdate(T, s) ==
    IF T.evt[s].used
    THEN [T EXCEPT !.evt[s] = [Blank EXCEPT !.next = T.evt[s].next,
                                            !.isBusy = T.evt[s].isBusy],
                   !.used_num = @ - 1]
    ELSE [T EXCEPT !.evt[s].isRunning = FALSE, !.evt[s].curSysTick = 0]

\* Mutated form: timer_nearest is left as it was.
unonStaleNearest(T, s) ==
    IF s \in Listed(T) THEN ListDelete(poolDelUpdate(T, s), s) ELSE T

unon(T, s) ==
    IF s \in Listed(T)
    THEN nearestUpdate(ListDelete(poolDelUpdate(T, s), s))
    ELSE T

\* Mutated form: the running timer may be cancelled.
CancelAllowedBusy(T, s) == s # NULL /\ T.evt[s].used

\* ev_timer_taskCancel: a free slot or no handle is NO_TIMER_AVAIL, the timer
\* whose callback runs is TIMER_CANCEL_NOT_ALLOWED; neither changes anything.
CancelAllowed(T, s) == s # NULL /\ T.evt[s].used /\ ~T.evt[s].isBusy

taskCancel(T, s) == IF CancelAllowed(T, s) THEN unon(T, s) ELSE T

Elapsed(now, then) == (now - then) % TickMod

MsSince(e) == Elapsed(clock, e.curSysTick) \div TicksPerMs

\* Mutated form: a new timer is charged the whole time since the last call.
updateWhole(T, ms) ==
    [T EXCEPT !.evt = [s \in Slots |->
        IF s \notin Listed(T) THEN T.evt[s]
        ELSE [T.evt[s] EXCEPT !.timeout = IF @ > ms THEN @ - ms ELSE 0,
                              !.isRunning = TRUE]]]

\* Mutated form: a new timer is charged nothing.
updateNothing(T, ms) ==
    [T EXCEPT !.evt = [s \in Slots |->
        IF s \notin Listed(T) THEN T.evt[s]
        ELSE LET d == IF T.evt[s].isRunning THEN ms ELSE 0
             IN  [T.evt[s] EXCEPT !.timeout = IF @ > d THEN @ - d ELSE 0,
                                  !.isRunning = TRUE]]]

\* ev_timer_update: charge the elapsed time to every listed timer.
update(T, ms) ==
    [T EXCEPT !.evt = [s \in Slots |->
        IF s \notin Listed(T) THEN T.evt[s]
        ELSE LET d == IF T.evt[s].isRunning THEN ms ELSE MsSince(T.evt[s])
             IN  [T.evt[s] EXCEPT !.timeout = IF @ > d THEN @ - d ELSE 0,
                                  !.isRunning = TRUE, !.curSysTick = 0]]]

-----------------------------------------------------------------------------
Init ==
    /\ ev_timer = EmptyControl
    /\ clock = 0
    /\ prevSysTick = 0
    /\ remSysTick = 0
    /\ pc = "main"
    /\ timerEvt = NULL
    /\ prev_head = NULL
    /\ handle = [c \in Clients |-> NULL]
    /\ age = [s \in Slots |-> 0]
    /\ due = {}

Lag == Elapsed(clock, prevSysTick)

\* The free-running hardware counter.
Tick ==
    /\ Lag < MaxLag
    /\ clock' = (clock + 1) % TickMod
    /\ age' = [s \in Slots |-> IF ev_timer.evt[s].used /\ age[s] < AgeCap
                               THEN age[s] + 1 ELSE age[s]]
    /\ UNCHANGED <<ev_timer, prevSysTick, remSysTick, pc, timerEvt, prev_head,
                   handle, due>>

(***************************************************************************)
(* What the clients do, in the main loop or from inside a callback.        *)
(***************************************************************************)
InOwnCallback(c) == pc = "cb" /\ ev_timer.evt[timerEvt].cb = c

ClientMayRun(c) ==
    /\ pc \in {"main", "cb"}
    /\ c \in Tracked => ~InOwnCallback(c)

Post(T, c, t) ==
    /\ ev_timer' = taskPost(T, c, t)
    /\ age' = [age EXCEPT ![FreeSlot(T)] = 0]
    /\ handle' = [handle EXCEPT ![c] = IF c \in Tracked THEN FreeSlot(T) ELSE @]

\* Mutated form: the timer held is not cancelled first.
ScheduleOnly(c, t) ==
    /\ ClientMayRun(c)
    /\ ~PoolFull(ev_timer)
    /\ Post(ev_timer, c, t)
    /\ UNCHANGED <<clock, prevSysTick, remSysTick, pc, timerEvt, prev_head, due>>

\* The idioms  if (!h) h = TL_ZB_TIMER_SCHEDULE(...)  and
\* if (h) TL_ZB_TIMER_CANCEL(&h); h = TL_ZB_TIMER_SCHEDULE(...).
Schedule(c, t) ==
    LET T == taskCancel(ev_timer, handle[c]) IN
    /\ ClientMayRun(c)
    /\ ~PoolFull(T)
    /\ Post(T, c, t)
    /\ due' = due \ {handle[c]}
    /\ UNCHANGED <<clock, prevSysTick, remSysTick, pc, timerEvt, prev_head>>

\* TL_ZB_TIMER_CANCEL(&h); the handle is kept unless the cancel succeeds.
Cancel(c) ==
    /\ pc \in {"main", "cb"}
    /\ CancelAllowed(ev_timer, handle[c])
    /\ ev_timer' = taskCancel(ev_timer, handle[c])
    /\ handle' = [handle EXCEPT ![c] = NULL]
    /\ due' = due \ {handle[c]}
    /\ UNCHANGED <<clock, prevSysTick, remSysTick, pc, timerEvt, prev_head, age>>

\* ev_timer_add finds no free slot and posts SYS_EXCEPTTION_COMMON_TIMER_EVEVT;
\* the handler the applications register is SYSTEM_RESET().
PostExhausted(c) ==
    /\ ClientMayRun(c)
    /\ PoolFull(taskCancel(ev_timer, handle[c]))
    /\ ev_timer' = EmptyControl
    /\ clock' = 0 /\ prevSysTick' = 0 /\ remSysTick' = 0
    /\ pc' = "main" /\ timerEvt' = NULL /\ prev_head' = NULL
    /\ handle' = [d \in Clients |-> NULL]
    /\ age' = [s \in Slots |-> 0]
    /\ due' = {}

(***************************************************************************)
(* ev_timer_process and ev_timer_executeCB.                                *)
(***************************************************************************)
\* Mutated form: the remainder is not added.
UpdateTimeWhole == Lag \div TicksPerMs

UpdateTime == (Lag \div TicksPerMs)
                + ((remSysTick + (Lag % TicksPerMs)) \div TicksPerMs)

\* Up to the first node of the walk.
Process ==
    /\ pc = "main"
    /\ clock # prevSysTick
    /\ prevSysTick' = clock
    /\ remSysTick' = (remSysTick + (Lag % TicksPerMs)) % TicksPerMs
    /\ ev_timer' = IF UpdateTime > 0 THEN update(ev_timer, UpdateTime) ELSE ev_timer
    /\ pc' = "walk"
    /\ timerEvt' = ev_timer.head
    /\ prev_head' = ev_timer.head
    /\ due' = {s \in Listed(ev_timer) : ev_timer'.evt[s].timeout = 0}
    /\ UNCHANGED <<clock, handle, age>>

\* A timer that is not due: timerEvt = timerEvt->next.
WalkPast ==
    /\ pc = "walk"
    /\ timerEvt # NULL
    /\ ev_timer.evt[timerEvt].timeout # 0
    /\ timerEvt' = ev_timer.evt[timerEvt].next
    /\ UNCHANGED <<ev_timer, clock, prevSysTick, remSysTick, pc, prev_head,
                   handle, age, due>>

\* A due timer: isBusy = 1, call cb.
Fire ==
    /\ pc = "walk"
    /\ timerEvt # NULL
    /\ ev_timer.evt[timerEvt].timeout = 0
    /\ ev_timer' = [ev_timer EXCEPT !.evt[timerEvt].isBusy = TRUE]
    /\ pc' = "cb"
    /\ due' = due \ {timerEvt}
    /\ UNCHANGED <<clock, prevSysTick, remSysTick, timerEvt, prev_head, handle, age>>

\* isBusy = 0, then go on from the next node, or from the head if it changed.
Resume(T) ==
    /\ ev_timer' = [T EXCEPT !.evt[timerEvt].isBusy = FALSE]
    /\ pc' = "walk"
    /\ timerEvt' = IF prev_head # T.head THEN T.head ELSE T.evt[timerEvt].next
    /\ prev_head' = T.head
    /\ UNCHANGED <<clock, prevSysTick, remSysTick, due>>

\* Mutated form: the handle is not cleared.
ReturnStopKeeping ==
    /\ pc = "cb"
    /\ Resume(unon(ev_timer, timerEvt))
    /\ UNCHANGED <<handle, age>>

\* The callback returns a negative value; a tracked client clears its handle.
ReturnStop ==
    LET c == ev_timer.evt[timerEvt].cb IN
    /\ pc = "cb"
    /\ Resume(unon(ev_timer, timerEvt))
    /\ handle' = [handle EXCEPT ![c] = NULL]
    /\ UNCHANGED age

\* The callback returns t >= 0; 0 keeps the period.
ReturnAgain(t) ==
    LET p == IF t = 0 THEN ev_timer.evt[timerEvt].period ELSE t IN
    /\ pc = "cb"
    /\ Resume([ev_timer EXCEPT !.evt[timerEvt].period = p,
                               !.evt[timerEvt].timeout = p])
    /\ age' = [age EXCEPT ![timerEvt] = IF Lag < AgeCap THEN Lag ELSE AgeCap]
    /\ UNCHANGED handle

WalkEnd ==
    /\ pc = "walk"
    /\ timerEvt = NULL
    /\ ev_timer' = nearestUpdate(ev_timer)
    /\ pc' = "main"
    /\ prev_head' = NULL
    /\ UNCHANGED <<clock, prevSysTick, remSysTick, timerEvt, handle, age, due>>

-----------------------------------------------------------------------------
\* The one thread that runs ev_timer_process and the callbacks.
MainLoop ==
    \/ Process
    \/ WalkPast
    \/ Fire
    \/ ReturnStop
    \/ \E t \in Timeouts \cup {0} : ReturnAgain(t)
    \/ WalkEnd

Next ==
    \/ Tick
    \/ \E c \in Clients, t \in Timeouts : Schedule(c, t)
    \/ \E c \in Clients : Cancel(c) \/ PostExhausted(c)
    \/ MainLoop

Spec == Init /\ [][Next]_vars

\* The counter runs, the main loop calls ev_timer_process again and again, and
\* every callback returns: nothing preempts the main loop for good.
Fairness == WF_vars(Tick) /\ WF_vars(MainLoop)

FairSpec == Spec /\ Fairness
-----------------------------------------------------------------------------
(***************************************************************************)
(* Properties.                                                             *)
(***************************************************************************)
TypeOK ==
    /\ ev_timer \in [head : Slots \cup {NULL}, nearest : Slots \cup {NULL},
                     used_num : 0 .. TIMER_EVENT_NUM, evt : [Slots -> Event]]
    /\ clock \in Ticks /\ prevSysTick \in Ticks
    /\ remSysTick \in 0 .. TicksPerMs - 1
    /\ pc \in {"main", "walk", "cb"}
    /\ timerEvt \in Slots \cup {NULL}
    /\ prev_head \in Slots \cup {NULL}
    /\ handle \in [Clients -> Slots \cup {NULL}]
    /\ age \in [Slots -> 0 .. AgeCap]
    /\ due \subseteq Slots

\* used_num, which freeGet trusts before it looks for a slot, is the number of
\* slots in use: no order of posts, cancels and expiries leaks a slot.
PoolAccounting == ev_timer.used_num = Cardinality(UsedSlots(ev_timer))

\* Whatever a callback did to the list, it ends, and holds exactly the slots in
\* use: LIST_DELETE and LIST_ADD never lose the timers behind the changed node.
ListIntact ==
    /\ ev_timer.head # NULL =>
            \E s \in Listed(ev_timer) : ev_timer.evt[s].next = NULL
    /\ Listed(ev_timer) = UsedSlots(ev_timer)

\* A client's handle names its own armed timer and no other: slots are reused,
\* and taskCancel only looks at `used', so a stale handle would cancel the timer
\* of whoever took the slot, and a lost one would let a cancelled timer fire.
HandleExact ==
    \A c \in Tracked, s \in Slots :
        (ev_timer.evt[s].used /\ ev_timer.evt[s].cb = c) <=> handle[c] = s

\* Only the timer under the cursor is marked busy, and it stays armed until its
\* callback returns: no cancel from inside a callback frees the running timer.
BusyIsRunning ==
    \A s \in Slots : ev_timer.evt[s].isBusy =>
        pc = "cb" /\ s = timerEvt /\ ev_timer.evt[s].used

\* executeCB reaches every timer that was due when it began, although callbacks
\* add and cancel timers anywhere in the list while it walks.
NoDueSkipped == pc = "main" => due = {}

\* Between two calls of ev_timer_process, timer_nearest, from which the sleep
\* time is taken, is an armed timer with the smallest timeout.
NearestRight ==
    pc = "main" =>
        IF ev_timer.head = NULL THEN ev_timer.nearest = NULL
        ELSE /\ ev_timer.nearest \in UsedSlots(ev_timer)
             /\ \A m \in UsedSlots(ev_timer) :
                    ev_timer.evt[ev_timer.nearest].timeout <= ev_timer.evt[m].timeout

\* No timer fires a millisecond or more before its period is over, counted from
\* its registration, or from the start of the walk that re-armed it; the tick
\* counter wraps, and the remainders below 1 ms are carried in remSysTick.
NotEarly ==
    \A s \in UsedSlots(ev_timer) : ev_timer.evt[s].timeout = 0 =>
        age[s] > (ev_timer.evt[s].period - 1) * TicksPerMs

\* When ev_timer_process has returned, no timer is left whose period had been
\* over for a millisecond when it started, whatever the two roundings dropped.
NotLate ==
    pc = "main" => \A s \in UsedSlots(ev_timer) :
        age[s] - Lag < (ev_timer.evt[s].period + 1) * TicksPerMs - 1

\* A timer nobody keeps a handle of always runs, unless the device resets.
Serviced ==
    \A s \in Slots :
        (ev_timer.evt[s].used /\ ev_timer.evt[s].cb \notin Tracked)
            ~> (ev_timer.evt[s].isBusy \/ ~ev_timer.evt[s].used)

\* What the clients are promised, without the pool's list and the clock.
Service == INSTANCE TimerService
    WITH Ids <- Slots,
         pending <- [s \in UsedSlots(ev_timer) |-> ev_timer.evt[s].cb],
         running <- IF pc = "cb" THEN timerEvt ELSE NULL

\* The pool, the list and the walk implement the timer service.
ImplementsService == Service!Spec
=============================================================================
