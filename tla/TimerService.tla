---------------------------- MODULE TimerService ----------------------------
(***************************************************************************)
(* What the timers of proj/os/ev_timer.h promise their clients: a posted   *)
(* timer is pending until it is cancelled or its callback says that it is  *)
(* done; callbacks run one at a time, each for a pending timer; the timer  *)
(* whose callback runs cannot be cancelled; a tracked client never has two *)
(* timers; and a post that finds every timer in use resets the device.     *)
(***************************************************************************)
CONSTANTS Clients, Tracked, Ids, NULL

VARIABLES
    pending,  \* the timers in use, each with its owner
    running   \* the timer whose callback runs, or NULL

Owned(c) == {id \in DOMAIN pending : pending[id] = c}

Without(ids) == [id \in DOMAIN pending \ ids |-> pending[id]]

Joined(timers, new, c) ==
    [id \in DOMAIN timers \cup {new} |-> IF id = new THEN c ELSE timers[id]]

Init == pending = <<>> /\ running = NULL

\* A tracked client replaces the timer it has.
PostTimer(c) ==
    LET kept == Without(IF c \in Tracked THEN Owned(c) ELSE {}) IN
    /\ c \in Tracked => running \notin Owned(c)
    /\ \E id \in Ids \ DOMAIN kept : pending' = Joined(kept, id, c)
    /\ UNCHANGED running

CancelTimer(c) ==
    /\ \E id \in Owned(c) \ {running} : pending' = Without({id})
    /\ UNCHANGED running

Start ==
    /\ running = NULL
    /\ running' \in DOMAIN pending
    /\ UNCHANGED pending

Finish ==
    /\ running # NULL
    /\ running' = NULL
    /\ pending' \in {pending, Without({running})}

Exhausted ==
    /\ DOMAIN pending = Ids
    /\ pending' = <<>>
    /\ running' = NULL

Next ==
    \/ \E c \in Clients : PostTimer(c)
    \/ \E c \in Tracked : CancelTimer(c)
    \/ Start
    \/ Finish
    \/ Exhausted

Spec == Init /\ [][Next]_<<pending, running>>
=============================================================================
