----------------------------- MODULE Bdb_proofs -----------------------------
(***************************************************************************)
(* Proofs about Bdb, for every number of attempts, timers, leaves, rejoins *)
(* and power cuts: what bdb_task has queued and the timers it has running  *)
(* fit the state it is in, so that no event of an earlier steering cuts a  *)
(* discovery short, and a device told that it is not joined tries again.   *)
(***************************************************************************)
EXTENDS Bdb, TLAPS

CONFIRM == "permitJoiningConfirm"

\* The events that lead a steering to its end, one after the other.
Closing == {PERMITJOIN, CONFIRM, STEER_FINISH}

\* The timers of the key exchange and the two that lead to it.
Pending == timers["delayRetrieve"] + timers["delayPermit"]
               + timers["keyStart"] + timers["keyTimeout"]
NoRequests == descReqs = 0 /\ keyReqs = 0

(***************************************************************************)
(* The clauses of the inductive invariant, one for each state of bdb.      *)
(***************************************************************************)
\* What the stack has: only a joined device is leaving, it does nothing else,
\* and the last thing bdb heard of it was a success.
LinkOK == /\ joined => nwk = "idle" /\ status = SUCCESS
          /\ leaving => joined

\* BDB_STATE_INIT: the network of NV is being started, or bdbInitCb waits.
InitOK ==
    /\ Pending = 0 /\ status = SUCCESS /\ commissioningStatus = SUCCESS
    /\ NoRequests
    /\ \/ tasks = <<>> /\ nwk = "starting" /\ nodeIsOnANetwork
       \/ tasks = <<INIT_DONE>> /\ nwk = "idle" /\ (nodeIsOnANetwork <=> joined)

\* What can be queued in BDB_STATE_IDLE on a device without a network: the end
\* of a rejoin, and steerings, of which commissioningStatus tells.
Restful ==
    \/ tasks \in {<<>>, <<REJOIN_DONE>>, <<START>>}
    \/ /\ tasks \in {<<REJOIN_DONE, START>>, <<START, START>>}
       /\ commissioningStatus = "IN_PROGRESS"

IdleOK ==
    /\ Pending = 0
    /\ nwk \in {"idle", "rejoining"}
    /\ nwk = "rejoining" => tasks = <<>> /\ told = "JOINED"
    /\ joined => tasks \in Seq(Closing \cup {"infoSave"}) /\ told = "JOINED"
    /\ ~joined => Restful
    /\ ~joined /\ nwk = "idle" /\ told = "NOT_JOINED" /\ tasks = <<>> => Has("retry")

\* The stages of a steering after discovery: a timer runs, or the key is to be
\* retrieved, or the events that end it are queued.  A START in front of them
\* is one of two that were queued: bdb_task will lose it.
TimerRuns ==
    /\ Pending = 1
    /\ \/ tasks = <<>>
       \/ tasks = <<START>> /\ timers["keyStart"] = 0 /\ timers["keyTimeout"] = 0
    /\ joined /\ timers["keyTimeout"] = 0 => NoRequests
ToRetrieve ==
    /\ Pending = 0
    /\ tasks \in {<<RETRIEVE>>, <<START, RETRIEVE>>}
    /\ joined => NoRequests
ToEnd ==
    /\ Pending = 0
    /\ \/ \E e \in Closing : tasks = <<e>>
       \/ (\E e \in Closing : tasks = <<START, e>>) /\ (joined => NoRequests)
       \/ tasks \in Seq(Closing) \ {<<>>} /\ joined

SteerOK ==
    \/ nwk = "joining" /\ Pending = 0 /\ tasks \in {<<>>, <<START>>}
    \/ nwk = "idle" /\ (TimerRuns \/ ToRetrieve \/ ToEnd)

\* The inductive invariant.
Staged ==
    /\ LinkOK
    /\ state = "INIT" => InitOK
    /\ state = "IDLE" => IdleOK
    /\ state = "STEER" => SteerOK
IInv == TypeOK /\ Staged

-----------------------------------------------------------------------------
(***************************************************************************)
(* Lemmas on the queue and on the timers.                                  *)
(***************************************************************************)
\* TL_SCHEDULE_TASK: what a queue of one or two is before and after its head
\* was taken, with a task more or with none.
LEMMA ShortQueues ==
    ASSUME NEW a, NEW b, NEW c
    PROVE  /\ Head(<<a>>) = a /\ Tail(<<a>>) = <<>>
           /\ Head(<<a, b>>) = a /\ Tail(<<a, b>>) = <<b>>
           /\ <<>> \o <<>> = <<>> /\ <<>> \o <<a>> = <<a>>
           /\ <<a>> \o <<>> = <<a>> /\ <<a>> \o <<b>> = <<a, b>>
           /\ <<a>> # <<>> /\ <<a, b>> # <<>> /\ <<a, b>> # <<c>>
           /\ <<a>> = <<b>> => a = b
<1>1. <<a>> \o <<b>> = <<a, b>>
    <2> DEFINE T == {a, b}
               q == <<a>> \o <<b>>
    <2>1. <<a>> \in Seq(T) /\ <<b>> \in Seq(T) /\ <<a, b>> \in Seq(T)
        OBVIOUS
    <2>2. q \in Seq(T) /\ Len(q) = 2 /\ q[1] = a /\ q[2] = b
        BY <2>1
    <2> HIDE DEF q
    <2>3. q = <<a, b>>
        BY <2>1, <2>2
    <2> QED
        BY <2>3 DEF q
<1> QED
    BY <1>1

\* Taking a task and queueing others keeps a queue of tasks one.
LEMMA QueueType ==
    ASSUME NEW T, NEW q \in Seq(T), NEW n \in Seq(T)
    PROVE  /\ q \o n \in Seq(T)
           /\ q \o <<>> = q
           /\ q # <<>> => Head(q) \in T /\ Tail(q) \in Seq(T) /\ Tail(q) \o n \in Seq(T)
           /\ n # <<>> => q \o n # <<>>
  OBVIOUS

\* Arming, ending and exchanging a timer (ev_timer_taskPost and what its
\* callback returns).
LEMMA TimerChanges ==
    ASSUME timers \in [Timers -> Nat], NEW k \in Timers, NEW l \in Timers, k # l
    PROVE  /\ Used \in Nat /\ Pending \in Nat
           /\ Arm(k) => timers' \in [Timers -> Nat] /\ Used' = Used + 1
           /\ Has(k) /\ End(k) => timers' \in [Timers -> Nat] /\ Used' = Used - 1
           /\ Has(k) /\ Become(k, l) => timers' \in [Timers -> Nat] /\ Used' = Used
  BY DEF Timers, Used, Pending, Arm, End, Become, Has

-----------------------------------------------------------------------------
(***************************************************************************)
(* Type correctness.                                                       *)
(***************************************************************************)
\* The queues that are built from one or two tasks.
LEMMA Queues ==
    /\ \A t \in Tasks : <<t>> \in Seq(Tasks)
    /\ \A s, t \in Tasks : <<s, t>> \in Seq(Tasks)
    /\ <<>> \in Seq(Tasks)
    /\ START \in Tasks /\ CONFIRM \in Tasks /\ "infoSave" \in Tasks
    /\ STEER_FINISH \in Tasks /\ PERMITJOIN \in Tasks /\ RETRIEVE \in Tasks
    /\ INIT_DONE \in Tasks /\ REJOIN_DONE \in Tasks
  BY DEF Tasks, Events, CONFIRM, REJOIN_DONE, STEER_FINISH

\* What TL_SCHEDULE_TASK and bdb_task do to the queue keeps it one.
LEMMA QueueChanges ==
    ASSUME TypeOK, NEW n \in Seq(Tasks)
    PROVE  /\ Post(n) => tasks' \in Seq(Tasks)
           /\ tasks # <<>> /\ Pop(n) => tasks' \in Seq(Tasks)
<1>1. tasks \in Seq(Tasks)
    BY DEF TypeOK
<1>2. tasks \o n \in Seq(Tasks)
    BY <1>1
<1>3. tasks # <<>> => Tail(tasks) \o n \in Seq(Tasks)
    BY <1>1
<1> QED
    BY <1>2, <1>3, Zenon DEF Pop, Post

\* No step queues anything but tasks.
LEMMA QueueTyped ==
    ASSUME TypeOK, [Next]_vars
    PROVE  tasks' \in Seq(Tasks)
<1>1. tasks \in Seq(Tasks)
    BY DEF TypeOK
<1>2. \A n : n \in Seq(Tasks) => (Post(n) => tasks' \in Seq(Tasks))
    BY QueueChanges
<1>3. \A n : n \in Seq(Tasks) => (tasks # <<>> /\ Pop(n) => tasks' \in Seq(Tasks))
    BY QueueChanges
<1>4. CASE Task
    BY <1>2, <1>3, <1>4, Queues, Zenon
    DEF Task, InitDone, SteerStart, RejoinDone, SteerRetrieve, SteerPermitJoin, SteerFinish,
        Lost, PermitJoiningConfirm, InfoSave, At, CONFIRM
<1>5. CASE Key
    BY <1>1, <1>2, <1>5, Queues, Zenon DEF Key, Delayed, KeyStart, KeyRetry, KeyFailed
<1>6. CASE SteerRetry
    BY <1>1, <1>2, <1>6, Queues, Zenon DEF SteerRetry
<1>7. CASE Stack
    <2>1. ASSUME NEW ok \in BOOLEAN, NwkEnd(ok) PROVE tasks' \in Seq(Tasks)
        BY <1>1, <1>2, <2>1, Queues, Zenon DEF NwkEnd, StartDevCnf
    <2>2. CASE NodeDescRsp \/ KeyRsp
        BY <1>1, <1>2, <2>2, Queues, Zenon DEF NodeDescRsp, KeyRsp, KeyDone
    <2>3. CASE LeaveCnf
        BY <1>1, <2>3, Zenon DEF LeaveCnf
    <2>4. ASSUME NEW ok \in BOOLEAN, KeyGiveUp(ok) PROVE tasks' \in Seq(Tasks)
        BY <1>1, <2>4, Zenon DEF KeyGiveUp
    <2> QED
        BY <1>7, <2>1, <2>2, <2>3, <2>4 DEF Stack
<1>8. CASE World \/ PoolExhausted
    <2>1. ASSUME Boot(stored) PROVE tasks' \in Seq(Tasks)
        BY <2>1, Queues, Zenon DEF Boot
    <2> QED
        BY <1>1, <1>8, <2>1, Zenon DEF World, LeaveInd, RejoinStart, PowerCut, PoolExhausted
<1>9. CASE UNCHANGED vars
    BY <1>1, <1>9, Zenon DEF vars
<1> QED
    BY <1>4, <1>5, <1>6, <1>7, <1>8, <1>9 DEF Next

\* The timers that run are as many as TypeOK says.
PoolOK == timers \in [Timers -> Nat] /\ Used <= MaxTimers + 1

\* A timer is armed only while the pool still has room for one.
LEMMA PoolTyped ==
    ASSUME TypeOK, [Next]_vars
    PROVE  PoolOK'
<1>1. PoolOK /\ MaxTimers \in Nat /\ Used \in Nat
    BY TimerChanges, BdbAssumption DEF TypeOK, PoolOK, Timers, Used
<1>2. UNCHANGED timers => PoolOK'
    BY <1>1 DEF PoolOK, Used
<1>3. \A k \in Timers : Running /\ Arm(k) => PoolOK'
    BY <1>1 DEF PoolOK, Running, Arm, Used, Timers
<1>4. \A k \in Timers : Has(k) /\ End(k) => PoolOK'
    BY <1>1 DEF PoolOK, End, Used, Timers, Has
<1>5. Has("keyStart") /\ Become("keyStart", "keyTimeout") => PoolOK'
    BY <1>1 DEF PoolOK, Become, Used, Timers, Has
<1>6. Running /\ Confirm(status) => PoolOK'
    BY <1>1 DEF PoolOK, Running, Confirm, Used, Timers, Has
<1>7. KeyDone => PoolOK'
    BY <1>1 DEF PoolOK, KeyDone, Used, Timers, Has
<1>8. \A has : Boot(has) => PoolOK'
    BY <1>1 DEF PoolOK, Boot, Used, Timers
<1>9. /\ "keyStart" \in Timers /\ "keyTimeout" \in Timers /\ "retry" \in Timers
      /\ "delayRetrieve" \in Timers /\ "delayPermit" \in Timers
    BY DEF Timers
<1>10. CASE Task
    BY <1>2, <1>3, <1>6, <1>9, <1>10, Zenon
    DEF Task, InitDone, SteerStart, RejoinDone, SteerRetrieve, SteerPermitJoin, SteerFinish,
        Lost, PermitJoiningConfirm, InfoSave
<1>11. CASE Key
    BY <1>2, <1>4, <1>5, <1>9, <1>11, Zenon DEF Key, Delayed, KeyStart, KeyRetry, KeyFailed
<1>12. CASE SteerRetry
    BY <1>2, <1>4, <1>9, <1>12, Zenon DEF SteerRetry
<1>13. CASE Stack
    <2>1. ASSUME NEW ok \in BOOLEAN, NwkEnd(ok) PROVE PoolOK'
        BY <1>2, <1>3, <1>9, <2>1, Zenon DEF NwkEnd, StartDevCnf
    <2>2. CASE NodeDescRsp \/ KeyRsp
        BY <1>2, <1>7, <2>2, Zenon DEF NodeDescRsp, KeyRsp
    <2>3. CASE LeaveCnf
        BY <1>2, <2>3, Zenon DEF LeaveCnf
    <2>4. ASSUME NEW ok \in BOOLEAN, KeyGiveUp(ok) PROVE PoolOK'
        BY <1>2, <2>4, Zenon DEF KeyGiveUp
    <2> QED
        BY <1>13, <2>1, <2>2, <2>3, <2>4 DEF Stack
<1>14. CASE World \/ PoolExhausted
    BY <1>2, <1>3, <1>8, <1>9, <1>14, Zenon
    DEF World, LeaveInd, RejoinStart, PowerCut, PoolExhausted
<1>15. CASE UNCHANGED vars
    BY <1>2, <1>15, Zenon DEF vars
<1> QED
    BY <1>10, <1>11, <1>12, <1>13, <1>14, <1>15 DEF Next

\* The counters, each in its range, and the other variables.
CountsOK ==
    /\ attempts \in 0..(AttemptsMod - 1) /\ descReqs \in Nat /\ keyReqs \in Nat
    /\ budget \in [leaves : Nat, rejoins : Nat, cuts : Nat]
FlagsOK ==
    /\ state \in States /\ status \in Statuses /\ leaveDoing \in BOOLEAN
    /\ commissioningStatus \in Statuses /\ nodeIsOnANetwork \in BOOLEAN
    /\ told \in {"NOTHING", "JOINED", "NOT_JOINED"}
    /\ stored \in BOOLEAN /\ joined \in BOOLEAN /\ leaving \in BOOLEAN
    /\ nwk \in {"idle", "joining", "rejoining", "starting"}

\* No counter leaves its range: attempts wraps, an answer is one that
\* was asked for, and what the world may do is spent only once.
LEMMA CountsTyped ==
    ASSUME TypeOK, [Next]_vars
    PROVE  CountsOK'
<1> USE BdbAssumption DEF CountsOK
<1>1. CountsOK
    BY DEF TypeOK
<1>2. UNCHANGED <<attempts, descReqs, keyReqs, budget>> => CountsOK'
    BY <1>1
<1>3. UNCHANGED budget /\ attempts' = 0 /\ descReqs' = 0 /\ keyReqs' = 0 => CountsOK'
    BY <1>1
<1>4. CASE Task
    BY <1>2, <1>4, Zenon
    DEF Task, InitDone, SteerStart, RejoinDone, SteerRetrieve, SteerPermitJoin, SteerFinish,
        Lost, PermitJoiningConfirm, InfoSave, attrs, reqs
<1>5. CASE Key
    BY <1>1, <1>5 DEF Key, Delayed, KeyStart, KeyRetry, KeyFailed, AskDescriptor, attrs, reqs
<1>6. CASE SteerRetry
    BY <1>2, <1>6, Zenon DEF SteerRetry, reqs
<1>7. CASE Stack
    <2>1. ASSUME NEW ok \in BOOLEAN, NwkEnd(ok) PROVE CountsOK'
        BY <1>1, <2>1 DEF NwkEnd
    <2>2. CASE NodeDescRsp \/ KeyRsp
        BY <1>1, <2>2 DEF NodeDescRsp, KeyRsp
    <2>3. CASE LeaveCnf
        BY <1>3, <2>3, Zenon DEF LeaveCnf, OffNetwork
    <2>4. ASSUME NEW ok \in BOOLEAN, KeyGiveUp(ok) PROVE CountsOK'
        <3>1. AttemptsMod \in Nat \ {0} /\ attempts + 1 \in Nat
            BY <1>1
        <3>2. \A n, m \in Nat : m # 0 => n % m \in 0..(m - 1)
            OBVIOUS
        <3>3. (attempts + 1) % AttemptsMod \in 0..(AttemptsMod - 1)
            BY <3>1, <3>2
        <3> QED
            BY <1>1, <2>4, <3>3 DEF KeyGiveUp, reqs
    <2> QED
        BY <1>7, <2>1, <2>2, <2>3, <2>4 DEF Stack
<1>8. CASE World \/ PoolExhausted
    <2>1. attempts' \in {0, attempts} /\ descReqs' \in {0, descReqs} /\ keyReqs' \in {0, keyReqs}
        BY <1>8, Zenon
        DEF World, LeaveInd, RejoinStart, PowerCut, PoolExhausted, OffNetwork, Boot, attrs, reqs
    <2>2. budget' \in [leaves : Nat, rejoins : Nat, cuts : Nat]
        <3>1. budget \in [leaves : Nat, rejoins : Nat, cuts : Nat]
            BY <1>1
        <3>2. CASE LeaveInd
            BY <3>1, <3>2 DEF LeaveInd
        <3>3. CASE RejoinStart
            BY <3>1, <3>3 DEF RejoinStart
        <3>4. CASE PowerCut
            BY <3>1, <3>4 DEF PowerCut
        <3>5. CASE PoolExhausted
            BY <3>1, <3>5 DEF PoolExhausted
        <3> QED
            BY <1>8, <3>2, <3>3, <3>4, <3>5 DEF World
    <2> QED
        BY <1>1, <2>1, <2>2
<1>9. CASE UNCHANGED vars
    BY <1>2, <1>9, Zenon DEF vars, attrs, reqs
<1> QED
    BY <1>4, <1>5, <1>6, <1>7, <1>8, <1>9 DEF Next

\* No step of bdb, of the stack or of the application leaves a range.
LEMMA FlagsTyped ==
    ASSUME TypeOK, [Next]_vars
    PROVE  FlagsOK'
<1> USE DEF FlagsOK, States, Statuses, SUCCESS, ctx, attrs, link, reqs
<1>1. FlagsOK
    BY DEF TypeOK
<1>2. CASE Task
    BY <1>1, <1>2, Zenon
    DEF Task, InitDone, SteerStart, RejoinDone, SteerRetrieve, SteerPermitJoin, SteerFinish,
        Lost, PermitJoiningConfirm, InfoSave, Confirm
<1>3. CASE Key
    BY <1>1, <1>3, Zenon DEF Key, Delayed, KeyStart, KeyRetry, KeyFailed, Failures
<1>4. CASE SteerRetry
    BY <1>1, <1>4 DEF SteerRetry
<1>5. CASE Stack
    <2>1. ASSUME NEW ok \in BOOLEAN, NwkEnd(ok) PROVE FlagsOK'
        BY <1>1, <2>1, Zenon DEF NwkEnd, StartDevCnf, Failures
    <2>2. CASE NodeDescRsp \/ KeyRsp
        BY <1>1, <2>2, Zenon DEF NodeDescRsp, KeyRsp, KeyDone
    <2>3. CASE LeaveCnf
        BY <1>1, <2>3, Zenon DEF LeaveCnf, OffNetwork
    <2>4. ASSUME NEW ok \in BOOLEAN, KeyGiveUp(ok) PROVE FlagsOK'
        <3>1. leaveDoing' \in BOOLEAN /\ leaving' \in BOOLEAN
            BY <1>1, <2>4, Zenon DEF KeyGiveUp
        <3> QED
            BY <1>1, <2>4, <3>1 DEF KeyGiveUp
    <2> QED
        BY <1>5, <2>1, <2>2, <2>3, <2>4 DEF Stack
<1>6. CASE World \/ PoolExhausted
    BY <1>1, <1>6, Zenon
    DEF World, LeaveInd, RejoinStart, PowerCut, PoolExhausted, OffNetwork, Boot
<1>7. CASE UNCHANGED vars
    BY <1>1, <1>7 DEF vars
<1> QED
    BY <1>2, <1>3, <1>4, <1>5, <1>6, <1>7 DEF Next

\* Each step keeps the ranges.
LEMMA TypeKept ==
    ASSUME TypeOK, [Next]_vars
    PROVE  TypeOK'
<1>1. tasks' \in Seq(Tasks) /\ PoolOK' /\ CountsOK' /\ FlagsOK'
    BY QueueTyped, PoolTyped, CountsTyped, FlagsTyped, Zenon
<1> QED
    BY <1>1, Zenon DEF TypeOK, PoolOK, CountsOK, FlagsOK

-----------------------------------------------------------------------------
(***************************************************************************)
(* What bdb_task has queued fits its state.                                *)
(***************************************************************************)
\* bdb_init begins a stage of its own.
LEMMA BootStaged ==
    ASSUME NEW has \in BOOLEAN, Boot(has)
    PROVE  Staged'
<1>1. Pending' = 0
    BY DEF Boot, Pending, Timers
<1>2. InitOK'
    <2>1. CASE has
        BY <1>1, <2>1, Zenon DEF InitOK, Boot, NoRequests
    <2>2. CASE ~has
        BY <1>1, <2>2, Zenon DEF InitOK, Boot, NoRequests
    <2> QED
        BY <2>1, <2>2
<1>3. LinkOK' /\ state' = "INIT"
    BY Zenon DEF LinkOK, Boot
<1>4. state' # "IDLE" /\ state' # "STEER"
    BY <1>3
<1> QED
    BY <1>2, <1>3, <1>4, Zenon DEF Staged

\* The timers of a stage stay as they are in a step that arms no others.
LEMMA PendingChanges ==
    ASSUME TypeOK
    PROVE  /\ Pending \in Nat
           /\ UNCHANGED timers => Pending' = Pending
           /\ Arm("retry") \/ End("retry") =>
                 Pending' = Pending /\ timers'["keyStart"] = timers["keyStart"]
                     /\ timers'["keyTimeout"] = timers["keyTimeout"]
           /\ Pending = 0 => timers["keyStart"] = 0 /\ timers["keyTimeout"] = 0
           /\ Pending = 0 /\ Confirm(status) => Pending' = 0
           /\ KeyDone /\ Pending <= 1 /\ (Pending = 1 => Has("keyTimeout")) => Pending' = 0
  BY DEF TypeOK, Timers, Pending, Arm, End, Confirm, KeyDone, Has

\* Queues of the events that end a steering.
LEMMA ClosingQueues ==
    LET Ends == Closing \cup {"infoSave"}
    IN  /\ <<>> \in Seq(Closing) /\ <<>> \in Seq(Ends)
        /\ \A e \in Closing : <<e>> \in Seq(Closing)
        /\ <<"infoSave">> \in Seq(Ends) /\ <<REJOIN_DONE>> \in Seq(Ends)
        /\ <<"infoSave", REJOIN_DONE>> \in Seq(Ends)
        /\ \A q \in Seq(Closing) : q \in Seq(Ends)
        /\ \A q \in Seq(Ends) : q # <<>> => Head(q) \in Ends /\ Tail(q) \in Seq(Ends)
        /\ \A q \in Seq(Closing) : q # <<>> => Head(q) \in Closing /\ Tail(q) \in Seq(Closing)
        /\ START \notin Ends /\ PERMITJOIN \in Closing /\ RETRIEVE \notin Ends
        /\ CONFIRM \in Closing /\ STEER_FINISH \in Closing /\ REJOIN_DONE \in Closing
<1> DEFINE Ends == Closing \cup {"infoSave"}
<1>1. /\ START \notin Ends /\ PERMITJOIN \in Closing /\ RETRIEVE \notin Ends
      /\ CONFIRM \in Closing /\ STEER_FINISH \in Closing /\ REJOIN_DONE \in Closing
      /\ "infoSave" \in Ends
    BY DEF Closing, START, PERMITJOIN, CONFIRM, RETRIEVE, STEER_FINISH, REJOIN_DONE
<1>2. Closing \subseteq Ends
    OBVIOUS
<1> HIDE DEF Ends
<1>3. \A q \in Seq(Closing) : q \in Seq(Ends)
    BY <1>2
<1> QED
    BY <1>1, <1>2, <1>3 DEF Ends

\* bdbInitCb runs on a device that is joined, or starts to steer.
LEMMA InitDoneKeeps ==
    ASSUME IInv, InitDone
    PROVE  Staged'
<1> USE DEF INIT_DONE
<1>1. InitOK /\ LinkOK
    BY Zenon DEF IInv, Staged, InitDone
<1>2. tasks = <<INIT_DONE>> /\ nwk = "idle" /\ (nodeIsOnANetwork <=> joined)
    BY <1>1, Zenon DEF InitOK, InitDone, At
<1>3. Tail(tasks) = <<>>
    BY <1>2, ShortQueues, Zenon
<1>4. Pending' = 0 /\ state' = "IDLE" /\ UNCHANGED <<joined, nwk, leaving, status>>
    BY <1>1, PendingChanges DEF InitDone, InitOK, IInv, link
<1>5. CASE joined
    <2>1. told' = "JOINED" /\ tasks' \in {<<>>, <<"infoSave">>}
        BY <1>2, <1>3, <1>5, ShortQueues, Zenon DEF InitDone, Pop
    <2>2. tasks' \in Seq(Closing \cup {"infoSave"})
        BY <2>1, ClosingQueues
    <2> QED
        BY <1>1, <1>2, <1>4, <1>5, <2>1, <2>2 DEF Staged, LinkOK, IdleOK
<1>6. CASE ~joined
    <2>1. tasks' = <<START>> \/ tasks' = <<>>
        BY <1>2, <1>3, <1>6, ShortQueues, Zenon DEF InitDone, Pop
    <2>2. Free("IDLE", commissioningStatus) /\ tasks' = <<START>>
        BY <1>1, <1>2, <1>3, <1>6, ShortQueues DEF InitDone, Pop, Free, InitOK, SUCCESS
    <2>3. <<START>> # <<>>
        BY ShortQueues
    <2> QED
        BY <1>1, <1>2, <1>4, <1>6, <2>2, <2>3 DEF Staged, LinkOK, IdleOK, Restful
<1> QED
    BY <1>5, <1>6

\* In BDB_STATE_IDLE only a device that is not joined has a steering queued.
LEMMA IdleQueue ==
    ASSUME IInv, state = "IDLE"
    PROVE  /\ IdleOK /\ LinkOK
           /\ tasks # <<>> => nwk = "idle"
           /\ joined /\ tasks # <<>> => Head(tasks) \in Closing \cup {"infoSave"}
                 /\ Tail(tasks) \in Seq(Closing \cup {"infoSave"})
           /\ ~joined /\ tasks # <<>> =>
                 \/ Head(tasks) = START /\ Tail(tasks) \in {<<>>, <<START>>}
                 \/ /\ Head(tasks) = REJOIN_DONE /\ Tail(tasks) \in {<<>>, <<START>>}
           /\ tasks # <<>> => Tail(tasks) \o <<>> = Tail(tasks)
<1>1. IdleOK /\ LinkOK
    BY Zenon DEF IInv, Staged
<1>2. tasks # <<>> => nwk = "idle"
    BY <1>1, Zenon DEF IdleOK
<1>3. joined /\ tasks # <<>> => Head(tasks) \in Closing \cup {"infoSave"}
                 /\ Tail(tasks) \in Seq(Closing \cup {"infoSave"})
    BY <1>1, ClosingQueues, Zenon DEF IdleOK
<1>4. ~joined /\ tasks # <<>> =>
                 \/ Head(tasks) = START /\ Tail(tasks) \in {<<>>, <<START>>}
                 \/ Head(tasks) = REJOIN_DONE /\ Tail(tasks) \in {<<>>, <<START>>}
    <2>1. CASE tasks = <<REJOIN_DONE>>
        BY <2>1
    <2>2. CASE tasks = <<REJOIN_DONE, START>>
        BY <2>2
    <2>3. CASE tasks = <<START>>
        BY <2>3
    <2>4. CASE tasks = <<START, START>>
        BY <2>4
    <2> QED
        BY <1>1, <2>1, <2>2, <2>3, <2>4, Zenon DEF IdleOK, Restful
<1>5. tasks # <<>> => Tail(tasks) \o <<>> = Tail(tasks)
    BY DEF IInv, TypeOK
<1> QED
    BY <1>1, <1>2, <1>3, <1>4, <1>5

\* A steering begins with the queue empty, but for a second start.
LEMMA SteerStartKeeps ==
    ASSUME IInv, SteerStart
    PROVE  Staged'
<1>1. state = "IDLE" /\ tasks # <<>> /\ Head(tasks) = START
    BY DEF SteerStart, At
<1>2. ~joined /\ nwk = "idle" /\ Tail(tasks) \in {<<>>, <<START>>} /\ Pending = 0
    BY <1>1, IdleQueue, ClosingQueues, Zenon DEF IdleOK
<1>3. Pending' = 0 /\ state' = "STEER" /\ UNCHANGED <<joined, leaving, status>>
    BY <1>2, PendingChanges DEF SteerStart, IInv
<1>4. LinkOK'
    BY <1>1, <1>2, <1>3, IdleQueue DEF LinkOK
<1>5. CASE nodeIsOnANetwork
    <2>1. <<>> \o <<CONFIRM>> = <<CONFIRM>> /\ <<START>> \o <<CONFIRM>> = <<START, CONFIRM>>
        BY ShortQueues
    <2>2. tasks' = <<CONFIRM>> \/ tasks' = <<START, CONFIRM>>
        BY <1>2, <1>5, <2>1, Zenon DEF SteerStart, Pop, CONFIRM
    <2>3. ToEnd'
        BY <1>2, <1>3, <2>2, ClosingQueues, Zenon DEF ToEnd
    <2>4. nwk' = "idle"
        BY <1>2, <1>5, Zenon DEF SteerStart
    <2> QED
        BY <1>3, <1>4, <2>3, <2>4 DEF Staged, SteerOK
<1>6. CASE ~nodeIsOnANetwork
    <2>1. tasks' \in {<<>>, <<START>>} /\ nwk' = "joining"
        BY <1>1, <1>2, <1>6, IdleQueue, Zenon DEF SteerStart, Pop
    <2> QED
        BY <1>3, <1>4, <2>1 DEF Staged, SteerOK
<1> QED
    BY <1>5, <1>6

\* The end of a rejoin is confirmed: a device that is not joined waits to retry.
LEMMA RejoinDoneKeeps ==
    ASSUME IInv, RejoinDone
    PROVE  Staged'
<1>1. state = "IDLE" /\ tasks # <<>> /\ Head(tasks) = REJOIN_DONE
    BY DEF RejoinDone, At
<1>2. IdleOK /\ LinkOK /\ nwk = "idle" /\ tasks' = Tail(tasks)
    BY <1>1, IdleQueue, Zenon DEF RejoinDone, Pop
<1>3. Pending' = 0 /\ UNCHANGED <<state, status, joined, nwk, leaving>>
    BY <1>2, PendingChanges DEF RejoinDone, ctx, link, IdleOK, IInv
<1>4. CASE joined
    <2>1. told' = "JOINED"
        BY <1>2, <1>4, Zenon DEF RejoinDone, Confirm, LinkOK
    <2> QED
        BY <1>1, <1>2, <1>3, <1>4, <2>1, IdleQueue DEF Staged, LinkOK, IdleOK
<1>5. CASE ~joined
    <2>1. tasks' \in {<<>>, <<START>>}
        BY <1>1, <1>2, <1>5, IdleQueue, ClosingQueues, Zenon
    <2>2. told' = "NOT_JOINED" => Has("retry")'
        BY DEF RejoinDone, Confirm, Has, IInv, TypeOK, Timers
    <2> QED
        BY <1>1, <1>2, <1>3, <1>5, <2>1, <2>2 DEF Staged, LinkOK, IdleOK, Restful
<1> QED
    BY <1>4, <1>5

\* What can be at the head of the queue while bdb steers, and what is left.
LEMMA SteerQueue ==
    ASSUME IInv, state = "STEER", tasks # <<>>
    PROVE  /\ SteerOK /\ LinkOK
           /\ Head(tasks) \in {START, RETRIEVE} \cup Closing
           /\ Tail(tasks) \o <<>> = Tail(tasks)
           /\ Head(tasks) = START =>
                 \/ Tail(tasks) = <<>>
                       /\ ((nwk = "joining" /\ Pending = 0) \/ (nwk = "idle" /\ TimerRuns))
                 \/ nwk = "idle" /\ Pending = 0 /\ (joined => NoRequests)
                       /\ (Tail(tasks) = <<RETRIEVE>> \/ \E e \in Closing : Tail(tasks) = <<e>>)
           /\ Head(tasks) = RETRIEVE =>
                 nwk = "idle" /\ Pending = 0 /\ Tail(tasks) = <<>> /\ (joined => NoRequests)
           /\ Head(tasks) \in Closing => 
                 /\ nwk = "idle" /\ Pending = 0
                 /\ Tail(tasks) = <<>> \/ (joined /\ Tail(tasks) \in Seq(Closing))
<1> USE DEF START, RETRIEVE, Closing, PERMITJOIN, CONFIRM, STEER_FINISH
<1>1. SteerOK /\ LinkOK
    BY Zenon DEF IInv, Staged
<1>2. Tail(tasks) \o <<>> = Tail(tasks)
    BY DEF IInv, TypeOK
<1>3. CASE tasks = <<START>>
    <2>1. Head(tasks) = START /\ Tail(tasks) = <<>>
        BY <1>3
    <2>2. tasks \notin Seq(Closing)
        BY <2>1
    <2>3. /\ tasks \notin {<<RETRIEVE>>, <<START, RETRIEVE>>}
          /\ \A e \in Closing : tasks # <<e>> /\ tasks # <<START, e>>
        BY <1>3
    <2>4. (nwk = "joining" /\ Pending = 0) \/ (nwk = "idle" /\ TimerRuns)
        <3>1. ~ToRetrieve /\ ~ToEnd
            BY <2>2, <2>3, Zenon DEF ToRetrieve, ToEnd
        <3> QED
            BY <1>1, <3>1 DEF SteerOK
    <2> QED
        BY <1>1, <1>2, <2>1, <2>4
<1>4. CASE tasks = <<RETRIEVE>> \/ tasks = <<START, RETRIEVE>>
    <2>1. nwk = "idle" /\ ToRetrieve
        BY <1>1, <1>4 DEF SteerOK, TimerRuns, ToEnd
    <2>2. \/ Head(tasks) = RETRIEVE /\ Tail(tasks) = <<>>
          \/ Head(tasks) = START /\ Tail(tasks) = <<RETRIEVE>>
        <3>1. CASE tasks = <<RETRIEVE>>
            BY <3>1
        <3>2. CASE tasks = <<START, RETRIEVE>>
            BY <3>2
        <3> QED
            BY <1>4, <3>1, <3>2
    <2> QED
        BY <1>1, <1>2, <2>1, <2>2, Zenon DEF ToRetrieve
<1>5. CASE \E e \in Closing : tasks = <<START, e>>
    <2>1. PICK e \in Closing : tasks = <<START, e>>
        BY <1>5
    <2>2. nwk = "idle" /\ ToEnd
        BY <1>1, <2>1 DEF SteerOK, TimerRuns, ToRetrieve
    <2>3. Head(tasks) = START /\ Tail(tasks) = <<e>>
        BY <2>1
    <2> QED
        BY <1>1, <1>2, <2>1, <2>2, <2>3 DEF ToEnd
<1>6. CASE \E e \in Closing : tasks = <<e>>
    <2>1. PICK e \in Closing : tasks = <<e>>
        BY <1>6
    <2>2. nwk = "idle" /\ ToEnd
        BY <1>1, <2>1 DEF SteerOK, TimerRuns, ToRetrieve
    <2>3. Head(tasks) = e /\ Tail(tasks) = <<>>
        BY <2>1
    <2> QED
        BY <1>1, <1>2, <2>1, <2>2, <2>3 DEF ToEnd
<1>7. CASE tasks \in Seq(Closing) /\ joined /\ nwk = "idle" /\ ToEnd
    <2>1. Head(tasks) \in Closing /\ Tail(tasks) \in Seq(Closing)
        BY <1>7
    <2> QED
        BY <1>1, <1>2, <1>7, <2>1 DEF ToEnd
<1> QED
    BY <1>1, <1>3, <1>4, <1>5, <1>6, <1>7, Zenon DEF SteerOK, TimerRuns, ToRetrieve, ToEnd

\* The key is retrieved after the 200 ms of bdb_retrieveTcLinkKeyStart.
LEMMA SteerRetrieveKeeps ==
    ASSUME IInv, SteerRetrieve
    PROVE  Staged'
<1>1. state = "STEER" /\ tasks # <<>> /\ Head(tasks) = RETRIEVE
    BY DEF SteerRetrieve, At
<1>2. /\ nwk = "idle" /\ Pending = 0 /\ Tail(tasks) = <<>> /\ (joined => NoRequests)
      /\ LinkOK /\ tasks' = <<>>
    BY <1>1, SteerQueue, Zenon DEF SteerRetrieve, Pop
<1>3. Pending' = 1 /\ UNCHANGED <<state, status, joined, nwk, leaving, descReqs, keyReqs>>
    BY <1>2 DEF SteerRetrieve, Arm, Pending, Timers, IInv, TypeOK, ctx, link, reqs
<1>4. TimerRuns'
    BY <1>2, <1>3 DEF TimerRuns, NoRequests
<1>5. LinkOK'
    BY <1>2, <1>3 DEF LinkOK
<1> QED
    BY <1>1, <1>2, <1>3, <1>4, <1>5 DEF Staged, SteerOK

\* An event that ends a steering makes room for the next one.
LEMMA EndAdvances ==
    ASSUME IInv, state = "STEER", tasks # <<>>, Head(tasks) \in Closing,
           NEW e \in Closing, tasks' = Tail(tasks) \o <<e>>, Pending' = 0, joined' = joined
    PROVE  ToEnd'
<1>1. Tail(tasks) = <<>> \/ (joined /\ Tail(tasks) \in Seq(Closing))
    BY SteerQueue, Zenon
<1>2. CASE Tail(tasks) = <<>>
    <2>1. <<>> \o <<e>> = <<e>>
        BY ShortQueues
    <2>2. tasks' = <<e>>
        BY <1>2, <2>1, Zenon
    <2> QED
        BY <2>2, Zenon DEF ToEnd
<1>3. CASE joined /\ Tail(tasks) \in Seq(Closing)
    <2>1. <<e>> \in Seq(Closing) /\ <<e>> # <<>>
        BY ClosingQueues, ShortQueues
    <2>2. \A q, n \in Seq(Closing) : q \o n \in Seq(Closing) /\ (n # <<>> => q \o n # <<>>)
        BY QueueType
    <2>3. tasks' \in Seq(Closing) /\ tasks' # <<>>
        BY <1>3, <2>1, <2>2, Zenon
    <2> QED
        BY <1>3, <2>3, Zenon DEF ToEnd
<1> QED
    BY <1>1, <1>2, <1>3

\* The network is opened for others, which bdb_mgmtPermitJoiningConfirm ends.
LEMMA SteerPermitJoinKeeps ==
    ASSUME IInv, SteerPermitJoin
    PROVE  Staged'
<1>1. state = "STEER" /\ tasks # <<>> /\ Head(tasks) \in Closing
    BY DEF SteerPermitJoin, At, Closing
<1>2. /\ nwk = "idle" /\ Pending = 0 /\ LinkOK
      /\ Tail(tasks) = <<>> \/ (joined /\ Tail(tasks) \in Seq(Closing))
      /\ tasks' = Tail(tasks) \o <<CONFIRM>>
    BY <1>1, SteerQueue, Zenon DEF SteerPermitJoin, Pop, CONFIRM
<1>3. Pending' = 0 /\ UNCHANGED <<state, status, joined, nwk, leaving>>
    BY <1>2, PendingChanges DEF SteerPermitJoin, ctx, link, IInv
<1>4. ToEnd'
    BY <1>1, <1>2, <1>3, EndAdvances, ClosingQueues, Zenon
<1>5. LinkOK'
    BY <1>2, <1>3 DEF LinkOK
<1> QED
    BY <1>1, <1>2, <1>3, <1>4, <1>5 DEF Staged, SteerOK

\* A steering ends with nothing left that a later one could take for its own.
LEMMA SteerFinishKeeps ==
    ASSUME IInv, SteerFinish
    PROVE  Staged'
<1>1. state = "STEER" /\ tasks # <<>> /\ Head(tasks) \in Closing
    BY DEF SteerFinish, At, Closing
<1>2. /\ nwk = "idle" /\ Pending = 0 /\ LinkOK /\ tasks' = Tail(tasks)
      /\ Tail(tasks) = <<>> \/ (joined /\ Tail(tasks) \in Seq(Closing))
    BY <1>1, SteerQueue, Zenon DEF SteerFinish, Pop
<1>3. Pending' = 0 /\ state' = "IDLE" /\ UNCHANGED <<status, joined, nwk, leaving>>
    BY <1>2, PendingChanges DEF SteerFinish, link, IInv
<1>4. tasks' \in Seq(Closing) /\ tasks' \in Seq(Closing \cup {"infoSave"})
    BY <1>2, ClosingQueues, Zenon
<1>5. joined => told' = "JOINED"
    BY <1>2, Zenon DEF SteerFinish, Confirm, LinkOK
<1>6. told' = "NOT_JOINED" => Has("retry")'
    BY DEF SteerFinish, Confirm, Has, IInv, TypeOK, Timers
<1>7. IdleOK'
    BY <1>2, <1>3, <1>4, <1>5, <1>6 DEF IdleOK, Restful
<1>8. LinkOK'
    BY <1>2, <1>3 DEF LinkOK
<1> QED
    BY <1>3, <1>7, <1>8 DEF Staged

\* An event that is lost was of no use: a second start, or what is left over
\* when a steering has ended.
LEMMA LostKeeps ==
    ASSUME IInv, Lost
    PROVE  Staged'
<1>1. /\ UNCHANGED <<timers, state, status, commissioningStatus, told, joined, nwk, leaving,
                     descReqs, keyReqs>>
      /\ tasks # <<>> /\ tasks' = Tail(tasks) \o <<>>
    BY Zenon DEF Lost, At, Pop, ctx, attrs, link, reqs
<1>2. Pending' = Pending
    BY <1>1, PendingChanges DEF IInv
<1>3. CASE state = "IDLE"
    <2>1. Head(tasks) \notin {START, REJOIN_DONE}
        BY <1>3 DEF Lost, At
    <2>2. joined /\ IdleOK /\ LinkOK /\ tasks' \in Seq(Closing \cup {"infoSave"})
        BY <1>1, <1>3, <2>1, IdleQueue, Zenon
    <2> QED
        BY <1>1, <1>2, <1>3, <2>2 DEF Staged, IdleOK, LinkOK
<1>4. CASE state = "STEER"
    <2>1. Head(tasks) = START
        <3>1. Head(tasks) \in Events \ {RETRIEVE, PERMITJOIN, STEER_FINISH}
            BY <1>4 DEF Lost, At
        <3>2. Head(tasks) \in {START, INIT_DONE}
            BY <3>1 DEF Events
        <3>3. INIT_DONE \notin {START, RETRIEVE} \cup Closing
            BY DEF INIT_DONE, START, RETRIEVE, Closing, PERMITJOIN, CONFIRM, STEER_FINISH
        <3> QED
            BY <1>1, <1>4, <3>2, <3>3, SteerQueue
    <2>2. LinkOK /\ tasks' = Tail(tasks)
        BY <1>1, <1>4, SteerQueue, Zenon
    <2>3. CASE Tail(tasks) = <<>> /\ nwk = "joining" /\ Pending = 0
        BY <1>1, <1>2, <1>4, <2>2, <2>3 DEF Staged, SteerOK, LinkOK
    <2>4. CASE Tail(tasks) = <<>> /\ nwk = "idle" /\ TimerRuns
        <3>1. TimerRuns'
            BY <1>1, <1>2, <2>2, <2>4 DEF TimerRuns, NoRequests
        <3> QED
            BY <1>1, <1>4, <2>2, <2>4, <3>1 DEF Staged, SteerOK, LinkOK
    <2>5. CASE nwk = "idle" /\ Pending = 0 /\ Tail(tasks) = <<RETRIEVE>> /\ (joined => NoRequests)
        <3>1. ToRetrieve'
            BY <1>1, <1>2, <2>2, <2>5 DEF ToRetrieve, NoRequests
        <3> QED
            BY <1>1, <1>4, <2>2, <2>5, <3>1 DEF Staged, SteerOK, LinkOK
    <2>6. CASE nwk = "idle" /\ Pending = 0 /\ \E e \in Closing : Tail(tasks) = <<e>>
        <3>1. ToEnd'
            BY <1>1, <1>2, <2>2, <2>6, Zenon DEF ToEnd
        <3> QED
            BY <1>1, <1>4, <2>2, <2>6, <3>1 DEF Staged, SteerOK, LinkOK
    <2> QED
        BY <1>1, <1>4, <2>1, <2>3, <2>4, <2>5, <2>6, SteerQueue, Zenon
<1> QED
    BY <1>3, <1>4 DEF Lost

\* bdb_mgmtPermitJoiningConfirm ends a steering, and saves its network.
LEMMA PermitJoiningConfirmKeeps ==
    ASSUME IInv, PermitJoiningConfirm
    PROVE  Staged'
<1>1. /\ UNCHANGED <<timers, state, commissioningStatus, told, joined, nwk, leaving>>
      /\ tasks # <<>> /\ Head(tasks) = CONFIRM /\ status' = SUCCESS
    BY Zenon DEF PermitJoiningConfirm, At, attrs, link, CONFIRM
<1>2. Pending' = Pending /\ LinkOK'
    BY <1>1, PendingChanges DEF IInv, Staged, LinkOK
<1>3. CASE state = "IDLE"
    <2>1. joined /\ IdleOK /\ Tail(tasks) \in Seq(Closing \cup {"infoSave"})
        BY <1>1, <1>3, IdleQueue DEF CONFIRM, START, REJOIN_DONE
    <2>2. tasks' = Tail(tasks)
        BY <1>1, <1>3, IdleQueue DEF PermitJoiningConfirm, Pop
    <2> QED
        BY <1>1, <1>2, <1>3, <2>1, <2>2 DEF Staged, IdleOK
<1>4. CASE state = "STEER"
    <2>1. tasks' = Tail(tasks) \o <<STEER_FINISH>> /\ Head(tasks) \in Closing
        BY <1>1, <1>4 DEF PermitJoiningConfirm, Pop, Closing
    <2>2. nwk = "idle" /\ Pending = 0
        BY <1>1, <1>4, <2>1, SteerQueue, Zenon
    <2>3. ToEnd'
        BY <1>1, <1>2, <1>4, <2>1, <2>2, EndAdvances, ClosingQueues, Zenon
    <2> QED
        BY <1>1, <1>2, <1>4, <2>2, <2>3 DEF Staged, SteerOK
<1>5. state # "INIT"
    <2>1. ASSUME state = "INIT" PROVE FALSE
        <3>1. tasks = <<INIT_DONE>>
            BY <1>1, <2>1 DEF IInv, Staged, InitOK
        <3> QED
            BY <1>1, <3>1 DEF INIT_DONE, CONFIRM
    <2> QED
        BY <2>1
<1> QED
    BY <1>3, <1>4, <1>5 DEF IInv, TypeOK, States

\* bdb_commissioningInfoSave is queued only on a device that is joined.
LEMMA InfoSaveKeeps ==
    ASSUME IInv, InfoSave
    PROVE  Staged'
<1>1. /\ UNCHANGED <<timers, state, status, commissioningStatus, told, joined, nwk, leaving>>
      /\ tasks # <<>> /\ Head(tasks) = "infoSave" /\ tasks' = Tail(tasks) \o <<>>
    BY Zenon DEF InfoSave, At, Pop, ctx, attrs, link
<1>2. Pending' = Pending /\ LinkOK'
    BY <1>1, PendingChanges DEF IInv, Staged, LinkOK
<1>3. CASE state = "IDLE"
    <2>1. joined /\ IdleOK /\ Tail(tasks) \in Seq(Closing \cup {"infoSave"})
             /\ tasks' = Tail(tasks)
        BY <1>1, <1>3, IdleQueue DEF START, REJOIN_DONE
    <2> QED
        BY <1>1, <1>2, <1>3, <2>1 DEF Staged, IdleOK
<1>4. state # "STEER"
    BY <1>1, SteerQueue DEF START, RETRIEVE, Closing, PERMITJOIN, CONFIRM, STEER_FINISH
<1>5. state # "INIT"
    <2>1. ASSUME state = "INIT" PROVE FALSE
        <3>1. tasks = <<INIT_DONE>>
            BY <1>1, <2>1 DEF IInv, Staged, InitOK
        <3> QED
            BY <1>1, <3>1 DEF INIT_DONE
    <2> QED
        BY <2>1
<1> QED
    BY <1>3, <1>4, <1>5 DEF IInv, TypeOK, States

-----------------------------------------------------------------------------
(***************************************************************************)
(* The exchange of the trust center's link key.                            *)
(***************************************************************************)
\* Only a steering has these timers, one at a time.
LEMMA OneTimer ==
    ASSUME IInv, Pending # 0
    PROVE  /\ state = "STEER" /\ nwk = "idle" /\ TimerRuns /\ LinkOK
           /\ Has("keyStart") \/ Has("keyTimeout") => tasks = <<>>
           /\ Has("keyTimeout") => timers["keyTimeout"] = 1 /\ timers["keyStart"] = 0
           /\ Has("keyStart") => timers["keyStart"] = 1 /\ timers["keyTimeout"] = 0
           /\ Has("delayRetrieve") \/ Has("delayPermit") => timers["keyTimeout"] = 0
<1>1. state = "STEER"
    BY DEF IInv, Staged, InitOK, IdleOK, TypeOK, States
<1>2. nwk = "idle" /\ TimerRuns /\ LinkOK
    BY <1>1 DEF IInv, Staged, SteerOK, ToRetrieve, ToEnd
<1> QED
    BY <1>1, <1>2 DEF TimerRuns, Has, Pending, IInv, TypeOK, Timers

\* bdb_task_delay ends: the key is to be retrieved, or the network opened.
LEMMA DelayedKeeps ==
    ASSUME IInv, Delayed
    PROVE  Staged'
<1>1. Pending # 0 /\ (Has("delayRetrieve") \/ Has("delayPermit"))
    BY DEF Delayed, Has, Pending, IInv, TypeOK, Timers
<1>2. /\ state = "STEER" /\ nwk = "idle" /\ Pending = 1 /\ LinkOK
      /\ tasks = <<>> \/ tasks = <<START>>
      /\ joined => NoRequests
    BY <1>1, OneTimer, Zenon DEF TimerRuns
<1>3. Pending' = 0
    BY <1>2 DEF Delayed, End, Has, Pending, IInv, TypeOK, Timers
<1>4. UNCHANGED <<state, status, joined, nwk, leaving, descReqs, keyReqs>>
    BY DEF Delayed, ctx, link, reqs
<1>5. /\ <<>> \o <<RETRIEVE>> = <<RETRIEVE>> /\ <<START>> \o <<RETRIEVE>> = <<START, RETRIEVE>>
      /\ <<>> \o <<PERMITJOIN>> = <<PERMITJOIN>>
      /\ <<START>> \o <<PERMITJOIN>> = <<START, PERMITJOIN>>
    BY ShortQueues
<1>6. CASE Post(<<RETRIEVE>>)
    <2>1. ToRetrieve'
        BY <1>2, <1>3, <1>4, <1>5, <1>6 DEF ToRetrieve, Post, NoRequests
    <2> QED
        BY <1>2, <1>4, <2>1 DEF Staged, SteerOK, LinkOK
<1>7. CASE Post(<<PERMITJOIN>>)
    <2>1. tasks' = <<PERMITJOIN>> \/ tasks' = <<START, PERMITJOIN>>
        BY <1>2, <1>5, <1>7, Zenon DEF Post
    <2>2. (joined => NoRequests)'
        BY <1>2, <1>4 DEF NoRequests
    <2>3. ToEnd'
        BY <1>3, <2>1, <2>2, ClosingQueues, Zenon DEF ToEnd
    <2> QED
        BY <1>2, <1>4, <2>3 DEF Staged, SteerOK, LinkOK
<1> QED
    BY <1>6, <1>7 DEF Delayed

\* A request is sent, sent again, or given up while its timer runs.
LEMMA KeyTimerKeeps ==
    ASSUME IInv, KeyStart \/ KeyRetry \/ KeyGiveUp(TRUE) \/ KeyGiveUp(FALSE)
    PROVE  Staged'
<1>1. Pending # 0 /\ (Has("keyStart") \/ Has("keyTimeout"))
    BY DEF KeyStart, KeyRetry, KeyGiveUp, Has, Pending, IInv, TypeOK, Timers
<1>2. /\ state = "STEER" /\ nwk = "idle" /\ Pending = 1 /\ LinkOK /\ tasks = <<>>
      /\ Has("keyTimeout") => timers["keyTimeout"] = 1
      /\ Has("keyStart") => timers["keyStart"] = 1 /\ timers["keyTimeout"] = 0
    BY <1>1, OneTimer, Zenon DEF TimerRuns
<1>3. UNCHANGED <<tasks, state, status, joined, nwk>>
    BY DEF KeyStart, KeyRetry, KeyGiveUp, ctx, link
<1>4. Pending' = 1 /\ timers'["keyTimeout"] = 1
    <2>1. CASE UNCHANGED timers /\ Has("keyTimeout")
        BY <1>2, <2>1 DEF Pending
    <2>2. CASE KeyStart
        BY <1>2, <2>2 DEF KeyStart, Become, Has, Pending, IInv, TypeOK, Timers
    <2> QED
        BY <2>1, <2>2 DEF KeyRetry, KeyGiveUp
<1>5. leaving' => joined
    BY <1>2, Zenon DEF LinkOK, KeyStart, KeyRetry, KeyGiveUp, link
<1>6. TimerRuns' /\ LinkOK'
    BY <1>2, <1>3, <1>4, <1>5 DEF TimerRuns, LinkOK
<1> QED
    BY <1>2, <1>3, <1>6 DEF Staged, SteerOK

\* The steering of a device that has left fails, and nothing else is queued.
LEMMA KeyFailedKeeps ==
    ASSUME IInv, KeyFailed
    PROVE  Staged'
<1>1. Pending # 0 /\ Has("keyTimeout")
    BY DEF KeyFailed, Has, Pending, IInv, TypeOK, Timers
<1>2. state = "STEER" /\ nwk = "idle" /\ Pending = 1 /\ LinkOK /\ tasks = <<>> /\ ~joined
    BY <1>1, OneTimer, Zenon DEF TimerRuns, KeyFailed
<1>3. UNCHANGED <<state, joined, nwk, leaving>>
    BY DEF KeyFailed, link
<1>4. Pending' = 0
    BY <1>1, <1>2 DEF KeyFailed, End, Has, Pending, IInv, TypeOK, Timers
<1>5. tasks' = <<STEER_FINISH>>
    BY <1>2, ShortQueues, Zenon DEF KeyFailed, Post
<1>6. ToEnd' /\ LinkOK'
    BY <1>2, <1>3, <1>4, <1>5, ClosingQueues, Zenon DEF ToEnd, LinkOK
<1> QED
    BY <1>2, <1>3, <1>6 DEF Staged, SteerOK

\* An answer can come only to a request of this steering, or once it has ended.
LEMMA Answered ==
    ASSUME IInv, joined, ~NoRequests
    PROVE  /\ LinkOK /\ nwk = "idle" /\ state # "INIT"
           /\ state = "IDLE" => IdleOK /\ tasks \in Seq(Closing \cup {"infoSave"})
           /\ state = "STEER" =>
                 \/ TimerRuns /\ Has("keyTimeout") /\ tasks = <<>>
                 \/ Pending = 0 /\ tasks \in Seq(Closing) /\ tasks # <<>>
<1>1. LinkOK /\ nwk = "idle" /\ state # "INIT"
    BY Zenon DEF IInv, Staged, LinkOK, InitOK
<1>2. state = "IDLE" => IdleOK /\ tasks \in Seq(Closing \cup {"infoSave"})
    BY Zenon DEF IInv, Staged, IdleOK
<1>3. ASSUME state = "STEER" PROVE \/ TimerRuns /\ Has("keyTimeout") /\ tasks = <<>>
                                   \/ Pending = 0 /\ tasks \in Seq(Closing) /\ tasks # <<>>
    <2>1. TimerRuns \/ ToEnd
        BY <1>1, <1>3, Zenon DEF IInv, Staged, SteerOK, ToRetrieve
    <2>2. CASE TimerRuns
        BY <2>2 DEF TimerRuns, Has, IInv, TypeOK, Timers
    <2>3. CASE ToEnd
        <3>1. \/ \E e \in Closing : tasks = <<e>>
              \/ tasks \in Seq(Closing) /\ tasks # <<>>
            BY <2>3, Zenon DEF ToEnd
        <3>2. Pending = 0
            BY <2>3 DEF ToEnd
        <3> QED
            BY <3>1, <3>2, ClosingQueues, ShortQueues, Zenon
    <2> QED
        BY <2>1, <2>2, <2>3
<1> QED
    BY <1>1, <1>2, <1>3

\* bdb_retrieveTcLinkKeyDone stops the timer of the exchange, and the steering
\* goes on to its end; after the end it changes nothing that matters.
LEMMA KeyDoneKeeps ==
    ASSUME IInv, joined, ~NoRequests, KeyDone, UNCHANGED <<state, told, joined, nwk, leaving>>
    PROVE  Staged'
<1>1. LinkOK' /\ nwk' = "idle" /\ state' # "INIT"
    BY Answered DEF LinkOK, KeyDone
<1>2. tasks' = tasks \o <<PERMITJOIN>>
    BY DEF KeyDone, Post
<1>3. CASE state = "IDLE"
    <2>1. <<PERMITJOIN>> \in Seq(Closing \cup {"infoSave"})
        BY ClosingQueues, Zenon
    <2>2. \A q, n \in Seq(Closing \cup {"infoSave"}) : q \o n \in Seq(Closing \cup {"infoSave"})
        BY QueueType
    <2>3. tasks' \in Seq(Closing \cup {"infoSave"}) /\ IdleOK
        BY <1>2, <1>3, <2>1, <2>2, Answered, Zenon
    <2>4. Pending' = 0
        BY <2>3, PendingChanges DEF IdleOK, IInv
    <2> QED
        BY <1>1, <1>3, <2>3, <2>4 DEF Staged, IdleOK
<1>4. CASE state = "STEER"
    <2>1. <<PERMITJOIN>> \in Seq(Closing) /\ <<PERMITJOIN>> # <<>> /\ <<>> \in Seq(Closing)
        BY ClosingQueues, ShortQueues
    <2>2. \A q, n \in Seq(Closing) : q \o n \in Seq(Closing) /\ (n # <<>> => q \o n # <<>>)
        BY QueueType
    <2>3. tasks' \in Seq(Closing) /\ tasks' # <<>>
        BY <1>2, <1>4, <2>1, <2>2, Answered, Zenon
    <2>4. Pending' = 0
        BY <1>4, Answered, PendingChanges DEF TimerRuns, IInv
    <2>5. ToEnd'
        BY <2>3, <2>4, Zenon DEF ToEnd
    <2> QED
        BY <1>1, <1>4, <2>5 DEF Staged, SteerOK
<1> QED
    BY <1>1, <1>3, <1>4 DEF IInv, TypeOK, States

\* An answer that does not end the exchange leaves its timer running.
LEMMA AnswerKeeps ==
    ASSUME IInv, joined, ~NoRequests,
           UNCHANGED <<tasks, timers, state, status, told, joined, nwk, leaving>>
    PROVE  Staged'
<1>1. LinkOK' /\ nwk' = "idle" /\ state' # "INIT" /\ Pending' = Pending
    BY Answered DEF LinkOK, Pending
<1>2. CASE state = "IDLE"
    <2>1. IdleOK
        BY <1>2, Answered, Zenon
    <2> QED
        BY <1>1, <1>2, <2>1 DEF Staged, IdleOK
<1>3. CASE state = "STEER"
    <2>1. CASE TimerRuns /\ Has("keyTimeout") /\ tasks = <<>>
        <3>1. TimerRuns'
            BY <1>1, <2>1 DEF TimerRuns, Has, IInv, TypeOK, Timers
        <3> QED
            BY <1>1, <1>3, <3>1 DEF Staged, SteerOK
    <2>2. CASE Pending = 0 /\ tasks \in Seq(Closing) /\ tasks # <<>>
        <3>1. ToEnd'
            BY <1>1, <2>2, Zenon DEF ToEnd
        <3> QED
            BY <1>1, <1>3, <3>1 DEF Staged, SteerOK
    <2> QED
        BY <1>3, <2>1, <2>2, Answered, Zenon
<1> QED
    BY <1>1, <1>2, <1>3 DEF IInv, TypeOK, States

\* bdb_nodeDescRespHandler, and the end of a key request.
LEMMA AnswersKeep ==
    ASSUME IInv, NodeDescRsp \/ KeyRsp
    PROVE  Staged'
<1>1. joined /\ ~NoRequests /\ UNCHANGED <<state, told, joined, nwk, leaving>>
    BY DEF NodeDescRsp, KeyRsp, NoRequests, link
<1>2. KeyDone \/ UNCHANGED <<tasks, timers, status>>
    BY DEF NodeDescRsp, KeyRsp
<1> QED
    BY <1>1, <1>2, KeyDoneKeeps, AnswerKeeps

-----------------------------------------------------------------------------
(***************************************************************************)
(* The stack, the retries and the whole.                                   *)
(***************************************************************************)
\* bdb_zdoStartDevCnf finds bdb in the state that what has ended belongs to.
LEMMA NwkEndKeeps ==
    ASSUME IInv, NEW ok \in BOOLEAN, NwkEnd(ok)
    PROVE  Staged'
<1>1. /\ nwk # "idle" /\ (nwk = "starting" => ok)
      /\ nwk' = "idle" /\ joined' = ok /\ StartDevCnf(ok)
      /\ UNCHANGED <<state, commissioningStatus, told, leaving>>
    BY Zenon DEF NwkEnd
<1>2. ~joined /\ ~leaving /\ LinkOK
    BY <1>1, Zenon DEF IInv, Staged, LinkOK
<1>3. CASE state = "INIT"
    <2>1. /\ tasks = <<>> /\ nwk = "starting" /\ nodeIsOnANetwork /\ Pending = 0 /\ status = SUCCESS
          /\ commissioningStatus = SUCCESS /\ NoRequests
        BY <1>1, <1>3, Zenon DEF IInv, Staged, InitOK
    <2>2. Post(<<INIT_DONE>>) /\ UNCHANGED <<timers, status, nodeIsOnANetwork>>
        BY <1>1, <1>3 DEF StartDevCnf
    <2>3. tasks' = <<INIT_DONE>>
        BY <2>1, <2>2, ShortQueues, Zenon DEF Post
    <2>4. NoRequests'
        BY <2>1 DEF NwkEnd, NoRequests
    <2>5. Pending' = 0
        BY <2>1, <2>2, PendingChanges DEF IInv
    <2> QED
        BY <1>1, <1>2, <1>3, <2>1, <2>2, <2>3, <2>4, <2>5 DEF Staged, InitOK, LinkOK
<1>4. CASE state = "IDLE"
    <2>1. tasks = <<>> /\ told = "JOINED" /\ Pending = 0
        BY <1>1, <1>4, Zenon DEF IInv, Staged, IdleOK
    <2>2. /\ UNCHANGED timers /\ (ok => status' = SUCCESS)
          /\ Post(<<REJOIN_DONE>>) \/ (ok /\ Post(<<"infoSave", REJOIN_DONE>>))
        BY <1>1, <1>4 DEF StartDevCnf
    <2>3. /\ <<>> \o <<REJOIN_DONE>> = <<REJOIN_DONE>>
          /\ <<>> \o <<"infoSave", REJOIN_DONE>> = <<"infoSave", REJOIN_DONE>>
        BY QueueType
    <2>4. tasks' = <<REJOIN_DONE>> \/ (ok /\ tasks' = <<"infoSave", REJOIN_DONE>>)
        BY <2>1, <2>2, <2>3, Zenon DEF Post
    <2>5. tasks' \in Seq(Closing \cup {"infoSave"})
        BY <2>4, ClosingQueues, Zenon
    <2>6. Pending' = 0
        BY <2>1, <2>2, PendingChanges DEF IInv
    <2>7. <<REJOIN_DONE>> # <<>>
        BY ShortQueues
    <2>8. IdleOK'
        BY <1>1, <2>1, <2>4, <2>5, <2>6, <2>7 DEF IdleOK, Restful
    <2>9. LinkOK'
        BY <1>1, <1>2, <2>2 DEF LinkOK
    <2> QED
        BY <1>1, <1>4, <2>8, <2>9 DEF Staged
<1>5. CASE state = "STEER"
    <2>1. nwk = "joining" /\ Pending = 0 /\ (tasks = <<>> \/ tasks = <<START>>)
        BY <1>1, <1>5, Zenon DEF IInv, Staged, SteerOK
    <2>2. NoRequests'
        BY <2>1 DEF NwkEnd, NoRequests
    <2>3. CASE ok
        <3>1. (Arm("delayRetrieve") \/ Arm("delayPermit")) /\ UNCHANGED tasks /\ status' = SUCCESS
            BY <1>1, <1>5, <2>3 DEF StartDevCnf
        <3>2. Pending' = 1 /\ timers'["keyStart"] = 0 /\ timers'["keyTimeout"] = 0
            BY <2>1, <3>1 DEF Arm, Pending, Timers, IInv, TypeOK
        <3>3. TimerRuns'
            BY <2>1, <2>2, <3>1, <3>2 DEF TimerRuns
        <3> QED
            BY <1>1, <1>2, <1>5, <3>1, <3>3 DEF Staged, SteerOK, LinkOK
    <2>4. CASE ~ok
        <3>1. Post(<<STEER_FINISH>>) /\ UNCHANGED timers
            BY <1>1, <1>5, <2>4 DEF StartDevCnf
        <3>2. /\ <<>> \o <<STEER_FINISH>> = <<STEER_FINISH>>
              /\ <<START>> \o <<STEER_FINISH>> = <<START, STEER_FINISH>>
            BY ShortQueues
        <3>3. tasks' = <<STEER_FINISH>> \/ tasks' = <<START, STEER_FINISH>>
            BY <2>1, <3>1, <3>2, Zenon DEF Post
        <3>4. Pending' = 0
            BY <2>1, <3>1, PendingChanges DEF IInv
        <3>5. ToEnd'
            BY <2>2, <3>3, <3>4, ClosingQueues, Zenon DEF ToEnd
        <3> QED
            BY <1>1, <1>2, <1>5, <2>4, <3>5 DEF Staged, SteerOK, LinkOK
    <2> QED
        BY <2>3, <2>4
<1> QED
    BY <1>3, <1>4, <1>5 DEF IInv, TypeOK, States

\* A device that leaves, or is removed, leaves nothing queued behind: what runs
\* is the timer of its steering, and one to retry if it was removed.
LEMMA LeavesKeep ==
    ASSUME IInv, LeaveCnf \/ LeaveInd
    PROVE  Staged'
<1>1. /\ tasks = <<>> /\ joined /\ nwk = "idle" /\ LinkOK
      /\ joined' = FALSE /\ leaving' = FALSE /\ UNCHANGED <<tasks, state, status, nwk>>
      /\ NoRequests'
    BY Zenon DEF IInv, Staged, LinkOK, LeaveCnf, LeaveInd, OffNetwork, ctx, NoRequests
<1>2. Pending' = Pending
    BY PendingChanges DEF LeaveCnf, LeaveInd, IInv
<1>3. state # "INIT"
    <2>1. <<INIT_DONE>> # <<>>
        BY ShortQueues
    <2> QED
        BY <1>1, <2>1 DEF IInv, Staged, InitOK
<1>4. LinkOK'
    BY <1>1 DEF LinkOK
<1>5. CASE state = "IDLE"
    <2>1. told = "JOINED" /\ Pending = 0
        BY <1>1, <1>5 DEF IInv, Staged, IdleOK
    <2>2. told' = "JOINED" \/ Has("retry")'
        BY <2>1 DEF LeaveCnf, LeaveInd, Arm, Has, IInv, TypeOK, Timers
    <2> QED
        BY <1>1, <1>2, <1>4, <1>5, <2>1, <2>2 DEF Staged, IdleOK, Restful
<1>6. CASE state = "STEER"
    <2>1. TimerRuns
        <3>1. \A e : <<e>> # <<>> /\ <<START, e>> # <<>>
            BY ShortQueues
        <3> QED
            BY <1>1, <1>6, <3>1 DEF IInv, Staged, SteerOK, ToRetrieve, ToEnd
    <2>2. TimerRuns'
        BY <1>1, <1>2, <2>1 DEF TimerRuns
    <2> QED
        BY <1>1, <1>4, <1>6, <2>2 DEF Staged, SteerOK
<1> QED
    BY <1>3, <1>5, <1>6 DEF IInv, TypeOK, States

\* The stack looks for its network again only while bdb is at rest.
LEMMA RejoinStartKeeps ==
    ASSUME IInv, RejoinStart
    PROVE  Staged'
<1>1. /\ tasks = <<>> /\ joined /\ ~leaving /\ state = "IDLE" /\ IdleOK
      /\ joined' = FALSE /\ nwk' = "rejoining"
      /\ UNCHANGED <<tasks, timers, state, told, leaving>>
    BY Zenon DEF RejoinStart, ctx, IInv, Staged
<1>2. Pending' = Pending
    BY <1>1, PendingChanges DEF IInv
<1> QED
    BY <1>1, <1>2 DEF Staged, IdleOK, Restful, LinkOK

\* What bdb's clauses speak of stays as it is, but for a timer to retry that
\* ends on a device that is joined.
LEMMA SameStage ==
    ASSUME IInv, Pending' = Pending, timers'["keyStart"] = timers["keyStart"],
           timers'["keyTimeout"] = timers["keyTimeout"],
           joined \/ timers'["retry"] = timers["retry"],
           UNCHANGED <<tasks, state, status, commissioningStatus, nodeIsOnANetwork, told, joined,
                       nwk, leaving, descReqs, keyReqs>>
    PROVE  Staged'
<1>1. LinkOK'
    BY DEF IInv, Staged, LinkOK
<1>2. CASE state = "INIT"
    BY <1>1, <1>2 DEF IInv, Staged, InitOK, NoRequests
<1>3. CASE state = "IDLE"
    BY <1>1, <1>3 DEF IInv, Staged, IdleOK, Restful, Has
<1>4. CASE state = "STEER"
    <2>1. (TimerRuns => TimerRuns') /\ (ToRetrieve => ToRetrieve') /\ (ToEnd => ToEnd')
        BY DEF TimerRuns, ToRetrieve, ToEnd, NoRequests
    <2>2. SteerOK'
        BY <1>4, <2>1 DEF IInv, Staged, SteerOK
    <2> QED
        BY <1>1, <1>4, <2>2 DEF Staged
<1> QED
    BY <1>2, <1>3, <1>4 DEF IInv, TypeOK, States

\* steer_retry_cb queues a second steering only behind an end or a start that
\* commissioningStatus no longer tells of, and never a third.
LEMMA SteerRetryKeeps ==
    ASSUME IInv, SteerRetry
    PROVE  Staged'
<1>1. UNCHANGED <<state, status, nodeIsOnANetwork, told, joined, nwk, leaving, descReqs, keyReqs>>
    BY DEF SteerRetry, ctx, link, reqs
<1>2. CASE joined \/ ~Free(state, commissioningStatus)
    <2>1. /\ (joined /\ End("retry")) \/ UNCHANGED timers
          /\ UNCHANGED <<tasks, commissioningStatus>>
        BY <1>2, Zenon DEF SteerRetry
    <2>2. /\ Pending' = Pending /\ timers'["keyStart"] = timers["keyStart"]
          /\ timers'["keyTimeout"] = timers["keyTimeout"]
          /\ joined \/ timers'["retry"] = timers["retry"]
        BY <2>1, PendingChanges DEF IInv
    <2> QED
        BY <1>1, <2>1, <2>2, SameStage
<1>3. CASE ~joined /\ Free(state, commissioningStatus)
    <2>1. /\ state = "IDLE" /\ nwk = "idle" /\ commissioningStatus # "IN_PROGRESS" /\ ~joined
          /\ Post(<<START>>) /\ commissioningStatus' = "IN_PROGRESS" /\ UNCHANGED timers
        BY <1>3, Zenon DEF SteerRetry, Free
    <2>2. tasks \in {<<>>, <<REJOIN_DONE>>, <<START>>} /\ Pending = 0 /\ LinkOK
        BY <2>1 DEF IInv, Staged, IdleOK, Restful
    <2>3. /\ <<>> \o <<START>> = <<START>> /\ <<START>> \o <<START>> = <<START, START>>
          /\ <<REJOIN_DONE>> \o <<START>> = <<REJOIN_DONE, START>>
          /\ <<START>> # <<>> /\ <<START, START>> # <<>> /\ <<REJOIN_DONE, START>> # <<>>
        BY ShortQueues
    <2>4. tasks' = <<START>> \/ tasks' = <<REJOIN_DONE, START>> \/ tasks' = <<START, START>>
        BY <2>1, <2>2, <2>3, Zenon DEF Post
    <2>5. Restful' /\ tasks' # <<>>
        BY <2>1, <2>3, <2>4, Zenon DEF Restful
    <2>6. Pending' = 0
        BY <2>1, <2>2, PendingChanges DEF IInv
    <2> QED
        BY <1>1, <2>1, <2>2, <2>5, <2>6 DEF Staged, LinkOK, IdleOK
<1> QED
    BY <1>2, <1>3

\* The initial state is one bdb_init leaves.
LEMMA InitIInv == Init => IInv
<1> SUFFICES ASSUME Init PROVE IInv
    OBVIOUS
<1>1. Used = 0 /\ Pending = 0 /\ timers \in [Timers -> Nat]
    BY DEF Init, Used, Pending, Timers
<1>2. tasks \in Seq(Tasks)
    BY Queues, Zenon DEF Init
<1>3. PoolOK /\ CountsOK
    BY <1>1, BdbAssumption DEF Init, PoolOK, CountsOK
<1>4. FlagsOK
    BY Zenon DEF Init, FlagsOK, States, Statuses, SUCCESS
<1>5. TypeOK
    BY <1>2, <1>3, <1>4, Zenon DEF TypeOK, PoolOK, CountsOK, FlagsOK
<1>6. InitOK
    BY <1>1, Zenon DEF Init, InitOK, NoRequests
<1>7. LinkOK /\ state = "INIT"
    BY DEF Init, LinkOK
<1>8. state # "IDLE" /\ state # "STEER"
    BY <1>7
<1> QED
    BY <1>5, <1>6, <1>7, <1>8, Zenon DEF IInv, Staged

\* Every step keeps the inductive invariant.
LEMMA NextKeeps ==
    ASSUME IInv, [Next]_vars
    PROVE  IInv'
<1>1. TypeOK'
    BY TypeKept DEF IInv
<1> SUFFICES Staged'
    BY <1>1 DEF IInv
<1>2. CASE Task
    BY <1>2, InitDoneKeeps, SteerStartKeeps, RejoinDoneKeeps, SteerRetrieveKeeps,
       SteerPermitJoinKeeps, SteerFinishKeeps, LostKeeps, PermitJoiningConfirmKeeps, InfoSaveKeeps
    DEF Task
<1>3. CASE Key
    BY <1>3, DelayedKeeps, KeyTimerKeeps, KeyFailedKeeps DEF Key
<1>4. CASE SteerRetry
    BY <1>4, SteerRetryKeeps
<1>5. CASE Stack
    <2>1. ASSUME NEW ok \in BOOLEAN, KeyGiveUp(ok) PROVE Staged'
        <3>1. CASE ok
            BY <2>1, <3>1, KeyTimerKeeps, Zenon
        <3>2. CASE ~ok
            BY <2>1, <3>2, KeyTimerKeeps, Zenon
        <3> QED
            BY <3>1, <3>2
    <2> QED
        BY <1>5, <2>1, AnswersKeep, LeavesKeep, NwkEndKeeps DEF Stack
<1>6. CASE World \/ PoolExhausted
    <2>1. stored \in BOOLEAN
        BY DEF IInv, TypeOK
    <2> QED
        BY <1>6, <2>1, LeavesKeep, RejoinStartKeeps, BootStaged, Zenon
        DEF World, PowerCut, PoolExhausted
<1>7. CASE UNCHANGED vars
    <2>1. UNCHANGED <<tasks, timers, state, status, commissioningStatus, nodeIsOnANetwork, told,
                      joined, nwk, leaving, descReqs, keyReqs>>
        BY <1>7, Zenon DEF vars, ctx, attrs, link, reqs
    <2>2. Pending' = Pending
        BY <2>1, PendingChanges DEF IInv
    <2> QED
        BY <2>1, <2>2, SameStage
<1> QED
    BY <1>2, <1>3, <1>4, <1>5, <1>6, <1>7 DEF Next

\* The inductive invariant holds in every reachable state.
THEOREM Inductive == Spec => []IInv
<1>1. IInv /\ [Next]_vars => IInv'
    BY NextKeeps
<1> QED
    BY InitIInv, <1>1, PTL DEF Spec

\* bdb's queue, its timers, its context and attributes keep their ranges, and
\* ev_timer.c's pool is never asked for more than one timer too many.
THEOREM TypeCorrect == Spec => []TypeOK
<1>1. IInv => TypeOK
    BY DEF IInv
<1> QED
    BY <1>1, Inductive, PTL

\* No event left from an earlier steering or rejoin ends the state in which
\* bdb_networkSteerFactoryNew's discovery is answered.
THEOREM DiscoveryNotCutShort == Spec => []NotCutShort
<1>1. IInv => NotCutShort
    BY DEF IInv, Staged, InitOK, IdleOK, NotCutShort, TypeOK, States
<1> QED
    BY <1>1, Inductive, PTL

\* A device at rest that is not joined, and whose application was last told so
\* (bdbInitCb, bdbcommissioningCb, leaveIndHandler), has steer_retry_cb's timer.
THEOREM RetryKept == Spec => []RetryWaits
<1>1. IInv => RetryWaits
    BY DEF IInv, Staged, IdleOK, RetryWaits, Settled
<1> QED
    BY <1>1, Inductive, PTL
=============================================================================
