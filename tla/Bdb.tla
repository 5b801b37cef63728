-------------------------------- MODULE Bdb --------------------------------
(***************************************************************************)
(* How a device joins a network, rejoins it and leaves it: the state       *)
(* machine of zigbee/bdb/bdb.c with the applications' callbacks            *)
(* (zb_appCb.c, pwm5ch_monitor.c).  bdb_task runs on the task queue; its   *)
(* timers, the answers of the trust center and the confirmations of the    *)
(* stack run between its events.  The devices are routers and only steer:  *)
(* network formation, finding and binding and touchlink as an initiator    *)
(* are started by the host interface alone and are left out.  Touchlink as *)
(* a target is left out too.                                               *)
(*                                                                         *)
(* Of the applications' callbacks the module has what they tell and what   *)
(* they start.  The colour of the LED, which also permit joining, network  *)
(* status indications, an upgrade and the button set, is left out, and     *)
(* with it the nwkStatusIndHandlers, which do nothing else.                *)
(*                                                                         *)
(* The stack is a library: of it the module has what bdb.c and the         *)
(* applications see, whether it is busy, joined or leaving.                *)
(***************************************************************************)
EXTENDS Naturals, Sequences

CONSTANTS AttemptsMax,  \* tcLinkKeyExchangeAttemptsMax
          AttemptsMod,  \* values of its counter, a u8: 2^8 in the code
          MaxTimers,    \* timers the pool has left for this module
          MaxReqs,      \* bound: requests of a kind that may still be answered
          MaxLeaves,    \* bound: times the network removes the device
          MaxRejoins,   \* bound: rejoins the stack starts by itself
          MaxCuts       \* bound: power cuts

ASSUME BdbAssumption ==
    /\ AttemptsMax \in Nat /\ AttemptsMod \in Nat /\ AttemptsMax < AttemptsMod
    /\ MaxTimers \in Nat \ {0}
    /\ MaxReqs \in Nat /\ MaxLeaves \in Nat /\ MaxRejoins \in Nat /\ MaxCuts \in Nat

VARIABLES tasks,               \* what TL_SCHEDULE_TASK has queued
          timers,              \* timers running, by callback
          state,               \* g_bdbCtx.state
          status,              \* g_bdbCtx.status
          leaveDoing,
          commissioningStatus, \* g_bdbAttrs, as are the next two
          nodeIsOnANetwork,
          attempts,            \* tcLinkKeyExchangeAttempts
          told,                \* what a callback last told the application
          stored,              \* NV has the network's data
          joined,              \* zb_isDeviceJoinedNwk()
          nwk,                 \* what the network manager is doing
          leaving,             \* zb_nlmeLeaveReq was accepted
          descReqs,            \* node descriptor requests not answered
          keyReqs,             \* key requests not confirmed
          budget               \* what the world may still do

ctx   == <<state, status, leaveDoing>>
attrs == <<commissioningStatus, nodeIsOnANetwork, attempts>>
link  == <<joined, nwk, leaving>>
reqs  == <<descReqs, keyReqs>>
vars  == <<tasks, timers, ctx, attrs, told, stored, link, reqs, budget>>

States   == {"IDLE", "INIT", "STEER"}
SUCCESS  == "SUCCESS"
Failures == {"NO_NETWORK", "TCLK_EX_FAILURE", "REJOIN_FAILURE"}
Statuses == {SUCCESS, "IN_PROGRESS"} \cup Failures

\* The events of bdb_task.  Two enumerations of bdb.h number them, and both
\* say 7 for the end of a steering and of a rejoin.
INIT_DONE    == "init_done"
START        == "start"
PERMITJOIN   == "permitjoin"
RETRIEVE     == "retrieve_tclink_key"
STEER_FINISH == "seven"
REJOIN_DONE  == "seven"
Events       == {INIT_DONE, START, PERMITJOIN, RETRIEVE, STEER_FINISH}
Tasks        == Events \cup {"permitJoiningConfirm", "infoSave"}

\* bdb_task_delay with its two arguments, and three more callbacks.
Timers == {"delayRetrieve", "delayPermit", "keyStart", "keyTimeout", "retry"}

Has(k)     == timers[k] > 0
Used       == timers["delayRetrieve"] + timers["delayPermit"]
                  + timers["keyStart"] + timers["keyTimeout"] + timers["retry"]
Arm(k)     == timers' = [timers EXCEPT ![k] = @ + 1]
End(k)     == timers' = [timers EXCEPT ![k] = @ - 1]
Become(k, l) == timers' = [timers EXCEPT ![k] = @ - 1, ![l] = @ + 1]

At(t)      == tasks # <<>> /\ Head(tasks) = t
Pop(next) == tasks' = Tail(tasks) \o next
Post(next) == tasks' = tasks \o next

\* Mutated form: the full pool is noticed one timer late.
RunningOneMore == Used <= MaxTimers + 1

\* A timer that cannot be posted resets the device at once.
Running == Used <= MaxTimers

-----------------------------------------------------------------------------
(* The applications' callbacks.                                            *)

\* Mutated form: the stack is not asked whether it is busy.
FreeStackBusy(st, cs) == st = "IDLE" /\ cs # "IN_PROGRESS"

\* bdb_networkSteerStart is refused while anything is under way.
Free(st, cs) == st = "IDLE" /\ nwk = "idle" /\ cs # "IN_PROGRESS"

\* Mutated form: only a network that was not found is looked for again.
ConfirmNoNetworkOnly(sta) ==
    /\ commissioningStatus' = sta
    /\ told' = IF sta = SUCCESS THEN "JOINED" ELSE "NOT_JOINED"
    /\ timers' = [timers EXCEPT !["keyTimeout"] = 0,
                      !["retry"] = IF sta = "NO_NETWORK" THEN @ + 1 ELSE @]

\* bdb_topLevelCommissiongConfirm, which also stops the timer that shares its
\* place with identifyTimer, and the application's bdbcommissioningCb.
Confirm(sta) ==
    /\ commissioningStatus' = sta
    /\ told' = IF sta = SUCCESS THEN "JOINED" ELSE "NOT_JOINED"
    /\ timers' = [timers EXCEPT !["keyTimeout"] = 0,
                                !["retry"] = IF sta = SUCCESS THEN @ ELSE @ + 1]

\* Mutated form: the timer ends although steering could not start.
SteerRetryOnce ==
    /\ Running /\ Has("retry")
    /\ End("retry")
    /\ IF ~joined /\ Free(state, commissioningStatus)
       THEN Post(<<START>>) /\ commissioningStatus' = "IN_PROGRESS"
       ELSE UNCHANGED <<tasks, commissioningStatus>>
    /\ UNCHANGED <<ctx, nodeIsOnANetwork, attempts, told, stored, link, reqs,
                   budget>>

\* steer_retry_cb: it ends when the device is joined, and comes back in 10 s
\* when it is not, whether or not steering could start.
SteerRetry ==
    /\ Running /\ Has("retry")
    /\ IF joined
       THEN /\ End("retry")
            /\ UNCHANGED <<tasks, commissioningStatus>>
       ELSE /\ IF Free(state, commissioningStatus)
               THEN /\ Post(<<START>>)
                    /\ commissioningStatus' = "IN_PROGRESS"
               ELSE UNCHANGED <<tasks, commissioningStatus>>
            /\ UNCHANGED timers
    /\ UNCHANGED <<ctx, nodeIsOnANetwork, attempts, told, stored, link, reqs,
                   budget>>

-----------------------------------------------------------------------------
(* bdb_task, one action for each state and event it knows.                 *)

\* BDB_STATE_INIT.  bdbInitCb starts steering on a device without a network.
InitDone ==
    /\ Running /\ At(INIT_DONE) /\ state = "INIT"
    /\ state' = "IDLE"
    /\ IF nodeIsOnANetwork
       THEN /\ told' = "JOINED"
            /\ \E save \in {<<>>, <<"infoSave">>} : Pop(save)
            /\ UNCHANGED commissioningStatus
       ELSE /\ told' = "NOT_JOINED"
            /\ IF Free("IDLE", commissioningStatus)
               THEN /\ Pop(<<START>>)
                    /\ commissioningStatus' = "IN_PROGRESS"
               ELSE Pop(<<>>) /\ UNCHANGED commissioningStatus
    /\ UNCHANGED <<timers, status, leaveDoing, nodeIsOnANetwork, attempts,
                   stored, link, reqs, budget>>

\* BDB_EVT_COMMISSIONING_START: look for a network, or, when the device takes
\* itself to be on one, only open it for others.
SteerStart ==
    /\ Running /\ At(START) /\ state = "IDLE"
    /\ state' = "STEER"
    /\ IF nodeIsOnANetwork
       THEN Pop(<<"permitJoiningConfirm">>) /\ UNCHANGED nwk
       ELSE Pop(<<>>) /\ nwk' = "joining"
    /\ UNCHANGED <<timers, status, leaveDoing, attrs, told, stored, joined,
                   leaving, reqs, budget>>

\* BDB_STATE_REJOIN_DONE in BDB_STATE_IDLE.
RejoinDone ==
    /\ Running /\ At(REJOIN_DONE) /\ state = "IDLE"
    /\ Pop(<<>>)
    /\ Confirm(status)
    /\ UNCHANGED <<ctx, nodeIsOnANetwork, attempts, stored, link, reqs, budget>>

SteerRetrieve ==
    /\ Running /\ At(RETRIEVE) /\ state = "STEER"
    /\ Pop(<<>>)
    /\ Arm("keyStart")
    /\ UNCHANGED <<ctx, attrs, told, stored, link, reqs, budget>>

SteerPermitJoin ==
    /\ Running /\ At(PERMITJOIN) /\ state = "STEER"
    /\ Pop(<<"permitJoiningConfirm">>)
    /\ UNCHANGED <<timers, ctx, attrs, told, stored, link, reqs, budget>>

\* Neither formation nor finding and binding follow: the mode asks for none.
SteerFinish ==
    /\ Running /\ At(STEER_FINISH) /\ state = "STEER"
    /\ Pop(<<>>)
    /\ Confirm(status)
    /\ state' = "IDLE"
    /\ UNCHANGED <<status, leaveDoing, nodeIsOnANetwork, attempts, stored, link,
                   reqs, budget>>

\* An event the present state has no case for is lost.
Lost ==
    /\ Running
    /\ \E e \in Events :
          /\ At(e)
          /\ \/ state = "IDLE" /\ e \notin {START, REJOIN_DONE}
             \/ state = "STEER" /\ e \notin {RETRIEVE, PERMITJOIN, STEER_FINISH}
    /\ Pop(<<>>)
    /\ UNCHANGED <<timers, ctx, attrs, told, stored, link, reqs, budget>>

\* bdb_mgmtPermitJoiningConfirm: this is where a joined network is saved.
PermitJoiningConfirm ==
    /\ Running /\ At("permitJoiningConfirm")
    /\ status' = SUCCESS
    /\ Pop(IF state = "STEER" THEN <<STEER_FINISH>> ELSE <<>>)
    /\ stored' = (stored \/ nodeIsOnANetwork)
    /\ UNCHANGED <<timers, state, leaveDoing, attrs, told, link, reqs, budget>>

\* bdb_commissioningInfoSave, as a task.
InfoSave ==
    /\ Running /\ At("infoSave")
    /\ Pop(<<>>)
    /\ stored' = TRUE
    /\ UNCHANGED <<timers, ctx, attrs, told, link, reqs, budget>>

-----------------------------------------------------------------------------
(* The exchange of the trust center's link key.                            *)

\* bdb_retrieveTcLinkKeyDone(BDB_COMMISSION_STA_SUCCESS).
KeyDone ==
    /\ timers' = [timers EXCEPT !["keyTimeout"] = 0]
    /\ status' = SUCCESS
    /\ nodeIsOnANetwork' = TRUE
    /\ Post(<<PERMITJOIN>>)

\* bdb_task_delay, 200 ms after the network was joined.
Delayed ==
    /\ Running
    /\ \/ Has("delayRetrieve") /\ End("delayRetrieve") /\ Post(<<RETRIEVE>>)
       \/ Has("delayPermit") /\ End("delayPermit") /\ Post(<<PERMITJOIN>>)
    /\ UNCHANGED <<ctx, attrs, told, stored, link, reqs, budget>>

\* zb_zdoNodeDescReq to the trust center.
AskDescriptor ==
    descReqs' = IF joined /\ descReqs < MaxReqs THEN descReqs + 1 ELSE descReqs

\* bdb_retrieveTcLinkKeyStart, with the method by APS request key.
KeyStart ==
    /\ Running /\ Has("keyStart")
    /\ IF Has("keyTimeout") THEN End("keyStart")
       ELSE Become("keyStart", "keyTimeout")
    /\ leaveDoing' = FALSE
    /\ attempts' = 0
    /\ AskDescriptor
    /\ UNCHANGED <<tasks, state, status, commissioningStatus, nodeIsOnANetwork,
                   told, stored, link, keyReqs, budget>>

\* bdb_retrieveTcLinkKeyTimeout, while attempts are left.
KeyRetry ==
    /\ Running /\ Has("keyTimeout") /\ attempts < AttemptsMax
    /\ attempts' = attempts + 1
    /\ AskDescriptor
    /\ UNCHANGED <<tasks, timers, ctx, commissioningStatus, nodeIsOnANetwork, told,
                   stored, link, keyReqs, budget>>

\* Mutated form: the timer ends with the request.
KeyGiveUpEnds(accepted) ==
    /\ Running /\ Has("keyTimeout") /\ attempts >= AttemptsMax /\ joined
    /\ attempts' = (attempts + 1) % AttemptsMod
    /\ IF accepted /\ ~leaveDoing
       THEN leaveDoing' = TRUE /\ leaving' = TRUE
       ELSE UNCHANGED <<leaveDoing, leaving>>
    /\ End("keyTimeout")
    /\ UNCHANGED <<tasks, state, status, commissioningStatus,
                   nodeIsOnANetwork, told, stored, joined, nwk, reqs, budget>>

\* The same after the last attempt: ask once to leave, again 3 s later if the
\* stack refused.  The counter goes on, and the attempts begin again when it
\* wraps.
KeyGiveUp(accepted) ==
    /\ Running /\ Has("keyTimeout") /\ attempts >= AttemptsMax /\ joined
    /\ attempts' = (attempts + 1) % AttemptsMod
    /\ IF accepted /\ ~leaveDoing
       THEN leaveDoing' = TRUE /\ leaving' = TRUE
       ELSE UNCHANGED <<leaveDoing, leaving>>
    /\ UNCHANGED <<tasks, timers, state, status, commissioningStatus,
                   nodeIsOnANetwork, told, stored, joined, nwk, reqs, budget>>

\* The same once the device has left: the steering has failed.
KeyFailed ==
    /\ Running /\ Has("keyTimeout") /\ attempts >= AttemptsMax /\ ~joined
    /\ attempts' = 0
    /\ End("keyTimeout")
    /\ status' = "TCLK_EX_FAILURE"
    /\ nodeIsOnANetwork' = FALSE
    /\ Post(<<STEER_FINISH>>)
    /\ UNCHANGED <<state, leaveDoing, commissioningStatus, told, stored, link,
                   reqs, budget>>

\* bdb_nodeDescRespHandler.  A trust center of revision 21 is asked for its
\* key; an older one has none, and neither has one that could not be asked.
NodeDescRsp ==
    /\ Running /\ descReqs > 0 /\ joined
    /\ descReqs' = descReqs - 1
    /\ \/ /\ keyReqs < MaxReqs /\ keyReqs' = keyReqs + 1
          /\ nodeIsOnANetwork' = FALSE
          /\ UNCHANGED <<tasks, timers, status>>
       \/ KeyDone /\ UNCHANGED keyReqs
       \/ UNCHANGED <<tasks, timers, status, nodeIsOnANetwork, keyReqs>>
    /\ UNCHANGED <<state, leaveDoing, commissioningStatus, attempts, told, stored,
                   link, budget>>

\* The stack ends a key request: it reports the key, or nothing came.
KeyRsp ==
    /\ Running /\ keyReqs > 0 /\ joined
    /\ keyReqs' = keyReqs - 1
    /\ \/ KeyDone
       \/ UNCHANGED <<tasks, timers, status, nodeIsOnANetwork>>
    /\ UNCHANGED <<state, leaveDoing, commissioningStatus, attempts, told, stored,
                   link, descReqs, budget>>

-----------------------------------------------------------------------------
(* The stack, and the power.                                               *)

\* bdb_zdoStartDevCnf, in each of its states.
StartDevCnf(ok) ==
    \/ /\ state = "INIT"
       /\ Post(<<INIT_DONE>>)
       /\ UNCHANGED <<timers, status, nodeIsOnANetwork>>
    \/ /\ state = "IDLE"
       /\ status' = IF ok THEN SUCCESS ELSE "REJOIN_FAILURE"
       /\ nodeIsOnANetwork' = (nodeIsOnANetwork \/ ok)
       /\ \/ Post(<<REJOIN_DONE>>)
          \/ ok /\ Post(<<"infoSave", REJOIN_DONE>>)
       /\ UNCHANGED timers
    \/ /\ state = "STEER" /\ ok
       /\ status' = SUCCESS
       /\ nodeIsOnANetwork' = TRUE
       /\ Arm("delayRetrieve") \/ Arm("delayPermit")
       /\ UNCHANGED tasks
    \/ /\ state = "STEER" /\ ~ok
       /\ status' = "NO_NETWORK"
       /\ Post(<<STEER_FINISH>>)
       /\ UNCHANGED <<timers, nodeIsOnANetwork>>

\* What the stack was doing ends.  A router starts in the network NV has without
\* asking anyone, and answers from a network before are dropped.
NwkEnd(ok) ==
    /\ Running /\ nwk # "idle" /\ (nwk = "starting" => ok)
    /\ nwk' = "idle"
    /\ joined' = ok
    /\ StartDevCnf(ok)
    /\ descReqs' = IF nwk = "joining" THEN 0 ELSE descReqs
    /\ keyReqs' = IF nwk = "joining" THEN 0 ELSE keyReqs
    /\ UNCHANGED <<state, leaveDoing, commissioningStatus, attempts, told, stored,
                   leaving, budget>>

\* The device is off its network: the stack clears NV and, with its attributes
\* (tl_bdbAttrInit), what bdb knows, and drops the answers still to come.
OffNetwork ==
    /\ joined' = FALSE /\ leaving' = FALSE /\ stored' = FALSE
    /\ commissioningStatus' = SUCCESS
    /\ nodeIsOnANetwork' = FALSE
    /\ attempts' = 0
    /\ descReqs' = 0 /\ keyReqs' = 0

\* A leave, here and below, takes longer than what is queued when it begins.
\* The leave asked for by bdb; the applications' leaveCnf handlers are empty.
LeaveCnf ==
    /\ Running /\ leaving /\ tasks = <<>>
    /\ OffNetwork
    /\ UNCHANGED <<tasks, timers, ctx, told, nwk, budget>>

\* The network removes the device: leaveIndHandler.
LeaveInd ==
    /\ Running /\ joined /\ nwk = "idle" /\ tasks = <<>> /\ budget.leaves > 0
    /\ budget' = [budget EXCEPT !.leaves = @ - 1]
    /\ OffNetwork
    /\ told' = "NOT_JOINED"
    /\ Arm("retry")
    /\ UNCHANGED <<tasks, ctx, nwk>>

\* The stack looks for its network again, by its own decision and while bdb is
\* at rest, which is where bdb_zdoStartDevCnf expects it.
RejoinStart ==
    /\ Running /\ joined /\ nwk = "idle" /\ ~leaving /\ budget.rejoins > 0
    /\ state = "IDLE" /\ tasks = <<>>
    /\ budget' = [budget EXCEPT !.rejoins = @ - 1]
    /\ joined' = FALSE
    /\ nwk' = "rejoining"
    /\ UNCHANGED <<tasks, timers, ctx, attrs, told, stored, leaving, reqs>>

\* The device starts with what NV has: bdb_init.
Boot(has) ==
    /\ tasks' = IF has THEN <<>> ELSE <<INIT_DONE>>
    /\ nwk' = IF has THEN "starting" ELSE "idle"
    /\ timers' = [k \in Timers |-> 0]
    /\ state' = "INIT" /\ status' = SUCCESS /\ leaveDoing' = FALSE
    /\ commissioningStatus' = SUCCESS /\ nodeIsOnANetwork' = has
    /\ attempts' = 0
    /\ told' = "NOTHING"
    /\ joined' = FALSE /\ leaving' = FALSE
    /\ descReqs' = 0 /\ keyReqs' = 0

PowerCut ==
    /\ Running /\ budget.cuts > 0
    /\ budget' = [budget EXCEPT !.cuts = @ - 1]
    /\ Boot(stored)
    /\ UNCHANGED stored

\* ev_timer_taskPost found every timer in use: the device resets.
PoolExhausted ==
    /\ ~Running
    /\ Boot(stored)
    /\ UNCHANGED <<stored, budget>>

Init ==
    /\ stored \in BOOLEAN
    /\ tasks = (IF stored THEN <<>> ELSE <<INIT_DONE>>)
    /\ nwk = (IF stored THEN "starting" ELSE "idle")
    /\ timers = [k \in Timers |-> 0]
    /\ state = "INIT" /\ status = SUCCESS /\ leaveDoing = FALSE
    /\ commissioningStatus = SUCCESS /\ nodeIsOnANetwork = stored
    /\ attempts = 0
    /\ told = "NOTHING"
    /\ joined = FALSE /\ leaving = FALSE
    /\ descReqs = 0 /\ keyReqs = 0
    /\ budget = [leaves |-> MaxLeaves, rejoins |-> MaxRejoins, cuts |-> MaxCuts]

Task  == \/ InitDone \/ SteerStart \/ RejoinDone \/ SteerRetrieve
         \/ SteerPermitJoin \/ SteerFinish \/ Lost
         \/ PermitJoiningConfirm \/ InfoSave
Key   == Delayed \/ KeyStart \/ KeyRetry \/ KeyFailed
Stack == \/ NodeDescRsp \/ KeyRsp \/ LeaveCnf
         \/ \E ok \in BOOLEAN : NwkEnd(ok) \/ KeyGiveUp(ok)
World == LeaveInd \/ RejoinStart \/ PowerCut

Next == Task \/ Key \/ SteerRetry \/ Stack \/ World \/ PoolExhausted

Spec == Init /\ [][Next]_vars

\* The main loop runs what is queued and what is due, and the stack ends what
\* it was asked for; a network that can be joined is found by one of many
\* attempts, and a leave is sent by one of many requests.
Fairness ==
    /\ WF_vars(Task) /\ WF_vars(PoolExhausted)
    /\ WF_vars(Delayed) /\ WF_vars(KeyStart) /\ WF_vars(KeyRetry)
    /\ WF_vars(KeyFailed) /\ SF_vars(KeyGiveUp(TRUE)) /\ SF_vars(SteerRetry)
    /\ WF_vars(LeaveCnf)
    /\ WF_vars(\E ok \in BOOLEAN : NwkEnd(ok)) /\ SF_vars(NwkEnd(TRUE))

FairSpec == Spec /\ Fairness

-----------------------------------------------------------------------------
(* Each task, timer and variable of g_bdbCtx and g_bdbAttrs keeps its      *)
(* range, and no more timers run than the pool of ev_timer.c has, but for  *)
(* the one whose failed post resets the device.                            *)
TypeOK ==
    /\ tasks \in Seq(Tasks)
    /\ timers \in [Timers -> Nat] /\ Used <= MaxTimers + 1
    /\ state \in States /\ status \in Statuses /\ leaveDoing \in BOOLEAN
    /\ commissioningStatus \in Statuses /\ nodeIsOnANetwork \in BOOLEAN
    /\ attempts \in 0..(AttemptsMod - 1)
    /\ told \in {"NOTHING", "JOINED", "NOT_JOINED"}
    /\ stored \in BOOLEAN /\ joined \in BOOLEAN /\ leaving \in BOOLEAN
    /\ nwk \in {"idle", "joining", "rejoining", "starting"}
    /\ descReqs \in Nat /\ keyReqs \in Nat
    /\ budget \in [leaves : Nat, rejoins : Nat, cuts : Nat]

\* Nothing is queued or under way.
Settled == Running /\ state = "IDLE" /\ tasks = <<>> /\ nwk = "idle" /\ ~leaving

(* Whatever happened before - steering that failed at any stage, a failed  *)
(* rejoin, a removal in the middle of a steering - a device at rest that   *)
(* is not joined, and whose application was last told so, has a            *)
(* steer_retry_cb timer left that will try again.                          *)
RetryWaits == Settled /\ ~joined /\ told = "NOT_JOINED" => Has("retry")

(* While the stack looks for a network for bdb_networkSteerFactoryNew, bdb *)
(* stays in BDB_STATE_COMMISSIONING_NETWORK_STEER: no event left from an   *)
(* earlier steering or rejoin - the end of both is number 7 - ends it.     *)
(* Otherwise the network found would pass for a rejoined one, and its link *)
(* key would never be exchanged.                                           *)
NotCutShort == nwk = "joining" => state = "STEER"

(* A steering ends: discovery, the key exchange with its retries, a leave  *)
(* that must first be sent, or a removal half way all come to a confirm.   *)
(* bdb_topLevelCommissioning refuses every start until it has.             *)
SteeringEnds == state = "STEER" ~> state # "STEER"

(* A device with a steer_retry_cb timer that does not take itself to be on *)
(* a network is on one in the end, also across the resets that a full      *)
(* timer pool causes.                                                      *)
GetsJoined == Has("retry") /\ ~nodeIsOnANetwork ~> joined

(* The application is told SUCCESS (`Joined!') only when the device is     *)
(* joined.  It does not hold: see the README.                              *)
JoinedWhenTold == [][told # "JOINED" /\ told' = "JOINED" /\ Running => joined]_vars
=============================================================================
