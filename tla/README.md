# A verification development of the Zigbee device firmware

The repository is firmware for Telink TLSR8258 modules: an SDK (timers, buffers,
flash storage, drivers, a Zigbee stack that is partly binary) and four
applications on top of it, a five-channel LED dimmer (`apps/pwm5ch`), monitors of
an EPever solar charge controller (`apps/epeverMonitor`) and of a Juntek battery
meter (`apps/juntekBMS`), and the skeleton of a door lock
(`apps/porterDoorLock`). Everything runs in one main loop: the stack's tasks,
`ev_timer_process`, and the application's `app_task`, with a few interrupts
(tick, UART, GPIO) beside it. There are no threads; the hard part is callbacks
that change the structures their caller is walking, timers that run in any order
with radio commands, interrupts between two lines of the main loop, and power
that can fail between two flash writes.

The modules here are TLA+ translations of that code. TLC checks them on small
instances, and TLAPS proves the invariants of the timer service, of the dimmer and its
remote, of the item storage, of the EPever poll, of joining and of the upgrade client
for every size, and that the timer service keeps what it promises its clients.

## Inventory

Line numbers are those of the sources; `PROJECT.json` maps each definition.

| Component | State | Operations | Talks to | What is hard | What makes it correct | Modelled |
|---|---|---|---|---|---|---|
| Software timers, `proj/os/ev_timer.c` | pool of 24 slots, `used_num`, linked list, nearest timer, tick of the last call and remainder | post, cancel, update, execute callbacks, find the nearest | everybody posts; the main loop processes; a failed post resets the device | callbacks change the list under the walk; slots are reused while handles to them exist; the tick counter wraps | no slot lost, list intact, handles exact, no due timer missed, neither early nor late | `EvTimer`, `TimerService` |
| Item storage, `proj/drivers/drv_nv.c` | two sectors per module, each with a flag, an index and payloads | write (with the move to the other sector), read, remove | applications, ZCL, stack | power loss between any two flash writes; recovery on the next access | one current sector; no half-written item; a write touches one item, at one instant | `NvFlash`, `NvStore` |
| Network frame counter, `drv_nv.c` 836-1018 | two sectors of counters | save, restore | stack security | power loss while sectors change; a retry with an unset sector | the counter never goes back, nor far ahead | `FrameCount` |
| Dimmer, `apps/pwm5ch` | attributes of 6 endpoints in RAM and NV, a Move and a MoveToLevel timer each, one fade timer, present and target duty | On, Off, Toggle, MoveToLevel, Move, Step, Stop, remote keys, restore | timers, NV, PWM | three timers and two command sources on the same attributes; what is saved when | timers match handles; output follows the attributes; everything comes to rest; the state survives a power cycle | `PwmLevel` |
| IR decoder, `ir_recv.c` | bit machine driven by an interrupt, one key | edge interrupt, poll, debounce | dimmer | interrupt against poll | never deaf; a key acts once or is dropped whole | `IrRecv` |
| EPever monitor, `epeverMonitor.c` | poll state, time of the request, receive flag and buffer, readings so far | poll timer, receive interrupt, receive poll, timeout poll, ZCL Write | timers, UART, ZCL | answers late, lost or damaged; the interrupt between flag and buffer | readings published together belong together; a cycle ends; polling recovers | `EpeverPoll` |
| Juntek monitor | UART frames, filter, soft reset | receive, filter, publish | UART, ZCL | a filter that may lock out all further values | readings resume | planned |
| Joining, `zigbee/bdb/bdb.c` and the callbacks of each application | BDB state and status, on a network or not, key exchange, queued events, timers | init, steer, key exchange, confirm, rejoin, leave, retry | timers, task queue, stack library, NV | events of one procedure arriving in another; each failure adds a timer; leaves and answers in any order | no event cuts a steering short; a steering ends; a device told that it is not joined tries again until it is | `Bdb` |
| Queues and buffers, `ev_queue.c`, `ev_buffer.c`, `mempool.c` | free lists, priority lists | allocate, free, push, pop | everybody | double free, exhaustion | blocks neither lost nor shared | planned |
| Factory reset, `factory_reset.c` | power-cycle count in NV, a 2 s timer | init, timer, handler | NV | power loss is the input | reset exactly at the threshold | no: no application calls it |
| ZCL core and reporting, `zigbee/zcl` | registered clusters, report timers | dispatch, read, write, report | everybody | sharing of one report timer | reports between the minimum and the maximum interval | dispatch of Write only, in `EpeverPoll` |
| OTA client, `zigbee/ota/ota.c` as `apps/juntekBMS` uses it | status, position, CRC so far, one timer in five roles, image in flash, two NV items | notification, query, block, wait, abort, end, their timeouts and tasks, boot | timers, task queue, NV, flash, ZCL | late and lost answers; a timer that deletes itself; a power cut between two saves or while erasing; the server's image changes | one image only in flash; an upgrade ends; the image gets through | `Ota` |
| Green power, MAC/NWK/APS, drivers, host interface, display | | | | vendor code, binary libraries or pure I/O | | no |

The hazards, with the line where each bites and the property that would catch
it, are listed in `PROJECT.json`.

## Modules

**`EvTimer`** is `ev_timer.c` and the way clients use it. `ev_timer` is the control
block; a slot is a record of the fields of `ev_timer_event_t`; `next` is a slot
number, `NULL` is 0. `Process` is `ev_timer_process` up to the first node of the
walk (`UpdateTime` and `update` are its arithmetic), then `WalkPast`, `Fire`,
`ReturnStop`/`ReturnAgain` and `WalkEnd` are the iterations of `ev_timer_executeCB`,
split at the callback: between `Fire` and a return the callback may post and cancel
(`Schedule`, `Cancel`), which is what the applications do there. `Schedule` is
the pair of idioms the applications use (schedule if there is no handle; cancel
the handle, then schedule). `Cancel` is `ev_timer_taskCancel` (`isBusy` refuses
it). `PostExhausted` is a failed post: `ZB_EXCEPTION_POST` reaches the handler
the applications register, `SYSTEM_RESET`. `age` and `due` are history
variables.

**`TimerService`** is what clients rely on: a map from timers in use to owners and
the one that runs. `EvTimer` refines it: `pending` is the used slots with their
`cb`, `running` the cursor while a callback runs.

**`NvFlash`** is one NV module: every flash write or erase is an action, so
`PowerLoss` can fall between any two. `Room`, `Switch`, `Clean`, `Copy`, `Copied`,
`NotEnoughSpace` are `nv_flashWriteNewHandler`; `WriteIndex`, `WriteBody`,
`WriteState` are `nv_write_item`; `DeleteOld`, `Ready`, `RetireOther`, `Validate`,
`First` are its end; `SectorFound`, `SectorMissing` and again `RetireOther`,
`Validate` are `nv_sector_read` and its repair of an unfinished move. CRCs and
checksums are the field `ok` (body and header complete), the payload's addresses
are left out and running out of payload space is a free choice. An index entry
being written at a power loss may be torn.

**`NvStore`** is the promise: one value per item, changed at one instant. It has to
admit that older values of an item survive a power loss between the new value and
the deletion of the old one (`stale`): they are never read, but a later removal
deletes only the newest, and uncovers them. This is what the code does
(`nv_flashSingleItemRemove` deletes one entry), so it is in the specification and
not hidden by the mapping.

**`FrameCount`** is the frame counter, `nv_nwkFrameCountSaveToFlash` and
`nv_nwkFrameCountFromFlash`. Again every flash operation is an action; here a word may
also stop half cleared (`PartOf`), by a power loss or by a write that fails
(`WordFails`, `FlagFails`, `ValidFails`, `RepairFails`, `MaxFails` of them). `EraseForced`
is the `forceChgSec` branch, taken by the retry of a failed save and by `BackOff`, the
start that does not believe the last word. `count` is what was last asked to be saved,
`kept` what the stack may rely on; `spoiled` excepts the two ways in which the code
gives the counter up: a retry, whose `errSect` is always 0xff, erases sector 0 though
it is in use, or a forced change fails as well. (After a failed `BackOff` the damaged word
stays, and the next word saved is judged against it.) The stack is a library:
it is assumed to read the counter at start and to save it before it has grown by
more than `THRES`. Flags and erases are atomic. `MCNvFlash` follows either `NvFlash` or
`FrameCount`, the other one at rest: they share the file and the flash driver, no
sector, and the main loop carries out one request at a time.

**`PwmLevel`** is the dimmer: `zcl_pwm5chCb.c` (commands and the two transition
timers), `pwm5ch_ctrl.c` (targets and the fade timer), `ir_recv_cmd.c` (keys),
`pwm5ch_epCfg.c` (save, restore) and the apply loop of `pwm5ch_monitor.c`. Each
handler or callback is one action with all it calls, the main loop running one at
a time. A timer is a handle `tmr` and the number `running` of timers that really
run, so that a handle can be wrong about its timer. Transition times are not
modelled: any timer may be the next to fire.

**`IrRecv`** is the receiver of the dimmer's remote. `Irq` is `ir_recv_gpio_irq` up to its
`switch` and `EdgeIn` the switch; `NewKey`, `RepeatKey` leave a key in the flags. The
main loop's `ir_recv_poll` is split wherever an edge may come between: `PollState` (reads
the clock), `PollTimeout` (compares it with `s_last_time`; an interrupt in between makes
the difference negative, `late`), `ResetState`, `ResetPolarity`, `PollReady`, `ReadFirst`,
`ReadSecond` (arguments are read in either order); `OnCmd` is `ir_recv_on_cmd` with
`ir_debounce`. A frame is a list of edges, each with the length of the time before it;
an edge for which the polarity is wrong is missed, and the next one then fits no
length. `MCPwmRemote` follows either `PwmLevel` or `IrRecv`, since `PwmLevel` takes keys at
any moment.

**`EpeverPoll`** is `epeverMonitor.c`. The main loop's pass is timer, `uart_rx_poll`,
`epever_modbus_timeout_poll`; `uart_rx_poll` is two actions (`uart_rx_poll`,
`uart_rx_parse`), split where `uart_rx_flag = 0` lets the interrupt in before the
buffer is read. `Receive` is the DMA and `uart_rx_cb`. A frame carries the section
it answers and whether it was asked for in the present cycle. `SlaveAnswers`,
`SlaveGarbles`, `SlaveLoses` are the charge controller. `WriteInterval` is a ZCL Write
as `zcl.c` dispatches it.

**`Bdb`** is joining: `bdb_task` with one action for each state and event, the key
exchange (`KeyStart` to `KeyFailed`, `NodeDescRsp`), `bdb_zdoStartDevCnf`
(`StartDevCnf`), and the applications' callbacks (`Confirm`, `InitDone`, `SteerRetry`,
`LeaveInd`): what they tell the application (`told`, a history variable) and the retry timers
they start, in which the dimmer and both monitors agree. In what else these callbacks do the
applications differ, and that is left out: output, the dimmer's display, a single
`report_all_cb` of the Juntek monitor (its timer is one of those `MaxTimers` does not count), and
the LED. The LED is no record of joining: besides the callbacks, `localPermitJoinState`
(`app_ui.c:53`, which shows permit joining and then what `zb_isDeviceJoinedNwk` says), the
button, `OTA_EVT_START` and the `nwkStatusIndHandler`s set it. The latter do nothing else
(`pwm5ch_monitor.c:195`, `epeverMonitor/zb_appCb.c:124`, `juntekBMS/zb_appCb.c:148`), so they
are no action of the model: an indication changes neither `told` nor a timer. `tasks` is what
`TL_SCHEDULE_TASK` has queued, `timers` counts the timers by callback: `steer_retry_cb`
may run several times over, and when a timer is wanted and the pool has none the
device resets (`PoolExhausted`). The stack is a library, so `NwkEnd`, `KeyRsp`,
`RejoinStart` and the time at which a leave is done are modelled from what `bdb.c`
expects of them.

**`Ota`** is the upgrade client. An image is `Blocks` answers long; a CRC is the
sequence of blocks it was computed over, so that a wrong one differs and a right one
does not depend on arithmetic. `otaTimer` names the role the one timer plays; every
action that calls `ev_on_timer` or `ev_unon_timer` on it sets it. `air` is the set of
answers under way and `budget` bounds what goes wrong. The code's own order is kept
where it matters: the header's NV item is written before the first data reach the
flash, the position's item by a task later (`SaveTask`), and neither is cleared when a
download begins again from 0 (`FromZero`).

**`MC*`** modules and `.cfg` files are the instances. **`EvTimer_proofs`**,
**`PwmLevel_proofs`**, **`NvFlash_proofs`**, **`IrRecv_proofs`**, **`EpeverPoll_proofs`**,
**`Bdb_proofs`** and **`Ota_proofs`** hold the theorems.

## Runs

| Run | Instance | States | Shows |
|---|---|---|---|
| `ev_timer` | 2 clients with a handle, 1 without, 3 slots, periods 1 and 2 | 236,805 | pool, list, handles, busy flag, no due timer skipped, nearest timer, refinement of `TimerService` |
| `ev_timer_clock` | 1 client, 2 slots, 2 ticks per ms, counter of 5 values, passes late by up to 2 ticks | 33,250 | timers neither early nor late; served (liveness) |
| `nv_flash` | 2 items of 2 values, 3 index entries; counter: 4 words of 4 bits, counters up to 5, 2 failing writes | 2,364,916 | current sector, whole items, refinement of `NvStore`; the frame counter neither goes back nor far ahead |
| `pwm_level` | 2 channels and master, levels 0..3, 3 commands, 1 power cycle; remote: frames of 2 bits, 3 frames, 1 edge of noise | 2,391,730 | timers and handles, fade, targets, coming to rest (liveness); the receiver never deaf, keys toggle once |
| `epever_poll` | timeout 2, interval 12, 2 faults, answers up to 9 ticks late | 540,180 | coherent snapshots, end of a cycle, recovery (liveness) |
| `joining` | 4 timers, 1 repeated key attempt, a counter of 3 values, 2 requests of a kind, 2 removals, 1 rejoin, 1 power cut | 475,824 | retry timers, no steering cut short; steerings end, the device joins (liveness) |
| `ota` | 2 images of 4 blocks, 2 faults, 2 power cuts, 1 change of the server's image | 146,142 | one image in flash; an upgrade ends, the image gets through (liveness) |
| `pwm_restore`, `pwm_save`, `epever_interval`, `joining_told`, `ota_whole` | | | a statement of the repository that the code violates |

### The bounds, and why they are enough

- *Timers.* Three slots are the smallest pool in which a list has a first, a
  middle and a last node while the middle one's callback cancels a neighbour or
  posts a new head; with three clients the pool also fills up. The tracked
  clients are symmetric (no property of that run is a liveness property). Two
  slots are enough for the timing, which each slot does alone. `TickMod` = 5
  makes the counter wrap inside one period; `MaxLag` bounds a pass of the main
  loop, which the code needs too: a pass of a whole counter's turn is invisible to
  it. `AgeCap` stops counting the history variable beyond the largest period and
  pass.
- *Storage.* Three index entries hold both items and an update, so that every
  second or third write moves the items to the other sector, and a power loss can
  come after any number of copied items. Two values tell old from new.
- *Frame counter.* Four words fill a sector, change it and change it back within a few
  saves, and the fourth is preceded by one that is compared too (`Jumps` begins with the
  third). Words of four bits and `THRES` = 2 let a torn word be near, far, or the erased
  one. `PartOf` leaves out values within `THRES` of the end of the range, from which the
  code's addition overflows: a counter of 32 bits does not get there. Two failures
  allow a save and its repair to fail, or two saves.
- *Dimmer.* Four levels give a transition an inner level and both ends; a fade of
  two ticks per step needs two steps. Three commands suffice for the patterns at
  stake, a command that meets a running transition of each kind and a third
  that meets both. The bound is on commands, so behaviours end (`CHECK_DEADLOCK
  FALSE`): a dimmer at rest without commands is meant to stop. `StepSizes` and
  `OnLevels` include one that must be limited and the level 0 a client may write.
- *Remote.* Two bits have one that is followed by another and one that ends the frame.
  Three frames are a key, its repeat, and another key that meets the poll of either; one odd
  edge can spoil any. `MaxLag` < `SAME`: the main loop's pass takes less than 500 ms. The
  clock wraps soon after the longest debounce. Noise turns no bit into another one.
- *EPever.* A tick is about 250 ms of the 500 ms timeout; the interval is several
  timeouts, as in the code (10 s), long enough for a whole cycle at its slowest,
  and the clock wraps within a cycle. Two faults allow a late answer and a
  damaged one in two cycles.

- *Joining.* Four timers hold one of each procedure and let retry timers pile up
  until the pool is full, which happens in this instance. Two removals can meet the
  same steering or two; `AttemptsMax` = 1 (3 in the code) has a first and a repeated
  attempt. `AttemptsMod` = 3 (256 in the code, a u8) has one count beyond the last attempt
  and then wraps, so that the attempts begin again while leaves are refused, which takes
  the code some 250 refusals. Wrapping makes the requests unbounded: `MaxReqs` = 2 of a kind
  may still be answered, so that one answer comes late, behind another; a third is never
  answered.
- *OTA.* Four blocks are the header, the one that completes it and begins the
  element, one in the middle and the last; a resume can be from two places. Three
  blocks between two saves put a save on each of them over two downloads. Two faults
  time a request out (`BlockRetries` = 2), two cuts can both fall into one download.
  `ota_whole` takes one more change of the server's image and one fault less.

`EpeverAssumption` has three conjuncts that matter. `MaxDelay + 2 * MaxLag <
DEFAULT_INTERVAL`: no answer is later than the next cycle's start. Without it an answer
of the cycle before is accepted by section alone, the protocol having no sequence
number, and `SnapshotCoherent` does not hold. A charge controller answers within some
100 ms, the interval is 10 s. `3 * TIMEOUT + 4 * MaxLag < DEFAULT_INTERVAL`: a cycle of
three sections at its slowest is over before the next one is due (three times 500 ms and
some passes, against 10 s); `CycleEnds` needs it. `DEFAULT_INTERVAL + 2 * MaxLag <= CLOCK`:
the clock does not come round within an interval (it does after some 268 s).

What is assumed of the world around `Bdb` and `Ota`:

- The devices are routers. A leave or a rejoin of the stack takes longer than what is
  queued when it begins, a rejoin of the stack begins only while bdb is at rest, and
  answers from a network before are dropped. A leave ends in `tl_bdbAttrInit` with NV
  cleared. A router restarts in the network NV has without asking. The stack's
  ZDO_NETWORK_LOST, the end devices' case, is left out, and of the applications' callbacks
  what does not tell of joining (see `Bdb` above).
- Messages under way are lost when an upgrading device restarts; two copies of one
  answer are one. An NV item is written at one instant (`NvFlash` shows why), and so is
  the reset of a module. A block half written by a power cut counts as not written.
  All images have the same size, and each of `otaTimer`'s periods is longer than the
  task queue takes.
- The task queue has room (`tl_zbTaskPost` is in the library). `Ota` assumes more of it: a
  task a handler posted (`SaveTask`, the IEEE address request) runs before the next frame is
  handled. There are several queues (`zb_task_queue.h:37`) and what serves them is in the library, so
  this order is assumed, not shown.
- `ota_clientInfoRecover` gets its buffer (`ota.c:281`): it runs in `user_init`, before the main
  loop and any frame, on pools just set up. Without one it would recover nothing.

And of `EvTimer`: the clock is read once where the code reads it twice in a row, for the pass
(`ev_timer.c:303`) and for the tick of registration (`ev_timer.c:232`), so that what passes between
them is missing. `taskPost` takes a slot from the pool, so the branch of `ev_on_timer` for a timer
already listed (`ev_timer.c:134`) and the events that clients own and post themselves (`otaTimer`,
reporting), whose `isRunning` stays set when they are posted again, are left out.

### Fairness

`EvTimer` and `EpeverPoll` assume weak fairness of the clock and of the main loop:
nothing preempts it for good, and every callback returns. `EpeverPoll` also assumes
that the slave answers what it does not lose; faults are bounded. `PwmLevel` assumes
that each running timer fires again and again. That is the property `Serviced` of
`EvTimer`, for as long as the pool is not exhausted: two timers per endpoint and the
fade are 13 of 24 slots. `Bdb` assumes weak fairness of queued
tasks, of timers and of what the stack was asked for, and strong fairness of three
things that are tried again and again: that a network is found by one of many
attempts (`NwkEnd(TRUE)`), that a leave is accepted by one of many (`KeyGiveUp(TRUE)`, which
is not always enabled since the attempts begin again when their counter wraps), and that `steer_retry_cb`, due every 10 s, does not always come
while bdb is busy. `Ota` assumes weak fairness of tasks, of the timer, of the delivery
of what is not lost (faults being bounded), and of a server that goes on notifying.
No fairness is assumed of commands, of the power or of
writes, so none of them is ever required to come.

### Disagreements found

- `pwm_restore`: the remote's keys set `startUpOnOff` to 0 or 1 for good, so the state
  set later over ZCL is not the one restored (`ir_recv_cmd.c:36`).
- `pwm_save`: a MoveToLevel (or Step) to the level a running transition has just
  reached cancels the transition without saving it (`zcl_pwm5chCb.c:313-327`).
- `epever_interval`: writing the poll interval over ZCL changes the attribute only
  (`epeverEpCfg.c:242`), the callback being for cluster commands.

- `joining_told`: after a failed rejoin `nodeIsOnANetwork` stays 1, so the retry timer's
  steering takes the branch commented as rejoin, which only opens the network, and the
  application is told SUCCESS though the device is not joined
  (`bdb.c:1059`). It stays off the network until it restarts: `GetsJoined` holds only
  where `nodeIsOnANetwork` is 0.
- `ota_whole`: a download that begins again from 0 erases the flash but leaves the
  position of the earlier one in NV; with the header of the new download saved and
  the power cut before its position is, the client resumes past a hole. The CRC, which
  is carried along with the position and never computed over the flash, is right
  (`ota.c:1458`).

Some behaviours of the upgrade client, of joining, of the remote and of the frame
counter, most of which no document contradicts:

- No buffer for the header, or a query response that comes while the end request of a
  complete download is queued, leaves the upgrade in progress with nothing to move it
  on until a restart (`OutOfBuffers`, `TimerTaken`, which `UpgradeEnds` and `ImageDelivered`
  exempt by name).
- A complete download that waits for the server's upgrade time is ended at once by
  another query response.
- A block of another version sets the status to NORMAL without `ota_upgradeComplete`: the
  timer runs on, and the header's buffer is never given back if the next download
  takes a new one.
- `ota_ieeeAddrRspWait` calls `ota_upgradeComplete` in the timer's callback, which the
  comment at `ota.c:650` forbids for `ota_imageBlockRspWait`; no application sets the
  timer there, so nothing is lost.
- The image's start flag is written as 0xff and only `ota_mcuReboot` (never called)
  sets it; `bms_otaProcessMsgHandler` resets the device directly, so the old firmware
  starts again and the server's next notification begins anew. The model's `Reboot` is
  that.
- The retry of a failed save writes the flag INVALID to the start of a sector 0xff, far
  outside of the module and on some layouts in another one, and leaves a sector 1
  that was VALID as it is. `WriteInvalid` has no effect there, or fails.
- A key pressed while a frame of it is damaged and then held acts as the key before it,
  if that was an up or down key: `ir_recv_on_cmd` does not compare a repeat with the last
  key (its comment, `ir_recv_cmd.c:136`, asks for that). A repeat that meets the next frame
  in `ir_recv_poll` makes an up or down key act twice. If it is the repeat of a key that
  toggles, and the next frame is complete after `s_cmd` was read and before `s_repeat` is, the
  held key acts as one that is pressed, though `ir_recv_on_cmd` allows repeats to up and down keys
  only (`ir_recv_cmd.c:136`): the history variables `ofRepeat` and `mixed` count this, and
  `TogglesOnce` excepts it. It takes three frames. A key is lost when an edge comes between the poll's reading of the clock and of
  `s_last_time` (`ir_recv.c:226`), or when it is pressed some 268 s after the last one,
  the debounce's clock having wrapped.
- The second word of a frame counter sector is believed without comparison
  (`drv_nv.c:1005`); `NotFarAhead` excepts it (`SecondWord`).
- The key may be confirmed while the device leaves because it was not: the application
  is told SUCCESS, then the device leaves and no retry timer is left. `RetryWaits` does not cover
  this: it speaks of a device whose application was last told that it is not joined.
- A network status indication sets the LED of the dimmer and of the EPever monitor to not
  joined, also while they are joined; the comment in the Juntek monitor's handler
  (`juntekBMS/zb_appCb.c:150`) says that such indications are frequent in normal operation and calls
  this the bug that was corrected there. In all three the indication starts nothing: what the
  LED shows is no sign that a retry timer runs. No run shows it, the LED being left out.
- Retry timers multiply with every failure and removal until the pool is full and the device resets,
  which ends the pile-up (`PoolExhausted`).

`Quiesces` is worded around another behaviour, which no document of the repository
contradicts: a Move and a MoveToLevel running together can undo each other's steps
for ever, since neither cancels the other.

## Proofs

`EvTimer_proofs` proves, for every number of slots, every finite or infinite set of
clients, every set of periods and every counter (the assumptions `PoolAssumption`,
`ClientsAssumption`, `TimeAssumption` of `EvTimer`, all evaluated by TLC too):

- `Inductive`: `Spec => []IInv`;
- `TypeCorrect`, `PoolAccountingHolds`, `ListIntactHolds`, `HandleExactHolds`,
  `BusyIsRunningHolds`, `NearestRightHolds`, `NoDueSkippedHolds`, `NotEarlyHolds`,
  `NotLateHolds`: the invariants of the same names that the runs `ev_timer` and
  `ev_timer_clock` check;
- `RefinesService`: `Spec => ImplementsService`, every step of the pool, the list and the
  walk is one of `TimerService` or changes nothing of what its clients see.

The properties as they stand are not inductive. `ListIntact` says that the nodes
reachable from the head are the used slots, and reachability is awkward to preserve
when a node is unlinked. `IInv` states it locally instead (`ControlOK`, `Ranked`):
some ranking of the slots decreases along every link (so there is no cycle), every
used slot but the head has exactly one predecessor, the head has none, and links of
used slots lead to used slots. From that, `ListedIsUsed` and `ListEnds` give
`ListIntact` by taking a used slot of extreme rank (`LeastNat`, from the library's
well-founded induction). `UnonDeletes` and `PostAdds` show that unlinking any node,
and adding a head, keep such a ranking and change the used slots by exactly one; the
pool's counter follows by cardinality. `HandleExact` needs `BusyIsRunning` and
`CursorInUse`: the callback's own slot stays in use until it returns, since a cancel
is refused while it is busy, so a slot cannot change hands under its callback.
There is one lemma per action (`ScheduleKeeps` to `WalkEndKeeps`), joined in
`NextKeeps`.

`PwmLevel_proofs` proves the dimmer's `TypeOK`, `NoOrphanTimer`, `FadeArmed` and
`TargetFollows` for any set of channels, any number of levels, duty range and fade, from
`PwmAssumption`. The inductive invariant joins them, because none stands alone: a
channel's target is kept only while the fade goes on, `pwm_hw_apply` starts the fade
timer only if its handle is clear, so the fade can be relied on only while every handle
tells whether its timer runs. That a scaled level stays a duty is arithmetic
(`TicksRange`, `ScaledLevel`).

`NvFlash_proofs` proves `TypeOK`, `OneValidSector`, `NoHalfItem` and `NeverWithoutSector` of the
item storage for any set of items and values and any size of the index, from
`NvAssumption`. A flag is set in the light of what was found several steps before, and the power
may fail at any of them, so `IInv` says for each value of `pc` what the flags of both sectors
are (`SectorsOK`), which request leads there (`PhaseOK`), how far the copy has come and
that the copy fits (`ProgressOK`), and what the state of an index's last entry may be
(`FlashOK`). One lemma per flash operation, one per action.

`IrRecv_proofs` proves `NeverDeaf` and `TogglesOnce` for any keys, length of a frame, debounce
times, clock, and number of frames and of edges that are noise, from `RemoteAssumption`.
`NeverDeaf` is inductive as it stands: the interrupt turns
the polarity back whenever it goes to rest (`EdgeInHears`), and the main loop's reset is
the only other way there (`MainLoopHears`). An edge between the reset's two assignments
starts a frame, which the second one makes the decoder miss, but not more.
`TogglesOnce` is an argument about credit (`KeyOK`). A press is worth one action; `Due` is the
frames of a key that the bits collected (`Got`) and those on air (`Left`) may still complete,
two at most, since bits of a spoiled frame may be followed by the next one of the same key. A
frame that is completed moves its press from what is due to what is spare (`KeyAfterEdge`), and
a key that waits or is being taken has a press to spare, or acted within the main loop's
lag: then `ir_debounce` ignores it, as the lag is below `SAME` (`OnCmdKeeps`). The second case
is the key whose frame is complete between `s_ready = 0` and the reading of `s_cmd`: it is
taken, and ready again. A frame's edges are read off the sequence once (`FrameEdgesAre`).

Four more invariants carry the rest of `EvTimer_proofs`.

- The walk (`WalkInductive`). `NoDueSkipped` speaks of the nodes the walk has not reached
  only as long as it goes on, so `WalkInv` says at every `pc` where what is due is to be
  found: every due timer is reachable from the cursor (`DueAhead`), a timer posted
  meanwhile is put before the head, behind the walk, and is not due; a node unlinked by a
  callback is replaced by the one after it. "Reachable" is a set closed under `next`
  (`NextClosed`, `Covers`), so that unlinking is a matter of one element. What is due was
  armed before the walk (`DueArmed`): that is why a slot freed and taken again by a
  callback is not due by mistake.
- The nearest timer (`NextNearest`): each way out of the main loop's procedures leaves
  `timer_nearest` at a least timeout, or with nothing used (`NearestOf`).
- The pacing (`TimesInductive`). `Timed` ties the field `timeout` of each slot to its age: what
  has been charged to a timer, with what the counter has advanced since the last call and
  the remainder kept from it, is within a millisecond of its age, unless `timeout` was cut
  off at 0. The products with `TicksPerMs` are kept to a few lemmas about `Charge` and `Left`.
  `NotEarly` and `NotLate` follow by arithmetic; `NotEarlyHolds` has the hypothesis that
  `AgeCap`, where the history variable stops counting, is beyond every period: the history
  variable says nothing of a longer one.
- The refinement: one lemma per action names the step of `TimerService` it is
  (`ScheduleServes` to `MainLoopServes`). A cancel is a stutter when the timer is busy, a
  posted slot was not among those pending, and a callback's return ends or keeps the
  timer that runs: each rests on `HandleExact`, `BusyIsRunning` and `CursorInUse`.

`EpeverPoll_proofs` proves `TypeOK`, `SnapshotCoherent` and `CycleEnds` for every timeout, interval,
clock, length of a pass and number of faults. A frame does not say in which cycle it was
asked for, so what makes a snapshot coherent is time: an answer to the first section's
request that is still on its way was sent in this cycle, or it would be older than the
slave's answers are (`FirstIsNew`), and since the slave answers in order, nothing old comes after
it (`OldBeforeNew`). The same has to be said of the buffer, also when the frame came
in the pass before (`Unread`) and when the interrupt fell between the flag and the buffer
(`ParsedIsNew`). `CycleEnds` comes from the time each section took (`SectionsTook`,
`Awaited`) and from the clock not coming round meanwhile (`NoWrap`).

`Bdb_proofs` proves `TypeOK`, `NotCutShort` and `RetryWaits` for every number of attempts, every width of
their counter, every number of timers, requests, removals, rejoins and power cuts. The invariant is a table of what `bdb_task` may have
queued and which timers run in each of its states: in `BDB_STATE_IDLE` on a device without a
network at most two tasks, of which `commissioningStatus` tells (`Restful`); in
`BDB_STATE_STEER` exactly one of a discovery, a timer, the retrieval of the key or the tasks that
end the steering (`SteerOK`), with one START in front at most, which `bdb_task` then loses. An
event of an earlier steering would be a second one of these.

`Ota_proofs` proves `TypeOK`, `NeverMixed` and `NotGarbled` for every set of versions, number of blocks,
retries, saves, faults and power cuts. The flash is safe because of the NV item of the
header: as long as NV has a header, the area has blocks of its image only
(`HeaderOfArea`), a download that has come further than its header has it in NV
(`HeaderSaved`), and while the header is collected nothing is written (`HeaderHeld`). That
an image counts as complete only with both its ends is `Checked`; blocks between them may
be missing, which is the finding of `ota_whole`. `GivenUp` bounds the retries, for `TypeOK`.

Every safety invariant that a passing run checks is a theorem. Liveness
(`Serviced`, `Quiesces`, `ReadingsResume`, `SteeringEnds`, `GetsJoined`, `UpgradeEnds`,
`ImageDelivered`) is beyond the prover and stays with TLC.

## Not modelled

Vendor and binary parts of the Zigbee stack, drivers, display, host interface and
green power: their code is either not in the repository, is register access, or is not
used by the applications. The largest files of the sources are register headers of
chips, tables and packet formats without state, which is why the mapped lines are a
small part of all lines. Of joining, what only the host interface starts (formation,
finding and binding, touchlink, `bdb_join_direct`, `tl_bdbReset`) is left out; of OTA the
server side, the periodic query and encryption. Flash writes that fail, transition
times, the content of readings and report intervals are abstracted away, as said
above. Nothing calls `factory_reset.c`.
The Juntek filter, buffers, queues and reporting remain.

## Plan

In this order:

1. *Buffers and queues*: `EvBuffer`, `EvQueue`; blocks neither lost nor shared; then the
   full task queue in `Bdb` and `Ota`.
2. *Juntek* filter; *reporting* timers; failing writes in `NvFlash`.
