-------------------------------- MODULE Ota --------------------------------
(***************************************************************************)
(* The OTA upgrade client: zigbee/ota/ota.c as juntekBMS uses it.  The     *)
(* server notifies, the client asks what there is, fetches an image block  *)
(* by block into the second half of the flash, and ends by resetting the   *)
(* device.  One timer, otaTimer, plays five roles in turn; what a callback *)
(* of it must not do itself goes through the task queue.  Progress is in   *)
(* two NV items, written at different times: the header of the image with  *)
(* the server's address, and the client's position with the CRC so far.    *)
(*                                                                         *)
(* An image is Blocks answers long: block 0 is in the header, block 1      *)
(* completes it and begins the one element, which ends with the image.     *)
(* All images have one size, so that a resume has only the version to tell *)
(* them apart.  No application calls ota_queryStart: the periodic query,   *)
(* with the search for a server it makes, is left out.                     *)
(***************************************************************************)
EXTENDS Naturals, Sequences

CONSTANTS Versions,      \* image versions on offer, none of them running
          Blocks,        \* answers that make up an image
          ResumeAfter,   \* 4096 bytes, in blocks
          SaveEvery,     \* FLASH_WRITE_COUNT_GET
          BlockRetries,  \* OTA_MAX_IMAGE_BLOCK_RETRIES
          EndRetries,    \* OTA_MAX_UPGRADE_END_REQ_RETRIES
          AddrRetries,   \* OTA_IEEE_ADDR_REQ_RETRIES
          MaxFaults,     \* bound: messages lost or late, waits the server
                         \* asks for, and times no buffer is free
          MaxCuts,       \* bound: power cuts
          MaxOffers      \* bound: times the server's image changes

ASSUME OtaAssumption ==
    /\ Versions \subseteq Nat \ {0, 1} /\ Versions # {}
    /\ Blocks \in Nat /\ Blocks > 2
    /\ ResumeAfter \in 1..(Blocks - 1)
    /\ {SaveEvery, BlockRetries, EndRetries, AddrRetries} \subseteq Nat \ {0}
    /\ {MaxFaults, MaxCuts, MaxOffers} \subseteq Nat

VARIABLES imageUpgradeStatus,  \* zcl_attr_imageUpgradeStatus
          fileOffset,          \* zcl_attr_fileOffset, in blocks
          downloadVer,         \* zcl_attr_downloadFileVer, type and size with it
          serverKnown,         \* zcl_attr_upgradeServerID is valid
          clientInfo,          \* otaClientInfo
          updateInfo,          \* pOtaUpdateInfo is allocated
          imageBlockRetry,
          upgradeEndRetry,
          ieeeCnt,             \* cnt of ota_ieeeAddrRspWait
          saveCnt,             \* cnt of ota_saveUpdateInfo2NV
          paced,               \* zcl_attr_minBlockPeriod # 0
          otaTimer,            \* what otaTimer's callback will do
          tasks,               \* what TL_SCHEDULE_TASK has queued
          rebooting,           \* OTA_EVT_COMPLETE with success: SOFT_REBOOT
          flash,               \* the image area, one cell for each element block
          hdrItem,             \* NV_ITEM_OTA_HDR_SERVERINFO: a version, or 0
          codeItem,            \* NV_ITEM_OTA_CODE, or Nothing
          air,                 \* what the server has sent
          offer,               \* what the server has
          budget               \* what may still go wrong

attrs   == <<imageUpgradeStatus, fileOffset, downloadVer, clientInfo, updateInfo>>
retries == <<imageBlockRetry, upgradeEndRetry, ieeeCnt>>
nv      == <<hdrItem, codeItem>>
world   == <<air, offer, budget>>
vars    == <<attrs, serverKnown, retries, saveCnt, paced, otaTimer, tasks,
             rebooting, flash, nv, world>>

Element == 1..(Blocks - 1)
Erased  == 0
Garbled == 1                     \* one image written over another
Unset   == Blocks + 1            \* a fileOffset of 0xffffffff

Statuses == {"NORMAL", "IN_PROGRESS", "COMPLETE", "COUNT_DOWN", "WAITING"}
Flags    == {"INIT_DONE", "MAGIC_0", "CONT_HDR", "ELEMENT", "ELEM_TAG1"}
Roles    == {"off", "reqDelay", "blockRsp", "blockWait", "ieeeRsp", "upgrade"}
Tasks    == {"blockReq", "blockReqNow", "timeout", "save", "ieeeReq", "endReq"}

\* A CRC is the data it was computed over.
Whole(v)  == [b \in Element |-> v]
CrcInit   == <<>>
InfoReset == [offset |-> 0, crc |-> CrcInit, flag |-> "INIT_DONE"]
Nothing   == [offset |-> 0, crc |-> CrcInit, flag |-> "none"]

\* What the server sends.
Query(v)    == [kind |-> "query", ver |-> v]
Block(v, b) == [kind |-> "block", ver |-> v, block |-> b]
Wait(t)     == [kind |-> "wait", time |-> t]
Abort       == [kind |-> "abort"]
End(v, t)   == [kind |-> "end", ver |-> v, time |-> t]
IeeeRsp     == [kind |-> "ieee", ok |-> TRUE]
IeeeFail    == [kind |-> "ieee", ok |-> FALSE]

Spend(what) == /\ budget[what] > 0
               /\ budget' = [budget EXCEPT ![what] = @ - 1]
Post(t)     == tasks' = Append(tasks, t)
At(t)       == ~rebooting /\ tasks # <<>> /\ Head(tasks) = t
Pop         == tasks' = Tail(tasks)

\* Frames come through the same queue as tasks: one that was there when a
\* callback of the timer posted a task is received before it, and what a
\* handler posted is done before another frame is received.
Receiving   == /\ ~rebooting
               /\ tasks # <<>> => Head(tasks) \notin {"save", "ieeeReq"}
InProgress  == imageUpgradeStatus = "IN_PROGRESS"

-----------------------------------------------------------------------------
(* Requests: what is sent, and what the server makes of it.  rest is what  *)
(* is in the air besides the answer.                                       *)

\* ota_imageBlockReq.  A request past the end gets no answer of use.
BlockReq(v, b, rest) ==
    \/ v # offer /\ air' = rest \cup {Abort} /\ UNCHANGED budget
    \/ v = offer /\ b >= Blocks /\ air' = rest /\ UNCHANGED budget
    \/ v = offer /\ b < Blocks /\ air' = rest \cup {Block(v, b)} /\ UNCHANGED budget
    \/ \E t \in BOOLEAN : air' = rest \cup {Wait(t)} /\ Spend("faults")

\* sendImageBlockReq
SendBlockReqNow(v, b, rest) ==
    /\ BlockReq(v, b, rest)
    /\ otaTimer' = "blockRsp"

\* ota_sendImageBlockReq
SendBlockReq(v, b, rest) ==
    IF paced
    THEN otaTimer' = "reqDelay" /\ air' = rest /\ UNCHANGED budget
    ELSE SendBlockReqNow(v, b, rest)

\* ota_upgradeEndReqSend with ZCL_STA_SUCCESS.  The server lets the device
\* upgrade at once or later, or makes it ask again.
EndReq(v, rest) ==
    \/ \E t \in {"now", "later"} : air' = rest \cup {End(v, t)} /\ UNCHANGED budget
    \/ air' = rest \cup {End(v, "unknown")} /\ Spend("faults")

-----------------------------------------------------------------------------
(* The end of an upgrade: ota_upgradeComplete, with the application's      *)
(* callback, which resets the device after a success.                      *)
Complete(st) ==
    /\ updateInfo' = FALSE
    /\ imageUpgradeStatus' = "NORMAL"
    /\ rebooting' = (st = "SUCCESS")
    /\ IF st = "ABORT" THEN UNCHANGED nv ELSE hdrItem' = 0 /\ codeItem' = Nothing
    /\ IF st = "INVALID"
       THEN clientInfo' = InfoReset /\ fileOffset' = Unset /\ downloadVer' = 0
       ELSE UNCHANGED <<clientInfo, fileOffset, downloadVer>>

\* ota_imageNotifyHandler, which asks with ota_queryNextImageReq.  While an
\* upgrade is under way the notification is refused.
ImageNotify ==
    /\ Receiving /\ tasks = <<>>
    /\ imageUpgradeStatus = "NORMAL" /\ Query(offer) \notin air
    /\ air' = air \cup {Query(offer)}
    /\ UNCHANGED <<attrs, serverKnown, retries, saveCnt, paced, otaTimer, tasks,
                   rebooting, flash, nv, offer, budget>>

\* Mutated form: an image needs no mark.
CrcRightUnmarked(area, crc) ==
    \E v \in Versions : area[Blocks - 1] = v /\ crc = Whole(v)

\* The CRC check of an image in flash: it must have its mark, at offset 6 of
\* the first block, and its last block must hold the CRC computed so far.
CrcRight(area, crc) ==
    /\ area[1] # Erased
    /\ \E v \in Versions : area[Blocks - 1] = v /\ crc = Whole(v)

\* Mutated form: the version is not compared.
ResumableAny(v) == downloadVer # 0 /\ fileOffset > ResumeAfter

\* Can the download go on from where it was?
Resumable(v) == downloadVer = v /\ fileOffset > ResumeAfter

\* An earlier download of the same image goes on.
Resume(v, rest) ==
    /\ Resumable(v) /\ clientInfo.offset # Blocks
    /\ imageUpgradeStatus' = "IN_PROGRESS"
    /\ SendBlockReq(v, fileOffset, rest)
    /\ UNCHANGED <<fileOffset, downloadVer, clientInfo, updateInfo, tasks,
                   rebooting, flash, nv>>

\* The whole image is there and right: upgrade.
AlreadyThere(v, rest) ==
    /\ Resumable(v) /\ clientInfo.offset = Blocks /\ CrcRight(flash, clientInfo.crc)
    /\ Complete("SUCCESS")
    /\ otaTimer' = "off" /\ air' = rest
    /\ UNCHANGED <<tasks, flash, budget>>

\* Mutated form: what an earlier download wrote stays.
AreaKept == flash

\* What the erasing before a restart leaves.
AreaErased == [b \in Element |-> Erased]

\* Otherwise from 0: the area is erased, and a buffer taken for the header.
\* Without a buffer the handler returns with the status already changed.
Restarts(v) ==
    ~Resumable(v) \/ (clientInfo.offset = Blocks /\ ~CrcRight(flash, clientInfo.crc))

FromZero(v, rest) ==
    /\ Restarts(v)
    /\ imageUpgradeStatus' = "IN_PROGRESS"
    /\ fileOffset' = 0 /\ downloadVer' = v
    /\ flash' = AreaErased
    /\ \/ /\ updateInfo' = FALSE /\ Spend("faults")
          /\ clientInfo' = [clientInfo EXCEPT !.crc = CrcInit]
          /\ otaTimer' = "off" /\ air' = rest
          /\ UNCHANGED tasks
       \/ /\ updateInfo' = TRUE /\ ~serverKnown
          /\ clientInfo' = [clientInfo EXCEPT !.crc = CrcInit]
          /\ Post("ieeeReq")
          /\ otaTimer' = "off" /\ air' = rest
          /\ UNCHANGED budget
       \/ /\ updateInfo' = TRUE /\ serverKnown
          /\ clientInfo' = [clientInfo EXCEPT !.crc = CrcInit, !.flag = "MAGIC_0"]
          /\ SendBlockReq(v, 0, rest)
          /\ UNCHANGED tasks
    /\ UNCHANGED <<rebooting, nv>>

\* ota_queryNextImageRspHandler.  It is deaf only while a download runs: one
\* that is complete and waits for the server's word is taken up again.
QueryNextImageRsp(v) ==
    LET rest == air \ {Query(v)} IN
    /\ Receiving /\ Query(v) \in air
    /\ IF InProgress
       THEN /\ air' = rest
            /\ UNCHANGED <<attrs, retries, otaTimer, tasks, rebooting, flash, nv,
                           budget>>
       ELSE /\ imageBlockRetry' = 0
            /\ Resume(v, rest) \/ AlreadyThere(v, rest) \/ FromZero(v, rest)
            /\ UNCHANGED <<upgradeEndRetry, ieeeCnt>>
    /\ UNCHANGED <<serverKnown, saveCnt, paced, offer>>

-----------------------------------------------------------------------------
(* What arrives during an upgrade.                                         *)

\* ota_imageDataProcess: the header's first block, a block of the element, and
\* everything that is not expected where the client stands.
HeaderBlock(b) == clientInfo.flag = "MAGIC_0" /\ b = 0 /\ updateInfo
ElementBlock(b) ==
    \/ clientInfo.flag = "CONT_HDR" /\ b = 1 /\ updateInfo
    \/ clientInfo.flag = "ELEMENT" /\ b > 0

\* flash_writeWithCheck reads back what it wrote: flash that is not erased only
\* takes what it already has.
Written(v, b) == [flash EXCEPT ![b] = IF @ \in {Erased, v} THEN v ELSE Garbled]
Sum(v)        == Append(clientInfo.crc, v)
Accepted(v, b) ==
    \/ HeaderBlock(b)
    \/ /\ ElementBlock(b)
       /\ Written(v, b)[b] = v
       /\ b = Blocks - 1 => CrcRight(Written(v, b), Sum(v))

\* The header is saved as soon as it is complete, and its buffer freed.
TakeBlock(v, b) ==
    /\ fileOffset' = b + 1
    /\ imageUpgradeStatus' =
           IF b = Blocks - 1 THEN "COMPLETE" ELSE imageUpgradeStatus
    /\ IF b = 0
       THEN /\ clientInfo' = [clientInfo EXCEPT !.flag = "CONT_HDR"]
            /\ UNCHANGED <<updateInfo, flash, hdrItem>>
       ELSE /\ clientInfo' = [offset |-> b + 1, crc |-> Sum(v),
                  flag |-> IF b = Blocks - 1 THEN "ELEM_TAG1" ELSE "ELEMENT"]
            /\ updateInfo' = FALSE
            /\ flash' = Written(v, b)
            /\ hdrItem' = IF clientInfo.flag = "CONT_HDR" THEN v ELSE hdrItem
    /\ UNCHANGED <<downloadVer, codeItem, rebooting>>

\* The block asked for: the next is asked for, or the server is told that the
\* image is complete.  Data that is refused ends the upgrade for good.
ExpectedBlock(v, b, rest) ==
    /\ imageBlockRetry' = 0
    /\ \/ /\ Accepted(v, b)
          /\ TakeBlock(v, b)
          /\ Post("save")
          /\ IF b = Blocks - 1
             THEN EndReq(v, rest) /\ otaTimer' = "upgrade" /\ upgradeEndRetry' = 0
             ELSE SendBlockReq(v, b + 1, rest) /\ UNCHANGED upgradeEndRetry
       \/ /\ ~Accepted(v, b)
          /\ Complete("INVALID")
          /\ flash' = IF ElementBlock(b) THEN Written(v, b) ELSE flash
          /\ otaTimer' = "off" /\ air' = rest
          /\ UNCHANGED <<tasks, upgradeEndRetry, budget>>
    /\ UNCHANGED ieeeCnt

\* A block of another image: the download is over, but nothing else is undone.
ForeignBlock(rest) ==
    /\ imageUpgradeStatus' = "NORMAL"
    /\ air' = rest
    /\ UNCHANGED <<fileOffset, downloadVer, clientInfo, updateInfo, retries,
                   otaTimer, tasks, rebooting, flash, nv, budget>>

\* ota_imageBlockRspHandler with data.
BlockRsp(v, b) ==
    LET rest == air \ {Block(v, b)} IN
    /\ Receiving /\ Block(v, b) \in air
    /\ \/ InProgress /\ v = downloadVer /\ b = fileOffset /\ ExpectedBlock(v, b, rest)
       \/ InProgress /\ v # downloadVer /\ ForeignBlock(rest)
       \/ /\ ~InProgress \/ (v = downloadVer /\ b # fileOffset)
          /\ air' = rest
          /\ UNCHANGED <<attrs, retries, otaTimer, tasks, rebooting, flash, nv,
                         budget>>
    /\ UNCHANGED <<serverKnown, saveCnt, paced, offer>>

\* ota_imageBlockRspHandler told to wait: for a time, or between requests.
BlockWait(t) ==
    LET rest == air \ {Wait(t)} IN
    /\ Receiving /\ Wait(t) \in air
    /\ \/ /\ InProgress /\ t
          /\ imageBlockRetry' = 0
          /\ otaTimer' = "blockWait" /\ air' = rest
          /\ UNCHANGED <<paced, budget>>
       \/ /\ InProgress /\ ~t
          /\ paced' \in BOOLEAN
          /\ IF paced'
             THEN otaTimer' = "reqDelay" /\ air' = rest /\ UNCHANGED budget
             ELSE SendBlockReqNow(downloadVer, fileOffset, rest)
          /\ UNCHANGED imageBlockRetry
       \/ /\ ~InProgress
          /\ air' = rest
          /\ UNCHANGED <<imageBlockRetry, otaTimer, paced, budget>>
    /\ UNCHANGED <<attrs, serverKnown, upgradeEndRetry, ieeeCnt, saveCnt, tasks,
                   rebooting, flash, nv, offer>>

\* ota_imageBlockRspHandler told to give up.
BlockAbort ==
    /\ Receiving /\ Abort \in air
    /\ air' = air \ {Abort}
    /\ IF InProgress
       THEN Complete("ABORT") /\ otaTimer' = "off" /\ imageBlockRetry' = 0
       ELSE UNCHANGED <<attrs, imageBlockRetry, otaTimer, rebooting, nv>>
    /\ UNCHANGED <<serverKnown, upgradeEndRetry, ieeeCnt, saveCnt, paced, tasks,
                   flash, offer, budget>>

\* ota_upgradeEndRspHandler.
Awaits(v, t) ==
    /\ \/ imageUpgradeStatus = "COMPLETE"
       \/ imageUpgradeStatus = "WAITING" /\ t # "unknown"
    /\ v = downloadVer

UpgradeEndRsp(v, t) ==
    /\ Receiving /\ End(v, t) \in air
    /\ air' = air \ {End(v, t)}
    /\ \/ /\ Awaits(v, t) /\ t = "now"
          /\ Complete("SUCCESS") /\ otaTimer' = "off"
          /\ UNCHANGED upgradeEndRetry
       \/ /\ Awaits(v, t) /\ t # "now"
          /\ imageUpgradeStatus' = IF t = "later" THEN "COUNT_DOWN" ELSE "WAITING"
          /\ otaTimer' = "upgrade"
          /\ upgradeEndRetry' = IF t = "later" THEN upgradeEndRetry ELSE 0
          /\ UNCHANGED <<fileOffset, downloadVer, clientInfo, updateInfo, rebooting, nv>>
       \/ /\ ~Awaits(v, t)
          /\ UNCHANGED <<attrs, upgradeEndRetry, otaTimer, rebooting, nv>>
    /\ UNCHANGED <<serverKnown, imageBlockRetry, ieeeCnt, saveCnt, paced, tasks,
                   flash, offer, budget>>

\* ota_ieeeAddrRspCb: the server's address, which the download waits for.
IeeeAddrRsp(m) ==
    LET rest == air \ {m}
        next == InProgress /\ clientInfo.flag = "INIT_DONE" IN
    /\ Receiving /\ m \in air /\ m.kind = "ieee"
    /\ serverKnown' = (serverKnown \/ m.ok)
    /\ \/ /\ next /\ m.ok
          /\ SendBlockReq(downloadVer, fileOffset, rest)
          /\ clientInfo' = [clientInfo EXCEPT !.flag = "MAGIC_0"]
          /\ UNCHANGED <<imageUpgradeStatus, fileOffset, downloadVer, updateInfo,
                         rebooting, nv>>
       \/ /\ next /\ ~m.ok
          /\ Complete("ABORT")
          /\ otaTimer' = "off" /\ air' = rest
          /\ UNCHANGED budget
       \/ /\ ~next
          /\ air' = rest
          /\ UNCHANGED <<attrs, otaTimer, rebooting, nv, budget>>
    /\ UNCHANGED <<retries, saveCnt, paced, tasks, flash, offer>>

-----------------------------------------------------------------------------
(* The timer, in each of its roles.  Its event is deleted when a callback  *)
(* returns, even one that the callback set again: what sends and sets it   *)
(* again is left to the task queue.                                        *)

\* Every one of its times is longer than the queue takes.  An expiry that meets
\* a message on its way finds it late.
Due(role) == /\ ~rebooting /\ tasks = <<>> /\ otaTimer = role
             /\ IF air = {} THEN UNCHANGED budget ELSE Spend("faults")

\* ota_sendImageBlockReqDelay and ota_imageBlockWaitCb
WaitOver ==
    /\ Due("reqDelay") \/ Due("blockWait")
    /\ otaTimer' = "off"
    /\ IF otaTimer = "reqDelay" \/ InProgress THEN Post("blockReqNow")
                                              ELSE UNCHANGED tasks
    /\ UNCHANGED <<attrs, serverKnown, retries, saveCnt, paced, rebooting, flash,
                   nv, air, offer>>

\* Mutated form: the callback sends the request itself, and sets the timer that
\* is deleted when it returns.
BlockRspLateDirect ==
    /\ Due("blockRsp")
    /\ otaTimer' = "off"
    /\ imageBlockRetry' = imageBlockRetry + 1
    /\ IF imageBlockRetry' >= BlockRetries
       THEN Post("timeout") /\ UNCHANGED air
       ELSE air' = air \cup {Block(downloadVer, fileOffset)} /\ UNCHANGED tasks
    /\ UNCHANGED <<attrs, serverKnown, upgradeEndRetry, ieeeCnt, saveCnt, paced,
                   rebooting, flash, nv, offer>>

\* ota_imageBlockRspWait
BlockRspLate ==
    /\ Due("blockRsp")
    /\ otaTimer' = "off"
    /\ imageBlockRetry' = imageBlockRetry + 1
    /\ Post(IF imageBlockRetry' >= BlockRetries THEN "timeout" ELSE "blockReq")
    /\ UNCHANGED <<attrs, serverKnown, upgradeEndRetry, ieeeCnt, saveCnt, paced,
                   rebooting, flash, nv, air, offer>>

\* ota_ieeeAddrRspWait
IeeeRspLate ==
    /\ Due("ieeeRsp")
    /\ IF ieeeCnt + 1 >= AddrRetries
       THEN ieeeCnt' = 0 /\ Complete("ABORT") /\ otaTimer' = "off" /\ UNCHANGED air
       ELSE /\ ieeeCnt' = ieeeCnt + 1
            /\ air' = air \cup {IeeeRsp}
            /\ UNCHANGED <<attrs, rebooting, nv, otaTimer>>
    /\ UNCHANGED <<serverKnown, imageBlockRetry, upgradeEndRetry, saveCnt, paced,
                   tasks, flash, offer>>

\* ota_upgradeWaitCb and ota_upgrade: when the server says no more, the device
\* upgrades by itself.
UpgradeDue ==
    /\ Due("upgrade")
    /\ otaTimer' = "off"
    /\ \/ /\ \/ imageUpgradeStatus = "COUNT_DOWN" /\ UNCHANGED upgradeEndRetry
             \/ /\ imageUpgradeStatus \in {"COMPLETE", "WAITING"}
                /\ upgradeEndRetry + 1 >= EndRetries
                /\ upgradeEndRetry' = upgradeEndRetry + 1
          /\ Complete("SUCCESS")
          /\ UNCHANGED tasks
       \/ /\ imageUpgradeStatus \in {"COMPLETE", "WAITING"}
          /\ upgradeEndRetry + 1 < EndRetries
          /\ upgradeEndRetry' = upgradeEndRetry + 1
          /\ Post("endReq")
          /\ UNCHANGED <<attrs, rebooting, nv>>
       \/ /\ imageUpgradeStatus \in {"NORMAL", "IN_PROGRESS"}
          /\ UNCHANGED <<attrs, rebooting, nv, upgradeEndRetry, tasks>>
    /\ UNCHANGED <<serverKnown, imageBlockRetry, ieeeCnt, saveCnt, paced, flash,
                   air, offer>>

Timer == WaitOver \/ BlockRspLate \/ IeeeRspLate \/ UpgradeDue

-----------------------------------------------------------------------------
(* The task queue.                                                         *)

\* ota_sendImageBlockReq and sendImageBlockReq, whatever became of the
\* download since.
BlockReqTask ==
    /\ \/ At("blockReq") /\ SendBlockReq(downloadVer, fileOffset, air)
       \/ At("blockReqNow") /\ SendBlockReqNow(downloadVer, fileOffset, air)
    /\ Pop
    /\ UNCHANGED <<attrs, serverKnown, retries, saveCnt, paced, rebooting, flash,
                   nv, offer>>

\* ota_imageBlockRspTimeout
TimeoutTask ==
    /\ At("timeout") /\ Pop
    /\ Complete("ABORT")
    /\ UNCHANGED <<serverKnown, retries, saveCnt, paced, otaTimer, flash, world>>

\* Mutated form: one block too many between two saves.
SaveDueLate == saveCnt + 1 > SaveEvery \/ imageUpgradeStatus = "COMPLETE"

SaveDue == saveCnt + 1 >= SaveEvery \/ imageUpgradeStatus = "COMPLETE"

\* ota_saveUpdateInfo2NV
SaveTask ==
    /\ At("save") /\ Pop
    /\ IF SaveDue
       THEN saveCnt' = 0 /\ codeItem' = clientInfo
       ELSE saveCnt' = saveCnt + 1 /\ UNCHANGED codeItem
    /\ UNCHANGED <<attrs, serverKnown, retries, paced, otaTimer, rebooting, flash,
                   hdrItem, world>>

\* ota_ieeeAddrReqSend
IeeeReqTask ==
    /\ At("ieeeReq") /\ Pop
    /\ air' = air \cup {IeeeRsp}
    /\ otaTimer' = "ieeeRsp"
    /\ UNCHANGED <<attrs, serverKnown, retries, saveCnt, paced, rebooting, flash,
                   nv, offer, budget>>

\* ota_upgradeWithWait
EndReqTask ==
    /\ At("endReq") /\ Pop
    /\ EndReq(downloadVer, air)
    /\ otaTimer' = "upgrade"
    /\ UNCHANGED <<attrs, serverKnown, retries, saveCnt, paced, rebooting, flash,
                   nv, offer>>

Task == BlockReqTask \/ TimeoutTask \/ SaveTask \/ IeeeReqTask \/ EndReqTask

-----------------------------------------------------------------------------
(* The world: messages are lost, the server's image changes, the power     *)
(* fails.                                                                  *)
Lose(m) ==
    /\ m \in air /\ Spend("faults")
    /\ air' = (air \ {m}) \cup (IF m = IeeeRsp THEN {IeeeFail} ELSE {})
    /\ UNCHANGED <<attrs, serverKnown, retries, saveCnt, paced, otaTimer, tasks,
                   rebooting, flash, nv, offer>>

NewOffer ==
    /\ Spend("offers")
    /\ offer' \in Versions \ {offer}
    /\ UNCHANGED <<attrs, serverKnown, retries, saveCnt, paced, otaTimer, tasks,
                   rebooting, flash, nv, air>>

\* ota_init with ota_clientInfoRecover, over what the NV items are now.
Boot(hdr, code) ==
    LET found == hdr # 0 /\ code # Nothing IN
    /\ imageUpgradeStatus' = "NORMAL"
    /\ clientInfo' = IF found THEN code ELSE InfoReset
    /\ fileOffset' = IF found THEN code.offset ELSE Unset
    /\ downloadVer' = IF found THEN hdr ELSE 0
    /\ serverKnown' = found
    /\ updateInfo' = FALSE
    /\ imageBlockRetry' = 0 /\ upgradeEndRetry' = 0 /\ ieeeCnt' = 0
    /\ saveCnt' = 0 /\ paced' = FALSE
    /\ otaTimer' = "off" /\ tasks' = <<>> /\ air' = {}
    /\ rebooting' = FALSE

\* SOFT_REBOOT, in the application's callback.
Reboot ==
    /\ rebooting
    /\ Boot(hdrItem, codeItem)
    /\ UNCHANGED <<flash, nv, offer, budget>>

\* The power fails: at any time, in the middle of the erasing that a restart
\* from 0 begins with, or between the header's item and the flash behind it.
PowerCut ==
    /\ ~rebooting /\ Spend("cuts")
    /\ \/ UNCHANGED <<flash, nv>> /\ Boot(hdrItem, codeItem)
       \/ \E v \in Versions, last \in Element :
             /\ Query(v) \in air /\ ~InProgress /\ Restarts(v)
             /\ flash' = [b \in Element |-> IF b <= last THEN Erased ELSE flash[b]]
             /\ UNCHANGED nv
             /\ Boot(hdrItem, codeItem)
       \/ /\ InProgress /\ Block(downloadVer, 1) \in air /\ fileOffset = 1
          /\ clientInfo.flag = "CONT_HDR" /\ updateInfo
          /\ hdrItem' = downloadVer
          /\ UNCHANGED <<flash, codeItem>>
          /\ Boot(downloadVer, codeItem)
    /\ UNCHANGED offer

Init ==
    /\ imageUpgradeStatus = "NORMAL" /\ fileOffset = Unset /\ downloadVer = 0
    /\ serverKnown = FALSE /\ clientInfo = InfoReset /\ updateInfo = FALSE
    /\ imageBlockRetry = 0 /\ upgradeEndRetry = 0 /\ ieeeCnt = 0
    /\ saveCnt = 0 /\ paced = FALSE
    /\ otaTimer = "off" /\ tasks = <<>> /\ rebooting = FALSE
    /\ flash = [b \in Element |-> Erased]
    /\ hdrItem = 0 /\ codeItem = Nothing
    /\ air = {} /\ offer \in Versions
    /\ budget = [faults |-> MaxFaults, cuts |-> MaxCuts, offers |-> MaxOffers]

EndTimes == {"now", "later", "unknown"}
SomeQueryRsp == \E v \in Versions : QueryNextImageRsp(v)
SomeBlockRsp == \/ \E v \in Versions, b \in 0..(Blocks - 1) : BlockRsp(v, b)
                \/ \E t \in BOOLEAN : BlockWait(t)
                \/ BlockAbort
SomeEndRsp   == \E v \in Versions, t \in EndTimes : UpgradeEndRsp(v, t)
SomeIeeeRsp  == \E m \in {IeeeRsp, IeeeFail} : IeeeAddrRsp(m)
Receive      == SomeQueryRsp \/ SomeBlockRsp \/ SomeEndRsp \/ SomeIeeeRsp
World        == NewOffer \/ PowerCut \/ \E m \in air : Lose(m)

Next == ImageNotify \/ Receive \/ Timer \/ Task \/ Reboot \/ World

Spec == Init /\ [][Next]_vars

\* The main loop runs what is queued and what is due, what the server sends
\* arrives unless it is lost, and the server goes on notifying.
Fairness ==
    /\ WF_vars(ImageNotify) /\ WF_vars(Timer) /\ WF_vars(Task) /\ WF_vars(Reboot)
    /\ WF_vars(SomeQueryRsp) /\ WF_vars(SomeBlockRsp) /\ WF_vars(SomeEndRsp)
    /\ WF_vars(SomeIeeeRsp)

FairSpec == Spec /\ Fairness

-----------------------------------------------------------------------------
(* Each variable of the client keeps its range; the buffer of the header   *)
(* is held only until the header is complete.                              *)
TypeOK ==
    /\ imageUpgradeStatus \in Statuses
    /\ fileOffset \in 0..Unset /\ downloadVer \in Versions \cup {0}
    /\ {serverKnown, updateInfo, paced, rebooting} \subseteq BOOLEAN
    /\ clientInfo.offset \in 0..Blocks /\ clientInfo.flag \in Flags
    /\ clientInfo.crc \in Seq(Versions)
    /\ imageBlockRetry \in 0..(BlockRetries + 1) /\ upgradeEndRetry \in 0..EndRetries
    /\ ieeeCnt \in 0..(AddrRetries - 1) /\ saveCnt \in 0..(SaveEvery - 1)
    /\ otaTimer \in Roles /\ tasks \in Seq(Tasks)
    /\ flash \in [Element -> Versions \cup {Erased, Garbled}]
    /\ hdrItem \in Versions \cup {0}

(* The device resets into an upgrade with blocks of one image only, the    *)
(* first and the last among them: no resume after a power cut, between the *)
(* two NV items or in the middle of erasing, with the server's image       *)
(* changed in between, joins one image to another.                         *)
NeverMixed == rebooting =>
    \E v \in Versions : /\ flash[1] = v /\ flash[Blocks - 1] = v
                        /\ \A b \in Element : flash[b] \in {v, Erased}

(* A block is written where the flash is erased or already has it: a       *)
(* download that goes on after a power cut, or begins again, never lays    *)
(* one image over another, which flash that is not erased garbles.         *)
NotGarbled == \A b \in Element : flash[b] # Garbled

\* The two ways an upgrade gets stuck: no buffer was free for the header, or
\* the timer that watches over a block request was taken by an end request of
\* the upgrade before, posted as a late query response began this one.
OutOfBuffers == InProgress /\ fileOffset = 0 /\ ~updateInfo
TimerTaken   == InProgress /\ otaTimer = "upgrade"
NeverStuck   == [](~OutOfBuffers /\ ~TimerTaken)

(* An upgrade that has begun ends, in a reset or given up, whatever is     *)
(* lost or late: some role of otaTimer, or a task, always moves it on.     *)
(* The two ways to get stuck are the only exceptions: see the README.      *)
UpgradeEnds == NeverStuck => (imageUpgradeStatus # "NORMAL"
                                 ~> imageUpgradeStatus = "NORMAL")

(* A server that goes on notifying gets its image through, up to the reset *)
(* that follows it, also after downloads that were given up, cut or found  *)
(* invalid at the end.  The firmware that starts is the old one: no image  *)
(* is ever marked as startable (see the README).                           *)
ImageDelivered == NeverStuck => []<>rebooting

(* The CRC was right, so all of the image is there (`if CRC is correct,    *)
(* exit and reboot directly, or restart OTA from 0').  It does not hold:   *)
(* see the README.                                                         *)
OnlyWholeImage == rebooting => \E v \in Versions : flash = Whole(v)
=============================================================================
