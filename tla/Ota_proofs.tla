----------------------------- MODULE Ota_proofs -----------------------------
(***************************************************************************)
(* Proofs about Ota, for every set of versions, number of blocks, retries, *)
(* saves, faults, power cuts and changes of the server's image: the flash  *)
(* never holds blocks of two images, and the device resets into one that   *)
(* has its first block and its last.                                       *)
(***************************************************************************)
EXTENDS Ota, TLAPS

Info  == [offset : 0..Blocks, crc : Seq(Versions), flag : Flags]
Area  == [Element -> Versions \cup {Erased, Garbled}]
Ended == {"COMPLETE", "COUNT_DOWN", "WAITING"}

(***************************************************************************)
(* The clauses of the inductive invariant.                                 *)
(***************************************************************************)
\* otaClientInfo and its copy in NV are whole records.
Items == clientInfo \in Info /\ codeItem \in Info \cup {Nothing}

\* As long as NV has a header, the area has blocks of its image only.
HeaderOfArea == hdrItem # 0 => \A b \in Element : flash[b] \in {hdrItem, Erased}

\* A download that has come further than its header has it in NV.
HeaderSaved ==
    ~rebooting /\ fileOffset \in 1..Blocks =>
        hdrItem = downloadVer \/ (fileOffset = 1 /\ clientInfo.flag # "ELEMENT")

\* While the header's buffer is held nothing is written.
HeaderHeld ==
    updateInfo => /\ flash = AreaErased
                  /\ clientInfo.flag \in {"INIT_DONE", "MAGIC_0", "CONT_HDR"}

NoneBegun == fileOffset = Unset => downloadVer = 0

\* Only a client that knows its server has received anything.
ServerFirst == ~serverKnown => clientInfo.flag = "INIT_DONE"

\* An image that is complete has both its ends.
BothEnds == hdrItem # 0 /\ flash[1] # Erased /\ flash[Blocks - 1] # Erased
Checked  == imageUpgradeStatus \in Ended => BothEnds

\* The clauses that say what is in flash and NV.
Safe == /\ HeaderOfArea /\ HeaderSaved /\ HeaderHeld /\ NoneBegun /\ ServerFirst
        /\ Checked /\ NotGarbled /\ NeverMixed

Queued(t) == \E i \in 1..Len(tasks) : tasks[i] = t

\* A download whose requests are used up is about to be given up,
TimeoutQueued ==
    imageBlockRetry >= BlockRetries /\ InProgress => Queued("timeout")

\* and asks no more once it is.
AsksNoMore ==
    imageBlockRetry > BlockRetries =>
        /\ ~InProgress
        /\ otaTimer \notin {"blockRsp", "reqDelay", "blockWait"}
        /\ ~Queued("blockReq") /\ ~Queued("blockReqNow")

\* The end of an upgrade may be asked for once more.
EndsInTime ==
    imageUpgradeStatus \in {"COMPLETE", "WAITING"} => upgradeEndRetry < EndRetries

GivenUp == TimeoutQueued /\ AsksNoMore /\ EndsInTime

\* The inductive invariant.
IInv == TypeOK /\ Items /\ Safe /\ GivenUp

-----------------------------------------------------------------------------
(***************************************************************************)
(* Lemmas on the parts of TypeOK, on records and on the area.              *)
(***************************************************************************)
\* The client's attributes, flash and NV.
AttrsOK ==
    /\ imageUpgradeStatus \in Statuses
    /\ fileOffset \in 0..Unset /\ downloadVer \in Versions \cup {0}
    /\ clientInfo \in Info /\ codeItem \in Info \cup {Nothing}
    /\ flash \in Area /\ hdrItem \in Versions \cup {0}

\* Its counters, its timer and its queue.
CountsOK ==
    /\ imageBlockRetry \in 0..(BlockRetries + 1) /\ upgradeEndRetry \in 0..EndRetries
    /\ ieeeCnt \in 0..(AddrRetries - 1) /\ saveCnt \in 0..(SaveEvery - 1)
    /\ otaTimer \in Roles /\ tasks \in Seq(Tasks)

BitsOK == /\ serverKnown \in BOOLEAN /\ updateInfo \in BOOLEAN
          /\ paced \in BOOLEAN /\ rebooting \in BOOLEAN

\* Together they are TypeOK and Items.
LEMMA TypeParts == TypeOK /\ Items <=> AttrsOK /\ CountsOK /\ BitsOK
<1>1. {serverKnown, updateInfo, paced, rebooting} \subseteq BOOLEAN <=> BitsOK
    BY Zenon DEF BitsOK
<1>2. clientInfo \in Info =>
          /\ clientInfo.offset \in 0..Blocks /\ clientInfo.flag \in Flags
          /\ clientInfo.crc \in Seq(Versions)
    BY DEF Info
<1> QED
    BY <1>1, <1>2, Zenon DEF TypeOK, Items, AttrsOK, CountsOK, Area

\* The fields of otaClientInfo that an assignment to others leaves alone.
LEMMA InfoFields ==
    ASSUME NEW c \in Info, NEW r \in Seq(Versions), NEW f \in Flags
    PROVE  /\ c.flag \in Flags /\ c.offset \in 0..Blocks /\ c.crc \in Seq(Versions)
           /\ [c EXCEPT !.crc = r] \in Info /\ [c EXCEPT !.crc = r].flag = c.flag
           /\ [c EXCEPT !.flag = f] \in Info /\ [c EXCEPT !.flag = f].flag = f
           /\ [c EXCEPT !.crc = r, !.flag = f] \in Info
           /\ [c EXCEPT !.crc = r, !.flag = f].flag = f
  BY DEF Info

\* InfoReset, and a version is not one of the marks of the flash.
LEMMA Marks ==
    /\ InfoReset \in Info /\ InfoReset.flag = "INIT_DONE" /\ CrcInit \in Seq(Versions)
    /\ \A v \in Versions : v # 0 /\ v # Erased /\ v # Garbled
    /\ Erased # Garbled
    /\ 1 \in Element /\ Blocks - 1 \in Element /\ 1 # Blocks - 1
    /\ AreaErased \in Area
  BY OtaAssumption DEF InfoReset, CrcInit, Info, Flags, Erased, Garbled, Element, AreaErased, Area

\* flash_writeWithCheck writes one block of the area.
LEMMA WrittenArea ==
    ASSUME flash \in Area, NEW v \in Versions, NEW b \in Element
    PROVE  /\ Written(v, b) \in Area
           /\ \A c \in Element \ {b} : Written(v, b)[c] = flash[c]
           /\ flash[b] \in {Erased, v} => Written(v, b)[b] = v
  BY DEF Area, Written

-----------------------------------------------------------------------------
(***************************************************************************)
(* What the steps have in common: each lemma is about one way in which     *)
(* they change what Safe speaks of.                                        *)
(***************************************************************************)
\* Nothing changes but the status, which is not that of a complete image or
\* was that of one already.
LEMMA StatusSafe ==
    ASSUME IInv, ~rebooting, imageUpgradeStatus' \in Ended => imageUpgradeStatus \in Ended,
           UNCHANGED <<fileOffset, downloadVer, serverKnown, clientInfo, updateInfo,
                       rebooting, flash, hdrItem>>
    PROVE  Safe'
<1>1. HeaderOfArea' /\ HeaderSaved' /\ HeaderHeld' /\ NoneBegun' /\ ServerFirst' /\ NotGarbled'
    BY Zenon DEF IInv, Safe, HeaderOfArea, HeaderSaved, HeaderHeld, NoneBegun, ServerFirst,
        NotGarbled, AreaErased
<1>2. Checked' /\ NeverMixed'
    BY Zenon DEF IInv, Safe, Checked, BothEnds, NeverMixed
<1> QED
    BY <1>1, <1>2, Zenon DEF Safe

\* Nothing of it changes.
LEMMA UnchangedSafe ==
    ASSUME IInv,
           UNCHANGED <<imageUpgradeStatus, fileOffset, downloadVer, serverKnown, clientInfo,
                       updateInfo, rebooting, flash, hdrItem>>
    PROVE  Safe'
<1>1. HeaderOfArea' /\ HeaderSaved' /\ HeaderHeld' /\ NoneBegun' /\ ServerFirst' /\ NotGarbled'
    BY Zenon DEF IInv, Safe, HeaderOfArea, HeaderSaved, HeaderHeld, NoneBegun, ServerFirst,
        NotGarbled, AreaErased
<1>2. Checked' /\ NeverMixed'
    BY Zenon DEF IInv, Safe, Checked, BothEnds, NeverMixed
<1> QED
    BY <1>1, <1>2, Zenon DEF Safe

\* An area of one image that has both its ends is what the device may reset
\* into.
LEMMA EndsMatch ==
    ASSUME IInv, BothEnds
    PROVE  \E v \in Versions : /\ flash[1] = v /\ flash[Blocks - 1] = v
                               /\ \A b \in Element : flash[b] \in {v, Erased}
<1>1. hdrItem \in Versions \cup {0}
    BY TypeParts DEF IInv, AttrsOK
<1>2. hdrItem \in Versions
    BY <1>1 DEF BothEnds
<1>3. \A b \in Element : flash[b] \in {hdrItem, Erased}
    BY Zenon DEF IInv, Safe, HeaderOfArea, BothEnds
<1>4. flash[1] = hdrItem /\ flash[Blocks - 1] = hdrItem
    BY <1>3, Marks DEF BothEnds
<1> QED
    BY <1>2, <1>3, <1>4, Zenon

\* ota_upgradeComplete, where success is of a complete image, and the flash
\* may have taken one more block of data that is refused.
LEMMA CompleteSafe ==
    ASSUME IInv, ~rebooting, NEW st \in {"SUCCESS", "ABORT", "INVALID"}, Complete(st),
           (serverKnown' = serverKnown) \/ serverKnown',
           st = "SUCCESS" => BothEnds,
           st # "INVALID" => flash' = flash,
           NotGarbled'
    PROVE  Safe'
<1>1. /\ ~updateInfo' /\ imageUpgradeStatus' = "NORMAL" /\ (rebooting' <=> st = "SUCCESS")
    BY DEF Complete
<1>2. st # "ABORT" => hdrItem' = 0
    BY DEF Complete
<1>3. st = "INVALID" => clientInfo' = InfoReset /\ fileOffset' = Unset /\ downloadVer' = 0
    BY DEF Complete
<1>4. st # "INVALID" => UNCHANGED <<clientInfo, fileOffset, downloadVer>>
    BY DEF Complete
<1>5. st = "ABORT" => UNCHANGED hdrItem
    BY DEF Complete, nv
<1>6. HeaderOfArea'
    BY <1>2, <1>5, Zenon DEF IInv, Safe, HeaderOfArea
<1>7. HeaderSaved'
    <2>1. CASE st = "SUCCESS"
        BY <1>1, <2>1, Zenon DEF HeaderSaved
    <2>2. CASE st = "ABORT"
        BY <1>4, <1>5, <2>2, Zenon DEF IInv, Safe, HeaderSaved
    <2>3. CASE st = "INVALID"
        <3>1. Unset \notin 1..Blocks
            BY OtaAssumption DEF Unset
        <3> QED
            BY <1>3, <2>3, <3>1, Zenon DEF HeaderSaved
    <2> QED
        BY <2>1, <2>2, <2>3
<1>8. HeaderHeld' /\ Checked'
    BY <1>1 DEF HeaderHeld, Checked, Ended
<1>9. NoneBegun'
    BY <1>3, <1>4, Zenon DEF IInv, Safe, NoneBegun
<1>10. ServerFirst'
    BY <1>3, <1>4, Marks, Zenon DEF IInv, Safe, ServerFirst
<1>11. NeverMixed'
    BY <1>1, EndsMatch, Zenon DEF NeverMixed
<1> QED
    BY <1>6, <1>7, <1>8, <1>9, <1>10, <1>11, Zenon DEF Safe

\* A restart from 0 erases the area.
LEMMA FromZeroSafe ==
    ASSUME IInv, ~rebooting, NEW v \in Versions, NEW rest, FromZero(v, rest),
           UNCHANGED serverKnown
    PROVE  Safe'
<1>1. clientInfo \in Info /\ "MAGIC_0" \in Flags
    BY TypeParts DEF IInv, AttrsOK, Flags
<1>2. /\ imageUpgradeStatus' = "IN_PROGRESS" /\ fileOffset' = 0 /\ downloadVer' = v
      /\ flash' = AreaErased /\ UNCHANGED <<rebooting, hdrItem>>
    BY Zenon DEF FromZero, nv
<1>3. \/ ~updateInfo' /\ clientInfo'.flag = clientInfo.flag
      \/ ~serverKnown /\ clientInfo'.flag = clientInfo.flag
      \/ serverKnown /\ clientInfo'.flag = "MAGIC_0"
    <2>1. /\ [clientInfo EXCEPT !.crc = CrcInit].flag = clientInfo.flag
          /\ [clientInfo EXCEPT !.crc = CrcInit, !.flag = "MAGIC_0"].flag = "MAGIC_0"
        BY <1>1, Marks, InfoFields
    <2> QED
        BY <2>1, Zenon DEF FromZero
<1>4. \A b \in Element : flash'[b] = Erased
    BY <1>2 DEF AreaErased
<1>5. HeaderOfArea' /\ NotGarbled'
    BY <1>4, Marks DEF HeaderOfArea, NotGarbled
<1>6. HeaderSaved' /\ NoneBegun' /\ Checked' /\ NeverMixed'
    <2>1. 0 \notin 1..Blocks /\ 0 # Unset
        BY OtaAssumption DEF Unset
    <2> QED
        BY <1>2, <2>1 DEF HeaderSaved, NoneBegun, Checked, NeverMixed, Ended
<1>7. ServerFirst'
    BY <1>3, Zenon DEF IInv, Safe, ServerFirst
<1>8. HeaderHeld'
    <2>1. AreaErased' = AreaErased
        BY DEF AreaErased
    <2> QED
        BY <1>2, <1>3, <2>1, Zenon DEF IInv, Safe, ServerFirst, HeaderHeld
<1> QED
    BY <1>5, <1>6, <1>7, <1>8, Zenon DEF Safe

\* What the block that is asked for finds in the area and the header's item.
LEMMA BlockFinds ==
    ASSUME IInv, ~rebooting, NEW b \in 0..(Blocks - 1), ElementBlock(b), fileOffset = b,
           downloadVer \in Versions
    PROVE  /\ b \in Element
           /\ flash[b] \in {Erased, downloadVer}
           /\ clientInfo.flag # "CONT_HDR" => hdrItem = downloadVer
           /\ clientInfo.flag = "CONT_HDR" => b = 1 /\ flash = AreaErased
<1>1. b \in Element /\ b \in 1..Blocks
    BY OtaAssumption DEF ElementBlock, Element
<1>2. clientInfo.flag = "CONT_HDR" => b = 1 /\ flash = AreaErased
    BY Zenon DEF ElementBlock, IInv, Safe, HeaderHeld
<1>3. clientInfo.flag # "CONT_HDR" => hdrItem = downloadVer
    BY <1>1, Zenon DEF ElementBlock, IInv, Safe, HeaderSaved
<1>4. clientInfo.flag = "CONT_HDR" => flash[b] = Erased
    BY <1>1, <1>2 DEF AreaErased
<1>5. clientInfo.flag # "CONT_HDR" /\ hdrItem # 0 => flash[b] \in {Erased, downloadVer}
    BY <1>1, <1>3, Zenon DEF IInv, Safe, HeaderOfArea
<1>6. downloadVer # 0
    BY Marks
<1> QED
    BY <1>1, <1>2, <1>3, <1>4, <1>5, <1>6

\* ota_imageDataProcess takes the first block of the header.
LEMMA TakeHeaderSafe ==
    ASSUME IInv, ~rebooting, InProgress, NEW v, fileOffset = 0, Accepted(v, 0), TakeBlock(v, 0),
           UNCHANGED serverKnown
    PROVE  Safe'
<1>1. clientInfo \in Info /\ "CONT_HDR" \in Flags
    BY TypeParts DEF IInv, AttrsOK, Flags
<1>2. clientInfo.flag = "MAGIC_0" /\ updateInfo
    BY DEF Accepted, HeaderBlock, ElementBlock
<1>3. 0 # Blocks - 1 /\ 1 # Unset /\ 0 + 1 = 1
    BY OtaAssumption DEF Unset
<1>4. /\ clientInfo' = [clientInfo EXCEPT !.flag = "CONT_HDR"]
      /\ fileOffset' = 1 /\ imageUpgradeStatus' = "IN_PROGRESS"
      /\ UNCHANGED <<updateInfo, flash, hdrItem, downloadVer, rebooting>>
    BY <1>3 DEF TakeBlock, InProgress
<1>5. clientInfo'.flag = "CONT_HDR"
    BY <1>1, <1>4, InfoFields, Marks
<1>6. HeaderOfArea' /\ HeaderSaved' /\ NotGarbled'
    BY <1>4, <1>5, Zenon DEF IInv, Safe, HeaderOfArea, HeaderSaved, NotGarbled
<1>7. HeaderHeld' /\ ServerFirst' /\ NoneBegun'
    <2>1. "MAGIC_0" # "INIT_DONE" /\ AreaErased' = AreaErased
        BY DEF AreaErased
    <2>2. HeaderHeld'
        BY <1>4, <1>5, <2>1, Zenon DEF IInv, Safe, HeaderHeld
    <2>3. ServerFirst' /\ NoneBegun'
        BY <1>2, <1>3, <1>4, <2>1, Zenon DEF IInv, Safe, ServerFirst, NoneBegun
    <2> QED
        BY <2>2, <2>3
<1>8. Checked' /\ NeverMixed'
    BY <1>4 DEF Checked, NeverMixed, Ended
<1> QED
    BY <1>6, <1>7, <1>8, Zenon DEF Safe

\* ota_imageDataProcess takes a block of the element.
LEMMA TakeElementSafe ==
    ASSUME IInv, ~rebooting, InProgress, NEW v \in Versions, v = downloadVer,
           NEW b \in 0..(Blocks - 1), b = fileOffset, b # 0, Accepted(v, b), TakeBlock(v, b),
           UNCHANGED serverKnown
    PROVE  Safe'
<1>1. /\ clientInfo \in Info /\ flash \in Area
    BY TypeParts DEF IInv, AttrsOK
<1>2. /\ ElementBlock(b)
      /\ b = Blocks - 1 => CrcRight(Written(v, b), Sum(v))
    BY DEF Accepted, HeaderBlock
<1>3. /\ b \in Element
      /\ flash[b] \in {Erased, v}
      /\ clientInfo.flag # "CONT_HDR" => hdrItem = v
      /\ clientInfo.flag = "CONT_HDR" => flash = AreaErased
    BY <1>2, BlockFinds
<1>4. /\ flash' = Written(v, b) /\ ~updateInfo' /\ fileOffset' = b + 1
      /\ clientInfo'.flag # "INIT_DONE"
      /\ imageUpgradeStatus' = (IF b = Blocks - 1 THEN "COMPLETE" ELSE "IN_PROGRESS")
      /\ UNCHANGED <<downloadVer, rebooting>>
    BY DEF TakeBlock, InProgress
<1>5. hdrItem' = v
    BY <1>3, Zenon DEF TakeBlock
<1>6. /\ flash'[b] = v
      /\ \A c \in Element \ {b} : flash'[c] = flash[c]
    BY <1>1, <1>3, <1>4, WrittenArea
<1>7. \A c \in Element : flash'[c] \in {v, Erased}
    <2> SUFFICES ASSUME NEW c \in Element \ {b} PROVE flash[c] \in {v, Erased}
        BY <1>6
    <2>1. CASE clientInfo.flag = "CONT_HDR"
        BY <1>3, <2>1 DEF AreaErased
    <2>2. CASE clientInfo.flag # "CONT_HDR"
        <3>1. hdrItem = v /\ hdrItem # 0
            BY <1>3, <2>2, Marks
        <3> QED
            BY <3>1, Zenon DEF IInv, Safe, HeaderOfArea
    <2> QED
        BY <2>1, <2>2
<1>8. HeaderOfArea' /\ NotGarbled'
    BY <1>5, <1>7, Marks DEF HeaderOfArea, NotGarbled
<1>9. HeaderSaved' /\ HeaderHeld'
    BY <1>4, <1>5 DEF HeaderSaved, HeaderHeld
<1>10. NoneBegun' /\ ServerFirst'
    <2>1. fileOffset' # Unset
        BY <1>4, OtaAssumption DEF Unset
    <2>2. serverKnown
        BY <1>2, Zenon DEF IInv, Safe, ServerFirst, ElementBlock
    <2> QED
        BY <2>1, <2>2, Zenon DEF NoneBegun, ServerFirst
<1>11. Checked'
    <2>1. CASE b = Blocks - 1
        <3>1. flash'[1] # Erased /\ flash'[Blocks - 1] \in Versions
            BY <1>2, <1>4, <2>1 DEF CrcRight
        <3> QED
            BY <1>5, <3>1, Marks DEF Checked, BothEnds
    <2>2. CASE b # Blocks - 1
        BY <1>4, <2>2 DEF Checked, Ended
    <2> QED
        BY <2>1, <2>2
<1>12. NeverMixed'
    BY <1>4, Zenon DEF NeverMixed
<1> QED
    BY <1>8, <1>9, <1>10, <1>11, <1>12, Zenon DEF Safe

\* ota_init recovers where NV says the download was, over an area that may
\* have lost blocks.
LEMMA BootSafe ==
    ASSUME IInv, Boot(hdrItem', codeItem), hdrItem' \in Versions \cup {0},
           hdrItem' # 0 => \A b \in Element : flash'[b] \in {hdrItem', Erased},
           NotGarbled'
    PROVE  Safe'
<1>1. codeItem \in Info \cup {Nothing}
    BY TypeParts DEF IInv, AttrsOK
<1>2. /\ ~rebooting' /\ ~updateInfo' /\ imageUpgradeStatus' = "NORMAL"
    BY DEF Boot
<1>3. CASE hdrItem' # 0 /\ codeItem # Nothing
    <2>1. /\ clientInfo' = codeItem /\ fileOffset' = codeItem.offset /\ downloadVer' = hdrItem'
          /\ serverKnown'
        BY <1>3 DEF Boot
    <2>2. fileOffset' # Unset
        BY <1>1, <1>3, <2>1, OtaAssumption DEF Unset, Info
    <2>3. HeaderSaved' /\ NoneBegun' /\ ServerFirst'
        BY <2>1, <2>2, Zenon DEF HeaderSaved, NoneBegun, ServerFirst
    <2> QED
        BY <1>2, <2>3 DEF Safe, HeaderOfArea, HeaderHeld, Checked, NeverMixed, Ended
<1>4. CASE ~(hdrItem' # 0 /\ codeItem # Nothing)
    <2>1. clientInfo' = InfoReset /\ fileOffset' = Unset /\ downloadVer' = 0
        BY <1>4, Zenon DEF Boot
    <2>2. fileOffset' \notin 1..Blocks
        BY <2>1, OtaAssumption DEF Unset
    <2>3. HeaderSaved' /\ NoneBegun' /\ ServerFirst'
        BY <2>1, <2>2, Marks, Zenon DEF HeaderSaved, NoneBegun, ServerFirst
    <2> QED
        BY <1>2, <2>3 DEF Safe, HeaderOfArea, HeaderHeld, Checked, NeverMixed, Ended
<1> QED
    BY <1>3, <1>4

-----------------------------------------------------------------------------
(***************************************************************************)
(* Every action keeps what is in flash and NV as it should be.             *)
(***************************************************************************)
\* Flash that does not change is not garbled.
LEMMA StaysUngarbled ==
    ASSUME IInv, UNCHANGED flash
    PROVE  NotGarbled'
  BY Zenon DEF IInv, Safe, NotGarbled

\* ota_queryNextImageRspHandler.
LEMMA QuerySafe ==
    ASSUME IInv, NEW v \in Versions, QueryNextImageRsp(v)
    PROVE  Safe'
<1>1. /\ ~rebooting /\ UNCHANGED serverKnown
      /\ \/ UNCHANGED <<imageUpgradeStatus, fileOffset, downloadVer, clientInfo, updateInfo,
                        rebooting, flash, hdrItem>>
         \/ Resume(v, air \ {Query(v)})
         \/ AlreadyThere(v, air \ {Query(v)})
         \/ FromZero(v, air \ {Query(v)})
    BY Zenon DEF QueryNextImageRsp, Receiving, attrs, nv
<1>2. CASE UNCHANGED <<imageUpgradeStatus, fileOffset, downloadVer, clientInfo, updateInfo,
                       rebooting, flash, hdrItem>>
    BY <1>1, <1>2, UnchangedSafe
<1>3. CASE Resume(v, air \ {Query(v)})
    <2>1. imageUpgradeStatus' \notin Ended
        BY <1>3 DEF Resume, Ended
    <2>2. UNCHANGED <<fileOffset, downloadVer, clientInfo, updateInfo, rebooting, flash, hdrItem>>
        BY <1>3 DEF Resume, nv
    <2> QED
        BY <1>1, <2>1, <2>2, StatusSafe
<1>4. CASE AlreadyThere(v, air \ {Query(v)})
    <2>1. fileOffset \in 2..Blocks /\ downloadVer = v
        <3>1. fileOffset \in 0..Unset /\ fileOffset > ResumeAfter /\ downloadVer = v
            BY <1>4, TypeParts DEF IInv, AttrsOK, AlreadyThere, Resumable
        <3>2. fileOffset # Unset
            BY <3>1, Marks, Zenon DEF IInv, Safe, NoneBegun
        <3> QED
            BY <3>1, <3>2, OtaAssumption DEF Unset
    <2>2. hdrItem = v
        <3>1. fileOffset \in 1..Blocks /\ fileOffset # 1
            BY <2>1, OtaAssumption
        <3> QED
            BY <1>1, <2>1, <3>1, Zenon DEF IInv, Safe, HeaderSaved
    <2>3. BothEnds
        <3>1. flash[1] # Erased /\ flash[Blocks - 1] \in Versions
            BY <1>4 DEF AlreadyThere, CrcRight
        <3> QED
            BY <2>2, <3>1, Marks DEF BothEnds
    <2>4. Complete("SUCCESS") /\ UNCHANGED flash
        BY <1>4 DEF AlreadyThere
    <2> QED
        BY <1>1, <2>3, <2>4, StaysUngarbled, CompleteSafe
<1>5. CASE FromZero(v, air \ {Query(v)})
    BY <1>1, <1>5, FromZeroSafe
<1> QED
    BY <1>1, <1>2, <1>3, <1>4, <1>5

\* ota_imageBlockRspHandler with data.
LEMMA BlockSafe ==
    ASSUME IInv, NEW v \in Versions, NEW b \in 0..(Blocks - 1), BlockRsp(v, b)
    PROVE  Safe'
<1>1. /\ ~rebooting /\ UNCHANGED serverKnown
      /\ \/ /\ InProgress /\ v = downloadVer /\ b = fileOffset
            /\ ExpectedBlock(v, b, air \ {Block(v, b)})
         \/ ForeignBlock(air \ {Block(v, b)})
         \/ UNCHANGED <<imageUpgradeStatus, fileOffset, downloadVer, clientInfo, updateInfo,
                        rebooting, flash, hdrItem>>
    BY Zenon DEF BlockRsp, Receiving, attrs, nv
<1>2. CASE UNCHANGED <<imageUpgradeStatus, fileOffset, downloadVer, clientInfo, updateInfo,
                       rebooting, flash, hdrItem>>
    BY <1>1, <1>2, UnchangedSafe
<1>3. CASE ForeignBlock(air \ {Block(v, b)})
    <2>1. imageUpgradeStatus' \notin Ended
        BY <1>3 DEF ForeignBlock, Ended
    <2>2. UNCHANGED <<fileOffset, downloadVer, clientInfo, updateInfo, rebooting, flash, hdrItem>>
        BY <1>3 DEF ForeignBlock, nv
    <2> QED
        BY <1>1, <2>1, <2>2, StatusSafe
<1>4. CASE /\ InProgress /\ v = downloadVer /\ b = fileOffset
           /\ ExpectedBlock(v, b, air \ {Block(v, b)})
    <2>1. CASE Accepted(v, b)
        <3>1. TakeBlock(v, b)
            BY <1>4, <2>1, Zenon DEF ExpectedBlock
        <3> QED
            BY <1>1, <1>4, <2>1, <3>1, TakeHeaderSafe, TakeElementSafe
    <2>2. CASE ~Accepted(v, b)
        <3>1. /\ Complete("INVALID")
              /\ flash' = IF ElementBlock(b) THEN Written(v, b) ELSE flash
            BY <1>4, <2>2, Zenon DEF ExpectedBlock
        <3>2. NotGarbled'
            <4>1. CASE ElementBlock(b)
                <5>1. b \in Element /\ flash[b] \in {Erased, v}
                    BY <1>1, <1>4, <4>1, BlockFinds
                <5>2. flash \in Area
                    BY TypeParts DEF IInv, AttrsOK
                <5>3. /\ flash'[b] = v
                      /\ \A c \in Element \ {b} : flash'[c] = flash[c]
                    BY <3>1, <4>1, <5>1, <5>2, WrittenArea
                <5> QED
                    BY <5>1, <5>3, Marks DEF IInv, Safe, NotGarbled
            <4>2. CASE ~ElementBlock(b)
                BY <3>1, <4>2, StaysUngarbled
            <4> QED
                BY <4>1, <4>2
        <3> QED
            BY <1>1, <3>1, <3>2, CompleteSafe
    <2> QED
        BY <2>1, <2>2
<1> QED
    BY <1>1, <1>2, <1>3, <1>4

\* What leaves the upgrade as it is, or gives it up.
LEMMA QuietSafe ==
    ASSUME IInv,
           \/ ImageNotify \/ WaitOver \/ BlockRspLate \/ IeeeRspLate \/ Task \/ NewOffer
           \/ \E t \in BOOLEAN : BlockWait(t)
           \/ BlockAbort
           \/ \E m \in air : Lose(m)
    PROVE  Safe'
<1>1. CASE UNCHANGED <<imageUpgradeStatus, fileOffset, downloadVer, serverKnown, clientInfo,
                       updateInfo, rebooting, flash, hdrItem>>
    BY <1>1, UnchangedSafe
<1>2. CASE ~rebooting /\ Complete("ABORT") /\ UNCHANGED <<serverKnown, flash>>
    BY <1>2, StaysUngarbled, CompleteSafe
<1>3. CASE ImageNotify \/ WaitOver \/ BlockRspLate \/ NewOffer
    BY <1>1, <1>3, Zenon DEF ImageNotify, WaitOver, BlockRspLate, NewOffer, attrs, nv
<1>4. CASE IeeeRspLate
    BY <1>1, <1>2, <1>4, Zenon DEF IeeeRspLate, Due, attrs, nv
<1>5. CASE Task
    BY <1>1, <1>2, <1>5, Zenon DEF Task, BlockReqTask, TimeoutTask, SaveTask, IeeeReqTask,
        EndReqTask, At, attrs, nv
<1>6. CASE \E t \in BOOLEAN : BlockWait(t)
    BY <1>1, <1>6, Zenon DEF BlockWait, attrs, nv
<1>7. CASE BlockAbort
    BY <1>1, <1>2, <1>7, Zenon DEF BlockAbort, Receiving, attrs, nv
<1>8. CASE \E m \in air : Lose(m)
    BY <1>1, <1>8, Zenon DEF Lose, attrs, nv
<1> QED
    BY <1>3, <1>4, <1>5, <1>6, <1>7, <1>8

\* ota_upgradeEndRspHandler, and ota_upgradeWaitCb with ota_upgrade.
LEMMA EndSafe ==
    ASSUME IInv, UpgradeDue \/ \E v \in Versions, t \in EndTimes : UpgradeEndRsp(v, t)
    PROVE  Safe'
<1>1. ~rebooting /\ UNCHANGED <<serverKnown, flash>>
    BY Zenon DEF UpgradeDue, UpgradeEndRsp, Due, Receiving
<1>2. CASE UNCHANGED <<imageUpgradeStatus, fileOffset, downloadVer, clientInfo, updateInfo,
                       rebooting, hdrItem>>
    BY <1>1, <1>2, UnchangedSafe
<1>3. CASE Complete("SUCCESS") /\ imageUpgradeStatus \in Ended
    <2>1. BothEnds
        BY <1>3, Zenon DEF IInv, Safe, Checked
    <2> QED
        BY <1>1, <1>3, <2>1, StaysUngarbled, CompleteSafe
<1>4. CASE UpgradeDue
    <2>1. imageUpgradeStatus \in {"COMPLETE", "WAITING"} \/ imageUpgradeStatus = "COUNT_DOWN"
              => imageUpgradeStatus \in Ended
        BY DEF Ended
    <2> QED
        BY <1>2, <1>3, <1>4, <2>1, Zenon DEF UpgradeDue, attrs, nv
<1>5. CASE \E v \in Versions, t \in EndTimes : UpgradeEndRsp(v, t)
    <2> PICK v \in Versions, t \in EndTimes : UpgradeEndRsp(v, t)
        BY <1>5, Zenon
    <2>1. Awaits(v, t) => imageUpgradeStatus \in Ended
        BY DEF Awaits, Ended
    <2>2. \/ Awaits(v, t) /\ Complete("SUCCESS")
          \/ Awaits(v, t) /\ UNCHANGED <<fileOffset, downloadVer, clientInfo, updateInfo,
                                         rebooting, hdrItem>>
          \/ UNCHANGED <<imageUpgradeStatus, fileOffset, downloadVer, clientInfo, updateInfo,
                         rebooting, hdrItem>>
        BY Zenon DEF UpgradeEndRsp, attrs, nv
    <2> QED
        BY <1>1, <1>2, <1>3, <2>1, <2>2, StatusSafe, Zenon
<1> QED
    BY <1>4, <1>5

\* ota_ieeeAddrRspCb.
LEMMA IeeeSafe ==
    ASSUME IInv, NEW m, IeeeAddrRsp(m)
    PROVE  Safe'
<1>1. ~rebooting /\ UNCHANGED flash /\ serverKnown' = (serverKnown \/ m.ok)
    BY Zenon DEF IeeeAddrRsp, Receiving
<1>2. \/ /\ InProgress /\ clientInfo.flag = "INIT_DONE" /\ m.ok
         /\ clientInfo' = [clientInfo EXCEPT !.flag = "MAGIC_0"]
         /\ UNCHANGED <<imageUpgradeStatus, fileOffset, downloadVer, updateInfo,
                        rebooting, hdrItem>>
      \/ Complete("ABORT")
      \/ UNCHANGED <<imageUpgradeStatus, fileOffset, downloadVer, clientInfo, updateInfo,
                     rebooting, hdrItem>>
    BY Zenon DEF IeeeAddrRsp, attrs, nv
<1>3. CASE UNCHANGED <<imageUpgradeStatus, fileOffset, downloadVer, clientInfo, updateInfo,
                       rebooting, hdrItem>>
    <2>1. HeaderOfArea' /\ HeaderSaved' /\ HeaderHeld' /\ NoneBegun' /\ NotGarbled'
        BY <1>1, <1>3, Zenon DEF IInv, Safe, HeaderOfArea, HeaderSaved, HeaderHeld, NoneBegun,
            NotGarbled, AreaErased
    <2>2. ServerFirst' /\ Checked' /\ NeverMixed'
        BY <1>1, <1>3, Zenon DEF IInv, Safe, ServerFirst, Checked, BothEnds, NeverMixed
    <2> QED
        BY <2>1, <2>2, Zenon DEF Safe
<1>4. CASE Complete("ABORT")
    <2>1. (serverKnown' = serverKnown) \/ serverKnown'
        BY <1>1, TypeParts DEF IInv, BitsOK
    <2> QED
        BY <1>1, <1>4, <2>1, StaysUngarbled, CompleteSafe
<1>5. CASE /\ InProgress /\ clientInfo.flag = "INIT_DONE" /\ m.ok
           /\ clientInfo' = [clientInfo EXCEPT !.flag = "MAGIC_0"]
           /\ UNCHANGED <<imageUpgradeStatus, fileOffset, downloadVer, updateInfo,
                          rebooting, hdrItem>>
    <2>1. clientInfo'.flag = "MAGIC_0"
        <3>1. clientInfo \in Info /\ "MAGIC_0" \in Flags
            BY TypeParts DEF IInv, AttrsOK, Flags
        <3> QED
            BY <1>5, <3>1, InfoFields, Marks
    <2>2. HeaderOfArea' /\ NoneBegun' /\ NotGarbled' /\ Checked' /\ NeverMixed'
        BY <1>1, <1>5, Zenon DEF IInv, Safe, HeaderOfArea, NoneBegun, NotGarbled, Checked,
            BothEnds, NeverMixed
    <2>3. HeaderSaved'
        BY <1>1, <1>5, <2>1, Zenon DEF IInv, Safe, HeaderSaved
    <2>4. HeaderHeld' /\ ServerFirst'
        BY <1>1, <1>5, <2>1, Zenon DEF IInv, Safe, HeaderHeld, ServerFirst, AreaErased
    <2> QED
        BY <2>2, <2>3, <2>4, Zenon DEF Safe
<1> QED
    BY <1>2, <1>3, <1>4, <1>5

\* A reset, or a power cut in whatever the client was doing.
LEMMA RestartSafe ==
    ASSUME IInv, Reboot \/ PowerCut
    PROVE  Safe'
<1>1. /\ hdrItem \in Versions \cup {0} /\ downloadVer \in Versions \cup {0}
    BY TypeParts DEF IInv, AttrsOK
<1>2. CASE Reboot
    <2>1. Boot(hdrItem', codeItem) /\ UNCHANGED <<flash, hdrItem>>
        BY <1>2, Zenon DEF Reboot, nv
    <2> QED
        BY <1>1, <2>1, StaysUngarbled, BootSafe, Zenon DEF IInv, Safe, HeaderOfArea
<1>3. CASE UNCHANGED <<flash, nv>> /\ Boot(hdrItem, codeItem)
    <2>1. Boot(hdrItem', codeItem) /\ UNCHANGED <<flash, hdrItem>>
        BY <1>3, Zenon DEF nv
    <2> QED
        BY <1>1, <2>1, StaysUngarbled, BootSafe, Zenon DEF IInv, Safe, HeaderOfArea
<1>4. ASSUME NEW last \in Element,
             flash' = [b \in Element |-> IF b <= last THEN Erased ELSE flash[b]],
             UNCHANGED nv, Boot(hdrItem, codeItem)
      PROVE  Safe'
    <2>1. Boot(hdrItem', codeItem) /\ UNCHANGED hdrItem
        BY <1>4, Zenon DEF nv
    <2>2. \A b \in Element : flash'[b] \in {flash[b], Erased}
        BY <1>4
    <2>3. NotGarbled'
        BY <2>2, Marks DEF IInv, Safe, NotGarbled
    <2>4. hdrItem' # 0 => \A b \in Element : flash'[b] \in {hdrItem', Erased}
        BY <2>1, <2>2, Zenon DEF IInv, Safe, HeaderOfArea
    <2> QED
        BY <1>1, <2>1, <2>3, <2>4, BootSafe
<1>5. ASSUME updateInfo, hdrItem' = downloadVer, UNCHANGED flash, Boot(downloadVer, codeItem)
      PROVE  Safe'
    <2>1. Boot(hdrItem', codeItem)
        BY <1>5, Zenon
    <2>2. \A b \in Element : flash'[b] = Erased
        BY <1>5 DEF IInv, Safe, HeaderHeld, AreaErased
    <2> QED
        BY <1>1, <1>5, <2>1, <2>2, StaysUngarbled, BootSafe
<1> QED
    BY <1>2, <1>3, <1>4, <1>5, Zenon DEF PowerCut

\* Every step keeps it.
LEMMA NextSafe ==
    ASSUME IInv, [Next]_vars
    PROVE  Safe'
<1>1. CASE UNCHANGED vars
    BY <1>1, UnchangedSafe DEF vars, attrs, nv
<1>2. CASE Next
    BY <1>2, QuerySafe, BlockSafe, QuietSafe, EndSafe, IeeeSafe, RestartSafe, Zenon
       DEF Next, Receive, SomeQueryRsp, SomeBlockRsp, SomeEndRsp, SomeIeeeRsp, Timer, World
<1> QED
    BY <1>1, <1>2

-----------------------------------------------------------------------------
(***************************************************************************)
(* Every action keeps the types.                                           *)
(***************************************************************************)
\* Nothing of the attributes changes but the status and the header's buffer.
LEMMA StatusTyped ==
    ASSUME AttrsOK, imageUpgradeStatus' \in Statuses,
           UNCHANGED <<fileOffset, downloadVer, clientInfo, flash, nv>>
    PROVE  AttrsOK'
  BY Zenon DEF AttrsOK, nv, Area, Info

\* ota_upgradeComplete keeps them.
LEMMA CompleteTyped ==
    ASSUME AttrsOK, NEW st, Complete(st), flash' \in Area
    PROVE  AttrsOK'
<1>1. "NORMAL" \in Statuses /\ Unset \in 0..Unset
    BY OtaAssumption DEF Statuses, Unset
<1>2. /\ imageUpgradeStatus' = "NORMAL"
      /\ fileOffset' \in {fileOffset, Unset} /\ downloadVer' \in {downloadVer, 0}
      /\ clientInfo' \in {clientInfo, InfoReset}
      /\ hdrItem' \in {hdrItem, 0} /\ codeItem' \in {codeItem, Nothing}
    BY Zenon DEF Complete, nv
<1> QED
    BY <1>1, <1>2, Marks, Zenon DEF AttrsOK, Area, Info

\* ota_init keeps them.
LEMMA BootTyped ==
    ASSUME AttrsOK, NEW hdr \in Versions \cup {0}, Boot(hdr, codeItem),
           flash' \in Area, hdrItem' \in Versions \cup {0}, UNCHANGED codeItem
    PROVE  AttrsOK'
<1>1. "NORMAL" \in Statuses /\ Unset \in 0..Unset
    BY OtaAssumption DEF Statuses, Unset
<1>2. codeItem # Nothing => codeItem \in Info /\ codeItem.offset \in 0..Unset
    BY OtaAssumption DEF AttrsOK, Info, Unset
<1>3. /\ imageUpgradeStatus' = "NORMAL"
      /\ \/ codeItem # Nothing /\ clientInfo' = codeItem /\ fileOffset' = codeItem.offset
         \/ clientInfo' = InfoReset /\ fileOffset' = Unset
      /\ downloadVer' \in {hdr, 0}
    BY Zenon DEF Boot
<1>4. clientInfo' \in Info /\ fileOffset' \in 0..Unset
    BY <1>1, <1>2, <1>3, Marks, Zenon
<1> QED
    BY <1>1, <1>3, <1>4, Zenon DEF AttrsOK, Area, Info

\* Each handler keeps them: a query response,
LEMMA QueryTyped ==
    ASSUME AttrsOK, NEW v \in Versions, QueryNextImageRsp(v)
    PROVE  AttrsOK'
<1>1. "IN_PROGRESS" \in Statuses /\ 0 \in 0..Unset /\ "MAGIC_0" \in Flags
    BY OtaAssumption DEF Statuses, Unset, Flags
<1>2. \/ UNCHANGED <<imageUpgradeStatus, fileOffset, downloadVer, clientInfo, flash, nv>>
      \/ Resume(v, air \ {Query(v)})
      \/ AlreadyThere(v, air \ {Query(v)})
      \/ FromZero(v, air \ {Query(v)})
    BY Zenon DEF QueryNextImageRsp, attrs
<1>3. CASE UNCHANGED <<imageUpgradeStatus, fileOffset, downloadVer, clientInfo, flash, nv>>
    BY <1>3, StatusTyped DEF AttrsOK
<1>4. CASE Resume(v, air \ {Query(v)})
    BY <1>1, <1>4, StatusTyped DEF Resume
<1>5. CASE AlreadyThere(v, air \ {Query(v)})
    <2>1. Complete("SUCCESS") /\ flash' \in Area
        BY <1>5 DEF AlreadyThere, AttrsOK
    <2> QED
        BY <2>1, CompleteTyped
<1>6. CASE FromZero(v, air \ {Query(v)})
    <2>1. clientInfo' \in Info
        <3>1. /\ [clientInfo EXCEPT !.crc = CrcInit] \in Info
              /\ [clientInfo EXCEPT !.crc = CrcInit, !.flag = "MAGIC_0"] \in Info
            BY <1>1, Marks, InfoFields DEF AttrsOK
        <3> QED
            BY <1>6, <3>1, Zenon DEF FromZero
    <2>2. /\ imageUpgradeStatus' = "IN_PROGRESS" /\ fileOffset' = 0 /\ downloadVer' = v
          /\ flash' = AreaErased /\ UNCHANGED <<hdrItem, codeItem>>
        BY <1>6, Zenon DEF FromZero, nv
    <2> QED
        BY <1>1, <2>1, <2>2, Marks, Zenon DEF AttrsOK, Area, Info
<1> QED
    BY <1>2, <1>3, <1>4, <1>5, <1>6

\* a block,
LEMMA BlockTyped ==
    ASSUME AttrsOK, NEW v \in Versions, NEW b \in 0..(Blocks - 1), BlockRsp(v, b)
    PROVE  AttrsOK'
<1>1. \/ UNCHANGED <<imageUpgradeStatus, fileOffset, downloadVer, clientInfo, flash, nv>>
      \/ ForeignBlock(air \ {Block(v, b)})
      \/ Accepted(v, b) /\ TakeBlock(v, b)
      \/ Complete("INVALID") /\ flash' = IF ElementBlock(b) THEN Written(v, b) ELSE flash
    BY Zenon DEF BlockRsp, ExpectedBlock, attrs
<1>2. ElementBlock(b) => b \in Element /\ b # 0
    BY OtaAssumption DEF ElementBlock, Element
<1>3. ElementBlock(b) => Written(v, b) \in Area
    BY <1>2, WrittenArea DEF AttrsOK
<1>4. CASE UNCHANGED <<imageUpgradeStatus, fileOffset, downloadVer, clientInfo, flash, nv>>
    BY <1>4, StatusTyped DEF AttrsOK
<1>5. CASE ForeignBlock(air \ {Block(v, b)})
    BY <1>5, StatusTyped DEF ForeignBlock, Statuses
<1>6. CASE Accepted(v, b) /\ TakeBlock(v, b)
    <2>1. clientInfo' \in Info
        <3>1. CASE b = 0
            <4>1. clientInfo' = [clientInfo EXCEPT !.flag = "CONT_HDR"] /\ "CONT_HDR" \in Flags
                BY <1>6, <3>1 DEF TakeBlock, Flags
            <4> QED
                BY <4>1, Marks, InfoFields DEF AttrsOK
        <3>2. CASE b # 0
            <4>1. b + 1 \in 0..Blocks /\ Append(clientInfo.crc, v) \in Seq(Versions)
                BY OtaAssumption DEF AttrsOK, Info
            <4>2. "ELEM_TAG1" \in Flags /\ "ELEMENT" \in Flags
                BY DEF Flags
            <4>3. \/ clientInfo' = [offset |-> b + 1, crc |-> Append(clientInfo.crc, v),
                                    flag |-> "ELEM_TAG1"]
                  \/ clientInfo' = [offset |-> b + 1, crc |-> Append(clientInfo.crc, v),
                                    flag |-> "ELEMENT"]
                BY <1>6, <3>2 DEF TakeBlock, Sum
            <4>4. ASSUME NEW o \in 0..Blocks, NEW r \in Seq(Versions), NEW f \in Flags
                  PROVE  [offset |-> o, crc |-> r, flag |-> f] \in Info
                BY DEF Info
            <4> QED
                BY <4>1, <4>2, <4>3, <4>4, Zenon
        <3> QED
            BY <3>1, <3>2
    <2>2. flash' \in Area
        <3>1. CASE b = 0
            BY <1>6, <3>1 DEF TakeBlock, AttrsOK
        <3>2. CASE b # 0
            <4>1. ElementBlock(b)
                BY <1>6, <3>2 DEF Accepted, HeaderBlock
            <4> QED
                BY <1>3, <1>6, <3>2, <4>1 DEF TakeBlock
        <3> QED
            BY <3>1, <3>2
    <2>3. /\ fileOffset' = b + 1 /\ b + 1 \in 0..Unset
          /\ imageUpgradeStatus' \in {imageUpgradeStatus, "COMPLETE"} /\ "COMPLETE" \in Statuses
          /\ hdrItem' \in {hdrItem, v}
          /\ UNCHANGED <<downloadVer, codeItem>>
        BY <1>6, OtaAssumption DEF TakeBlock, Unset, Statuses
    <2> QED
        BY <2>1, <2>2, <2>3, Zenon DEF AttrsOK, Area, Info
<1>7. CASE Complete("INVALID") /\ flash' = IF ElementBlock(b) THEN Written(v, b) ELSE flash
    <2>1. flash' \in Area
        BY <1>3, <1>7 DEF AttrsOK
    <2> QED
        BY <1>7, <2>1, CompleteTyped
<1> QED
    BY <1>1, <1>4, <1>5, <1>6, <1>7

\* and every other step.
LEMMA AttrsTyped ==
    ASSUME AttrsOK, [Next]_vars
    PROVE  AttrsOK'
<1>1. flash \in Area /\ imageUpgradeStatus \in Statuses
    BY DEF AttrsOK
<1>2. CASE UNCHANGED <<imageUpgradeStatus, fileOffset, downloadVer, clientInfo, flash, nv>>
    BY <1>1, <1>2, StatusTyped
<1>3. CASE (\E st \in {"SUCCESS", "ABORT"} : Complete(st)) /\ UNCHANGED flash
    BY <1>1, <1>3, CompleteTyped
<1>4. CASE SomeIeeeRsp
    <2> PICK m : IeeeAddrRsp(m)
        BY <1>4, Zenon DEF SomeIeeeRsp
    <2>1. \/ /\ clientInfo' = [clientInfo EXCEPT !.flag = "MAGIC_0"]
             /\ UNCHANGED <<imageUpgradeStatus, fileOffset, downloadVer, flash, nv>>
          \/ Complete("ABORT") /\ UNCHANGED flash
          \/ UNCHANGED <<imageUpgradeStatus, fileOffset, downloadVer, clientInfo, flash, nv>>
        BY Zenon DEF IeeeAddrRsp, attrs
    <2>2. [clientInfo EXCEPT !.flag = "MAGIC_0"] \in Info
        BY InfoFields, Marks DEF AttrsOK, Flags
    <2> QED
        BY <1>2, <1>3, <2>1, <2>2, Zenon DEF AttrsOK, nv, Area, Info
<1>5. CASE SomeEndRsp
    <2> PICK v \in Versions, t \in EndTimes : UpgradeEndRsp(v, t)
        BY <1>5, Zenon DEF SomeEndRsp
    <2>1. /\ UNCHANGED flash
          /\ \/ Complete("SUCCESS")
             \/ /\ imageUpgradeStatus' \in {"COUNT_DOWN", "WAITING"}
                /\ UNCHANGED <<fileOffset, downloadVer, clientInfo, nv>>
             \/ UNCHANGED <<imageUpgradeStatus, fileOffset, downloadVer, clientInfo, nv>>
        BY Zenon DEF UpgradeEndRsp, attrs
    <2>2. {"COUNT_DOWN", "WAITING"} \subseteq Statuses
        BY DEF Statuses
    <2> QED
        BY <1>1, <1>3, <2>1, <2>2, StatusTyped, Zenon
<1>6. CASE SaveTask
    <2>1. codeItem' \in {codeItem, clientInfo}
          /\ UNCHANGED <<imageUpgradeStatus, fileOffset, downloadVer, clientInfo, flash, hdrItem>>
        BY <1>6, Zenon DEF SaveTask, attrs
    <2> QED
        BY <2>1, Zenon DEF AttrsOK, Area, Info
<1>7. CASE Reboot \/ PowerCut
    <2>1. /\ UNCHANGED codeItem /\ hdrItem' \in {hdrItem, downloadVer}
          /\ Boot(hdrItem, codeItem) \/ Boot(downloadVer, codeItem)
        BY <1>7, Zenon DEF Reboot, PowerCut, nv
    <2>2. flash' \in Area
        <3>1. ASSUME NEW last,
                     flash' = [b \in Element |-> IF b <= last THEN Erased ELSE flash[b]]
              PROVE  flash' \in Area
            BY <1>1, <3>1 DEF Area
        <3> QED
            BY <1>1, <1>7, <3>1, Zenon DEF Reboot, PowerCut
    <2> QED
        BY <2>1, <2>2, BootTyped, Zenon DEF AttrsOK
<1>8. CASE ImageNotify \/ World
    BY <1>2, <1>7, <1>8, Zenon DEF ImageNotify, World, NewOffer, Lose, attrs
<1>9. CASE Timer
    BY <1>2, <1>3, <1>9, Zenon DEF Timer, WaitOver, BlockRspLate, IeeeRspLate, UpgradeDue, attrs
<1>10. CASE Task
    BY <1>2, <1>3, <1>6, <1>10, Zenon
       DEF Task, BlockReqTask, TimeoutTask, IeeeReqTask, EndReqTask, attrs
<1>11. CASE SomeBlockRsp
    BY <1>2, <1>3, <1>11, BlockTyped, Zenon DEF SomeBlockRsp, BlockWait, BlockAbort, attrs
<1>12. CASE SomeQueryRsp
    BY <1>12, QueryTyped, Zenon DEF SomeQueryRsp
<1>13. CASE UNCHANGED vars
    BY <1>2, <1>13 DEF vars, attrs
<1> QED
    BY <1>4, <1>5, <1>7, <1>8, <1>9, <1>10, <1>11, <1>12, <1>13, Zenon DEF Next, Receive

\* The four switches of the client stay switches.
LEMMA BitsTyped ==
    ASSUME BitsOK, [Next]_vars
    PROVE  BitsOK'
<1> DEFINE Kept == UNCHANGED <<serverKnown, updateInfo, paced, rebooting>>
           Ends == \E st : Complete(st)
<1>1. ASSUME NEW st, Complete(st) PROVE updateInfo' \in BOOLEAN /\ rebooting' \in BOOLEAN
    BY <1>1 DEF Complete
<1>2. ASSUME NEW hdr, NEW code, Boot(hdr, code) PROVE BitsOK'
    BY <1>2 DEF Boot, BitsOK
<1>3. CASE Kept
    BY <1>3 DEF BitsOK
<1>4. CASE Ends /\ UNCHANGED <<serverKnown, paced>>
    BY <1>1, <1>4, Zenon DEF BitsOK
<1>5. CASE SomeQueryRsp
    <2> PICK v : QueryNextImageRsp(v)
        BY <1>5, Zenon DEF SomeQueryRsp
    <2>1. \/ Kept
          \/ Ends /\ UNCHANGED <<serverKnown, paced>>
          \/ updateInfo' \in {TRUE, FALSE} /\ UNCHANGED <<serverKnown, paced, rebooting>>
        BY Zenon DEF QueryNextImageRsp, Resume, AlreadyThere, FromZero, attrs
    <2> QED
        BY <1>3, <1>4, <2>1, Zenon DEF BitsOK
<1>6. CASE SomeBlockRsp
    <2>1. CASE BlockAbort
        BY <1>3, <1>4, <2>1, Zenon DEF BlockAbort, attrs
    <2>2. ASSUME NEW t, BlockWait(t) PROVE BitsOK'
        <3>1. UNCHANGED <<serverKnown, updateInfo, rebooting>> /\ (paced' = paced \/ paced' \in BOOLEAN)
            BY <2>2, Zenon DEF BlockWait, attrs
        <3> QED
            BY <3>1, Zenon DEF BitsOK
    <2>3. ASSUME NEW v, NEW b, BlockRsp(v, b) PROVE BitsOK'
        <3>1. \/ Kept
              \/ Ends /\ UNCHANGED <<serverKnown, paced>>
              \/ (updateInfo' = updateInfo \/ updateInfo' = FALSE)
                     /\ UNCHANGED <<serverKnown, paced, rebooting>>
            BY <2>3, Zenon DEF BlockRsp, ExpectedBlock, ForeignBlock, TakeBlock, attrs
        <3> QED
            BY <1>3, <1>4, <3>1, Zenon DEF BitsOK
    <2> QED
        BY <1>6, <2>1, <2>2, <2>3, Zenon DEF SomeBlockRsp
<1>7. CASE SomeEndRsp
    <2> PICK v, t : UpgradeEndRsp(v, t)
        BY <1>7, Zenon DEF SomeEndRsp
    <2> QED
        BY <1>3, <1>4, Zenon DEF UpgradeEndRsp, attrs
<1>8. CASE SomeIeeeRsp
    <2> PICK m : IeeeAddrRsp(m)
        BY <1>8, Zenon DEF SomeIeeeRsp
    <2>1. serverKnown' = (serverKnown \/ m.ok)
        BY Zenon DEF IeeeAddrRsp
    <2>2. UNCHANGED paced /\ (Ends \/ UNCHANGED <<updateInfo, rebooting>>)
        BY Zenon DEF IeeeAddrRsp, attrs
    <2>3. serverKnown' \in BOOLEAN
        BY <2>1
    <2> QED
        BY <1>1, <2>2, <2>3, Zenon DEF BitsOK
<1>9. CASE ImageNotify \/ Timer
    BY <1>3, <1>4, <1>9, Zenon
       DEF ImageNotify, Timer, WaitOver, BlockRspLate, IeeeRspLate, UpgradeDue, attrs
<1>10. CASE Task
    BY <1>3, <1>4, <1>10, Zenon
       DEF Task, BlockReqTask, TimeoutTask, SaveTask, IeeeReqTask, EndReqTask, attrs
<1>11. CASE Reboot \/ World
    BY <1>2, <1>3, <1>11, Zenon DEF Reboot, World, PowerCut, NewOffer, Lose, attrs
<1>12. CASE UNCHANGED vars
    BY <1>3, <1>12 DEF vars, attrs
<1> QED
    BY <1>5, <1>6, <1>7, <1>8, <1>9, <1>10, <1>11, <1>12, Zenon DEF Next, Receive

-----------------------------------------------------------------------------
(***************************************************************************)
(* Every action keeps the counters in range.                               *)
(***************************************************************************)
\* TL_SCHEDULE_TASK adds one task to the queue,
LEMMA Posted ==
    ASSUME tasks \in Seq(Tasks), NEW u \in Tasks, Post(u)
    PROVE  /\ tasks' \in Seq(Tasks)
           /\ \A t : Queued(t)' <=> Queued(t) \/ t = u
<1>1. /\ tasks' \in Seq(Tasks) /\ Len(tasks') = Len(tasks) + 1 /\ Len(tasks) \in Nat
      /\ tasks'[Len(tasks) + 1] = u
      /\ \A i \in 1..Len(tasks) : tasks'[i] = tasks[i]
    BY DEF Post
<1>2. /\ 1..Len(tasks') = 1..Len(tasks) \cup {Len(tasks) + 1}
    BY <1>1
<1> QED
    BY <1>1, <1>2, Zenon DEF Queued

\* and the main loop takes its head.
LEMMA Popped ==
    ASSUME tasks \in Seq(Tasks), tasks # <<>>, Pop
    PROVE  /\ tasks' \in Seq(Tasks)
           /\ \A t : /\ Queued(t)' => Queued(t)
                     /\ Queued(t) /\ t # Head(tasks) => Queued(t)'
<1>1. /\ tasks' \in Seq(Tasks) /\ Len(tasks') = Len(tasks) - 1 /\ Len(tasks) \in Nat \ {0}
      /\ Head(tasks) = tasks[1]
      /\ \A i \in 1..Len(tasks') : tasks'[i] = tasks[i + 1]
    BY DEF Pop
<1>2. ASSUME NEW t, Queued(t)' PROVE Queued(t)
    <2> PICK i \in 1..Len(tasks') : tasks'[i] = t
        BY <1>2 DEF Queued
    <2>1. i + 1 \in 1..Len(tasks) /\ tasks[i + 1] = t
        BY <1>1
    <2> QED
        BY <2>1, Zenon DEF Queued
<1>3. ASSUME NEW t, Queued(t), t # Head(tasks) PROVE Queued(t)'
    <2> PICK i \in 1..Len(tasks) : tasks[i] = t
        BY <1>3 DEF Queued
    <2>1. i # 1
        BY <1>1, <1>3
    <2> DEFINE j == i - 1
    <2>2. j \in 1..Len(tasks') /\ i = j + 1
        BY <1>1, <2>1
    <2>3. tasks'[j] = tasks[i]
        BY <1>1, <2>2
    <2> QED
        BY <2>2, <2>3 DEF Queued
<1> QED
    BY <1>1, <1>2, <1>3, Zenon

\* What a handler that does not count changes.
LEMMA NothingCounted ==
    ASSUME IInv, otaTimer' \in Roles,
           UNCHANGED <<imageUpgradeStatus, retries, saveCnt, tasks>>,
           InProgress \/ otaTimer' \in {otaTimer, "off", "ieeeRsp", "upgrade"}
    PROVE  CountsOK' /\ GivenUp'
<1>1. CountsOK
    BY TypeParts DEF IInv
<1>2. CountsOK'
    BY <1>1, Zenon DEF CountsOK, retries
<1>3. \A t : Queued(t)' <=> Queued(t)
    BY Zenon DEF Queued
<1>4. {"off", "ieeeRsp", "upgrade"} \cap {"blockRsp", "reqDelay", "blockWait"} = {}
    OBVIOUS
<1>5. TimeoutQueued' /\ EndsInTime'
    BY <1>3, Zenon DEF IInv, GivenUp, TimeoutQueued, EndsInTime, InProgress, retries
<1>6. AsksNoMore'
    BY <1>3, <1>4 DEF IInv, GivenUp, AsksNoMore, InProgress, retries
<1> QED
    BY <1>2, <1>5, <1>6, Zenon DEF GivenUp

\* A request count that starts again.
LEMMA CountsAnew ==
    ASSUME CountsOK', imageBlockRetry' = 0, EndsInTime'
    PROVE  GivenUp'
<1>1. ~(imageBlockRetry' >= BlockRetries) /\ ~(imageBlockRetry' > BlockRetries)
    BY OtaAssumption
<1> QED
    BY <1>1, Zenon DEF GivenUp, TimeoutQueued, AsksNoMore

\* The request timer's roles.
LEMMA Requests ==
    /\ \A v, b, rest : SendBlockReqNow(v, b, rest) => otaTimer' = "blockRsp"
    /\ \A v, b, rest : SendBlockReq(v, b, rest) => otaTimer' \in {"blockRsp", "reqDelay"}
    /\ {"off", "blockRsp", "reqDelay", "blockWait", "upgrade", "ieeeRsp"} = Roles
    /\ 0 \in 0..(BlockRetries + 1) /\ 0 \in 0..EndRetries
    /\ 0 \in 0..(AddrRetries - 1) /\ 0 \in 0..(SaveEvery - 1)
    /\ 0 < EndRetries
<1>1. /\ 0 \in 0..(BlockRetries + 1) /\ 0 \in 0..EndRetries
      /\ 0 \in 0..(AddrRetries - 1) /\ 0 \in 0..(SaveEvery - 1)
      /\ 0 < EndRetries
    BY OtaAssumption
<1> QED
    BY <1>1, Zenon DEF SendBlockReq, SendBlockReqNow, Roles

\* Nothing of an upgrade is counted any more once it is over.
LEMMA OverCounted ==
    ASSUME IInv, CountsOK', imageUpgradeStatus' = "NORMAL",
           UNCHANGED imageBlockRetry,
           otaTimer' \in {otaTimer, "off"},
           \A t : Queued(t)' => Queued(t)
    PROVE  GivenUp'
<1>1. "off" \notin {"blockRsp", "reqDelay", "blockWait"} /\ ~InProgress'
    BY DEF InProgress
<1>2. TimeoutQueued' /\ EndsInTime'
    BY <1>1 DEF TimeoutQueued, EndsInTime
<1>3. AsksNoMore'
    BY <1>1, Zenon DEF IInv, GivenUp, AsksNoMore
<1> QED
    BY <1>2, <1>3, Zenon DEF GivenUp

\* A query response.
LEMMA QueryCounts ==
    ASSUME IInv, NEW v \in Versions, QueryNextImageRsp(v)
    PROVE  CountsOK' /\ GivenUp'
<1>1. CountsOK
    BY TypeParts DEF IInv
<1>2. CASE InProgress
    <2>1. UNCHANGED <<imageUpgradeStatus, retries, saveCnt, otaTimer, tasks>>
        BY <1>2, Zenon DEF QueryNextImageRsp, attrs
    <2> QED
        BY <1>1, <2>1, NothingCounted, Zenon DEF CountsOK
<1>3. CASE ~InProgress
    <2>1. /\ imageBlockRetry' = 0 /\ UNCHANGED <<upgradeEndRetry, ieeeCnt, saveCnt>>
          /\ \/ Resume(v, air \ {Query(v)})
             \/ AlreadyThere(v, air \ {Query(v)})
             \/ FromZero(v, air \ {Query(v)})
        BY <1>3, Zenon DEF QueryNextImageRsp
    <2>2. otaTimer' \in Roles
        BY <2>1, Requests, Zenon DEF Resume, AlreadyThere, FromZero
    <2>3. tasks' \in Seq(Tasks)
        <3>1. (tasks' = tasks) \/ Post("ieeeReq")
            BY <2>1, Zenon DEF Resume, AlreadyThere, FromZero
        <3> QED
            BY <1>1, <3>1, Posted DEF CountsOK, Tasks
    <2>4. imageUpgradeStatus' \in {"NORMAL", "IN_PROGRESS"}
        BY <2>1, Zenon DEF Resume, AlreadyThere, FromZero, Complete
    <2>5. EndsInTime'
        BY <2>4 DEF EndsInTime
    <2>6. CountsOK'
        BY <1>1, <2>1, <2>2, <2>3, Requests, Zenon DEF CountsOK
    <2> QED
        BY <2>1, <2>5, <2>6, CountsAnew
<1> QED
    BY <1>2, <1>3

\* A block: the one asked for starts the count of requests again.
LEMMA BlockCounts ==
    ASSUME IInv, NEW v \in Versions, NEW b \in 0..(Blocks - 1), BlockRsp(v, b)
    PROVE  CountsOK' /\ GivenUp'
<1>1. CountsOK
    BY TypeParts DEF IInv
<1>2. /\ UNCHANGED saveCnt
      /\ \/ InProgress /\ ExpectedBlock(v, b, air \ {Block(v, b)})
         \/ ForeignBlock(air \ {Block(v, b)})
         \/ UNCHANGED <<imageUpgradeStatus, retries, otaTimer, tasks>>
    BY Zenon DEF BlockRsp, attrs
<1>3. CASE UNCHANGED <<imageUpgradeStatus, retries, otaTimer, tasks>>
    BY <1>1, <1>2, <1>3, NothingCounted, Zenon DEF CountsOK
<1>4. CASE ForeignBlock(air \ {Block(v, b)})
    <2>1. imageUpgradeStatus' = "NORMAL" /\ UNCHANGED <<retries, otaTimer, tasks>>
        BY <1>4, Zenon DEF ForeignBlock
    <2>2. CountsOK'
        BY <1>1, <1>2, <2>1, Zenon DEF CountsOK, retries
    <2>3. \A t : Queued(t)' => Queued(t)
        BY <2>1, Zenon DEF Queued
    <2> QED
        BY <2>1, <2>2, <2>3, OverCounted DEF retries
<1>5. CASE InProgress /\ ExpectedBlock(v, b, air \ {Block(v, b)})
    <2>1. /\ imageBlockRetry' = 0 /\ UNCHANGED ieeeCnt
          /\ upgradeEndRetry' \in {upgradeEndRetry, 0}
          /\ (tasks' = tasks) \/ Post("save")
        BY <1>5, Zenon DEF ExpectedBlock
    <2>2. otaTimer' \in Roles
        BY <1>5, Requests, Zenon DEF ExpectedBlock
    <2>3. tasks' \in Seq(Tasks)
        BY <1>1, <2>1, Posted DEF CountsOK, Tasks
    <2>4. CountsOK'
        BY <1>1, <1>2, <2>1, <2>2, <2>3, Requests, Zenon DEF CountsOK
    <2>5. \/ imageUpgradeStatus' \notin {"COMPLETE", "WAITING"}
          \/ upgradeEndRetry' = 0
        BY <1>5 DEF ExpectedBlock, TakeBlock, Complete, InProgress
    <2>6. EndsInTime'
        BY <2>5, Requests, Zenon DEF EndsInTime
    <2> QED
        BY <2>1, <2>4, <2>6, CountsAnew
<1> QED
    BY <1>2, <1>3, <1>4, <1>5

\* A server that asks to wait.
LEMMA WaitCounts ==
    ASSUME IInv, NEW t \in BOOLEAN, BlockWait(t)
    PROVE  CountsOK' /\ GivenUp'
<1>1. CountsOK
    BY TypeParts DEF IInv
<1>2. UNCHANGED <<imageUpgradeStatus, upgradeEndRetry, ieeeCnt, saveCnt, tasks>>
    BY Zenon DEF BlockWait, attrs
<1>3. \/ InProgress /\ imageBlockRetry' = 0 /\ otaTimer' = "blockWait"
      \/ /\ InProgress /\ otaTimer' \in {"blockRsp", "reqDelay"}
         /\ UNCHANGED imageBlockRetry
      \/ UNCHANGED <<imageBlockRetry, otaTimer>>
    BY Requests, Zenon DEF BlockWait
<1>4. CASE InProgress /\ imageBlockRetry' = 0 /\ otaTimer' = "blockWait"
    <2>1. CountsOK'
        BY <1>1, <1>2, <1>4, Requests, Zenon DEF CountsOK
    <2>2. EndsInTime'
        BY <1>2, Zenon DEF IInv, GivenUp, EndsInTime
    <2> QED
        BY <1>4, <2>1, <2>2, CountsAnew
<1>5. CASE /\ InProgress /\ otaTimer' \in {"blockRsp", "reqDelay"}
           /\ UNCHANGED imageBlockRetry
    BY <1>2, <1>5, Requests, NothingCounted DEF retries
<1>6. CASE UNCHANGED <<imageBlockRetry, otaTimer>>
    BY <1>1, <1>2, <1>6, NothingCounted, Zenon DEF retries, CountsOK
<1> QED
    BY <1>3, <1>4, <1>5, <1>6

\* A server that has nothing to give, or its address.
LEMMA AbortCounts ==
    ASSUME IInv, BlockAbort \/ \E m : IeeeAddrRsp(m)
    PROVE  CountsOK' /\ GivenUp'
<1>1. CountsOK
    BY TypeParts DEF IInv
<1>2. UNCHANGED <<upgradeEndRetry, ieeeCnt, saveCnt, tasks>>
    BY Zenon DEF BlockAbort, IeeeAddrRsp, retries
<1>3. \A t : Queued(t)' <=> Queued(t)
    BY <1>2, Zenon DEF Queued
<1>4. CASE UNCHANGED <<imageUpgradeStatus, imageBlockRetry, otaTimer>>
    BY <1>1, <1>2, <1>4, NothingCounted, Zenon DEF CountsOK, retries
<1>5. CASE Complete("ABORT") /\ otaTimer' = "off" /\ imageBlockRetry' \in {imageBlockRetry, 0}
    <2>1. CountsOK'
        BY <1>1, <1>2, <1>5, Requests, Zenon DEF CountsOK
    <2>2. imageUpgradeStatus' = "NORMAL"
        BY <1>5 DEF Complete
    <2>3. EndsInTime'
        BY <2>2 DEF EndsInTime
    <2> QED
        BY <1>3, <1>5, <2>1, <2>2, <2>3, CountsAnew, OverCounted, Zenon
<1>6. CASE BlockAbort
    BY <1>4, <1>5, <1>6, Zenon DEF BlockAbort, attrs
<1>7. CASE \E m : IeeeAddrRsp(m)
    <2> PICK m : IeeeAddrRsp(m)
        BY <1>7
    <2>1. CASE /\ InProgress /\ otaTimer' \in {"blockRsp", "reqDelay"}
               /\ UNCHANGED <<imageUpgradeStatus, imageBlockRetry>>
        BY <1>2, <2>1, Requests, NothingCounted DEF retries
    <2> QED
        BY <1>4, <1>5, <2>1, Requests, Zenon DEF IeeeAddrRsp, attrs, retries
<1> QED
    BY <1>6, <1>7

\* The server's word on the end of the upgrade.
LEMMA EndRspCounts ==
    ASSUME IInv, NEW v, NEW t, UpgradeEndRsp(v, t)
    PROVE  CountsOK' /\ GivenUp'
<1>1. CountsOK
    BY TypeParts DEF IInv
<1>2. UNCHANGED <<imageBlockRetry, ieeeCnt, saveCnt, tasks>>
    BY Zenon DEF UpgradeEndRsp
<1>3. \A u : Queued(u)' <=> Queued(u)
    BY <1>2, Zenon DEF Queued
<1>4. CASE UNCHANGED <<imageUpgradeStatus, upgradeEndRetry, otaTimer>>
    BY <1>1, <1>2, <1>4, NothingCounted, Zenon DEF CountsOK, retries
<1>5. CASE Complete("SUCCESS") /\ otaTimer' = "off" /\ UNCHANGED upgradeEndRetry
    <2>1. CountsOK'
        BY <1>1, <1>2, <1>5, Requests, Zenon DEF CountsOK
    <2>2. imageUpgradeStatus' = "NORMAL"
        BY <1>5 DEF Complete
    <2> QED
        BY <1>2, <1>3, <1>5, <2>1, <2>2, OverCounted, Zenon
<1>6. CASE /\ otaTimer' = "upgrade"
           /\ \/ imageUpgradeStatus' = "COUNT_DOWN" /\ UNCHANGED upgradeEndRetry
              \/ imageUpgradeStatus' = "WAITING" /\ upgradeEndRetry' = 0
    <2>1. CountsOK'
        BY <1>1, <1>2, <1>6, Requests, Zenon DEF CountsOK
    <2>2. ~InProgress' /\ EndsInTime'
        BY <1>6, Requests DEF InProgress, EndsInTime
    <2>3. AsksNoMore'
        BY <1>2, <1>3, <1>6, <2>2 DEF IInv, GivenUp, AsksNoMore
    <2> QED
        BY <2>1, <2>2, <2>3, Zenon DEF GivenUp, TimeoutQueued
<1>7. CASE Awaits(v, t) /\ t # "now"
    BY <1>4, <1>5, <1>6, <1>7, Zenon DEF UpgradeEndRsp, attrs
<1> QED
    BY <1>4, <1>5, <1>7, Zenon DEF UpgradeEndRsp, attrs

\* The timer's callbacks.
LEMMA TimerCounts ==
    ASSUME IInv, Timer
    PROVE  CountsOK' /\ GivenUp'
<1>1. CountsOK
    BY TypeParts DEF IInv
<1>2. tasks = <<>> /\ ~Queued("timeout") /\ UNCHANGED saveCnt
    <2>1. tasks = <<>> /\ UNCHANGED saveCnt
        BY Zenon DEF Timer, WaitOver, BlockRspLate, IeeeRspLate, UpgradeDue, Due
    <2> QED
        BY <2>1 DEF Queued
<1>3. InProgress => imageBlockRetry < BlockRetries
    <2>1. imageBlockRetry \in Nat /\ BlockRetries \in Nat
        BY <1>1, OtaAssumption DEF CountsOK
    <2> QED
        BY <1>2, <2>1 DEF IInv, GivenUp, TimeoutQueued
<1>4. otaTimer \in {"blockRsp", "reqDelay", "blockWait"} => imageBlockRetry \in 0..BlockRetries
    BY <1>1, OtaAssumption DEF IInv, GivenUp, AsksNoMore, CountsOK
<1>5. CASE WaitOver
    <2>1. /\ otaTimer' = "off" /\ UNCHANGED <<imageUpgradeStatus, retries>>
          /\ otaTimer \in {"blockRsp", "reqDelay", "blockWait"}
          /\ (tasks' = tasks) \/ Post("blockReqNow")
        BY <1>5, Zenon DEF WaitOver, Due, attrs
    <2>2. tasks' \in Seq(Tasks)
        BY <1>1, <2>1, Posted DEF CountsOK, Tasks
    <2>3. CountsOK'
        BY <1>1, <1>2, <2>1, <2>2, Requests, Zenon DEF CountsOK, retries
    <2>4. TimeoutQueued' /\ AsksNoMore'
        BY <1>3, <1>4, <2>1, OtaAssumption DEF TimeoutQueued, AsksNoMore, InProgress, retries
    <2>5. EndsInTime'
        BY <2>1, Zenon DEF IInv, GivenUp, EndsInTime, retries
    <2> QED
        BY <2>3, <2>4, <2>5, Zenon DEF GivenUp
<1>6. CASE BlockRspLate
    <2>1. /\ otaTimer' = "off" /\ UNCHANGED <<imageUpgradeStatus, upgradeEndRetry, ieeeCnt>>
          /\ otaTimer = "blockRsp"
          /\ imageBlockRetry' = imageBlockRetry + 1
          /\ Post(IF imageBlockRetry' >= BlockRetries THEN "timeout" ELSE "blockReq")
        BY <1>6, Zenon DEF BlockRspLate, Due, attrs
    <2>2. imageBlockRetry' \in 0..(BlockRetries + 1)
        BY <1>4, <2>1, OtaAssumption
    <2>3. tasks' \in Seq(Tasks)
        BY <1>1, <2>1, Posted DEF CountsOK, Tasks
    <2>4. CountsOK'
        BY <1>1, <1>2, <2>1, <2>2, <2>3, Requests, Zenon DEF CountsOK
    <2>5. imageBlockRetry' >= BlockRetries => \A t : Queued(t)' <=> t = "timeout"
        <3>1. ASSUME imageBlockRetry' >= BlockRetries
              PROVE  \A t : Queued(t)' <=> Queued(t) \/ t = "timeout"
            BY <1>1, <2>1, <3>1, Posted DEF CountsOK, Tasks
        <3>2. \A t : ~Queued(t)
            BY <1>2 DEF Queued
        <3> QED
            BY <3>1, <3>2, Zenon
    <2>6. TimeoutQueued'
        BY <2>5, Zenon DEF TimeoutQueued
    <2>7. AsksNoMore'
        <3> SUFFICES ASSUME imageBlockRetry' > BlockRetries PROVE AsksNoMore'
            BY DEF AsksNoMore
        <3>1. imageBlockRetry' >= BlockRetries
            BY <2>2, OtaAssumption
        <3>2. ~InProgress'
            BY <1>3, <1>4, <2>1, OtaAssumption DEF InProgress
        <3>3. ~Queued("blockReq")' /\ ~Queued("blockReqNow")'
            BY <2>5, <3>1
        <3> QED
            BY <2>1, <3>2, <3>3 DEF AsksNoMore
    <2>8. EndsInTime'
        BY <2>1, Zenon DEF IInv, GivenUp, EndsInTime
    <2> QED
        BY <2>4, <2>6, <2>7, <2>8, Zenon DEF GivenUp
<1>7. CASE IeeeRspLate
    <2>1. /\ UNCHANGED <<imageBlockRetry, upgradeEndRetry, tasks>>
          /\ \/ ieeeCnt' = 0 /\ Complete("ABORT") /\ otaTimer' = "off"
             \/ /\ ~(ieeeCnt + 1 >= AddrRetries) /\ ieeeCnt' = ieeeCnt + 1
                /\ UNCHANGED <<imageUpgradeStatus, otaTimer>>
        BY <1>7, Zenon DEF IeeeRspLate, attrs
    <2>2. /\ ieeeCnt' \in 0..(AddrRetries - 1) /\ otaTimer' \in Roles
          /\ otaTimer' \in {otaTimer, "off"}
        BY <1>1, <2>1, Requests, OtaAssumption DEF CountsOK
    <2>3. CountsOK'
        BY <1>1, <1>2, <2>1, <2>2, Zenon DEF CountsOK
    <2>4. \A t : Queued(t)' <=> Queued(t)
        BY <2>1, Zenon DEF Queued
    <2>5. CASE Complete("ABORT")
        <3>1. imageUpgradeStatus' = "NORMAL"
            BY <2>5 DEF Complete
        <3> QED
            BY <2>1, <2>2, <2>3, <2>4, <3>1, OverCounted, Zenon
    <2>6. CASE UNCHANGED <<imageUpgradeStatus, otaTimer>>
        BY <2>1, <2>3, <2>4, <2>6, Zenon
           DEF IInv, GivenUp, TimeoutQueued, AsksNoMore, EndsInTime, InProgress
    <2> QED
        BY <2>1, <2>5, <2>6
<1>8. CASE UpgradeDue
    <2>1. /\ otaTimer' = "off" /\ UNCHANGED <<imageBlockRetry, ieeeCnt>>
          /\ \/ /\ Complete("SUCCESS") /\ UNCHANGED tasks
                /\ \/ UNCHANGED upgradeEndRetry
                   \/ /\ imageUpgradeStatus \in {"COMPLETE", "WAITING"}
                      /\ upgradeEndRetry' = upgradeEndRetry + 1
             \/ /\ imageUpgradeStatus \in {"COMPLETE", "WAITING"}
                /\ upgradeEndRetry + 1 < EndRetries /\ upgradeEndRetry' = upgradeEndRetry + 1
                /\ Post("endReq") /\ UNCHANGED imageUpgradeStatus
             \/ UNCHANGED <<imageUpgradeStatus, upgradeEndRetry, tasks>>
        BY <1>8, Zenon DEF UpgradeDue, attrs
    <2>2. upgradeEndRetry' \in 0..EndRetries
        BY <1>1, <2>1, OtaAssumption DEF IInv, GivenUp, EndsInTime, CountsOK
    <2>3. tasks' \in Seq(Tasks)
        BY <1>1, <2>1, Posted DEF CountsOK, Tasks
    <2>4. CountsOK'
        BY <1>1, <1>2, <2>1, <2>2, <2>3, Requests, Zenon DEF CountsOK
    <2>5. CASE Complete("SUCCESS") /\ UNCHANGED tasks
        <3>1. imageUpgradeStatus' = "NORMAL" /\ \A t : Queued(t)' => Queued(t)
            BY <2>5, Zenon DEF Complete, Queued
        <3> QED
            BY <2>1, <2>4, <3>1, OverCounted
    <2>6. CASE /\ imageUpgradeStatus \in {"COMPLETE", "WAITING"}
               /\ upgradeEndRetry + 1 < EndRetries /\ upgradeEndRetry' = upgradeEndRetry + 1
               /\ Post("endReq") /\ UNCHANGED imageUpgradeStatus
        <3>1. \A t : Queued(t)' <=> Queued(t) \/ t = "endReq"
            BY <1>1, <2>6, Posted DEF CountsOK, Tasks
        <3>2. AsksNoMore'
            BY <2>1, <2>6, <3>1 DEF IInv, GivenUp, AsksNoMore, InProgress
        <3> QED
            BY <2>4, <2>6, <3>2 DEF GivenUp, TimeoutQueued, InProgress, EndsInTime
    <2>7. CASE UNCHANGED <<imageUpgradeStatus, upgradeEndRetry, tasks>>
        <3>1. UNCHANGED <<imageUpgradeStatus, retries, saveCnt, tasks>>
            BY <1>2, <2>1, <2>7 DEF retries
        <3>2. otaTimer' \in Roles /\ otaTimer' \in {otaTimer, "off", "ieeeRsp", "upgrade"}
            BY <2>1, Requests
        <3> QED
            BY <3>1, <3>2, NothingCounted
    <2> QED
        BY <2>1, <2>5, <2>6, <2>7
<1> QED
    BY <1>5, <1>6, <1>7, <1>8 DEF Timer

\* The tasks.
LEMMA TaskCounts ==
    ASSUME IInv, Task
    PROVE  CountsOK' /\ GivenUp'
<1>1. CountsOK
    BY TypeParts DEF IInv
<1>2. tasks # <<>> /\ Pop
    BY Zenon DEF Task, BlockReqTask, TimeoutTask, SaveTask, IeeeReqTask, EndReqTask, At
<1>3. /\ tasks' \in Seq(Tasks)
      /\ \A t : /\ Queued(t)' => Queued(t)
                /\ Queued(t) /\ t # Head(tasks) => Queued(t)'
    BY <1>1, <1>2, Popped DEF CountsOK
<1>4. Queued(Head(tasks))
    <2>1. Head(tasks) = tasks[1] /\ 1 \in 1..Len(tasks)
        BY <1>1, <1>2 DEF CountsOK
    <2> QED
        BY <2>1, Zenon DEF Queued
<1>5. UNCHANGED retries
    BY Zenon DEF Task, BlockReqTask, TimeoutTask, SaveTask, IeeeReqTask, EndReqTask
<1>6. CASE TimeoutTask
    <2>1. Complete("ABORT") /\ UNCHANGED <<otaTimer, saveCnt>>
        BY <1>6, Zenon DEF TimeoutTask
    <2>2. CountsOK'
        BY <1>1, <1>3, <1>5, <2>1, Zenon DEF CountsOK, retries
    <2>3. imageUpgradeStatus' = "NORMAL"
        BY <2>1 DEF Complete
    <2> QED
        BY <1>3, <1>5, <2>1, <2>2, <2>3, OverCounted, Zenon DEF retries
<1>7. ASSUME Head(tasks) # "timeout", UNCHANGED imageUpgradeStatus
      PROVE  TimeoutQueued' /\ EndsInTime'
    BY <1>3, <1>5, <1>7, Zenon
       DEF IInv, GivenUp, TimeoutQueued, EndsInTime, InProgress, retries
<1>8. CASE BlockReqTask
    <2>1. /\ Head(tasks) \in {"blockReq", "blockReqNow"} /\ Head(tasks) # "timeout"
          /\ UNCHANGED <<imageUpgradeStatus, saveCnt>>
          /\ otaTimer' \in {"blockRsp", "reqDelay"}
        BY <1>8, Requests DEF BlockReqTask, At, attrs
    <2>2. CountsOK'
        BY <1>1, <1>3, <1>5, <2>1, Requests DEF CountsOK, retries
    <2>3. ~(imageBlockRetry > BlockRetries)
        BY <1>4, <2>1 DEF IInv, GivenUp, AsksNoMore
    <2>4. AsksNoMore'
        BY <1>5, <2>3 DEF AsksNoMore, retries
    <2> QED
        BY <1>7, <2>1, <2>2, <2>4, Zenon DEF GivenUp
<1>9. CASE SaveTask \/ IeeeReqTask \/ EndReqTask
    <2>1. /\ Head(tasks) # "timeout" /\ UNCHANGED imageUpgradeStatus
          /\ otaTimer' \in {otaTimer, "ieeeRsp", "upgrade"}
        BY <1>9 DEF SaveTask, IeeeReqTask, EndReqTask, At, attrs
    <2>2. saveCnt' \in 0..(SaveEvery - 1)
        <3>1. \/ saveCnt' = 0
              \/ ~SaveDue /\ saveCnt' = saveCnt + 1
              \/ saveCnt' = saveCnt
            BY <1>9, Zenon DEF SaveTask, IeeeReqTask, EndReqTask
        <3> QED
            BY <1>1, <3>1, OtaAssumption DEF CountsOK, SaveDue
    <2>3. CountsOK'
        BY <1>1, <1>3, <1>5, <2>1, <2>2, Requests DEF CountsOK, retries
    <2>4. AsksNoMore'
        BY <1>3, <1>5, <2>1 DEF IInv, GivenUp, AsksNoMore, InProgress, retries
    <2> QED
        BY <1>7, <2>1, <2>3, <2>4, Zenon DEF GivenUp
<1> QED
    BY <1>6, <1>8, <1>9 DEF Task

\* A restart.
LEMMA BootCounts ==
    ASSUME NEW hdr, NEW code, Boot(hdr, code)
    PROVE  CountsOK' /\ GivenUp'
<1>1. /\ imageUpgradeStatus' = "NORMAL" /\ imageBlockRetry' = 0 /\ upgradeEndRetry' = 0
      /\ ieeeCnt' = 0 /\ saveCnt' = 0 /\ otaTimer' = "off" /\ tasks' = <<>>
    BY DEF Boot
<1>2. CountsOK'
    BY <1>1, Requests DEF CountsOK
<1>3. EndsInTime'
    BY <1>1 DEF EndsInTime
<1> QED
    BY <1>1, <1>2, <1>3, CountsAnew

\* Every step keeps them.
LEMMA NextCounts ==
    ASSUME IInv, [Next]_vars
    PROVE  CountsOK' /\ GivenUp'
<1>1. CASE UNCHANGED <<imageUpgradeStatus, retries, saveCnt, otaTimer, tasks>>
    BY <1>1, NothingCounted, TypeParts, Zenon DEF IInv, CountsOK
<1>2. CASE ImageNotify \/ NewOffer \/ \E m \in air : Lose(m)
    BY <1>1, <1>2, Zenon DEF ImageNotify, NewOffer, Lose, attrs
<1>3. CASE UNCHANGED vars
    BY <1>1, <1>3 DEF vars, attrs
<1>4. CASE Reboot \/ PowerCut
    BY <1>4, BootCounts, Zenon DEF Reboot, PowerCut
<1> QED
    BY <1>2, <1>3, <1>4, QueryCounts, BlockCounts, WaitCounts, AbortCounts, EndRspCounts,
       TimerCounts, TaskCounts, Zenon
       DEF Next, Receive, SomeQueryRsp, SomeBlockRsp, SomeEndRsp, SomeIeeeRsp, World

-----------------------------------------------------------------------------
(***************************************************************************)
(* The theorems.                                                           *)
(***************************************************************************)
\* ota_init on a device that never upgraded.
LEMMA InitIInv == Init => IInv
<1> SUFFICES ASSUME Init PROVE IInv
    OBVIOUS
<1>1. AttrsOK
    <2>1. Unset \in 0..Unset /\ "NORMAL" \in Statuses
        BY OtaAssumption DEF Unset, Statuses
    <2>2. flash \in Area
        BY DEF Init, Area
    <2> QED
        BY <2>1, <2>2, Marks, Zenon DEF Init, AttrsOK
<1>2. CountsOK /\ BitsOK
    <2>1. <<>> \in Seq(Tasks)
        OBVIOUS
    <2>2. CountsOK
        BY <2>1, Requests, Zenon DEF Init, CountsOK
    <2>3. BitsOK
        BY DEF Init, BitsOK
    <2> QED
        BY <2>2, <2>3
<1>3. /\ hdrItem = 0 /\ ~rebooting /\ ~updateInfo /\ downloadVer = 0
      /\ imageUpgradeStatus = "NORMAL" /\ fileOffset \notin 1..Blocks
      /\ clientInfo.flag = "INIT_DONE"
      /\ \A b \in Element : flash[b] # Garbled
    BY OtaAssumption, Marks DEF Init, Unset
<1>4. Safe
    <2>1. HeaderOfArea /\ HeaderSaved /\ HeaderHeld /\ NoneBegun /\ ServerFirst
        BY <1>3, Zenon DEF HeaderOfArea, HeaderSaved, HeaderHeld, NoneBegun, ServerFirst
    <2>2. Checked /\ NotGarbled /\ NeverMixed
        BY <1>3 DEF Checked, NotGarbled, NeverMixed, Ended
    <2> QED
        BY <2>1, <2>2, Zenon DEF Safe
<1>5. GivenUp
    <2>1. ~(imageBlockRetry >= BlockRetries) /\ ~(imageBlockRetry > BlockRetries)
        BY OtaAssumption DEF Init
    <2> QED
        BY <1>3, <2>1 DEF GivenUp, TimeoutQueued, AsksNoMore, EndsInTime
<1> QED
    BY <1>1, <1>2, <1>4, <1>5, TypeParts DEF IInv

\* Every step keeps the inductive invariant.
LEMMA NextKeeps == IInv /\ [Next]_vars => IInv'
<1> SUFFICES ASSUME IInv, [Next]_vars PROVE IInv'
    OBVIOUS
<1>1. AttrsOK' /\ BitsOK'
    BY TypeParts, AttrsTyped, BitsTyped DEF IInv
<1>2. CountsOK' /\ GivenUp'
    BY NextCounts
<1>3. Safe'
    BY NextSafe
<1>4. (AttrsOK /\ CountsOK /\ BitsOK => TypeOK /\ Items)'
    BY TypeParts, PTL
<1> QED
    BY <1>1, <1>2, <1>3, <1>4, Zenon DEF IInv

\* The inductive invariant holds in every reachable state.
THEOREM Inductive == Spec => []IInv
<1>1. IInv /\ [Next]_vars => IInv'
    BY NextKeeps
<1> QED
    BY InitIInv, <1>1, PTL DEF Spec

\* The client's attributes, counters, timer, queue and NV items keep their
\* ranges: the retries of a block and of the end request stay bounded whatever
\* was queued when a download was given up.
THEOREM TypeCorrect == Spec => []TypeOK
<1>1. IInv => TypeOK
    BY DEF IInv
<1> QED
    BY <1>1, Inductive, PTL

\* The device resets into an upgrade with blocks of one image only, the first
\* and the last among them, wherever power cuts and new images fell.
THEOREM OneImage == Spec => []NeverMixed
<1>1. IInv => NeverMixed
    BY DEF IInv, Safe
<1> QED
    BY <1>1, Inductive, PTL

\* flash_writeWithCheck never lays a block over another.
THEOREM NothingOverwritten == Spec => []NotGarbled
<1>1. IInv => NotGarbled
    BY DEF IInv, Safe
<1> QED
    BY <1>1, Inductive, PTL
=============================================================================
