------------------------------- MODULE NvFlash -------------------------------
(***************************************************************************)
(* The flash store of proj/drivers/drv_nv.c: one module of items, kept in  *)
(* two flash sectors of which one is current.                              *)
(*                                                                         *)
(* A sector holds a flag and an index of IDX_NUM entries.  A write appends *)
(* an entry: index fields first (OPERATION), then the payload and its      *)
(* header, then the state byte (VALID_SINGLE); then the entry it replaces  *)
(* is marked INVALID.  When there is no room, the other sector is erased,  *)
(* the valid items are copied, the new one is added, and three writes of   *)
(* the sector flags (READY, INVALID to the old one, VALID) move the module *)
(* over.  Each flash operation is an action of its own, and the power may  *)
(* fail before any of them; nv_sector_read, which starts every request,    *)
(* finishes a move it finds half done.                                     *)
(*                                                                         *)
(* Assumed of the chip: an erase, and the write of a flag or of a state    *)
(* byte, happens entirely or not at all; the write of an index entry may   *)
(* stop half way (Torn).  The flash itself does not fail: every            *)
(* flash_writeWithCheck that is reached returns TRUE, and every checksum   *)
(* that was written is found again.  Every caller in the repository passes *)
(* single = 1 and one length per item.                                     *)
(*                                                                         *)
(* What the code never reads again is blanked: the fields of an entry that *)
(* is not valid, and the index of a sector that is not current any more.   *)
(***************************************************************************)
EXTENDS Integers, Sequences

CONSTANTS
    Items,      \* item ids of the module
    Vals,       \* their contents
    IDX_NUM,    \* MODULE_IDX_NUM
    None        \* no value

ASSUME NvAssumption ==
    /\ IDX_NUM \in Nat \ {0}
    /\ None \notin Vals

VARIABLES
    flash,         \* the two sectors
    pc,            \* where the request is; "idle": none, "off": no power
    op,            \* the request
    opSect,
    sectorUpdate,
    copyIdx,       \* next index of the old sector to copy; 0: the new item
    wr,            \* what nv_write_item is writing
    deleteIdx

ram  == <<op, opSect, sectorUpdate, copyIdx, wr, deleteIdx>>
vars == <<flash, pc, op, opSect, sectorUpdate, copyIdx, wr, deleteIdx>>

Sectors  == {0, 1}
NoSect   == 2
Other(s) == 1 - s

Flags  == {"idle", "ready", "valid", "invalid"}
States == {"operation", "valid", "invalid", "torn"}

\* An index entry, and whether its payload and header are complete.
Entry == [st : States, item : Items \cup {None}, val : Vals \cup {None},
          ok : BOOLEAN]

Blank(st) == [st |-> st, item |-> None, val |-> None, ok |-> FALSE]

Erased == [flag |-> "idle", index |-> <<>>]

NoOp     == [kind |-> "none"]
Requests == {[kind |-> "write", item |-> i, val |-> v] : i \in Items, v \in Vals}
              \cup {[kind |-> k, item |-> i, val |-> None] :
                        k \in {"remove", "read"}, i \in Items}

-----------------------------------------------------------------------------
(***************************************************************************)
(* What is found in the flash.                                             *)
(***************************************************************************)
Index(s) == flash[s].index

\* The sector nv_sector_read stops at: the first READY or VALID one.
FoundSect ==
    LET C == {s \in Sectors : flash[s].flag \in {"ready", "valid"}}
    IN  IF C = {} THEN NoSect ELSE CHOOSE s \in C : \A t \in C : s <= t

ValidAt(s, i) ==
    {k \in DOMAIN Index(s) : Index(s)[k].st = "valid" /\ Index(s)[k].item = i}

\* nv_index_read: the last valid entry of the item; 0: not found.
LastValid(s, i) ==
    IF ValidAt(s, i) = {} THEN 0
    ELSE CHOOSE k \in ValidAt(s, i) : \A j \in ValidAt(s, i) : j <= k

\* What nv_flashReadNew returns for the item.
Stored(i) ==
    LET k == LastValid(FoundSect, i)
    IN  IF FoundSect = NoSect \/ k = 0 \/ ~Index(FoundSect)[k].ok
        THEN None ELSE Index(FoundSect)[k].val

\* Entries of a sector that nv_exceptionDataHandler deletes.
Duplicates(s) ==
    {k \in DOMAIN Index(s) : Index(s)[k].st = "valid" /\ k # LastValid(s, Index(s)[k].item)}

-----------------------------------------------------------------------------
Init ==
    /\ flash = [s \in Sectors |-> Erased]
    /\ pc = "idle"
    /\ op = NoOp
    /\ opSect = 0
    /\ sectorUpdate = FALSE
    /\ copyIdx = 0
    /\ wr = NoOp
    /\ deleteIdx = 0

Return ==
    /\ pc' = "idle"
    /\ op' = NoOp /\ opSect' = 0 /\ sectorUpdate' = FALSE
    /\ copyIdx' = 0 /\ wr' = NoOp /\ deleteIdx' = 0

SetFlag(s, f) == flash' = [flash EXCEPT ![s].flag = f]

MarkInvalid(s, k) == flash' = [flash EXCEPT ![s].index[k] = Blank("invalid")]

\* nv_flashWriteNew, nv_flashReadNew or nv_flashSingleItemRemove is called.
Begin(r) ==
    /\ pc = "idle"
    /\ pc' = "sector"
    /\ op' = r
    /\ UNCHANGED <<flash, opSect, sectorUpdate, copyIdx, wr, deleteIdx>>

(***************************************************************************)
(* nv_sector_read.                                                         *)
(***************************************************************************)
SectorFound ==
    /\ pc = "sector"
    /\ FoundSect # NoSect
    /\ opSect' = FoundSect
    /\ pc' = IF flash[FoundSect].flag = "ready" THEN "retire" ELSE "search"
    /\ UNCHANGED <<flash, op, sectorUpdate, copyIdx, wr, deleteIdx>>

\* A write starts in sector 0, a read or a removal finds nothing.
SectorMissing ==
    /\ pc = "sector"
    /\ FoundSect = NoSect
    /\ IF op.kind = "write"
       THEN /\ flash' = [flash EXCEPT ![0] = Erased]
            /\ pc' = "search"
            /\ UNCHANGED ram
       ELSE Return /\ UNCHANGED flash

\* The other sector is retired, then this one becomes valid: the end of a
\* move, of the running write (sectorUpdate) or of one a power loss cut off.
RetireOther ==
    /\ pc = "retire"
    /\ flash' = [flash EXCEPT ![Other(opSect)] = [flag |-> "invalid", index |-> <<>>]]
    /\ pc' = "validate"
    /\ UNCHANGED ram

Validate ==
    /\ pc = "validate"
    /\ SetFlag(opSect, "valid")
    /\ IF sectorUpdate THEN Return ELSE pc' = "search" /\ UNCHANGED ram

(***************************************************************************)
(* nv_flashReadNew and nv_flashSingleItemRemove.                           *)
(***************************************************************************)
ReadItem ==
    /\ pc = "search" /\ op.kind = "read"
    /\ Return
    /\ UNCHANGED flash

RemoveItem ==
    LET k == LastValid(opSect, op.item) IN
    /\ pc = "search" /\ op.kind = "remove"
    /\ IF k = 0 THEN UNCHANGED flash ELSE MarkInvalid(opSect, k)
    /\ Return

(***************************************************************************)
(* nv_flashWriteNewHandler.                                                *)
(***************************************************************************)
\* Mutated form: the last index is not kept free of a further entry.
RoomAlways ==
    /\ pc = "search" /\ op.kind = "write"
    /\ pc' = "index"
    /\ wr' = op
    /\ UNCHANGED <<flash, op, opSect, sectorUpdate, copyIdx, deleteIdx>>

\* There is room after the last entry.
Room ==
    LET n == Len(Index(opSect)) IN
    /\ pc = "search" /\ op.kind = "write"
    /\ n < IDX_NUM
    /\ n > 0 => Index(opSect)[n].st # "torn"
    /\ pc' = "index"
    /\ wr' = op
    /\ UNCHANGED <<flash, op, opSect, sectorUpdate, copyIdx, deleteIdx>>

\* Mutated form: the sector with the valid items is the one erased.
SwitchSameSector ==
    /\ pc = "search" /\ op.kind = "write"
    /\ Len(Index(opSect)) > 0
    /\ flash' = [flash EXCEPT ![opSect] = Erased]
    /\ sectorUpdate' = TRUE
    /\ pc' = "clean"
    /\ UNCHANGED <<op, opSect, copyIdx, wr, deleteIdx>>

\* No index left, no space for the payload, or the last entry is unusable: the
\* other sector is erased.
Switch ==
    /\ pc = "search" /\ op.kind = "write"
    /\ Len(Index(opSect)) > 0
    /\ flash' = [flash EXCEPT ![Other(opSect)] = Erased]
    /\ opSect' = Other(opSect)
    /\ sectorUpdate' = TRUE
    /\ pc' = "clean"
    /\ UNCHANGED <<op, copyIdx, wr, deleteIdx>>

\* nv_exceptionDataHandler on the old sector, from its last entry down.
Clean ==
    LET D == Duplicates(Other(opSect)) IN
    /\ pc = "clean"
    /\ D # {}
    /\ MarkInvalid(Other(opSect), CHOOSE k \in D : \A j \in D : j <= k)
    /\ UNCHANGED <<pc, ram>>

\* Nothing is left to delete, or ev_buf_allocate failed.
Cleaned ==
    /\ pc = "clean"
    /\ pc' = "copy"
    /\ copyIdx' = 1
    /\ UNCHANGED <<flash, op, opSect, sectorUpdate, wr, deleteIdx>>

\* Entries of the old sector still to be copied: not the item being written.
ToCopy == {k \in DOMAIN Index(Other(opSect)) :
             /\ k >= copyIdx
             /\ Index(Other(opSect))[k].st = "valid"
             /\ Index(Other(opSect))[k].item # op.item}

Copy ==
    /\ pc = "copy"
    /\ ToCopy # {}
    /\ LET k == CHOOSE k \in ToCopy : \A j \in ToCopy : k <= j
           e == Index(Other(opSect))[k]
       IN  /\ wr' = [kind |-> "copy", item |-> e.item, val |-> e.val]
           /\ copyIdx' = k + 1
    /\ pc' = "index"
    /\ UNCHANGED <<flash, op, opSect, sectorUpdate, deleteIdx>>

\* All copied; then the new item.
Copied ==
    /\ pc = "copy"
    /\ ToCopy = {}
    /\ Len(Index(opSect)) < IDX_NUM
    /\ copyIdx' = 0
    /\ wr' = op
    /\ pc' = "index"
    /\ UNCHANGED <<flash, op, opSect, sectorUpdate, deleteIdx>>

\* NV_NOT_ENOUGH_SAPCE, of indexes or of payload: the old sector stays current.
NotEnoughSpace ==
    /\ pc = "copy"
    /\ ToCopy = {}
    /\ Return
    /\ UNCHANGED flash

(***************************************************************************)
(* nv_write_item, for a copied item and for the new one.                   *)
(***************************************************************************)
AppendEntry(st) == flash' = [flash EXCEPT ![opSect].index = Append(@, Blank(st))]

\* The last entry, with its state byte and the fields of the item being written.
LastEntry(ok) ==
    flash' = [flash EXCEPT ![opSect].index[Len(Index(opSect))] =
                [st |-> "valid", item |-> wr.item, val |-> wr.val, ok |-> ok]]

\* The index fields; before the new item's, the entry it replaces is looked up.
WriteIndex ==
    /\ pc = "index"
    /\ AppendEntry("operation")
    /\ deleteIdx' = IF copyIdx = 0 THEN LastValid(opSect, wr.item) ELSE 0
    /\ pc' = "body"
    /\ UNCHANGED <<op, opSect, sectorUpdate, copyIdx, wr>>

\* Mutated form: the state byte is written before the payload.
WriteBodyLate ==
    /\ pc = "body"
    /\ LastEntry(FALSE)
    /\ pc' = "state"
    /\ UNCHANGED ram

\* The payload, read back, and the header.
WriteBody ==
    /\ pc = "body"
    /\ flash' = [flash EXCEPT ![opSect].index[Len(Index(opSect))].ok = TRUE]
    /\ pc' = "state"
    /\ UNCHANGED ram

\* What follows the new item: the old entry's deletion, the move or the first
\* sector flag, or nothing.
AfterDelete ==
    IF sectorUpdate THEN "ready"
    ELSE IF Len(Index(opSect)) = 1 THEN "first" ELSE "done"

Go(next) == IF next = "done" THEN Return ELSE pc' = next /\ UNCHANGED ram

WriteState ==
    /\ pc = "state"
    /\ LastEntry(Index(opSect)[Len(Index(opSect))].ok)
    /\ Go(IF copyIdx # 0 THEN "copy"
          ELSE IF deleteIdx # 0 THEN "delete" ELSE AfterDelete)

\* Mutated form: the entry deleted is the one just written.
DeleteOldLast ==
    /\ pc = "delete"
    /\ MarkInvalid(opSect, Len(Index(opSect)))
    /\ Go(AfterDelete)

DeleteOld ==
    /\ pc = "delete"
    /\ MarkInvalid(opSect, deleteIdx)
    /\ Go(AfterDelete)

\* Mutated form: the new sector is valid while the old one still is.
ReadyValid ==
    /\ pc = "ready"
    /\ SetFlag(opSect, "valid")
    /\ pc' = "retire"
    /\ UNCHANGED ram

\* The new sector's information, with the READY flag.
Ready ==
    /\ pc = "ready"
    /\ SetFlag(opSect, "ready")
    /\ pc' = "retire"
    /\ UNCHANGED ram

\* The first item of an empty module makes its sector valid.
First ==
    /\ pc = "first"
    /\ SetFlag(opSect, "valid")
    /\ Return

(***************************************************************************)
(* The power.                                                              *)
(***************************************************************************)
\* The flash stays as it is; an index entry being written may be left torn.
PowerLoss ==
    /\ pc # "off"
    /\ \E torn \in {<<>>, <<Blank("torn")>>} :
         /\ torn # <<>> => pc = "index"
         /\ flash' = [s \in Sectors |->
                [flash[s] EXCEPT !.index =
                    IF flash[s].flag \notin {"ready", "valid"} THEN <<>>
                    ELSE IF s = opSect THEN @ \o torn ELSE @]]
    /\ pc' = "off"
    /\ op' = NoOp /\ opSect' = 0 /\ sectorUpdate' = FALSE
    /\ copyIdx' = 0 /\ wr' = NoOp /\ deleteIdx' = 0

PowerOn ==
    /\ pc = "off"
    /\ pc' = "idle"
    /\ UNCHANGED <<flash, ram>>

-----------------------------------------------------------------------------
WriteStep ==
    \/ Room \/ Switch \/ Clean \/ Cleaned \/ Copy \/ Copied \/ NotEnoughSpace
    \/ WriteIndex \/ WriteBody \/ WriteState \/ DeleteOld \/ Ready \/ First

Step ==
    \/ SectorFound \/ SectorMissing \/ RetireOther \/ Validate
    \/ ReadItem \/ RemoveItem
    \/ WriteStep

Next ==
    \/ \E r \in Requests : Begin(r)
    \/ Step
    \/ PowerLoss
    \/ PowerOn

Spec == Init /\ [][Next]_vars

-----------------------------------------------------------------------------
(***************************************************************************)
(* Properties.                                                             *)
(***************************************************************************)
TypeOK ==
    /\ DOMAIN flash = Sectors
    /\ \A s \in Sectors :
         /\ DOMAIN flash[s] = {"flag", "index"}
         /\ flash[s].flag \in Flags
         /\ Index(s) \in Seq(Entry)
         /\ Len(Index(s)) <= IDX_NUM
    /\ pc \in {"idle", "off", "sector", "retire", "validate", "search", "clean",
               "copy", "index", "body", "state", "delete", "ready", "first"}
    /\ op \in Requests \cup {NoOp}
    /\ opSect \in Sectors
    /\ sectorUpdate \in BOOLEAN
    /\ copyIdx \in 0 .. IDX_NUM + 1
    /\ wr = NoOp \/ wr \in [kind : {"write", "copy"}, item : Items, val : Vals]
    /\ deleteIdx \in 0 .. IDX_NUM

\* nv_sector_read stops at the first VALID sector: there is never a second one,
\* whose items would stay hidden, wherever the power failed during a move.
OneValidSector == ~ \A s \in Sectors : flash[s].flag = "valid"

\* A sector is current only when everything in it that counts as valid was
\* completely written: a power loss never leaves a valid index without payload.
NoHalfItem ==
    \A s \in Sectors : flash[s].flag \in {"ready", "valid"} =>
        \A k \in DOMAIN Index(s) : Index(s)[k].st = "valid" => Index(s)[k].ok

\* Once the module has a current sector it always has one: no power loss during
\* a move leaves both sectors unusable, which would lose every item.
NeverWithoutSector ==
    [][FoundSect # NoSect => FoundSect' # NoSect]_vars

\* The values of the item's valid entries, the one that counts left out.
Older(i) ==
    IF FoundSect = NoSect THEN {}
    ELSE {Index(FoundSect)[k].val :
            k \in ValidAt(FoundSect, i) \ {LastValid(FoundSect, i)}}

\* The write has taken effect: its value is what a read would now return.
TookEffect ==
    \/ pc = "delete" /\ ~sectorUpdate
    \/ sectorUpdate /\ pc = "retire" /\ opSect = 0
    \/ sectorUpdate /\ pc = "validate"

Kept == IF pc # "delete" THEN {}
        ELSE {Index(opSect)[k].val :
                k \in ValidAt(opSect, op.item) \ {deleteIdx, Len(Index(opSect))}}

Store == INSTANCE NvStore
    WITH store <- [i \in Items |-> Stored(i)],
         stale <- [i \in Items |-> Older(i)],
         req <- IF TookEffect
                THEN [kind |-> "applied", item |-> op.item, kept |-> Kept]
                ELSE op

\* The sectors implement the store: a write takes effect at one instant and
\* touches no other item, whatever is moved, deleted and recovered on the way.
ImplementsStore == Store!Spec
=============================================================================
