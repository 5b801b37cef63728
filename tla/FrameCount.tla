----------------------------- MODULE FrameCount -----------------------------
(***************************************************************************)
(* The network frame counter in flash (proj/drivers/drv_nv.c), which must  *)
(* not come back lower than it was: two sectors of 32-bit words, of which  *)
(* the last one written in the sector in use is the counter.  A full       *)
(* sector is left for the other one, as items are (NvFlash), by writes of  *)
(* the flags READY, INVALID to the old one, VALID.  At start the last word *)
(* is compared with the one before: a power loss may have left it with     *)
(* bits still to be cleared, that is, too large.                           *)
(*                                                                         *)
(* Assumed of the chip: a write clears bits, and stops anywhere when the   *)
(* power fails or when the write fails; an erase, and the write of a flag, *)
(* happens entirely or not at all.  Of the stack, which is a library: it   *)
(* reads the counter at start, and saves it before it has grown by more    *)
(* than THRES since (SS_UPDATE_FRAMECOUNT_THRES).                          *)
(***************************************************************************)
EXTENDS Integers, Sequences

CONSTANTS
    CAP,         \* FRAMECOUNT_NUM_PER_SECT
    W,           \* width of a word, in bits
    THRES,       \* UPDATE_FRAMECOUNT_THRES
    MaxCount,    \* bound: the largest counter saved
    MaxFails     \* bound: writes that fail

VARIABLES
    flash,         \* the two sectors
    pc,            \* where the call is; "idle": none, "off": no power
    call,          \* the call, and whether it changes sectors by force
    opSect,
    oldSect,       \* the sector to retire; NoSect: errSect is 0xff
    sectorUpdate,
    fails,         \* writes that may still fail
    count,         \* history: what was last asked to be saved, or restored
    kept,          \* history: what a save that returned, or a restore, gave
    spoiled        \* history: a retry erased the sector in use, or failed too

ram     == <<call, opSect, oldSect, sectorUpdate>>
history == <<count, kept, spoiled>>
vars    == <<flash, pc, ram, fails, history>>

Sectors  == {0, 1}
NoSect   == 2
Other(s) == 1 - s

ErasedWord == 2^W - 1
Counts     == 0 .. ErasedWord - 1

Erased == [flag |-> "idle", words |-> <<>>]

NoCall == [kind |-> "none"]

-----------------------------------------------------------------------------
(***************************************************************************)
(* What is found in the flash.                                             *)
(***************************************************************************)
Words(s) == flash[s].words

\* The sector nv_sector_read stops at: the first READY or VALID one.
FoundSect ==
    LET C == {s \in Sectors : flash[s].flag \in {"ready", "valid"}}
    IN  IF C = {} THEN NoSect ELSE CHOOSE s \in C : \A t \in C : s <= t

\* nv_nwkFrameCountSearch: the last word written, and the address after it.
Last(w) == w[Len(w)]
\* Mutated form: the sector is full one word late.
FullLate(w) == Len(w) > CAP

Full(w) == Len(w) = CAP

\* Mutated form: the third word is not compared either.
JumpsLate(w) == Len(w) > 3 /\ (Last(w) - w[Len(w) - 1]) % 2^W > THRES

\* The last word is too far from the one before, wAddr > START + 8.
Jumps(w) == Len(w) > 2 /\ (Last(w) - w[Len(w) - 1]) % 2^W > THRES

\* What nv_nwkFrameCountFromFlash gives for these words.
Counter(w) == IF Jumps(w) THEN w[Len(w) - 1] + THRES ELSE Last(w)

\* v & c = c: the first bit of c that v lacks would leave v less up to that bit.
HasBitsOf(v, c) == \A n \in 1..W : c % 2^n <= v % 2^n

\* What a word may hold when its write stops: some bits are not cleared yet.
\* Bound: it is not so near to the end of the range that THRES more overflows.
PartOf(c) == {v \in 0 .. ErasedWord :
                HasBitsOf(v, c) /\ (v = ErasedWord \/ v + THRES < ErasedWord)}

Grown(w, v) == IF v = ErasedWord THEN w ELSE Append(w, v)

-----------------------------------------------------------------------------
Init ==
    /\ flash = [s \in Sectors |-> Erased]
    /\ pc = "idle"
    /\ call = NoCall /\ opSect = 0 /\ oldSect = 0 /\ sectorUpdate = FALSE
    /\ fails = MaxFails
    /\ count = 0 /\ kept = 0 /\ spoiled = FALSE

Reset == call' = NoCall /\ opSect' = 0 /\ oldSect' = 0 /\ sectorUpdate' = FALSE

\* The call is over; a save has stored what it was given, a restore gives it.
Return(v) ==
    /\ pc' = "idle"
    /\ Reset
    /\ kept' = v
    /\ count' = IF call.kind = "restore" THEN v ELSE count

SetFlag(s, f) == flash' = [flash EXCEPT ![s].flag = f]

\* nv_nwkFrameCountSaveToFlash is called; with an unchanged counter, at bdb's start.
Save(c) ==
    /\ pc = "idle"
    /\ c \in count .. count + THRES
    /\ call' = [kind |-> "save", count |-> c, force |-> FALSE]
    /\ count' = c
    /\ pc' = "sector"
    /\ UNCHANGED <<flash, opSect, oldSect, sectorUpdate, fails, kept, spoiled>>

(***************************************************************************)
(* nv_sector_read.                                                         *)
(***************************************************************************)
SectorFound ==
    /\ pc = "sector"
    /\ FoundSect # NoSect
    /\ opSect' = FoundSect
    /\ pc' = IF flash[FoundSect].flag = "ready" THEN "retire" ELSE "search"
    /\ UNCHANGED <<flash, call, oldSect, sectorUpdate, fails, history>>

\* A save starts in sector 0; a restore finds nothing.
SectorMissing ==
    /\ pc = "sector"
    /\ FoundSect = NoSect
    /\ IF call.kind = "save"
       THEN /\ flash' = [s \in Sectors |-> Erased]
            /\ pc' = "count"
            /\ UNCHANGED <<ram, history>>
       ELSE Return(kept) /\ UNCHANGED <<flash, spoiled>>
    /\ UNCHANGED fails

\* The other sector is retired, then this one becomes valid.
RetireOther ==
    /\ pc = "retire"
    /\ flash' = [flash EXCEPT ![Other(opSect)] = [flag |-> "invalid", words |-> <<>>]]
    /\ pc' = "validate"
    /\ UNCHANGED <<ram, fails, history>>

Validate ==
    /\ pc = "validate"
    /\ SetFlag(opSect, "valid")
    /\ pc' = "search"
    /\ UNCHANGED <<ram, fails, history>>

\* One of the two flags is not written: the sector is used all the same.
RepairFails ==
    /\ pc \in {"retire", "validate"}
    /\ fails > 0 /\ fails' = fails - 1
    /\ pc' = "search"
    /\ UNCHANGED <<flash, ram, history>>

(***************************************************************************)
(* nv_nwkFrameCountFromFlash.                                              *)
(***************************************************************************)
Restore ==
    /\ pc = "search" /\ call.kind = "restore"
    /\ ~Jumps(Words(opSect))
    /\ Return(Last(Words(opSect)))
    /\ UNCHANGED <<flash, fails, spoiled>>

\* The last word is not believed: the limit goes to the other sector.
BackOff ==
    /\ pc = "search" /\ call.kind = "restore"
    /\ Jumps(Words(opSect))
    /\ call' = [kind |-> "restore", count |-> Counter(Words(opSect)), force |-> TRUE]
    /\ oldSect' = opSect
    /\ pc' = "erase"
    /\ UNCHANGED <<flash, opSect, sectorUpdate, fails, history>>

(***************************************************************************)
(* nv_nwkFrameCountSaveToFlashHandler.                                     *)
(***************************************************************************)
\* Mutated form: the sector erased is the one to be retired.
ForcedSectSame == IF oldSect = NoSect THEN 0 ELSE oldSect

\* (*errSect + 1) & 1, which is 0 for the errSect of a retry, 0xff.
ForcedSect == IF oldSect = NoSect THEN 0 ELSE Other(oldSect)

\* forceChgSec.
EraseForced ==
    /\ pc = "erase"
    /\ opSect' = ForcedSect
    /\ flash' = [flash EXCEPT ![ForcedSect] = Erased]
    /\ spoiled' = (spoiled \/ (oldSect = NoSect /\ FoundSect = 0))
    /\ pc' = "count"
    /\ UNCHANGED <<call, oldSect, sectorUpdate, fails, count, kept>>

Room ==
    /\ pc = "search" /\ call.kind = "save"
    /\ ~Full(Words(opSect))
    /\ pc' = "count"
    /\ UNCHANGED <<flash, ram, fails, history>>

\* The sector is full: the other one is erased.
Switch ==
    /\ pc = "search" /\ call.kind = "save"
    /\ Full(Words(opSect))
    /\ oldSect' = opSect
    /\ opSect' = Other(opSect)
    /\ flash' = [flash EXCEPT ![Other(opSect)] = Erased]
    /\ sectorUpdate' = TRUE
    /\ pc' = "last"
    /\ UNCHANGED <<call, fails, history>>

AppendWord(v) == flash' = [flash EXCEPT ![opSect].words = Grown(@, v)]

\* The old sector's last counter comes first in the new one.
WriteLast ==
    /\ pc = "last"
    /\ AppendWord(Last(Words(oldSect)))
    /\ pc' = "count"
    /\ UNCHANGED <<ram, fails, history>>

\* A sector's first counter is followed by its flags.
WriteCount ==
    /\ pc = "count"
    /\ AppendWord(call.count)
    /\ IF sectorUpdate \/ Words(opSect) = <<>>
       THEN pc' = "ready" /\ UNCHANGED <<ram, count, kept>>
       ELSE Return(call.count)
    /\ UNCHANGED <<fails, spoiled>>

\* The first counter of all leaves its sector READY.
WriteReady ==
    /\ pc = "ready"
    /\ SetFlag(opSect, "ready")
    /\ IF sectorUpdate \/ call.force
       THEN pc' = "invalid" /\ UNCHANGED <<ram, count, kept>>
       ELSE Return(call.count)
    /\ UNCHANGED <<fails, spoiled>>

\* In a retry the flag goes to a sector 0xff, outside of the module.
WriteInvalid ==
    /\ pc = "invalid"
    /\ flash' = IF oldSect = NoSect THEN flash
                ELSE [flash EXCEPT ![oldSect] = [flag |-> "invalid", words |-> <<>>]]
    /\ pc' = "valid"
    /\ UNCHANGED <<ram, fails, history>>

WriteValid ==
    /\ pc = "valid"
    /\ SetFlag(opSect, "valid")
    /\ Return(call.count)
    /\ UNCHANGED <<fails, spoiled>>

\* NV_CHECK_SUM_ERROR: nv_nwkFrameCountSaveToFlash tries once more by force;
\* a failed retry, and a failed BackOff, are not noticed.
CheckSumError ==
    IF call.force
    THEN /\ Return(call.count)
         /\ spoiled' = TRUE
    ELSE /\ call' = [call EXCEPT !.force = TRUE]
         /\ oldSect' = NoSect
         /\ opSect' = 0
         /\ sectorUpdate' = FALSE
         /\ pc' = "erase"
         /\ UNCHANGED history

WordFails ==
    /\ pc \in {"last", "count"}
    /\ fails > 0 /\ fails' = fails - 1
    /\ LET c == IF pc = "last" THEN Last(Words(oldSect)) ELSE call.count
       IN  \E v \in PartOf(c) \ {c} : AppendWord(v)
    /\ CheckSumError

\* What lies at the address of sector 0xff may not take the flag either.
FlagFails ==
    /\ pc \in {"ready", "invalid"}
    /\ IF pc = "invalid" /\ oldSect = NoSect
       THEN UNCHANGED fails
       ELSE fails > 0 /\ fails' = fails - 1
    /\ CheckSumError
    /\ UNCHANGED flash

\* The last flag's check is not looked at.
ValidFails ==
    /\ pc = "valid"
    /\ fails > 0 /\ fails' = fails - 1
    /\ Return(call.count)
    /\ UNCHANGED <<flash, spoiled>>

(***************************************************************************)
(* The power.                                                              *)
(***************************************************************************)
\* A word being written stops anywhere.  Sectors not in use are not read again.
PowerLoss ==
    /\ pc # "off"
    /\ \E v \in IF pc = "count" THEN PartOf(call.count) ELSE {ErasedWord} :
         flash' = [s \in Sectors |->
            [flash[s] EXCEPT !.words =
                IF flash[s].flag \notin {"ready", "valid"} THEN <<>>
                ELSE IF s = opSect THEN Grown(@, v) ELSE @]]
    /\ pc' = "off"
    /\ Reset
    /\ UNCHANGED <<fails, history>>

\* The stack starts and reads the counter.
PowerOn ==
    /\ pc = "off"
    /\ pc' = "sector"
    /\ call' = [kind |-> "restore", count |-> 0, force |-> FALSE]
    /\ UNCHANGED <<flash, opSect, oldSect, sectorUpdate, fails, history>>

-----------------------------------------------------------------------------
Step ==
    \/ SectorFound \/ SectorMissing \/ RetireOther \/ Validate \/ RepairFails
    \/ Restore \/ BackOff \/ EraseForced \/ Room \/ Switch
    \/ WriteLast \/ WriteCount \/ WriteReady \/ WriteInvalid \/ WriteValid
    \/ WordFails \/ FlagFails \/ ValidFails

Next ==
    \/ \E c \in 0 .. MaxCount : Save(c)
    \/ Step
    \/ PowerLoss
    \/ PowerOn

Spec == Init /\ [][Next]_vars

-----------------------------------------------------------------------------
(***************************************************************************)
(* Properties.                                                             *)
(***************************************************************************)
TypeOK ==
    /\ \A s \in Sectors :
         /\ flash[s].flag \in {"idle", "ready", "valid", "invalid"}
         /\ Words(s) \in Seq(Counts)
         /\ Len(Words(s)) <= CAP
    /\ pc \in {"idle", "off", "sector", "retire", "validate", "search", "erase",
               "last", "count", "ready", "invalid", "valid"}
    /\ call = NoCall \/ call \in [kind : {"save", "restore"}, count : Counts, force : BOOLEAN]
    /\ opSect \in Sectors /\ oldSect \in Sectors \cup {NoSect}
    /\ sectorUpdate \in BOOLEAN
    /\ fails \in 0 .. MaxFails
    /\ count \in Counts /\ kept \in Counts /\ spoiled \in BOOLEAN

\* What a start would now read; 0: nothing, the stack's counter stays 0.
Restored == IF FoundSect = NoSect THEN 0 ELSE Counter(Words(FoundSect))

\* At every moment, and wherever the power fails, the flash holds a counter not
\* below the last one that a save was reported to have stored or a start was
\* given: frames of this device are never taken for replayed ones.  A write that
\* fails is made good by its retry, unless the retry itself erases the sector
\* in use (errSect is 0xff, so it takes sector 0) or fails.
KeptCounter == ~spoiled => Restored >= kept

\* The second word of a sector is the only one that is believed as it is.
SecondWord == FoundSect # NoSect /\ Len(Words(FoundSect)) = 2

\* A word that a power loss or a failed write left too large does not burn the
\* counter's range: a start goes on at most THRES beyond what was last asked for.
NotFarAhead == ~spoiled /\ ~SecondWord => Restored <= count + THRES
=============================================================================
