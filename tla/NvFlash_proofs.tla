--------------------------- MODULE NvFlash_proofs ---------------------------
(***************************************************************************)
(* Proofs about NvFlash: for every set of items and values and every size  *)
(* of the index, and wherever the power fails, at most one sector is       *)
(* valid, one is always current once one was, no item that counts is half  *)
(* written, and the two sectors implement the store of NvStore.            *)
(*                                                                         *)
(* The first half is about the flags and the phases (IInv), the second     *)
(* about what the indexes hold: what a write has done so far (WInv), then  *)
(* each action as a step of the store (StoreStep).                         *)
(***************************************************************************)
EXTENDS NvFlash, WellFoundedInduction, TLAPS

Flag(s) == flash[s].flag

CurrentFlags == {"ready", "valid"}

Sector == [flag : Flags, index : Seq(Entry)]

\* What holds of a sector x at every moment.
SectorOK(x) ==
    /\ x \in Sector
    /\ Len(x.index) <= IDX_NUM
    /\ \A k \in DOMAIN x.index :
         x.index[k].st = "valid" =>
           x.index[k].ok /\ x.index[k].item \in Items /\ x.index[k].val \in Vals
    /\ x.flag \in CurrentFlags => Len(x.index) > 0

FlashOK ==
    /\ flash \in [Sectors -> Sector]
    /\ \A s \in Sectors : SectorOK(flash[s])
    /\ ~(Flag(0) = "valid" /\ Flag(1) = "valid")

WritePcs == {"clean", "copy", "index", "body", "state", "delete", "ready", "first"}

Writes == {[kind |-> "write", item |-> i, val |-> v] : i \in Items, v \in Vals}

Copies == {[kind |-> "copy", item |-> i, val |-> v] : i \in Items, v \in Vals}

\* What the request's variables hold in each of its phases.
PhaseOK ==
    /\ pc \in {"idle", "off", "sector", "retire", "validate", "search"} \cup WritePcs
    /\ op \in Requests \cup {NoOp}
    /\ opSect \in Sectors
    /\ sectorUpdate \in BOOLEAN
    /\ copyIdx \in 0 .. IDX_NUM + 1
    /\ wr \in Writes \cup Copies \cup {NoOp}
    /\ deleteIdx \in 0 .. IDX_NUM
    /\ pc \in WritePcs => op \in Writes
    /\ pc \in {"sector", "retire", "validate", "search"} /\ ~sectorUpdate => op \in Requests
    /\ pc \in {"index", "body", "state"} =>
         IF copyIdx = 0 THEN wr = op ELSE wr \in Copies
    /\ pc \in {"idle", "off", "sector", "search", "first"} => ~sectorUpdate
    /\ pc \in {"clean", "copy", "ready"} => sectorUpdate
    /\ ~sectorUpdate => copyIdx = 0
    /\ pc \in {"idle", "off", "sector"} => opSect = 0

\* Where the sector worked on stands with the other one.
SectorsOK ==
    /\ pc = "search" \/ (pc \in WritePcs /\ ~sectorUpdate) =>
         \/ Flag(opSect) = "valid" /\ opSect = FoundSect
         \/ FoundSect = NoSect /\ opSect = 0
    /\ pc = "search" /\ FoundSect = NoSect => Len(Index(0)) = 0
    /\ pc \in WritePcs /\ sectorUpdate =>
         Flag(opSect) = "idle" /\ Flag(Other(opSect)) = "valid"
    /\ pc \in {"retire", "validate"} => Flag(opSect) = "ready"
    /\ pc = "validate" => Flag(Other(opSect)) = "invalid"

\* How far the index being written has grown.
ProgressOK ==
    /\ pc = "copy" => 1 <= copyIdx /\ Len(Index(opSect)) < copyIdx
    /\ pc = "index" => /\ Len(Index(opSect)) < IDX_NUM
                       /\ copyIdx # 0 => Len(Index(opSect)) + 1 < copyIdx
    /\ pc \in {"body", "state"} =>
         /\ deleteIdx < Len(Index(opSect))
         /\ Index(opSect)[Len(Index(opSect))].st = "operation"
         /\ pc = "state" => Index(opSect)[Len(Index(opSect))].ok
         /\ copyIdx # 0 => Len(Index(opSect)) < copyIdx
    /\ pc = "clean" => Len(Index(opSect)) = 0
    /\ pc = "delete" => deleteIdx \in DOMAIN Index(opSect)
    /\ pc \in {"ready", "first"} => Len(Index(opSect)) > 0

\* The inductive invariant.
IInv == FlashOK /\ PhaseOK /\ SectorsOK /\ ProgressOK

-----------------------------------------------------------------------------
(***************************************************************************)
(* Lemmas on the flash.                                                    *)
(***************************************************************************)
\* The sector nv_sector_read stops at, of the flash f.
FoundIn(f) ==
    IF f[0].flag \in CurrentFlags THEN 0
    ELSE IF f[1].flag \in CurrentFlags THEN 1 ELSE NoSect

\* Which sector nv_sector_read stops at, before and after a step.
LEMMA FoundIs == FoundSect = FoundIn(flash) /\ FoundSect' = FoundIn(flash')
<1>1. ASSUME NEW C \in SUBSET Sectors, C # {}
      PROVE  (CHOOSE s \in C : \A t \in C : s <= t) = IF 0 \in C THEN 0 ELSE 1
    <2>1. C = {0} \/ C = {1} \/ C = {0, 1}
        BY <1>1 DEF Sectors
    <2>2. \E s \in C : \A t \in C : s <= t
        BY <2>1
    <2> QED
        BY <2>1, <2>2
<1> DEFINE A == {s \in Sectors : flash[s].flag \in {"ready", "valid"}}
           B == {s \in Sectors : flash'[s].flag \in {"ready", "valid"}}
<1>2. FoundSect = IF A = {} THEN NoSect ELSE IF 0 \in A THEN 0 ELSE 1
    BY <1>1 DEF FoundSect
<1>3. FoundSect' = IF B = {} THEN NoSect ELSE IF 0 \in B THEN 0 ELSE 1
    BY <1>1 DEF FoundSect
<1> QED
    BY <1>2, <1>3 DEF FoundIn, CurrentFlags, Sectors

\* A bounded set of indexes has a last one.
LEMMA Greatest ==
    ASSUME NEW n \in Nat, NEW S \in SUBSET (1..n), S # {}
    PROVE  \E m \in S : \A k \in S : k <= m
<1> DEFINE Left == {n - k : k \in S}
<1>1. Left \subseteq Nat /\ Left # {}
    <2>1. \A k \in S : n - k \in Nat
        OBVIOUS
    <2> QED
        BY <2>1
<1>2. PICK x \in Left : \A y \in Left : ~ (<<y, x>> \in OpToRel(<, Nat))
    BY <1>1, NatLessThanWellFounded, WFMin
<1>3. \A y \in Left : ~ (y < x)
    BY <1>1, <1>2 DEF OpToRel
<1>4. PICK m \in S : x = n - m
    BY <1>2
<1>5. \A k \in S : k <= m
    BY <1>3, <1>4
<1> QED
    BY <1>5

\* The same, of a first one.
LEMMA Smallest ==
    ASSUME NEW S \in SUBSET Nat, S # {}
    PROVE  \E m \in S : \A k \in S : m <= k
<1>1. PICK x \in S : \A y \in S : ~ (<<y, x>> \in OpToRel(<, Nat))
    BY NatLessThanWellFounded, WFMin
<1>2. \A y \in S : ~ (y < x)
    BY <1>1 DEF OpToRel
<1> QED
    BY <1>2

\* nv_index_read finds the last of the item's valid entries, if there is one.
LEMMA LastValidIs ==
    ASSUME NEW s, NEW i, Index(s) \in Seq(Entry)
    PROVE  /\ ValidAt(s, i) = {} => LastValid(s, i) = 0
           /\ ValidAt(s, i) # {} => /\ LastValid(s, i) \in ValidAt(s, i)
                                    /\ \A k \in ValidAt(s, i) : k <= LastValid(s, i)
           /\ LastValid(s, i) \in 0 .. Len(Index(s))
<1>1. DOMAIN Index(s) = 1 .. Len(Index(s)) /\ Len(Index(s)) \in Nat
    OBVIOUS
<1>2. ValidAt(s, i) \in SUBSET (1 .. Len(Index(s)))
    BY <1>1 DEF ValidAt
<1>3. CASE ValidAt(s, i) = {}
    BY <1>1, <1>3 DEF LastValid
<1>4. CASE ValidAt(s, i) # {}
    <2>1. \E m \in ValidAt(s, i) : \A k \in ValidAt(s, i) : k <= m
        BY <1>1, <1>2, <1>4, Greatest
    <2>2. LastValid(s, i) \in ValidAt(s, i)
          /\ \A k \in ValidAt(s, i) : k <= LastValid(s, i)
        BY <1>4, <2>1 DEF LastValid
    <2> QED
        BY <1>2, <1>4, <2>2
<1> QED
    BY <1>3, <1>4

\* What the flash operations do to a sector x that is well formed.
LEMMA ErasedOK == SectorOK(Erased)
    BY NvAssumption DEF SectorOK, Erased, Sector, Flags, CurrentFlags

\* A flag write keeps a sector well formed: a current one is never empty.
LEMMA FlaggedOK ==
    ASSUME NEW x, SectorOK(x), NEW f \in Flags, f \in CurrentFlags => Len(x.index) > 0
    PROVE  /\ SectorOK([x EXCEPT !.flag = f])
           /\ [x EXCEPT !.flag = f].index = x.index
           /\ [x EXCEPT !.flag = f].flag = f
    BY DEF SectorOK, Sector

\* A blank entry is an entry in the state given.
LEMMA BlankEntry ==
    ASSUME NEW st \in States
    PROVE  Blank(st) \in Entry /\ Blank(st).st = st
    BY DEF Blank, Entry

\* An entry rewritten in place leaves the flag, the length and the others alone.
LEMMA EntrySet ==
    ASSUME NEW x, SectorOK(x), NEW k \in DOMAIN x.index, NEW e \in Entry,
           e.st = "valid" => e.ok /\ e.item \in Items /\ e.val \in Vals
    PROVE  LET y == [x EXCEPT !.index[k] = e]
           IN  /\ SectorOK(y)
               /\ y.flag = x.flag
               /\ Len(y.index) = Len(x.index)
               /\ \A j \in DOMAIN x.index : y.index[j] = IF j = k THEN e ELSE x.index[j]
<1> DEFINE y == [x EXCEPT !.index[k] = e]
<1>1. x.index \in Seq(Entry) /\ x.flag \in Flags
    BY DEF SectorOK, Sector
<1>2. y = [x EXCEPT !.index = [x.index EXCEPT ![k] = e]]
    BY DEF SectorOK, Sector
<1>3. y.index = [x.index EXCEPT ![k] = e] /\ y.flag = x.flag /\ y \in [flag : {x.flag}, index : {y.index}]
    BY <1>2 DEF SectorOK, Sector
<1> HIDE DEF y
<1>4. y.index \in Seq(Entry) /\ Len(y.index) = Len(x.index)
    BY <1>1, <1>3
<1>5. \A j \in DOMAIN x.index : y.index[j] = IF j = k THEN e ELSE x.index[j]
    BY <1>1, <1>3
<1>6. DOMAIN y.index = DOMAIN x.index
    BY <1>3
<1>7. SectorOK(y)
    BY <1>1, <1>3, <1>4, <1>5, <1>6 DEF SectorOK, Sector
<1> QED
    BY <1>3, <1>4, <1>5, <1>7 DEF y

\* An entry appended that is not valid leaves the flag and the others alone.
LEMMA EntryAppended ==
    ASSUME NEW x, SectorOK(x), Len(x.index) < IDX_NUM, NEW st \in States \ {"valid"}
    PROVE  LET y == [x EXCEPT !.index = Append(@, Blank(st))]
           IN  /\ SectorOK(y)
               /\ y.flag = x.flag
               /\ Len(y.index) = Len(x.index) + 1
               /\ y.index[Len(x.index) + 1] = Blank(st)
               /\ \A j \in DOMAIN x.index : y.index[j] = x.index[j]
<1> DEFINE y == [x EXCEPT !.index = Append(@, Blank(st))]
<1>1. x.index \in Seq(Entry) /\ x.flag \in Flags
    BY DEF SectorOK, Sector
<1>2. y.index = Append(x.index, Blank(st)) /\ y.flag = x.flag /\ y \in [flag : {x.flag}, index : {y.index}]
    BY DEF SectorOK, Sector
<1>3. Blank(st) \in Entry /\ Blank(st).st # "valid"
    BY BlankEntry
<1> HIDE DEF y
<1>4. /\ y.index \in Seq(Entry) /\ Len(y.index) = Len(x.index) + 1
      /\ y.index[Len(x.index) + 1] = Blank(st)
      /\ \A j \in DOMAIN x.index : y.index[j] = x.index[j]
    BY <1>1, <1>2, <1>3
<1>5. \A k \in DOMAIN y.index : y.index[k].st = "valid" => k \in DOMAIN x.index
    BY <1>1, <1>3, <1>4
<1>6. SectorOK(y)
    <2>1. y \in Sector
        BY <1>1, <1>2, <1>4 DEF Sector
    <2>2. \A k \in DOMAIN y.index :
             y.index[k].st = "valid" =>
               y.index[k].ok /\ y.index[k].item \in Items /\ y.index[k].val \in Vals
        BY <1>4, <1>5 DEF SectorOK
    <2> QED
        BY <1>1, <1>4, <2>1, <2>2, NvAssumption DEF SectorOK
<1> QED
    BY <1>2, <1>4, <1>6 DEF y

\* A flash operation on one sector.
LEMMA SectorSet ==
    ASSUME FlashOK, NEW s \in Sectors, NEW y, SectorOK(y),
           y.flag = "valid" => Flag(Other(s)) # "valid",
           flash' = [flash EXCEPT ![s] = y]
    PROVE  /\ FlashOK'
           /\ flash'[s] = y /\ flash'[Other(s)] = flash[Other(s)] /\ Other(s) \in Sectors
           /\ y.flag = Flag(s) => FoundSect' = FoundSect
<1>1. Other(s) \in Sectors /\ Other(s) # s
    BY DEF Sectors, Other
<1>2. flash'[s] = y /\ \A t \in Sectors \ {s} : flash'[t] = flash[t]
    BY DEF FlashOK
<1>3. flash' \in [Sectors -> Sector]
    BY DEF FlashOK, SectorOK
<1>4. \A t \in Sectors : SectorOK(flash'[t])
    BY <1>2 DEF FlashOK
<1>5. ~(flash'[0].flag = "valid" /\ flash'[1].flag = "valid")
    BY <1>1, <1>2 DEF FlashOK, Flag, Sectors, Other
<1>6. FlashOK'
    BY <1>3, <1>4, <1>5 DEF FlashOK, Flag
<1>7. y.flag = Flag(s) => FoundSect' = FoundSect
    BY <1>2, FoundIs DEF FoundIn, Flag, Sectors
<1> QED
    BY <1>1, <1>2, <1>6, <1>7

\* An entry of one sector is rewritten: no flag and no length changes.
LEMMA EntryWritten ==
    ASSUME FlashOK, NEW s \in Sectors, NEW k \in DOMAIN Index(s), NEW e \in Entry,
           e.st = "valid" => e.ok /\ e.item \in Items /\ e.val \in Vals,
           flash' = [flash EXCEPT ![s].index[k] = e]
    PROVE  /\ FlashOK'
           /\ FoundSect' = FoundSect
           /\ flash'[Other(s)] = flash[Other(s)] /\ Other(s) \in Sectors
           /\ \A t \in Sectors : flash'[t].flag = flash[t].flag
                                 /\ Len(flash'[t].index) = Len(flash[t].index)
                                 /\ DOMAIN flash'[t].index = DOMAIN flash[t].index
           /\ \A j \in DOMAIN flash[s].index :
                 flash'[s].index[j] = IF j = k THEN e ELSE flash[s].index[j]
<1> DEFINE x == flash[s]
           y == [x EXCEPT !.index[k] = e]
<1>1. SectorOK(x) /\ k \in DOMAIN x.index
    BY DEF FlashOK, Index
<1>2. /\ SectorOK(y)
      /\ y.flag = x.flag
      /\ Len(y.index) = Len(x.index)
      /\ \A j \in DOMAIN x.index : y.index[j] = IF j = k THEN e ELSE x.index[j]
    <2> HIDE DEF x
    <2> QED
        BY <1>1, EntrySet
<1>3. flash' = [flash EXCEPT ![s] = y]
    BY DEF FlashOK
<1>4. y.flag = "valid" => Flag(Other(s)) # "valid"
    BY <1>2 DEF FlashOK, Flag, Sectors, Other
<1>5. DOMAIN y.index = DOMAIN x.index
    BY <1>1, <1>2 DEF SectorOK, Sector
<1> HIDE DEF y
<1>6. /\ FlashOK'
      /\ flash'[s] = y /\ flash'[Other(s)] = flash[Other(s)] /\ Other(s) \in Sectors
      /\ FoundSect' = FoundSect
    BY <1>2, <1>3, <1>4, SectorSet DEF Flag
<1>7. \A t \in Sectors : t = s \/ t = Other(s)
    BY DEF Sectors, Other
<1> QED
    BY <1>2, <1>5, <1>6, <1>7 DEF Index

-----------------------------------------------------------------------------
(***************************************************************************)
(* Every action keeps the inductive invariant.                             *)
(***************************************************************************)
\* The flash starts erased.
LEMMA InitKeeps == Init => IInv
<1> SUFFICES ASSUME Init PROVE IInv
    OBVIOUS
<1>1. FlashOK
    BY ErasedOK DEF Init, FlashOK, SectorOK, Flag, Erased, Sectors
<1>2. PhaseOK
    <2>1. 0 \in 0 .. IDX_NUM /\ 0 \in 0 .. IDX_NUM + 1
        BY NvAssumption
    <2> QED
        BY <2>1 DEF Init, PhaseOK, Sectors, WritePcs
<1>3. SectorsOK /\ ProgressOK
    BY DEF Init, SectorsOK, ProgressOK, WritePcs
<1> QED
    BY <1>1, <1>2, <1>3 DEF IInv

\* A return leaves nothing of the request.
LEMMA ReturnKeeps ==
    ASSUME IInv, Return, FlashOK'
    PROVE  IInv'
<1>1. PhaseOK'
    <2>1. 0 \in 0 .. IDX_NUM /\ 0 \in 0 .. IDX_NUM + 1
        BY NvAssumption
    <2> QED
        BY <2>1 DEF Return, PhaseOK, Sectors, WritePcs
<1>2. SectorsOK' /\ ProgressOK'
    BY DEF Return, SectorsOK, ProgressOK, WritePcs
<1> QED
    BY <1>1, <1>2 DEF IInv

\* Actions that leave the flash alone.
LEMMA SameFlash ==
    ASSUME FlashOK, UNCHANGED flash
    PROVE  FlashOK' /\ FoundSect' = FoundSect /\ \A s : Index(s)' = Index(s) /\ Flag(s)' = Flag(s)
    BY DEF FlashOK, FoundSect, Index, Flag

\* A request starts with no sector chosen.
LEMMA BeginKeeps ==
    ASSUME IInv, NEW r \in Requests, Begin(r)
    PROVE  IInv'
<1>1. FlashOK'
    BY SameFlash DEF IInv, Begin
<1>2. PhaseOK'
    BY DEF IInv, Begin, PhaseOK, WritePcs
<1>3. SectorsOK' /\ ProgressOK'
    BY DEF IInv, Begin, SectorsOK, ProgressOK, WritePcs
<1> QED
    BY <1>1, <1>2, <1>3 DEF IInv

\* A READY sector found is one whose move is finished, a VALID one is searched.
LEMMA SectorFoundKeeps ==
    ASSUME IInv, SectorFound
    PROVE  IInv'
<1>1. FlashOK' /\ FoundSect' = FoundSect /\ \A s : Index(s)' = Index(s) /\ Flag(s)' = Flag(s)
    BY SameFlash DEF IInv, SectorFound
<1>2. FoundSect \in Sectors /\ Flag(FoundSect) \in CurrentFlags
    BY FoundIs DEF FoundIn, SectorFound, Flag, Sectors
<1>3. PhaseOK'
    BY <1>2 DEF IInv, SectorFound, PhaseOK, WritePcs
<1>4. SectorsOK'
    BY <1>1, <1>2 DEF IInv, SectorFound, SectorsOK, PhaseOK, WritePcs, Flag, CurrentFlags, NoSect, Sectors
<1>5. ProgressOK'
    BY DEF SectorFound, ProgressOK
<1> QED
    BY <1>1, <1>3, <1>4, <1>5 DEF IInv

\* With no current sector a write erases sector 0 and the others return.
LEMMA SectorMissingKeeps ==
    ASSUME IInv, SectorMissing
    PROVE  IInv'
<1>1. CASE op.kind # "write"
    <2>1. Return /\ UNCHANGED flash
        BY <1>1 DEF SectorMissing
    <2> QED
        BY <2>1, SameFlash, ReturnKeeps DEF IInv
<1>2. CASE op.kind = "write"
    <2>1. flash' = [flash EXCEPT ![0] = Erased] /\ pc' = "search" /\ UNCHANGED ram /\ pc = "sector"
        BY <1>2 DEF SectorMissing
    <2>2. Erased.flag # "valid" /\ Len(Erased.index) = 0 /\ Erased.flag \notin CurrentFlags
        BY DEF Erased, CurrentFlags
    <2>3. FlashOK' /\ flash'[0] = Erased /\ flash'[1] = flash[1]
        <3>1. 0 \in Sectors /\ Other(0) = 1
            BY DEF Sectors, Other
        <3> QED
            BY <2>1, <2>2, <3>1, SectorSet, ErasedOK DEF IInv
    <2>4. FoundSect' = NoSect
        BY <2>2, <2>3, FoundIs DEF SectorMissing, FoundIn, NoSect
    <2>5. PhaseOK'
        BY <2>1 DEF IInv, PhaseOK, WritePcs, ram
    <2>6. SectorsOK'
        BY <2>1, <2>2, <2>3, <2>4 DEF IInv, SectorsOK, PhaseOK, WritePcs, ram, Index
    <2>7. ProgressOK'
        BY <2>1 DEF ProgressOK
    <2> QED
        BY <2>3, <2>5, <2>6, <2>7 DEF IInv
<1> QED
    BY <1>1, <1>2

\* The other sector is retired while this one is READY.
LEMMA RetireOtherKeeps ==
    ASSUME IInv, RetireOther
    PROVE  IInv'
<1> DEFINE y == [flag |-> "invalid", index |-> <<>>]
<1>1. flash' = [flash EXCEPT ![Other(opSect)] = y] /\ pc = "retire" /\ pc' = "validate" /\ UNCHANGED ram
    BY DEF RetireOther
<1>2. SectorOK(y) /\ y.flag = "invalid"
    BY NvAssumption DEF SectorOK, Sector, Flags, CurrentFlags
<1>3. opSect \in Sectors /\ Other(opSect) \in Sectors /\ Other(Other(opSect)) = opSect
    BY DEF IInv, PhaseOK, Sectors, Other
<1> HIDE DEF y
<1>4. FlashOK' /\ flash'[Other(opSect)] = y /\ flash'[opSect] = flash[opSect]
    BY <1>1, <1>2, <1>3, SectorSet DEF IInv
<1>5. PhaseOK'
    BY <1>1 DEF IInv, PhaseOK, WritePcs, ram
<1>6. SectorsOK'
    BY <1>1, <1>2, <1>3, <1>4 DEF IInv, SectorsOK, PhaseOK, WritePcs, ram, Flag
<1>7. ProgressOK'
    BY <1>1 DEF ProgressOK
<1> QED
    BY <1>4, <1>5, <1>6, <1>7 DEF IInv

\* A flag written to a sector.
LEMMA FlagWritten ==
    ASSUME FlashOK, NEW s \in Sectors, NEW f \in Flags, f \in CurrentFlags => Len(Index(s)) > 0,
           f = "valid" => Flag(Other(s)) # "valid", SetFlag(s, f)
    PROVE  /\ FlashOK'
           /\ flash'[s].flag = f /\ flash'[Other(s)].flag = flash[Other(s)].flag
           /\ \A t \in Sectors : flash'[t].index = flash[t].index
<1> DEFINE x == flash[s]
           y == [x EXCEPT !.flag = f]
<1>1. SectorOK(x) /\ (f \in CurrentFlags => Len(x.index) > 0)
    BY DEF FlashOK, Index
<1>2. SectorOK(y) /\ y.index = x.index /\ y.flag = f
    <2> HIDE DEF x
    <2> QED
        BY <1>1, FlaggedOK
<1>3. flash' = [flash EXCEPT ![s] = y]
    BY DEF SetFlag, FlashOK
<1> HIDE DEF y
<1>4. FlashOK' /\ flash'[s] = y /\ flash'[Other(s)] = flash[Other(s)]
    BY <1>2, <1>3, SectorSet
<1>5. \A t \in Sectors : t = s \/ t = Other(s)
    BY DEF Sectors, Other
<1> QED
    BY <1>2, <1>4, <1>5

\* The sector becomes VALID once the other one is retired.
LEMMA ValidateKeeps ==
    ASSUME IInv, Validate
    PROVE  IInv'
<1>1. /\ opSect \in Sectors /\ pc = "validate" /\ SetFlag(opSect, "valid")
      /\ Flag(Other(opSect)) = "invalid" /\ Flag(opSect) = "ready"
    BY DEF IInv, Validate, PhaseOK, SectorsOK
<1>2. Len(Index(opSect)) > 0
    BY <1>1 DEF IInv, FlashOK, SectorOK, CurrentFlags, Flag, Index
<1>3. FlashOK' /\ flash'[opSect].flag = "valid" /\ flash'[Other(opSect)].flag = "invalid"
    <2>1. "valid" \in Flags /\ Flag(Other(opSect)) # "valid"
        BY <1>1 DEF Flags
    <2> QED
        BY <1>1, <1>2, <2>1, FlagWritten DEF IInv, Flag
<1>4. CASE sectorUpdate
    BY <1>3, <1>4, ReturnKeeps DEF Validate
<1>5. CASE ~sectorUpdate
    <2>1. pc' = "search" /\ UNCHANGED ram
        BY <1>5 DEF Validate
    <2>2. FoundSect' = opSect
        BY <1>1, <1>3, FoundIs DEF FoundIn, CurrentFlags, Sectors, Other
    <2>3. PhaseOK'
        BY <1>1, <1>5, <2>1 DEF IInv, PhaseOK, WritePcs, ram
    <2>4. SectorsOK'
        BY <1>1, <1>3, <2>1, <2>2 DEF SectorsOK, WritePcs, ram, Sectors, NoSect, Flag
    <2>5. ProgressOK'
        BY <2>1 DEF ProgressOK
    <2> QED
        BY <1>3, <2>3, <2>4, <2>5 DEF IInv
<1> QED
    BY <1>4, <1>5

\* An invalidated entry counts no more.
LEMMA InvalidEntry ==
    Blank("invalid") \in Entry /\ Blank("invalid").st = "invalid"
    BY BlankEntry DEF States

\* A read leaves the flash alone.
LEMMA ReadItemKeeps ==
    ASSUME IInv, ReadItem
    PROVE  IInv'
    BY SameFlash, ReturnKeeps DEF IInv, ReadItem

\* A removal marks one valid entry invalid.
LEMMA RemoveItemKeeps ==
    ASSUME IInv, RemoveItem
    PROVE  IInv'
<1> DEFINE k == LastValid(opSect, op.item)
<1>1. opSect \in Sectors /\ Index(opSect) \in Seq(Entry)
    BY DEF IInv, PhaseOK, FlashOK, SectorOK, Sector, Index
<1>2. CASE k = 0
    <2>1. UNCHANGED flash
        BY <1>2 DEF RemoveItem
    <2> QED
        BY <2>1, SameFlash, ReturnKeeps DEF IInv, RemoveItem
<1>3. CASE k # 0
    <2>1. k \in DOMAIN Index(opSect)
        BY <1>1, <1>3, LastValidIs DEF ValidAt
    <2>2. MarkInvalid(opSect, k)
        BY <1>3 DEF RemoveItem
    <2> HIDE DEF k
    <2>3. flash' = [flash EXCEPT ![opSect].index[k] = Blank("invalid")]
        BY <2>2 DEF MarkInvalid
    <2>4. FlashOK'
        BY <1>1, <2>1, <2>3, EntryWritten, InvalidEntry DEF IInv
    <2> QED
        BY <2>4, ReturnKeeps DEF RemoveItem
<1> QED
    BY <1>2, <1>3

\* The entry to be written lies within the index.
LEMMA RoomKeeps ==
    ASSUME IInv, Room
    PROVE  IInv'
<1>1. FlashOK' /\ FoundSect' = FoundSect /\ \A s : Index(s)' = Index(s) /\ Flag(s)' = Flag(s)
    BY SameFlash DEF IInv, Room
<1>2. op \in Writes /\ ~sectorUpdate /\ copyIdx = 0 /\ pc = "search"
    BY DEF IInv, Room, PhaseOK, Requests, Writes
<1>3. PhaseOK'
    BY <1>2 DEF IInv, Room, PhaseOK, WritePcs
<1>4. SectorsOK'
    BY <1>1, <1>2 DEF IInv, Room, SectorsOK, WritePcs, Flag
<1>5. ProgressOK'
    BY <1>2 DEF Room, ProgressOK, Index
<1> QED
    BY <1>1, <1>3, <1>4, <1>5 DEF IInv

\* The sector erased for a move is not the one with the items.
LEMMA SwitchKeeps ==
    ASSUME IInv, Switch
    PROVE  IInv'
<1>1. /\ opSect \in Sectors /\ Other(opSect) \in Sectors /\ Other(Other(opSect)) = opSect
      /\ op \in Writes /\ pc = "search" /\ Len(Index(opSect)) > 0 /\ ~sectorUpdate /\ copyIdx = 0
    BY DEF IInv, PhaseOK, Switch, Requests, Writes, Sectors, Other
<1>2. Flag(opSect) = "valid"
    BY <1>1 DEF IInv, SectorsOK
<1>3. Erased.flag = "idle" /\ Len(Erased.index) = 0
    BY DEF Erased
<1>4. FlashOK' /\ flash'[Other(opSect)] = Erased /\ flash'[opSect] = flash[opSect]
    BY <1>1, <1>3, SectorSet, ErasedOK DEF IInv, Switch
<1>5. PhaseOK'
    BY <1>1 DEF IInv, Switch, PhaseOK, WritePcs
<1>6. SectorsOK'
    BY <1>1, <1>2, <1>3, <1>4 DEF Switch, SectorsOK, WritePcs, Flag
<1>7. ProgressOK'
    BY <1>3, <1>4 DEF Switch, ProgressOK, Index
<1> QED
    BY <1>4, <1>5, <1>6, <1>7 DEF IInv

\* Duplicates are deleted from the old sector only.
LEMMA CleanKeeps ==
    ASSUME IInv, Clean
    PROVE  IInv'
<1> DEFINE o == Other(opSect)
           D == Duplicates(o)
           k == CHOOSE k \in D : \A j \in D : j <= k
<1>1. /\ opSect \in Sectors /\ o \in Sectors /\ Other(o) = opSect /\ pc = "clean"
      /\ Index(o) \in Seq(Entry) /\ Len(Index(o)) \in Nat
    BY DEF IInv, PhaseOK, Clean, Sectors, Other, FlashOK, SectorOK, Sector, Index
<1>2. D # {} /\ MarkInvalid(o, k) /\ UNCHANGED <<pc, ram>>
    BY DEF Clean
<1>3. D \in SUBSET (1 .. Len(Index(o)))
    BY <1>1 DEF Duplicates
<1>4. k \in D
    BY <1>1, <1>2, <1>3, Greatest
<1>5. k \in DOMAIN Index(o)
    BY <1>4 DEF Duplicates
<1> HIDE DEF k, D, o
<1>6. flash' = [flash EXCEPT ![o].index[k] = Blank("invalid")]
    BY <1>2 DEF MarkInvalid
<1>7. /\ FlashOK' /\ FoundSect' = FoundSect
      /\ flash'[opSect] = flash[opSect] /\ flash'[o].flag = flash[o].flag
    BY <1>1, <1>5, <1>6, EntryWritten, InvalidEntry DEF IInv
<1>8. PhaseOK'
    BY <1>2 DEF IInv, PhaseOK, ram
<1>9. SectorsOK'
    BY <1>1, <1>2, <1>7 DEF IInv, SectorsOK, WritePcs, Flag, ram, PhaseOK, o
<1>10. ProgressOK'
    BY <1>1, <1>2, <1>7 DEF IInv, ProgressOK, Index, ram
<1> QED
    BY <1>7, <1>8, <1>9, <1>10 DEF IInv

\* The copy starts with an empty sector.
LEMMA CleanedKeeps ==
    ASSUME IInv, Cleaned
    PROVE  IInv'
<1>1. FlashOK' /\ FoundSect' = FoundSect /\ \A s : Index(s)' = Index(s) /\ Flag(s)' = Flag(s)
    BY SameFlash DEF IInv, Cleaned
<1>2. PhaseOK'
    BY NvAssumption DEF IInv, Cleaned, PhaseOK, WritePcs
<1>3. SectorsOK'
    BY <1>1 DEF IInv, Cleaned, SectorsOK, PhaseOK, WritePcs, Flag
<1>4. ProgressOK'
    BY DEF IInv, Cleaned, ProgressOK, Index
<1> QED
    BY <1>1, <1>2, <1>3, <1>4 DEF IInv

\* Every entry copied stands at a smaller index than in the old sector.
LEMMA CopyKeeps ==
    ASSUME IInv, Copy
    PROVE  IInv'
<1> DEFINE o == Other(opSect)
           k == CHOOSE k \in ToCopy : \A j \in ToCopy : k <= j
           e == Index(o)[k]
<1>1. /\ opSect \in Sectors /\ o \in Sectors /\ SectorOK(flash[o]) /\ pc = "copy" /\ pc' = "index"
      /\ sectorUpdate /\ op \in Writes
    BY DEF IInv, PhaseOK, Copy, Sectors, Other, FlashOK, WritePcs
<1>2. FlashOK' /\ FoundSect' = FoundSect /\ \A s : Index(s)' = Index(s) /\ Flag(s)' = Flag(s)
    BY SameFlash DEF IInv, Copy
<1>3. DOMAIN Index(o) = 1 .. Len(Index(o)) /\ Len(Index(o)) \in Nat /\ Len(Index(o)) <= IDX_NUM
    BY <1>1 DEF SectorOK, Sector, Index
<1>4. ToCopy \in SUBSET Nat /\ ToCopy # {}
    BY <1>3 DEF ToCopy, Copy
<1>5. k \in ToCopy
    BY <1>4, Smallest
<1>6. k \in 1 .. IDX_NUM /\ copyIdx <= k /\ k \in DOMAIN Index(o) /\ e.st = "valid"
    BY <1>3, <1>5, NvAssumption DEF ToCopy
<1>7. [kind |-> "copy", item |-> e.item, val |-> e.val] \in Copies
    <2> HIDE DEF k
    <2>1. e.item \in Items /\ e.val \in Vals
        BY <1>1, <1>6 DEF SectorOK, Index
    <2> HIDE DEF e
    <2> QED
        BY <2>1 DEF Copies
<1>8. wr' = [kind |-> "copy", item |-> e.item, val |-> e.val] /\ copyIdx' = k + 1
      /\ UNCHANGED <<flash, op, opSect, sectorUpdate, deleteIdx>>
    BY DEF Copy
<1> HIDE DEF k, e, o
<1>9. copyIdx' \in 0 .. IDX_NUM + 1 /\ copyIdx' # 0
    BY <1>6, <1>8, NvAssumption
<1>10. PhaseOK'
    BY <1>1, <1>7, <1>8, <1>9 DEF IInv, PhaseOK, WritePcs
<1>11. SectorsOK'
    BY <1>1, <1>2, <1>8 DEF IInv, SectorsOK, WritePcs, Flag
<1>12. ProgressOK'
    <2>1. Len(Index(opSect)) \in Nat /\ Len(Index(opSect)) < copyIdx /\ copyIdx \in Nat
        BY <1>1, NvAssumption DEF IInv, ProgressOK, FlashOK, SectorOK, Sector, Index, PhaseOK
    <2>2. Len(Index(opSect)) < IDX_NUM /\ Len(Index(opSect)) + 1 < k + 1
        BY <1>6, <2>1, NvAssumption
    <2>3. Len(Index(opSect))' = Len(Index(opSect))
        BY <1>8 DEF Index
    <2> QED
        BY <1>1, <1>8, <2>2, <2>3 DEF ProgressOK
<1> QED
    BY <1>2, <1>10, <1>11, <1>12 DEF IInv

\* The new item is written after all copies, where an index is left.
LEMMA CopiedKeeps ==
    ASSUME IInv, Copied
    PROVE  IInv'
<1>1. FlashOK' /\ FoundSect' = FoundSect /\ \A s : Index(s)' = Index(s) /\ Flag(s)' = Flag(s)
    BY SameFlash DEF IInv, Copied
<1>2. PhaseOK'
    BY NvAssumption DEF IInv, Copied, PhaseOK, WritePcs
<1>3. SectorsOK'
    BY <1>1 DEF IInv, Copied, SectorsOK, PhaseOK, WritePcs, Flag
<1>4. ProgressOK'
    BY DEF Copied, ProgressOK, Index
<1> QED
    BY <1>1, <1>2, <1>3, <1>4 DEF IInv

\* A move given up leaves the old sector current.
LEMMA NotEnoughSpaceKeeps ==
    ASSUME IInv, NotEnoughSpace
    PROVE  IInv'
    BY SameFlash, ReturnKeeps DEF IInv, NotEnoughSpace

\* Power on starts with no request.
LEMMA PowerOnKeeps ==
    ASSUME IInv, PowerOn
    PROVE  IInv'
<1>1. FlashOK'
    BY SameFlash DEF IInv, PowerOn
<1>2. PhaseOK' /\ SectorsOK' /\ ProgressOK'
    BY DEF IInv, PowerOn, PhaseOK, SectorsOK, ProgressOK, WritePcs, ram
<1> QED
    BY <1>1, <1>2 DEF IInv

\* An entry is appended to the sector worked on: no flag changes.
LEMMA EntryAdded ==
    ASSUME FlashOK, NEW s \in Sectors, NEW st \in States \ {"valid"},
           Len(Index(s)) < IDX_NUM,
           flash' = [flash EXCEPT ![s].index = Append(@, Blank(st))]
    PROVE  /\ FlashOK'
           /\ FoundSect' = FoundSect
           /\ flash'[Other(s)] = flash[Other(s)] /\ Other(s) \in Sectors
           /\ flash'[s].flag = flash[s].flag
           /\ Len(flash'[s].index) = Len(flash[s].index) + 1
           /\ flash'[s].index[Len(flash[s].index) + 1] = Blank(st)
           /\ \A j \in DOMAIN flash[s].index : flash'[s].index[j] = flash[s].index[j]
<1> DEFINE x == flash[s]
           y == [x EXCEPT !.index = Append(@, Blank(st))]
<1>1. SectorOK(x) /\ Len(x.index) < IDX_NUM
    BY DEF FlashOK, Index
<1>2. /\ SectorOK(y)
      /\ y.flag = x.flag
      /\ Len(y.index) = Len(x.index) + 1
      /\ y.index[Len(x.index) + 1] = Blank(st)
      /\ \A j \in DOMAIN x.index : y.index[j] = x.index[j]
    <2> HIDE DEF x
    <2> QED
        BY <1>1, EntryAppended
<1>3. flash' = [flash EXCEPT ![s] = y]
    BY DEF FlashOK
<1>4. y.flag = "valid" => Flag(Other(s)) # "valid"
    BY <1>2 DEF FlashOK, Flag, Sectors, Other
<1> HIDE DEF y
<1>5. /\ FlashOK'
      /\ flash'[s] = y /\ flash'[Other(s)] = flash[Other(s)] /\ Other(s) \in Sectors
      /\ FoundSect' = FoundSect
    BY <1>2, <1>3, <1>4, SectorSet DEF Flag
<1> QED
    BY <1>2, <1>5

\* What the sector worked on is, in the phases that write it.
LEMMA Working ==
    ASSUME IInv
    PROVE  /\ opSect \in Sectors /\ Other(opSect) \in Sectors
           /\ Index(opSect) \in Seq(Entry) /\ Len(Index(opSect)) \in Nat
           /\ DOMAIN Index(opSect) = 1 .. Len(Index(opSect))
           /\ Len(Index(opSect)) <= IDX_NUM
    BY DEF IInv, PhaseOK, FlashOK, SectorOK, Sector, Index, Sectors, Other

\* SectorsOK depends on the flags and, in "search", on an index.
LEMMA SectorsKept ==
    ASSUME IInv, pc \in WritePcs, pc' \in WritePcs, UNCHANGED <<opSect, sectorUpdate>>,
           FoundSect' = FoundSect, flash'[opSect].flag = flash[opSect].flag,
           flash'[Other(opSect)].flag = flash[Other(opSect)].flag
    PROVE  SectorsOK'
    BY DEF IInv, SectorsOK, WritePcs, Flag

\* An entry in the state OPERATION is appended.
LEMMA WriteIndexKeeps ==
    ASSUME IInv, WriteIndex
    PROVE  IInv'
<1> DEFINE n == Len(Index(opSect))
<1>1. /\ flash' = [flash EXCEPT ![opSect].index = Append(@, Blank("operation"))]
      /\ deleteIdx' = IF copyIdx = 0 THEN LastValid(opSect, wr.item) ELSE 0
      /\ pc = "index" /\ pc' = "body" /\ UNCHANGED <<op, opSect, sectorUpdate, copyIdx, wr>>
    BY DEF WriteIndex, AppendEntry
<1>2. n < IDX_NUM /\ (copyIdx # 0 => n + 1 < copyIdx)
    BY <1>1 DEF IInv, ProgressOK
<1>3. "operation" \in States \ {"valid"}
    BY DEF States
<1>4. /\ FlashOK' /\ FoundSect' = FoundSect /\ flash'[Other(opSect)] = flash[Other(opSect)]
      /\ flash'[opSect].flag = flash[opSect].flag
      /\ Len(flash'[opSect].index) = n + 1
      /\ flash'[opSect].index[n + 1] = Blank("operation")
    BY <1>1, <1>2, <1>3, Working, EntryAdded DEF IInv, Index
<1>5. deleteIdx' \in 0 .. n
    <2>1. LastValid(opSect, wr.item) \in 0 .. n
        BY Working, LastValidIs
    <2> QED
        BY <1>1, <2>1, Working
<1>6. PhaseOK'
    <2>1. deleteIdx' \in 0 .. IDX_NUM
        BY <1>2, <1>5, Working, NvAssumption
    <2> QED
        BY <1>1, <2>1 DEF IInv, PhaseOK, WritePcs
<1>7. SectorsOK'
    BY <1>1, <1>4, SectorsKept DEF WritePcs
<1>8. ProgressOK'
    <2>1. Len(Index(opSect))' = n + 1 /\ Index(opSect)'[n + 1] = Blank("operation")
        BY <1>1, <1>4 DEF Index
    <2>2. Blank("operation").st = "operation"
        BY BlankEntry, <1>3
    <2>3. deleteIdx' < n + 1
        BY <1>5, Working
    <2> HIDE DEF n
    <2> QED
        BY <1>1, <1>2, <2>1, <2>2, <2>3 DEF ProgressOK, n
<1> QED
    BY <1>4, <1>6, <1>7, <1>8 DEF IInv

\* An entry of the sector worked on is rewritten.
Rewritten(k, e) ==
    /\ FoundSect' = FoundSect
    /\ flash'[Other(opSect)] = flash[Other(opSect)]
    /\ flash'[opSect].flag = flash[opSect].flag
    /\ Len(flash'[opSect].index) = Len(Index(opSect))
    /\ DOMAIN flash'[opSect].index = DOMAIN Index(opSect)
    /\ flash'[opSect].index[k] = e

\* An entry of the sector worked on is rewritten: everything else stays.
LEMMA WritingKeeps ==
    ASSUME IInv, NEW k \in DOMAIN Index(opSect), NEW e \in Entry,
           e.st = "valid" => e.ok /\ e.item \in Items /\ e.val \in Vals,
           flash' = [flash EXCEPT ![opSect].index[k] = e]
    PROVE  FlashOK' /\ Rewritten(k, e)
<1>1. /\ FlashOK'
      /\ FoundSect' = FoundSect
      /\ flash'[Other(opSect)] = flash[Other(opSect)]
      /\ flash'[opSect].flag = flash[opSect].flag
      /\ Len(flash'[opSect].index) = Len(flash[opSect].index)
      /\ DOMAIN flash'[opSect].index = DOMAIN flash[opSect].index
      /\ flash'[opSect].index[k] = e
    <2>1. FlashOK /\ opSect \in Sectors
        BY Working DEF IInv
    <2>2. k \in DOMAIN flash[opSect].index
        BY DEF Index
    <2>3. /\ FlashOK'
          /\ FoundSect' = FoundSect
          /\ flash'[Other(opSect)] = flash[Other(opSect)]
          /\ \A t \in Sectors : flash'[t].flag = flash[t].flag
                                /\ Len(flash'[t].index) = Len(flash[t].index)
                                /\ DOMAIN flash'[t].index = DOMAIN flash[t].index
          /\ \A j \in DOMAIN flash[opSect].index :
                flash'[opSect].index[j] = IF j = k THEN e ELSE flash[opSect].index[j]
        BY <2>1, EntryWritten, Zenon
    <2> QED
        BY <2>1, <2>2, <2>3
<1> QED
    BY <1>1 DEF Rewritten, Index

\* The payload is complete before the state byte is written.
LEMMA WriteBodyKeeps ==
    ASSUME IInv, WriteBody
    PROVE  IInv'
<1> DEFINE n == Len(Index(opSect))
           e == [Index(opSect)[n] EXCEPT !.ok = TRUE]
<1>1. /\ pc = "body" /\ pc' = "state" /\ UNCHANGED ram
      /\ flash' = [flash EXCEPT ![opSect].index[n].ok = TRUE]
    BY DEF WriteBody
<1>2. deleteIdx < n /\ Index(opSect)[n].st = "operation" /\ deleteIdx \in Nat
      /\ (copyIdx # 0 => n < copyIdx)
    BY <1>1, NvAssumption DEF IInv, ProgressOK, PhaseOK
<1>3. n \in DOMAIN Index(opSect) /\ Index(opSect)[n] \in Entry
    BY <1>2, Working
<1>4. e \in Entry /\ e.st = "operation" /\ e.ok
    <2> DEFINE a == Index(opSect)[n]
    <2>1. a \in Entry /\ a.st = "operation"
        BY <1>2, <1>3
    <2> HIDE DEF a
    <2>2. [a EXCEPT !.ok = TRUE] \in Entry /\ [a EXCEPT !.ok = TRUE].st = "operation"
          /\ [a EXCEPT !.ok = TRUE].ok
        BY <2>1 DEF Entry
    <2> QED
        BY <2>2 DEF a
<1>5. flash' = [flash EXCEPT ![opSect].index[n] = e]
    BY <1>1, <1>3, Working DEF Index, IInv, FlashOK, Sector
<1> HIDE DEF n, e
<1>6. FlashOK' /\ Rewritten(n, e)
    BY <1>3, <1>4, <1>5, WritingKeeps
<1>7. PhaseOK'
    BY <1>1 DEF IInv, PhaseOK, WritePcs, ram
<1>8. SectorsOK'
    BY <1>1, <1>6, SectorsKept DEF Rewritten, WritePcs, ram
<1>9. ProgressOK'
    <2>1. Len(Index(opSect))' = n /\ Index(opSect)'[n] = e
        BY <1>1, <1>6 DEF Rewritten, Index, ram, n
    <2> QED
        BY <1>1, <1>2, <1>4, <2>1 DEF ProgressOK, ram
<1> QED
    BY <1>6, <1>7, <1>8, <1>9 DEF IInv

\* Where WriteState and DeleteOld go on to.
LEMMA GoKeeps ==
    ASSUME IInv, FlashOK', NEW k, NEW e, Rewritten(k, e),
           pc \in {"state", "delete"}, Len(Index(opSect)) > 0,
           NEW next \in {"copy", "delete", "ready", "first", "done"}, Go(next),
           next = "copy" => pc = "state" /\ copyIdx # 0,
           next = "delete" => deleteIdx \in DOMAIN Index(opSect),
           next = "ready" => sectorUpdate,
           next = "first" => ~sectorUpdate
    PROVE  IInv'
<1>1. CASE next = "done"
    BY <1>1, ReturnKeeps DEF Go
<1>2. CASE next # "done"
    <2>1. pc' = next /\ UNCHANGED ram
        BY <1>2 DEF Go
    <2>2. pc = "state" /\ copyIdx # 0 =>
              sectorUpdate /\ copyIdx \in Nat /\ 1 <= copyIdx /\ Len(Index(opSect)) < copyIdx
        BY NvAssumption DEF IInv, PhaseOK, ProgressOK
    <2>3. PhaseOK'
        BY <1>2, <2>1, <2>2 DEF IInv, PhaseOK, WritePcs, ram
    <2>4. SectorsOK'
        BY <1>2, <2>1, SectorsKept DEF Rewritten, WritePcs, ram
    <2>5. Len(Index(opSect))' = Len(Index(opSect)) /\ DOMAIN Index(opSect)' = DOMAIN Index(opSect)
        BY <2>1 DEF Rewritten, Index, ram
    <2>6. ProgressOK'
        BY <1>2, <2>1, <2>2, <2>5 DEF ProgressOK, ram
    <2> QED
        BY <2>3, <2>4, <2>6 DEF IInv
<1> QED
    BY <1>1, <1>2

\* What follows the new item.
LEMMA AfterDeleteIs ==
    /\ AfterDelete \in {"ready", "first", "done"}
    /\ AfterDelete = "ready" => sectorUpdate
    /\ AfterDelete = "first" => ~sectorUpdate
    BY DEF AfterDelete

\* The state byte makes a complete entry valid.
LEMMA WriteStateKeeps ==
    ASSUME IInv, WriteState
    PROVE  IInv'
<1> DEFINE n == Len(Index(opSect))
           e == [st |-> "valid", item |-> wr.item, val |-> wr.val, ok |-> Index(opSect)[n].ok]
           next == IF copyIdx # 0 THEN "copy"
                   ELSE IF deleteIdx # 0 THEN "delete" ELSE AfterDelete
<1>1. pc = "state" /\ Go(next) /\ flash' = [flash EXCEPT ![opSect].index[n] = e]
    BY DEF WriteState, LastEntry
<1>2. deleteIdx < n /\ Index(opSect)[n].ok /\ deleteIdx \in Nat
    BY <1>1, NvAssumption DEF IInv, ProgressOK, PhaseOK
<1>3. n \in DOMAIN Index(opSect) /\ Index(opSect)[n] \in Entry /\ n > 0
    BY <1>2, Working
<1>4. wr.item \in Items /\ wr.val \in Vals
    BY <1>1 DEF IInv, PhaseOK, Writes, Copies, WritePcs
<1>5. e \in Entry /\ e.ok
    <2>1. Index(opSect)[n].ok \in BOOLEAN
        BY <1>3 DEF Entry
    <2> QED
        BY <1>2, <1>4, <2>1 DEF Entry, States
<1>6. FlashOK' /\ Rewritten(n, e)
    <2>1. e.item \in Items /\ e.val \in Vals
        BY <1>4
    <2> HIDE DEF e, n
    <2> QED
        BY <1>1, <1>3, <1>5, <2>1, WritingKeeps
<1>7. /\ next \in {"copy", "delete", "ready", "first", "done"}
      /\ next = "copy" => copyIdx # 0
      /\ next = "delete" => deleteIdx \in DOMAIN Index(opSect)
      /\ next = "ready" => sectorUpdate
      /\ next = "first" => ~sectorUpdate
    BY <1>2, Working, AfterDeleteIs
<1> HIDE DEF e, next
<1> QED
    BY <1>1, <1>3, <1>6, <1>7, GoKeeps

\* The entry replaced is another one than the entry just written.
LEMMA DeleteOldKeeps ==
    ASSUME IInv, DeleteOld
    PROVE  IInv'
<1>1. /\ pc = "delete" /\ Go(AfterDelete)
      /\ flash' = [flash EXCEPT ![opSect].index[deleteIdx] = Blank("invalid")]
    BY DEF DeleteOld, MarkInvalid
<1>2. deleteIdx \in DOMAIN Index(opSect) /\ Len(Index(opSect)) > 0
    BY <1>1, Working DEF IInv, ProgressOK
<1>3. FlashOK' /\ Rewritten(deleteIdx, Blank("invalid"))
    BY <1>1, <1>2, InvalidEntry, WritingKeeps
<1> QED
    BY <1>1, <1>2, <1>3, AfterDeleteIs, GoKeeps

\* The new sector is READY with at least one item.
LEMMA ReadyKeeps ==
    ASSUME IInv, Ready
    PROVE  IInv'
<1>1. SetFlag(opSect, "ready") /\ pc = "ready" /\ pc' = "retire" /\ UNCHANGED ram /\ sectorUpdate
    BY DEF IInv, PhaseOK, Ready
<1>2. Len(Index(opSect)) > 0 /\ "ready" \in Flags
    BY <1>1 DEF IInv, ProgressOK, Flags
<1>3. FlashOK' /\ flash'[opSect].flag = "ready"
    BY <1>1, <1>2, Working, FlagWritten DEF IInv
<1>4. PhaseOK'
    BY <1>1 DEF IInv, PhaseOK, WritePcs, ram
<1>5. SectorsOK' /\ ProgressOK'
    BY <1>1, <1>3 DEF SectorsOK, ProgressOK, WritePcs, ram, Flag
<1> QED
    BY <1>3, <1>4, <1>5 DEF IInv

\* The first item makes its sector VALID when no other one is.
LEMMA FirstKeeps ==
    ASSUME IInv, First
    PROVE  IInv'
<1>1. SetFlag(opSect, "valid") /\ pc = "first" /\ Return /\ ~sectorUpdate
    BY DEF IInv, PhaseOK, First
<1>2. Len(Index(opSect)) > 0 /\ "valid" \in Flags
    BY <1>1 DEF IInv, ProgressOK, Flags
<1>3. Flag(Other(opSect)) # "valid"
    <2>1. Flag(opSect) = "valid" \/ FoundSect = NoSect
        BY <1>1 DEF IInv, SectorsOK, WritePcs
    <2> QED
        BY <2>1, Working, FoundIs DEF IInv, FlashOK, FoundIn, Flag, CurrentFlags, NoSect, Sectors, Other
<1>4. FlashOK'
    BY <1>1, <1>2, <1>3, Working, FlagWritten DEF IInv
<1> QED
    BY <1>1, <1>4, ReturnKeeps

\* The power fails: the sector keeps its flag; the index of a sector that is not
\* current is blanked, and the one being written may end in a torn entry.
LEMMA CutSector ==
    ASSUME NEW x, SectorOK(x), NEW torn \in {<<>>, <<Blank("torn")>>},
           torn # <<>> => Len(x.index) < IDX_NUM
    PROVE  /\ SectorOK([x EXCEPT !.index = @ \o torn])
           /\ x.flag \notin CurrentFlags => SectorOK([x EXCEPT !.index = <<>>])
<1>1. x.index \in Seq(Entry) /\ x.flag \in Flags /\ x \in Sector
    BY DEF SectorOK, Sector
<1>2. ASSUME torn = <<>>
      PROVE  SectorOK([x EXCEPT !.index = @ \o torn])
    <2>1. x.index \o torn = x.index
        BY <1>1, <1>2
    <2>2. [x EXCEPT !.index = @ \o torn] = [x EXCEPT !.index = x.index]
        BY <2>1, Zenon
    <2>3. [x EXCEPT !.index = x.index] = x
        BY <1>1 DEF Sector
    <2> QED
        BY <2>2, <2>3
<1>3. ASSUME torn = <<Blank("torn")>>
      PROVE  SectorOK([x EXCEPT !.index = @ \o torn])
    <2>1. x.index \o torn = Append(x.index, Blank("torn")) /\ torn # <<>>
        BY <1>1, <1>3
    <2>2. "torn" \in States \ {"valid"}
        BY DEF States
    <2>3. SectorOK([x EXCEPT !.index = Append(@, Blank("torn"))])
        BY <2>1, <2>2, EntryAppended
    <2> QED
        BY <2>1, <2>3, Zenon
<1>4. x.flag \notin CurrentFlags => SectorOK([x EXCEPT !.index = <<>>])
    <2> DEFINE none == <<>>
               y == [x EXCEPT !.index = none]
    <2>1. none \in Seq(Entry) /\ Len(none) = 0 /\ DOMAIN none = {}
        OBVIOUS
    <2> HIDE DEF none
    <2>2. y \in Sector /\ y.index = none /\ y.flag = x.flag
        BY <1>1, <2>1 DEF Sector
    <2> HIDE DEF y
    <2>3. x.flag \notin CurrentFlags => SectorOK(y)
        BY <2>1, <2>2, NvAssumption DEF SectorOK
    <2> QED
        BY <2>3 DEF y, none
<1> QED
    BY <1>2, <1>3, <1>4

\* What a power loss leaves of a sector.
Left(s, torn) ==
    [flash[s] EXCEPT !.index =
        IF flash[s].flag \notin {"ready", "valid"} THEN <<>>
        ELSE IF s = opSect THEN @ \o torn ELSE @]

\* A power loss keeps every sector well formed and every flag.
LEMMA PowerLossFlash ==
    ASSUME IInv, NEW torn \in {<<>>, <<Blank("torn")>>}, torn # <<>> => pc = "index",
           flash' = [s \in Sectors |-> Left(s, torn)]
    PROVE  FlashOK' /\ \A s \in Sectors : flash'[s].flag = flash[s].flag
<1>1. ASSUME NEW s \in Sectors
      PROVE  SectorOK(Left(s, torn)) /\ Left(s, torn).flag = flash[s].flag
    <2>1. SectorOK(flash[s]) /\ flash[s] \in Sector
        BY DEF IInv, FlashOK, SectorOK
    <2>2. CASE flash[s].flag \notin CurrentFlags
        <3>1. Left(s, torn) = [flash[s] EXCEPT !.index = <<>>]
            BY <2>2 DEF Left, CurrentFlags
        <3> QED
            BY <2>1, <2>2, <3>1, CutSector DEF Sector
    <2>3. CASE flash[s].flag \in CurrentFlags /\ s = opSect
        <3>1. Left(s, torn) = [flash[s] EXCEPT !.index = @ \o torn]
            BY <2>3 DEF Left, CurrentFlags
        <3>2. torn # <<>> => Len(flash[s].index) < IDX_NUM
            BY <2>3 DEF IInv, ProgressOK, Index
        <3> QED
            BY <2>1, <3>1, <3>2, CutSector DEF Sector
    <2>4. CASE flash[s].flag \in CurrentFlags /\ s # opSect
        <3>1. Left(s, torn) = [flash[s] EXCEPT !.index = flash[s].index]
            BY <2>4 DEF Left, CurrentFlags
        <3>2. Left(s, torn) = flash[s]
            BY <2>1, <3>1 DEF Sector
        <3> QED
            BY <2>1, <3>2
    <2> QED
        BY <2>2, <2>3, <2>4
<1>2. flash' \in [Sectors -> Sector] /\ \A s \in Sectors : SectorOK(flash'[s])
    BY <1>1 DEF SectorOK
<1>3. \A s \in Sectors : flash'[s].flag = flash[s].flag
    BY <1>1
<1>4. FlashOK'
    BY <1>2, <1>3 DEF IInv, FlashOK, Flag, Sectors
<1> QED
    BY <1>3, <1>4

\* A power loss keeps the invariant and the current sector.
LEMMA PowerLossSteps ==
    ASSUME IInv, PowerLoss
    PROVE  IInv' /\ FoundSect' = FoundSect
<1>1. PICK torn \in {<<>>, <<Blank("torn")>>} :
         /\ torn # <<>> => pc = "index"
         /\ flash' = [s \in Sectors |-> Left(s, torn)]
    BY DEF PowerLoss, Left
<1>2. FlashOK' /\ \A s \in Sectors : flash'[s].flag = flash[s].flag
    BY <1>1, PowerLossFlash
<1>3. FoundSect' = FoundSect
    BY <1>2, FoundIs DEF FoundIn, Sectors
<1>4. PhaseOK'
    <2>1. 0 \in 0 .. IDX_NUM /\ 0 \in 0 .. IDX_NUM + 1
        BY NvAssumption
    <2> QED
        BY <2>1 DEF PowerLoss, PhaseOK, Sectors, WritePcs
<1>5. SectorsOK' /\ ProgressOK'
    BY DEF PowerLoss, SectorsOK, ProgressOK, WritePcs
<1> QED
    BY <1>2, <1>3, <1>4, <1>5 DEF IInv

\* Every step keeps the inductive invariant.
LEMMA NextKeeps == IInv /\ [Next]_vars => IInv'
<1> SUFFICES ASSUME IInv, [Next]_vars PROVE IInv'
    OBVIOUS
<1>1. CASE \E r \in Requests : Begin(r)
    BY <1>1, BeginKeeps
<1>2. CASE SectorFound \/ SectorMissing \/ RetireOther \/ Validate \/ ReadItem \/ RemoveItem
    BY <1>2, SectorFoundKeeps, SectorMissingKeeps, RetireOtherKeeps, ValidateKeeps,
       ReadItemKeeps, RemoveItemKeeps
<1>3. CASE WriteStep
    BY <1>3, RoomKeeps, SwitchKeeps, CleanKeeps, CleanedKeeps, CopyKeeps, CopiedKeeps,
       NotEnoughSpaceKeeps, WriteIndexKeeps, WriteBodyKeeps, WriteStateKeeps,
       DeleteOldKeeps, ReadyKeeps, FirstKeeps DEF WriteStep
<1>4. CASE PowerLoss \/ PowerOn
    BY <1>4, PowerLossSteps, PowerOnKeeps
<1>5. CASE UNCHANGED vars
    BY <1>5 DEF vars, IInv, FlashOK, PhaseOK, SectorsOK, ProgressOK, FoundSect, Index, Flag
<1> QED
    BY <1>1, <1>2, <1>3, <1>4, <1>5 DEF Next, Step

\* A current sector stays current, or another becomes so.
LEMMA NextFound ==
    ASSUME IInv, [Next]_vars, FoundSect # NoSect
    PROVE  FoundSect' # NoSect
<1>1. ASSUME NEW s \in Sectors, flash'[s].flag \in CurrentFlags
      PROVE  FoundSect' # NoSect
    BY <1>1, FoundIs DEF FoundIn, Sectors, NoSect
<1>2. ASSUME \A s \in Sectors : flash'[s].flag = flash[s].flag
      PROVE  FoundSect' # NoSect
    BY <1>2, FoundIs DEF FoundIn, Sectors
<1>3. flash \in [Sectors -> Sector] /\ opSect \in Sectors /\ Other(opSect) \in Sectors
    BY Working DEF IInv, FlashOK
<1>4. ASSUME UNCHANGED flash
      PROVE  FoundSect' # NoSect
    BY <1>2, <1>4
<1>5. CASE \/ UNCHANGED vars \/ \E r \in Requests : Begin(r)
           \/ SectorFound \/ ReadItem \/ Room \/ Cleaned \/ Copy \/ Copied \/ NotEnoughSpace
           \/ PowerOn
    BY <1>4, <1>5 DEF vars, Begin, SectorFound, ReadItem, Room, Cleaned, Copy, Copied,
       NotEnoughSpace, PowerOn
<1>6. CASE SectorMissing
    BY <1>6 DEF SectorMissing
<1>7. CASE RetireOther \/ Switch
    <2>1. flash'[opSect] = flash[opSect]
        BY <1>3, <1>7 DEF RetireOther, Switch, Sectors, Other
    <2>2. flash[opSect].flag \in CurrentFlags
        BY <1>3, <1>7 DEF IInv, SectorsOK, RetireOther, Switch, Flag, CurrentFlags
    <2> QED
        BY <1>1, <1>3, <2>1, <2>2
<1>8. CASE Validate \/ Ready \/ First
    <2>1. PICK f \in CurrentFlags : SetFlag(opSect, f)
        BY <1>8 DEF Validate, Ready, First, CurrentFlags
    <2>2. flash'[opSect].flag = f
        BY <1>3, <2>1 DEF SetFlag, Sector
    <2> QED
        BY <1>1, <1>3, <2>2
<1>9. CASE RemoveItem \/ Clean \/ WriteIndex \/ WriteBody \/ WriteState \/ DeleteOld
    <2>1. \/ UNCHANGED flash
          \/ \E t \in Sectors : \E i : flash' = [flash EXCEPT ![t].index = i]
        BY <1>3, <1>9 DEF RemoveItem, Clean, WriteIndex, WriteBody, WriteState, DeleteOld,
           MarkInvalid, AppendEntry, LastEntry, Sector
    <2>2. ASSUME NEW t \in Sectors, NEW i, flash' = [flash EXCEPT ![t].index = i]
          PROVE  FoundSect' # NoSect
        BY <1>2, <1>3, <2>2 DEF Sector
    <2> QED
        BY <1>4, <2>1, <2>2
<1>10. CASE PowerLoss
    BY <1>10, PowerLossSteps
<1> QED
    BY <1>5, <1>6, <1>7, <1>8, <1>9, <1>10 DEF Next, Step, WriteStep

-----------------------------------------------------------------------------
(***************************************************************************)
(* Theorems.                                                               *)
(***************************************************************************)
\* The store never leaves the inductive invariant.
THEOREM Inductive == Spec => []IInv
    BY InitKeeps, NextKeeps, PTL DEF Spec

\* Every index stays within MODULE_IDX_NUM, whatever is copied, and the
\* variables of drv_nv.c's requests keep their types.
THEOREM TypeCorrect == Spec => []TypeOK
<1>1. IInv => TypeOK
    <2> SUFFICES ASSUME IInv PROVE TypeOK
        OBVIOUS
    <2>1. DOMAIN flash = Sectors
        BY DEF IInv, FlashOK
    <2>2. \A s \in Sectors :
            /\ DOMAIN flash[s] = {"flag", "index"}
            /\ flash[s].flag \in Flags
            /\ Index(s) \in Seq(Entry)
            /\ Len(Index(s)) <= IDX_NUM
        BY DEF IInv, FlashOK, SectorOK, Sector, Index
    <2>3. wr = NoOp \/ wr \in [kind : {"write", "copy"}, item : Items, val : Vals]
        BY DEF IInv, PhaseOK, Writes, Copies
    <2> QED
        BY <2>1, <2>2, <2>3 DEF IInv, PhaseOK, WritePcs, TypeOK
<1> QED
    BY <1>1, Inductive, PTL

\* nv_sector_read never has two valid sectors to choose from.
THEOREM OneValidSectorHolds == Spec => []OneValidSector
<1>1. IInv => OneValidSector
    BY DEF IInv, FlashOK, OneValidSector, Flag, Sectors
<1> QED
    BY <1>1, Inductive, PTL

\* No entry that counts as valid is half written.
THEOREM NoHalfItemHolds == Spec => []NoHalfItem
<1>1. IInv => NoHalfItem
    BY DEF IInv, FlashOK, SectorOK, NoHalfItem, Index
<1> QED
    BY <1>1, Inductive, PTL

\* Once the module has a current sector it always has one.
THEOREM NeverWithoutSectorHolds == Spec => NeverWithoutSector
<1>1. IInv /\ [Next]_vars => [FoundSect # NoSect => FoundSect' # NoSect]_vars
    <2> SUFFICES ASSUME IInv, [Next]_vars, FoundSect # NoSect PROVE FoundSect' # NoSect
        OBVIOUS
    <2> QED
        BY NextFound
<1> QED
    BY <1>1, Inductive, PTL DEF Spec, NeverWithoutSector

-----------------------------------------------------------------------------
(***************************************************************************)
(* Refinement: what is read from the sectors is the store.  First, what an *)
(* index q holds for an item, whatever sector it is in.                    *)
(***************************************************************************)
At(q, i) == {k \in DOMAIN q : q[k].st = "valid" /\ q[k].item = i}

Last(P) == CHOOSE k \in P : \A j \in P : j <= k

\* Of the entries P of q: the value that counts and those before it.
Newest(q, P)  == IF P = {} THEN None ELSE q[Last(P)].val
Earlier(q, P) == IF P = {} THEN {} ELSE {q[k].val : k \in P \ {Last(P)}}

\* The value that counts, if there is one, as a set.
Counting(q, P) == IF P = {} THEN {} ELSE {Newest(q, P)}

Value(q, i) == Newest(q, At(q, i))
Olds(q, i)  == Earlier(q, At(q, i))

\* The last of some entries.
LEMMA LastIs ==
    ASSUME NEW n \in Nat, NEW P \in SUBSET (1..n), P # {}
    PROVE  /\ Last(P) \in P /\ \A k \in P : k <= Last(P)
           /\ \A m \in P : (\A k \in P : k <= m) => Last(P) = m
<1>1. \E m \in P : \A k \in P : k <= m
    BY Greatest
<1>2. Last(P) \in P /\ \A k \in P : k <= Last(P)
    BY <1>1 DEF Last
<1>3. P \subseteq Int
    OBVIOUS
<1>4. Last(P) \in Int
    BY <1>2, <1>3
<1>5. ASSUME NEW m \in P, \A k \in P : k <= m
      PROVE  Last(P) = m
    <2>1. Last(P) <= m /\ m <= Last(P) /\ m \in Int
        BY <1>2, <1>3, <1>5
    <2> QED
        BY <1>4, <2>1
<1> QED
    BY <1>2, <1>5

\* Two indexes with the same entries hold the same.
LEMMA SameEntries ==
    ASSUME NEW q, NEW r, NEW P, \A k \in P : r[k].val = q[k].val, P # {} => Last(P) \in P
    PROVE  Newest(r, P) = Newest(q, P) /\ Earlier(r, P) = Earlier(q, P)
    BY DEF Newest, Earlier

\* Where P counted in q, P and m count in r: the value of m is the newest.
Counts(q, r, P, m) ==
    /\ Newest(r, P \cup {m}) = r[m].val
    /\ Earlier(r, P \cup {m}) = Earlier(q, P) \cup Counting(q, P)

\* A later entry counts, and the one that did is an earlier one.
LEMMA EntryCounts ==
    ASSUME NEW q, NEW r, NEW m \in Nat \ {0}, NEW P \in SUBSET (1..m),
           \A k \in P : k < m, \A k \in P : r[k].val = q[k].val
    PROVE  Counts(q, r, P, m)
<1> DEFINE R == P \cup {m}
<1>1. R \in SUBSET (1..m) /\ R # {} /\ m \in R /\ \A k \in R : k <= m
    OBVIOUS
<1>2. Last(R) = m
    BY <1>1, LastIs
<1>3. R \ {m} = P
    OBVIOUS
<1>4. Newest(r, R) = r[m].val
    BY <1>1, <1>2 DEF Newest
<1>5. Earlier(r, R) = {r[k].val : k \in P}
    BY <1>1, <1>2, <1>3, Zenon DEF Earlier
<1>6. {r[k].val : k \in P} = {q[k].val : k \in P}
    OBVIOUS
<1>7. {q[k].val : k \in P} = Earlier(q, P) \cup Counting(q, P)
    <2>1. CASE P = {}
        BY <2>1 DEF Earlier, Counting
    <2>2. CASE P # {}
        <3>1. Last(P) \in P
            BY <2>2, LastIs
        <3> DEFINE l == Last(P)
        <3>2. /\ Earlier(q, P) = {q[k].val : k \in P \ {l}}
              /\ Newest(q, P) = q[l].val
            BY <2>2 DEF Earlier, Newest
        <3> HIDE DEF l
        <3>3. {q[k].val : k \in P} = {q[k].val : k \in P \ {l}} \cup {q[l].val}
            BY <3>1 DEF l
        <3> QED
            BY <2>2, <3>2, <3>3 DEF Counting
    <2> QED
        BY <2>1, <2>2
<1> QED
    BY <1>4, <1>5, <1>6, <1>7 DEF Counts

\* An entry less that does not count, or the one that counts.
LEMMA EntryGone ==
    ASSUME NEW q, NEW r, NEW n \in Nat, NEW P \in SUBSET (1..n), NEW m \in P,
           \A k \in P \ {m} : r[k].val = q[k].val
    PROVE  /\ m # Last(P) => /\ Newest(r, P \ {m}) = Newest(q, P)
                             /\ Earlier(r, P \ {m}) \in SUBSET Earlier(q, P)
           /\ m = Last(P) => IF Earlier(q, P) = {}
                             THEN Newest(r, P \ {m}) = None /\ Earlier(r, P \ {m}) = {}
                             ELSE /\ Newest(r, P \ {m}) \in Earlier(q, P)
                                  /\ Earlier(r, P \ {m}) \in SUBSET Earlier(q, P)
<1> DEFINE R == P \ {m}
           l == Last(P)
<1>1. l \in P /\ \A k \in P : k <= l
    BY LastIs
<1>2. R \in SUBSET (1..n)
    OBVIOUS
<1>3. /\ Earlier(q, P) = {q[k].val : k \in P \ {l}}
      /\ Newest(q, P) = q[l].val
    BY <1>1 DEF Earlier, Newest
<1>4. CASE m # l
    <2>1. l \in R /\ \A k \in R : k <= l
        BY <1>1, <1>4
    <2>2. Last(R) = l
        BY <1>2, <2>1, LastIs
    <2>3. Newest(r, R) = q[l].val
        <3>1. R # {}
            BY <2>1
        <3>2. Newest(r, R) = r[l].val
            BY <2>2, <3>1, Zenon DEF Newest
        <3> QED
            BY <2>1, <3>2
    <2>4. Earlier(r, R) = {r[k].val : k \in R \ {l}}
        <3>1. R # {}
            BY <2>1
        <3> QED
            BY <2>2, <3>1, Zenon DEF Earlier
    <2> HIDE DEF l
    <2>5. {r[k].val : k \in R \ {l}} \subseteq {q[k].val : k \in P \ {l}}
        OBVIOUS
    <2> QED
        BY <1>3, <1>4, <2>3, <2>4, <2>5 DEF l
<1>5. CASE m = l
    <2>1. CASE R = {}
        <3>1. P \ {l} = {}
            BY <1>5, <2>1
        <3>2. Earlier(q, P) = {}
            BY <1>3, <3>1
        <3>3. Newest(r, R) = None /\ Earlier(r, R) = {}
            BY <2>1 DEF Newest, Earlier
        <3> QED
            BY <1>5, <3>2, <3>3
    <2>2. CASE R # {}
        <3> DEFINE j == Last(R)
        <3>1. j \in R
            BY <1>2, <2>2, LastIs
        <3>2. Newest(r, R) = r[j].val /\ Earlier(r, R) = {r[k].val : k \in R \ {j}}
            BY <2>2 DEF Newest, Earlier
        <3> HIDE DEF j
        <3>3. r[j].val \in {q[k].val : k \in P \ {l}}
              /\ {r[k].val : k \in R \ {j}} \subseteq {q[k].val : k \in P \ {l}}
            BY <1>5, <3>1
        <3>4. Earlier(q, P) # {}
            BY <1>3, <3>3
        <3> QED
            BY <1>3, <1>5, <3>2, <3>3, <3>4
    <2> QED
        BY <2>1, <2>2
<1> QED
    BY <1>4, <1>5

\* What an index holds for an item lies within it.
LEMMA AtIs ==
    ASSUME NEW q \in Seq(Entry), NEW i
    PROVE  At(q, i) \in SUBSET (1 .. Len(q)) /\ Len(q) \in Nat /\ DOMAIN q = 1 .. Len(q)
    BY DEF At

\* An entry appended that does not count changes nothing.
LEMMA NothingAdded ==
    ASSUME NEW q \in Seq(Entry), NEW r \in Seq(Entry), Len(r) = Len(q) + 1,
           \A j \in DOMAIN q : r[j] = q[j], r[Len(q) + 1].st # "valid"
    PROVE  \A i : At(r, i) = At(q, i) /\ Value(r, i) = Value(q, i) /\ Olds(r, i) = Olds(q, i)
<1> TAKE i
<1>1. DOMAIN q = 1 .. Len(q) /\ DOMAIN r = 1 .. (Len(q) + 1) /\ Len(q) \in Nat
    OBVIOUS
<1>2. At(r, i) = At(q, i)
    BY <1>1 DEF At
<1>3. \A k \in At(q, i) : r[k].val = q[k].val
    BY DEF At
<1>4. At(q, i) # {} => Last(At(q, i)) \in At(q, i)
    BY AtIs, LastIs
<1>5. Newest(r, At(q, i)) = Newest(q, At(q, i)) /\ Earlier(r, At(q, i)) = Earlier(q, At(q, i))
    BY <1>3, <1>4, SameEntries
<1> QED
    BY <1>2, <1>5, Zenon DEF Value, Olds

\* One entry k of the index q becomes e: then the index is r.
Replaced(q, r, k, e) ==
    /\ q \in Seq(Entry) /\ r \in Seq(Entry) /\ Len(r) = Len(q) /\ k \in DOMAIN q
    /\ \A j \in DOMAIN q : r[j] = IF j = k THEN e ELSE q[j]

\* Which entries count when one is rewritten.
LEMMA ReplacedAt ==
    ASSUME NEW q, NEW r, NEW k, NEW e, Replaced(q, r, k, e)
    PROVE  \A i : /\ At(r, i) = (At(q, i) \ {k})
                            \cup (IF e.st = "valid" /\ e.item = i THEN {k} ELSE {})
                  /\ \A j \in At(r, i) \ {k} : r[j] = q[j]
<1>1. DOMAIN r = DOMAIN q /\ k \in DOMAIN q /\ \A j \in DOMAIN q : r[j] = IF j = k THEN e ELSE q[j]
    BY DEF Replaced
<1> QED
    BY <1>1 DEF At

\* An entry that does not count is rewritten and still does not.
LEMMA NothingReplaced ==
    ASSUME NEW q, NEW r, NEW k, NEW e, Replaced(q, r, k, e),
           q[k].st # "valid", e.st # "valid"
    PROVE  \A i : At(r, i) = At(q, i) /\ Value(r, i) = Value(q, i) /\ Olds(r, i) = Olds(q, i)
<1> TAKE i
<1>1. At(r, i) = At(q, i) \ {k} /\ \A j \in At(r, i) \ {k} : r[j] = q[j]
    BY ReplacedAt
<1>2. k \notin At(q, i)
    BY DEF At
<1>3. At(r, i) = At(q, i) /\ \A j \in At(q, i) : r[j].val = q[j].val
    BY <1>1, <1>2
<1>4. At(q, i) # {} => Last(At(q, i)) \in At(q, i)
    BY AtIs, LastIs DEF Replaced
<1>5. Newest(r, At(q, i)) = Newest(q, At(q, i)) /\ Earlier(r, At(q, i)) = Earlier(q, At(q, i))
    BY <1>3, <1>4, SameEntries
<1> QED
    BY <1>3, <1>5, Zenon DEF Value, Olds

\* The last entry of q becomes a valid one of item h with value v, and the index r:
\* its value counts, and that which did is an earlier one.  No other item changes.
AddedAs(q, r, h, v) ==
    /\ At(r, h) = At(q, h) \cup {Len(q)}
    /\ Value(r, h) = v
    /\ Olds(r, h) = Olds(q, h) \cup Counting(q, At(q, h))
    /\ \A k \in At(q, h) : r[k].val = q[k].val
    /\ \A i : i # h => At(r, i) = At(q, i) /\ Value(r, i) = Value(q, i) /\ Olds(r, i) = Olds(q, i)

\* What the last state byte does.
LEMMA LastReplaced ==
    ASSUME NEW q, NEW r, NEW e, Replaced(q, r, Len(q), e),
           q[Len(q)].st # "valid", e.st = "valid"
    PROVE  AddedAs(q, r, e.item, e.val)
<1> DEFINE n == Len(q)
<1>0. q \in Seq(Entry) /\ n \in Nat /\ n \in 1..n /\ r[n] = e
    BY DEF Replaced
<1>1. \A i : n \notin At(q, i) /\ At(q, i) \in SUBSET (1..n)
    BY <1>0 DEF At
<1>2. \A i : At(r, i) = At(q, i) \cup (IF e.item = i THEN {n} ELSE {})
    <2> SUFFICES ASSUME NEW i PROVE At(r, i) = At(q, i) \cup (IF e.item = i THEN {n} ELSE {})
        OBVIOUS
    <2>1. At(r, i) = (At(q, i) \ {n}) \cup (IF e.st = "valid" /\ e.item = i THEN {n} ELSE {})
        BY ReplacedAt
    <2> QED
        BY <1>1, <2>1
<1>3. \A i : \A j \in At(q, i) : r[j].val = q[j].val
    <2> SUFFICES ASSUME NEW i, NEW j \in At(q, i) PROVE r[j].val = q[j].val
        OBVIOUS
    <2>1. j \in DOMAIN q /\ j # n
        BY <1>1 DEF At
    <2> QED
        BY <2>1 DEF Replaced
<1>4. /\ Value(r, e.item) = e.val
      /\ Olds(r, e.item) = Olds(q, e.item)
             \cup Counting(q, At(q, e.item))
    <2> DEFINE P == At(q, e.item)
    <2>1. /\ P \in SUBSET (1..n) /\ n \in Nat \ {0}
          /\ (\A k \in P : k < n) /\ \A k \in P : r[k].val = q[k].val
        BY <1>0, <1>1, <1>3
    <2>2. At(r, e.item) = P \cup {n}
        BY <1>2
    <2> HIDE DEF P, n
    <2>3. Counts(q, r, P, n)
        BY <2>1, EntryCounts, Zenon
    <2> QED
        BY <1>0, <2>2, <2>3, Zenon DEF Counts, Value, Olds, P
<1>5. ASSUME NEW i, i # e.item
      PROVE  At(r, i) = At(q, i) /\ Value(r, i) = Value(q, i) /\ Olds(r, i) = Olds(q, i)
    <2>1. At(r, i) = At(q, i)
        BY <1>2, <1>5
    <2>2. At(q, i) # {} => Last(At(q, i)) \in At(q, i)
        BY <1>0, AtIs, LastIs
    <2>3. Newest(r, At(q, i)) = Newest(q, At(q, i)) /\ Earlier(r, At(q, i)) = Earlier(q, At(q, i))
        BY <1>3, <2>2, SameEntries
    <2> QED
        BY <2>1, <2>3, Zenon DEF Value, Olds
<1>6. At(r, e.item) = At(q, e.item) \cup {Len(q)}
    BY <1>2
<1> QED
    BY <1>3, <1>4, <1>5, <1>6 DEF AddedAs

\* A valid entry of item i is deleted: an earlier one, which leaves the value
\* alone, or the one that counts, which uncovers an earlier one if there is any.
LEMMA EntryDeleted ==
    ASSUME NEW q, NEW r, NEW k, NEW e, NEW i, Replaced(q, r, k, e),
           k \in At(q, i), e.st # "valid"
    PROVE  /\ At(r, i) = At(q, i) \ {k}
           /\ k # Last(At(q, i)) => /\ Value(r, i) = Value(q, i)
                                    /\ Olds(r, i) \in SUBSET Olds(q, i)
           /\ k = Last(At(q, i)) => IF Olds(q, i) = {}
                                    THEN Value(r, i) = None /\ Olds(r, i) = {}
                                    ELSE /\ Value(r, i) \in Olds(q, i)
                                         /\ Olds(r, i) \in SUBSET Olds(q, i)
           /\ \A h : h # i => /\ At(r, h) = At(q, h)
                              /\ Value(r, h) = Value(q, h) /\ Olds(r, h) = Olds(q, h)
<1>0. q \in Seq(Entry)
    BY DEF Replaced
<1>1. \A h : At(r, h) = At(q, h) \ {k} /\ \A j \in At(q, h) \ {k} : r[j].val = q[j].val
    <2> SUFFICES ASSUME NEW h
                 PROVE  At(r, h) = At(q, h) \ {k} /\ \A j \in At(q, h) \ {k} : r[j].val = q[j].val
        OBVIOUS
    <2>1. /\ At(r, h) = (At(q, h) \ {k}) \cup (IF e.st = "valid" /\ e.item = h THEN {k} ELSE {})
          /\ \A j \in At(r, h) \ {k} : r[j] = q[j]
        BY ReplacedAt
    <2> QED
        BY <2>1
<1>2. ASSUME NEW h, h # i
      PROVE  At(r, h) = At(q, h) /\ Value(r, h) = Value(q, h) /\ Olds(r, h) = Olds(q, h)
    <2>1. k \notin At(q, h)
        BY <1>2 DEF At
    <2>2. At(r, h) = At(q, h) /\ \A j \in At(q, h) : r[j].val = q[j].val
        BY <1>1, <2>1
    <2>3. At(q, h) # {} => Last(At(q, h)) \in At(q, h)
        BY <1>0, AtIs, LastIs
    <2>4. Newest(r, At(q, h)) = Newest(q, At(q, h)) /\ Earlier(r, At(q, h)) = Earlier(q, At(q, h))
        BY <2>2, <2>3, SameEntries
    <2> QED
        BY <2>2, <2>4, Zenon DEF Value, Olds
<1> DEFINE P == At(q, i)
<1>3. P \in SUBSET (1 .. Len(q)) /\ Len(q) \in Nat /\ k \in P
    BY <1>0, AtIs
<1>4. At(r, i) = P \ {k} /\ \A j \in P \ {k} : r[j].val = q[j].val
    BY <1>1
<1> HIDE DEF P
<1>5. /\ k # Last(P) => /\ Newest(r, P \ {k}) = Newest(q, P)
                        /\ Earlier(r, P \ {k}) \in SUBSET Earlier(q, P)
      /\ k = Last(P) => IF Earlier(q, P) = {}
                        THEN Newest(r, P \ {k}) = None /\ Earlier(r, P \ {k}) = {}
                        ELSE /\ Newest(r, P \ {k}) \in Earlier(q, P)
                             /\ Earlier(r, P \ {k}) \in SUBSET Earlier(q, P)
    BY <1>3, <1>4, EntryGone
<1>6. /\ Value(r, i) = Newest(r, P \ {k}) /\ Olds(r, i) = Earlier(r, P \ {k})
      /\ Value(q, i) = Newest(q, P) /\ Olds(q, i) = Earlier(q, P)
    BY <1>4, Zenon DEF Value, Olds, P
<1> QED
    BY <1>2, <1>4, <1>5, <1>6 DEF P

-----------------------------------------------------------------------------
(***************************************************************************)
(* What the store holds, by the refinement mapping of NvFlash.             *)
(***************************************************************************)
stored == [i \in Items |-> Stored(i)]
older  == [i \in Items |-> Older(i)]
asked  == IF TookEffect THEN [kind |-> "applied", item |-> op.item, kept |-> Kept] ELSE op

\* The index of the sector nv_sector_read stops at, in the flash f.
Content(f) == IF FoundIn(f) = NoSect THEN <<>> ELSE f[FoundIn(f)].index

\* The store is what that index holds.
Seen ==
    FlashOK => /\ stored = [i \in Items |-> Value(Content(flash), i)]
               /\ older = [i \in Items |-> Olds(Content(flash), i)]

\* Every entry that counts is complete, so that a read returns it.
LEMMA SeenNow == Seen
<1> SUFFICES ASSUME FlashOK, NEW i \in Items
             PROVE  Stored(i) = Value(Content(flash), i) /\ Older(i) = Olds(Content(flash), i)
    BY DEF Seen, stored, older
<1>1. FoundSect = FoundIn(flash)
    BY FoundIs
<1>2. CASE FoundSect = NoSect
    <2>1. Content(flash) = <<>>
        BY <1>1, <1>2 DEF Content
    <2>2. At(<<>>, i) = {}
        BY DEF At
    <2> QED
        BY <1>2, <2>1, <2>2 DEF Stored, Older, Value, Olds, Newest, Earlier
<1>3. CASE FoundSect # NoSect
    <2> DEFINE s == FoundSect
               q == Index(s)
    <2>1. s \in Sectors
        BY <1>1, <1>3 DEF FoundIn, Sectors
    <2>2. SectorOK(flash[s]) /\ q \in Seq(Entry) /\ Content(flash) = q
        BY <1>1, <1>3, <2>1 DEF FlashOK, SectorOK, Sector, Index, Content
    <2>3. ValidAt(s, i) = At(q, i)
        BY DEF ValidAt, At
    <2>4. LastValid(s, i) = IF At(q, i) = {} THEN 0 ELSE Last(At(q, i))
        BY <2>3 DEF LastValid, Last
    <2>5. At(q, i) \in SUBSET (1 .. Len(q)) /\ Len(q) \in Nat /\ DOMAIN q = 1 .. Len(q)
        BY <2>2, AtIs
    <2>6. CASE At(q, i) = {}
        BY <1>3, <2>2, <2>3, <2>4, <2>6 DEF Stored, Older, Value, Olds, Newest, Earlier
    <2>7. CASE At(q, i) # {}
        <3> DEFINE l == Last(At(q, i))
        <3>1. l \in At(q, i)
            BY <2>5, <2>7, LastIs
        <3>2. l # 0 /\ l \in DOMAIN q /\ q[l].st = "valid"
            BY <2>5, <3>1 DEF At
        <3>3. q[l].ok
            BY <2>2, <3>2 DEF SectorOK, Index
        <3>4. LastValid(s, i) = l
            BY <2>4, <2>7
        <3> HIDE DEF l
        <3>5. Stored(i) = q[l].val
            BY <1>3, <3>2, <3>3, <3>4 DEF Stored
        <3>6. Older(i) = {q[k].val : k \in At(q, i) \ {l}}
            BY <1>3, <2>3, <3>4 DEF Older
        <3>7. Value(q, i) = q[l].val /\ Olds(q, i) = {q[k].val : k \in At(q, i) \ {l}}
            BY <2>7 DEF Value, Olds, Newest, Earlier, l
        <3> QED
            BY <2>2, <3>5, <3>6, <3>7
    <2> QED
        BY <2>6, <2>7
<1> QED
    BY <1>2, <1>3

\* The same after a step.
LEMMA SeenNext == Seen'
    BY SeenNow, PTL

\* What an item has is a value or None, and older values.
LEMMA HeldTypes ==
    ASSUME FlashOK, NEW i \in Items
    PROVE  /\ stored[i] \in Vals \cup {None} /\ older[i] \in SUBSET Vals
           /\ stored[i] = Value(Content(flash), i) /\ older[i] = Olds(Content(flash), i)
           /\ At(Content(flash), i) = {} => stored[i] = None /\ older[i] = {}
           /\ At(Content(flash), i) # {} => stored[i] \in Vals
<1> DEFINE q == Content(flash)
<1>1. stored[i] = Value(q, i) /\ older[i] = Olds(q, i)
    BY SeenNow DEF Seen
<1>2. q \in Seq(Entry) /\ \A k \in At(q, i) : q[k].val \in Vals
    <2>1. CASE FoundIn(flash) = NoSect
        BY <2>1 DEF Content, At
    <2>2. CASE FoundIn(flash) # NoSect
        <3>1. FoundIn(flash) \in Sectors
            BY <2>2 DEF FoundIn, Sectors
        <3>2. q = flash[FoundIn(flash)].index /\ SectorOK(flash[FoundIn(flash)])
            BY <2>2, <3>1 DEF Content, FlashOK
        <3> HIDE DEF q
        <3> QED
            BY <3>2 DEF SectorOK, Sector, At
    <2> QED
        BY <2>1, <2>2
<1>3. At(q, i) # {} => Last(At(q, i)) \in At(q, i)
    BY <1>2, AtIs, LastIs
<1> HIDE DEF q
<1>4. CASE At(q, i) = {}
    BY <1>1, <1>4 DEF Value, Olds, Newest, Earlier, q
<1>5. CASE At(q, i) # {}
    <2>1. Value(q, i) \in Vals /\ Olds(q, i) \in SUBSET Vals
        BY <1>2, <1>3, <1>5 DEF Value, Olds, Newest, Earlier
    <2> QED
        BY <1>1, <1>5, <2>1 DEF q
<1> QED
    BY <1>4, <1>5

\* A step that leaves what the current index holds alone is not seen.
LEMMA NotSeen ==
    ASSUME FlashOK, FlashOK',
           \A i \in Items : /\ Value(Content(flash'), i) = Value(Content(flash), i)
                            /\ Olds(Content(flash'), i) = Olds(Content(flash), i)
    PROVE  stored' = stored /\ older' = older
<1>1. /\ stored = [i \in Items |-> Value(Content(flash), i)]
      /\ older = [i \in Items |-> Olds(Content(flash), i)]
    BY SeenNow DEF Seen
<1>2. /\ stored' = [i \in Items |-> Value(Content(flash'), i)]
      /\ older' = [i \in Items |-> Olds(Content(flash'), i)]
    BY SeenNext DEF Seen
<1>3. /\ [i \in Items |-> Value(Content(flash'), i)] = [i \in Items |-> Value(Content(flash), i)]
      /\ [i \in Items |-> Olds(Content(flash'), i)] = [i \in Items |-> Olds(Content(flash), i)]
    OBVIOUS
<1> QED
    BY <1>1, <1>2, <1>3, Zenon

\* A step that changes one item.
LEMMA OneItemSeen ==
    ASSUME FlashOK, FlashOK', NEW h \in Items,
           \A i \in Items : i # h => /\ Value(Content(flash'), i) = Value(Content(flash), i)
                                     /\ Olds(Content(flash'), i) = Olds(Content(flash), i)
    PROVE  /\ stored' = [stored EXCEPT ![h] = Value(Content(flash'), h)]
           /\ older' = [older EXCEPT ![h] = Olds(Content(flash'), h)]
<1>1. /\ stored = [i \in Items |-> Value(Content(flash), i)]
      /\ older = [i \in Items |-> Olds(Content(flash), i)]
    BY SeenNow DEF Seen
<1>2. /\ stored' = [i \in Items |-> Value(Content(flash'), i)]
      /\ older' = [i \in Items |-> Olds(Content(flash'), i)]
    BY SeenNext DEF Seen
<1> QED
    BY <1>1, <1>2

-----------------------------------------------------------------------------
(***************************************************************************)
(* The steps of the store, in terms of what is seen.                       *)
(***************************************************************************)
StoreStep == [Store!Next]_<<stored, older, asked>>

AskedFor(i, kept) == [kind |-> "applied", item |-> i, kept |-> kept]

\* Until a write takes effect what is asked is the request.
LEMMA AskedIs ==
    /\ pc \notin {"delete", "retire", "validate"} => asked = op
    /\ pc' \notin {"delete", "retire", "validate"} => asked' = op'
    /\ pc \in {"retire", "validate"} /\ ~sectorUpdate => asked = op
    /\ pc' \in {"retire", "validate"} /\ ~sectorUpdate' => asked' = op'
    BY DEF asked, TookEffect

\* What the kinds of requests are.
LEMMA RequestKinds ==
    /\ \A r \in Requests : r.item \in Items /\ r.kind \in {"write", "remove", "read"}
    /\ \A r \in Requests : r.kind = "write" <=> r \in Writes
    /\ Writes \subseteq Requests
    /\ \A r \in Writes : r.item \in Items /\ r.val \in Vals
    BY DEF Requests, Writes

\* Nothing is seen of a step.
LEMMA StepUnseen ==
    ASSUME UNCHANGED <<stored, older, asked>> PROVE StoreStep
    BY DEF StoreStep

\* A request ends without any effect.
LEMMA StepAnswers ==
    ASSUME asked = op, op \in Requests, asked' = NoOp, UNCHANGED <<stored, older>>,
           op.kind = "remove" => stored[op.item] = None
    PROVE  StoreStep
<1>1. asked.kind \in {"read", "remove", "write"} /\ (asked.kind = "remove" => stored[asked.item] = None)
    BY RequestKinds
<1>2. Store!Answer
    BY <1>1 DEF Store!Answer, Store!NoReq, NoOp, asked, stored, older
<1> QED
    BY <1>2 DEF StoreStep, Store!Next

\* A write takes effect.  The value replaced is discarded with it, or later.
LEMMA StepWrites ==
    ASSUME asked = op, op \in Writes, NEW left,
           stored' = [stored EXCEPT ![op.item] = op.val],
           older' = [older EXCEPT ![op.item] = left],
           left \in SUBSET (older[op.item] \cup ({stored[op.item]} \ {None})),
           \/ left \subseteq older[op.item] /\ asked' = NoOp
           \/ \E kept \in SUBSET older[op.item] : asked' = AskedFor(op.item, kept)
    PROVE  StoreStep
<1>1. /\ asked.kind = "write"
      /\ stored' = [stored EXCEPT ![asked.item] = asked.val]
      /\ older' = [older EXCEPT ![asked.item] = left]
      /\ left \in SUBSET (older[asked.item] \cup ({stored[asked.item]} \ {None}))
      /\ \/ left \subseteq older[asked.item] /\ asked' = [kind |-> "none"]
         \/ \E kept \in SUBSET older[asked.item] :
                asked' = [kind |-> "applied", item |-> asked.item, kept |-> kept]
    BY RequestKinds DEF NoOp, AskedFor
<1>2. Store!Write
    BY <1>1 DEF Store!Write, Store!NoReq, Store!Applied, asked, stored, older
<1> QED
    BY <1>2 DEF StoreStep, Store!Next

\* A write that has taken effect returns.
LEMMA StepReturns ==
    ASSUME NEW i, NEW kept, asked = AskedFor(i, kept), NEW left \in SUBSET kept,
           older' = [older EXCEPT ![i] = left], asked' = NoOp, stored' = stored
    PROVE  StoreStep
<1>1. /\ asked.kind = "applied"
      /\ left \in SUBSET asked.kept
      /\ older' = [older EXCEPT ![asked.item] = left]
      /\ asked' = [kind |-> "none"] /\ stored' = stored
    BY DEF NoOp, AskedFor
<1>2. Store!Return
    BY <1>1 DEF Store!Return, Store!NoReq, asked, stored, older
<1> QED
    BY <1>2 DEF StoreStep, Store!Next

\* A removal deletes the value that counts, and may uncover an older one.
LEMMA StepRemoves ==
    ASSUME asked = op, op \in Requests, op.kind = "remove", asked' = NoOp, NEW v, NEW left,
           stored' = [stored EXCEPT ![op.item] = v],
           older' = [older EXCEPT ![op.item] = left], older \in [Items -> SUBSET Vals],
           IF older[op.item] = {} THEN v = None /\ left = {}
                                  ELSE v \in older[op.item] /\ left \in SUBSET older[op.item]
    PROVE  StoreStep
<1>1. op.item \in Items
    BY RequestKinds
<1>2. IF older[asked.item] = {}
      THEN stored' = [stored EXCEPT ![asked.item] = None] /\ older' = older
      ELSE \E w \in older[asked.item], gone \in SUBSET older[asked.item] :
              /\ stored' = [stored EXCEPT ![asked.item] = w]
              /\ older' = [older EXCEPT ![asked.item] = gone]
    <2>1. CASE older[op.item] = {}
        <3>1. older' = older
            BY <1>1, <2>1
        <3> QED
            BY <2>1, <3>1
    <2>2. CASE older[op.item] # {}
        BY <2>2
    <2> QED
        BY <2>1, <2>2
<1>3. asked.kind = "remove" /\ asked' = [kind |-> "none"]
    BY DEF NoOp
<1>4. Store!Remove
    BY <1>2, <1>3 DEF Store!Remove, Store!NoReq, asked, stored, older
<1> QED
    BY <1>4 DEF StoreStep, Store!Next

\* Older values are discarded.
LEMMA StepSettles ==
    ASSUME older' \in [Items -> SUBSET Vals], UNCHANGED <<stored, asked>>,
           \A i \in Items : older'[i] \subseteq older[i]
    PROVE  StoreStep
<1>1. \E left \in [Items -> SUBSET Vals] :
         (\A i \in Items : left[i] \subseteq older[i]) /\ older' = left
    OBVIOUS
<1>2. Store!Settle
    BY <1>1 DEF Store!Settle, asked, stored, older
<1> QED
    BY <1>2 DEF StoreStep, Store!Next

\* The power fails.
LEMMA StepPowerLoss ==
    ASSUME UNCHANGED <<stored, older>>, asked' = NoOp
    PROVE  StoreStep
<1>1. Store!PowerLoss
    BY DEF Store!PowerLoss, Store!NoReq, NoOp, asked, stored, older
<1> QED
    BY <1>1 DEF StoreStep, Store!Next

\* A request is made.
LEMMA StepAsks ==
    ASSUME NEW r \in Requests, asked = NoOp, asked' = r, UNCHANGED <<stored, older>>
    PROVE  StoreStep
<1>1. Store!Ask(r)
    BY DEF Store!Ask, Store!NoReq, NoOp, asked, stored, older
<1>2. \E q \in Store!Requests : Store!Ask(q)
    BY <1>1 DEF Store!Requests, Requests
<1> QED
    BY <1>2 DEF StoreStep, Store!Next

-----------------------------------------------------------------------------
(***************************************************************************)
(* What a write has done so far: the second part of the invariant.         *)
(***************************************************************************)
NewIndex == Index(opSect)
OldIndex == Index(Other(opSect))

\* nv_index_read on the index q.
LastAt(q, i) == IF At(q, i) = {} THEN 0 ELSE Last(At(q, i))

\* The entries of item i in q before index c.
Before(q, i, c) == {k \in At(q, i) : k < c}

\* What q holds of item i is what o holds of it before index c.
Moved(q, o, i, c) ==
    /\ At(q, i) = {} <=> Before(o, i, c) = {}
    /\ Value(q, i) = Newest(o, Before(o, i, c))
    /\ Olds(q, i) = Earlier(o, Before(o, i, c))

\* The old sector's index up to which everything was copied.
MovedTo ==
    IF pc = "copy" THEN copyIdx ELSE IF copyIdx = 0 THEN IDX_NUM + 1 ELSE copyIdx - 1

\* The new item is in the new sector, once.
Renewed(q) == At(q, op.item) # {} /\ Value(q, op.item) = op.val /\ Olds(q, op.item) = {}

\* A move: the other items are copied in their order, the new one comes last.
MoveOK ==
    sectorUpdate =>
      /\ pc \in {"copy", "index", "body", "state", "ready", "retire"} =>
           \A i \in Items \ {op.item} : Moved(NewIndex, OldIndex, i, MovedTo)
      /\ pc \in {"copy", "index", "body", "state"} => At(NewIndex, op.item) = {}
      /\ pc \in {"index", "body", "state"} /\ copyIdx # 0 =>
           /\ copyIdx - 1 \in At(OldIndex, wr.item) /\ OldIndex[copyIdx - 1].val = wr.val
           /\ wr.item # op.item
      /\ pc \in {"ready", "retire", "validate"} => op \in Writes /\ Renewed(NewIndex)
      /\ pc \in {"ready", "retire"} => copyIdx = 0 /\ Flag(Other(opSect)) = "valid"

\* A write in place: the entry to be deleted is the one that counted, and only
\* an empty module gets its first sector flag.
PlaceOK ==
    /\ pc \in {"idle", "off"} => op = NoOp
    /\ pc \in {"retire", "validate"} /\ ~sectorUpdate => opSect = FoundSect
    /\ pc \in {"body", "state"} =>
         deleteIdx = IF copyIdx = 0 THEN LastAt(NewIndex, op.item) ELSE 0
    /\ pc = "index" /\ ~sectorUpdate => (Len(NewIndex) = 0 <=> FoundSect = NoSect)
    /\ pc \in {"body", "state"} /\ ~sectorUpdate => (Len(NewIndex) = 1 <=> FoundSect = NoSect)
    /\ pc = "delete" =>
         /\ ~sectorUpdate /\ FoundSect # NoSect
         /\ deleteIdx \in At(NewIndex, op.item) /\ Len(NewIndex) \in At(NewIndex, op.item)
         /\ deleteIdx < Len(NewIndex)
    /\ pc = "first" =>
         /\ FoundSect = NoSect /\ Renewed(NewIndex)
         /\ \A i \in Items \ {op.item} : At(NewIndex, i) = {}

WInv == MoveOK /\ PlaceOK

\* Two indexes that hold the same.
SameHeld(q, r) ==
    \A i : At(r, i) = At(q, i) /\ Value(r, i) = Value(q, i) /\ Olds(r, i) = Olds(q, i)

\* nv_index_read finds the same in both.
LEMMA SameLast ==
    ASSUME NEW q, NEW r, SameHeld(q, r), NEW i
    PROVE  LastAt(r, i) = LastAt(q, i)
    BY DEF SameHeld, LastAt

\* nv_index_read in a sector.
LEMMA LastValidAt ==
    ASSUME NEW s, NEW i
    PROVE  LastValid(s, i) = LastAt(Index(s), i)
    BY DEF LastValid, LastAt, ValidAt, At, Last

\* No flag and no other sector changes; q is the index worked on, then r.
IndexOnly(q, r) ==
    /\ flash[opSect].index = q /\ flash'[opSect].index = r
    /\ flash'[Other(opSect)] = flash[Other(opSect)]
    /\ flash'[opSect].flag = flash[opSect].flag
    /\ FoundSect' = FoundSect

\* What an index entry added does.
LEMMA WriteIndexDoes ==
    ASSUME IInv, WriteIndex
    PROVE  \E r \in Seq(Entry) : /\ IndexOnly(NewIndex, r) /\ SameHeld(NewIndex, r)
                                 /\ Len(r) = Len(NewIndex) + 1
<1> DEFINE q == NewIndex
           r == flash'[opSect].index
<1>1. /\ flash' = [flash EXCEPT ![opSect].index = Append(@, Blank("operation"))]
      /\ pc = "index"
    BY DEF WriteIndex, AppendEntry
<1>2. Len(q) < IDX_NUM
    BY <1>1 DEF IInv, ProgressOK, NewIndex
<1>3. "operation" \in States \ {"valid"}
    BY DEF States
<1>4. /\ FlashOK' /\ FoundSect' = FoundSect /\ flash'[Other(opSect)] = flash[Other(opSect)]
      /\ flash'[opSect].flag = flash[opSect].flag
      /\ Len(r) = Len(q) + 1
      /\ r[Len(q) + 1] = Blank("operation")
      /\ \A j \in DOMAIN q : r[j] = q[j]
    BY <1>1, <1>2, <1>3, Working, EntryAdded DEF IInv, Index, NewIndex
<1>5. q \in Seq(Entry) /\ r \in Seq(Entry)
    BY <1>4, Working DEF FlashOK, SectorOK, Sector, NewIndex
<1>6. r[Len(q) + 1].st # "valid"
    BY <1>3, <1>4, BlankEntry
<1>7. q = flash[opSect].index
    BY DEF NewIndex, Index
<1> HIDE DEF q, r
<1>8. SameHeld(q, r)
    BY <1>4, <1>5, <1>6, NothingAdded DEF SameHeld
<1>9. IndexOnly(q, r)
    BY <1>4, <1>7 DEF IndexOnly, r
<1> QED
    BY <1>4, <1>5, <1>8, <1>9 DEF q

\* What an entry rewritten does.
LEMMA RewriteDoes ==
    ASSUME IInv, NEW k \in DOMAIN NewIndex, NEW e \in Entry,
           e.st = "valid" => e.ok /\ e.item \in Items /\ e.val \in Vals,
           flash' = [flash EXCEPT ![opSect].index[k] = e]
    PROVE  \E r \in Seq(Entry) : IndexOnly(NewIndex, r) /\ Replaced(NewIndex, r, k, e)
<1> DEFINE q == NewIndex
           r == flash'[opSect].index
<1>1. /\ FlashOK' /\ FoundSect' = FoundSect /\ flash'[Other(opSect)] = flash[Other(opSect)]
      /\ flash'[opSect].flag = flash[opSect].flag
      /\ Len(r) = Len(q)
      /\ \A j \in DOMAIN q : r[j] = IF j = k THEN e ELSE q[j]
    <2>1. FlashOK /\ opSect \in Sectors /\ k \in DOMAIN Index(opSect)
        BY Working DEF IInv, NewIndex
    <2>2. /\ FlashOK'
          /\ FoundSect' = FoundSect
          /\ flash'[Other(opSect)] = flash[Other(opSect)] /\ Other(opSect) \in Sectors
          /\ \A t \in Sectors : flash'[t].flag = flash[t].flag
                                /\ Len(flash'[t].index) = Len(flash[t].index)
                                /\ DOMAIN flash'[t].index = DOMAIN flash[t].index
          /\ \A j \in DOMAIN flash[opSect].index :
                flash'[opSect].index[j] = IF j = k THEN e ELSE flash[opSect].index[j]
        BY <2>1, EntryWritten, Zenon
    <2> QED
        BY <2>1, <2>2 DEF NewIndex, Index
<1>2. q \in Seq(Entry) /\ r \in Seq(Entry)
    BY <1>1, Working DEF FlashOK, SectorOK, Sector, NewIndex
<1>3. q = flash[opSect].index
    BY DEF NewIndex, Index
<1> HIDE DEF q, r
<1>4. Replaced(q, r, k, e)
    BY <1>1, <1>2 DEF Replaced, q
<1>5. IndexOnly(q, r)
    BY <1>1, <1>3 DEF IndexOnly, r
<1> QED
    BY <1>2, <1>4, <1>5 DEF q

\* What the payload and its header do: nothing that is seen yet.
LEMMA WriteBodyDoes ==
    ASSUME IInv, WriteBody
    PROVE  \E r \in Seq(Entry) : /\ IndexOnly(NewIndex, r) /\ SameHeld(NewIndex, r)
                                 /\ Len(r) = Len(NewIndex)
<1> DEFINE n == Len(NewIndex)
           e == [NewIndex[n] EXCEPT !.ok = TRUE]
<1>1. pc = "body" /\ flash' = [flash EXCEPT ![opSect].index[n].ok = TRUE]
    BY DEF WriteBody, NewIndex
<1>2. deleteIdx < n /\ NewIndex[n].st = "operation" /\ deleteIdx \in Nat
    BY <1>1, NvAssumption DEF IInv, ProgressOK, PhaseOK, NewIndex
<1>3. n \in DOMAIN NewIndex /\ NewIndex[n] \in Entry
    BY <1>2, Working DEF NewIndex
<1>4. e \in Entry /\ e.st = "operation"
    <2> DEFINE a == NewIndex[n]
    <2>1. a \in Entry /\ a.st = "operation"
        BY <1>2, <1>3
    <2> HIDE DEF a
    <2>2. [a EXCEPT !.ok = TRUE] \in Entry /\ [a EXCEPT !.ok = TRUE].st = "operation"
        BY <2>1 DEF Entry
    <2> QED
        BY <2>2 DEF a
<1>5. flash' = [flash EXCEPT ![opSect].index[n] = e]
    BY <1>1, <1>3, Working DEF Index, IInv, FlashOK, Sector, NewIndex
<1> HIDE DEF n, e
<1>6. PICK r \in Seq(Entry) : IndexOnly(NewIndex, r) /\ Replaced(NewIndex, r, n, e)
    BY <1>3, <1>4, <1>5, RewriteDoes
<1>7. SameHeld(NewIndex, r)
    BY <1>2, <1>4, <1>6, NothingReplaced DEF SameHeld
<1> QED
    BY <1>6, <1>7 DEF Replaced

\* The state byte makes the entry one of the item written.
Added(q, r) == AddedAs(q, r, wr.item, wr.val)

\* What the state byte does.
LEMMA WriteStateDoes ==
    ASSUME IInv, WriteState
    PROVE  /\ \E r \in Seq(Entry) : /\ IndexOnly(NewIndex, r) /\ Added(NewIndex, r)
                                    /\ Len(r) = Len(NewIndex)
           /\ NewIndex \in Seq(Entry) /\ NewIndex[Len(NewIndex)].st # "valid"
           /\ deleteIdx < Len(NewIndex) /\ deleteIdx \in Nat /\ Len(NewIndex) \in Nat
<1> DEFINE n == Len(NewIndex)
           e == [st |-> "valid", item |-> wr.item, val |-> wr.val, ok |-> NewIndex[n].ok]
<1>1. pc = "state" /\ flash' = [flash EXCEPT ![opSect].index[n] = e]
    BY DEF WriteState, LastEntry, NewIndex
<1>2. deleteIdx < n /\ NewIndex[n].ok /\ deleteIdx \in Nat /\ NewIndex[n].st = "operation"
    BY <1>1, NvAssumption DEF IInv, ProgressOK, PhaseOK, NewIndex
<1>3. n \in DOMAIN NewIndex /\ NewIndex[n] \in Entry /\ NewIndex \in Seq(Entry) /\ n \in Nat
    BY <1>2, Working DEF NewIndex
<1>4. wr.item \in Items /\ wr.val \in Vals
    BY <1>1 DEF IInv, PhaseOK, Writes, Copies, WritePcs
<1>5. /\ e \in Entry /\ e.ok /\ e.item \in Items /\ e.val \in Vals
      /\ e.st = "valid" /\ e.item = wr.item /\ e.val = wr.val
    <2>1. NewIndex[n].ok \in BOOLEAN
        BY <1>3 DEF Entry
    <2> QED
        BY <1>2, <1>4, <2>1 DEF Entry, States
<1> HIDE DEF e
<1>6. PICK r \in Seq(Entry) : IndexOnly(NewIndex, r) /\ Replaced(NewIndex, r, Len(NewIndex), e)
    BY <1>1, <1>3, <1>5, RewriteDoes
<1>7. Added(NewIndex, r)
    <2>1. NewIndex[Len(NewIndex)].st # "valid"
        BY <1>2
    <2>2. AddedAs(NewIndex, r, e.item, e.val)
        BY <1>5, <1>6, <2>1, LastReplaced, Zenon
    <2> QED
        BY <1>5, <2>2 DEF Added
<1> QED
    BY <1>2, <1>3, <1>6, <1>7 DEF Replaced

\* Nothing is in progress in these phases.
LEMMA QuietWInv ==
    ASSUME pc' \in {"idle", "off", "sector", "search", "clean"},
           pc' \in {"idle", "off"} => op' = NoOp
    PROVE  WInv'
    BY DEF WInv, MoveOK, PlaceOK

\* A request begins, ends or is cut off, and a move begins.
LEMMA QuietSteps ==
    ASSUME WInv, \/ \E r \in Requests : Begin(r)
                 \/ SectorMissing \/ ReadItem \/ RemoveItem \/ Switch \/ Clean \/ NotEnoughSpace
                 \/ First \/ PowerLoss \/ PowerOn \/ Validate
    PROVE  WInv'
<1>1. /\ pc' \in {"idle", "off", "sector", "search", "clean"}
      /\ pc' \in {"idle", "off"} => op' = NoOp
    BY DEF WInv, PlaceOK, Begin, SectorMissing, ReadItem, RemoveItem, Switch, Clean, NotEnoughSpace, First,
       PowerLoss, PowerOn, Validate, Return, ram
<1> QED
    BY <1>1, QuietWInv

\* nv_sector_read goes on with the sector it found.
LEMMA SectorFoundWInv ==
    ASSUME IInv, SectorFound
    PROVE  WInv'
<1>1. FoundSect' = FoundSect /\ opSect' = FoundSect /\ pc' \in {"retire", "search"} /\ ~sectorUpdate'
    BY SameFlash DEF IInv, SectorFound, PhaseOK
<1> QED
    BY <1>1 DEF WInv, MoveOK, PlaceOK

\* The other sector is retired.
LEMMA RetireOtherWInv ==
    ASSUME IInv, WInv, RetireOther
    PROVE  WInv'
<1>1. /\ pc = "retire" /\ pc' = "validate" /\ UNCHANGED ram
      /\ flash' = [flash EXCEPT ![Other(opSect)] = [flag |-> "invalid", index |-> <<>>]]
    BY DEF RetireOther
<1>2. opSect \in Sectors /\ Other(opSect) \in Sectors /\ Other(opSect) # opSect
    BY DEF IInv, PhaseOK, Sectors, Other
<1>3. flash'[opSect] = flash[opSect] /\ flash'[Other(opSect)].flag = "invalid"
    BY <1>1, <1>2 DEF IInv, FlashOK
<1>4. flash[opSect].flag = "ready"
    BY <1>1 DEF IInv, SectorsOK, Flag
<1>5. FoundSect' = opSect
    BY <1>2, <1>3, <1>4, FoundIs DEF FoundIn, CurrentFlags, Sectors, Other
<1>6. PlaceOK'
    BY <1>1, <1>5 DEF PlaceOK, ram
<1>7. MoveOK'
    <2>1. NewIndex' = NewIndex
        BY <1>1, <1>3 DEF NewIndex, Index, ram
    <2>2. sectorUpdate => op \in Writes /\ Renewed(NewIndex)
        BY <1>1 DEF WInv, MoveOK
    <2> QED
        BY <1>1, <2>1, <2>2 DEF MoveOK, Renewed, ram
<1> QED
    BY <1>6, <1>7 DEF WInv

\* A write in place begins.
LEMMA RoomWInv ==
    ASSUME IInv, Room
    PROVE  WInv'
<1>1. /\ pc = "search" /\ pc' = "index" /\ UNCHANGED <<flash, op, opSect, sectorUpdate, copyIdx>>
      /\ ~sectorUpdate
    BY DEF IInv, PhaseOK, Room
<1>2. FoundSect' = FoundSect /\ NewIndex' = NewIndex
    BY <1>1, SameFlash DEF IInv, NewIndex, Index
<1>3. Len(NewIndex) = 0 <=> FoundSect = NoSect
    <2>1. CASE FoundSect = NoSect
        BY <1>1, <2>1 DEF IInv, SectorsOK, NewIndex, Sectors, NoSect, PhaseOK
    <2>2. CASE FoundSect # NoSect
        <3>1. Flag(opSect) = "valid"
            BY <1>1, <2>2 DEF IInv, SectorsOK
        <3> QED
            BY <2>2, <3>1, Working DEF IInv, FlashOK, SectorOK, CurrentFlags, NewIndex, Index, Flag
    <2> QED
        BY <2>1, <2>2
<1> QED
    BY <1>1, <1>2, <1>3 DEF WInv, MoveOK, PlaceOK

\* The copy starts with nothing.
LEMMA CleanedWInv ==
    ASSUME IInv, Cleaned
    PROVE  WInv'
<1>1. /\ pc = "clean" /\ pc' = "copy" /\ copyIdx' = 1 /\ sectorUpdate
      /\ UNCHANGED <<flash, op, opSect, sectorUpdate>>
    BY DEF IInv, PhaseOK, Cleaned
<1>2. NewIndex' = NewIndex /\ OldIndex' = OldIndex /\ MovedTo' = 1
    BY <1>1 DEF NewIndex, OldIndex, Index, Other, MovedTo
<1>3. \A i : At(NewIndex, i) = {}
    <2>1. DOMAIN NewIndex = {}
        BY <1>1, Working DEF IInv, ProgressOK, NewIndex
    <2> QED
        BY <2>1 DEF At
<1>4. \A i : Before(OldIndex, i, 1) = {}
    <2>1. OldIndex \in Seq(Entry)
        BY Working DEF IInv, FlashOK, SectorOK, Sector, OldIndex, Index
    <2>2. \A i : \A k \in At(OldIndex, i) : ~(k < 1)
        BY <2>1, AtIs
    <2> QED
        BY <2>2 DEF Before
<1>5. \A i : Moved(NewIndex, OldIndex, i, 1)
    BY <1>3, <1>4 DEF Moved, Value, Olds, Newest, Earlier
<1> QED
    BY <1>1, <1>2, <1>3, <1>5 DEF WInv, MoveOK, PlaceOK

\* Between what was copied and the entries left there is none of another item.
LEMMA CopiedSoFar ==
    ASSUME IInv, NEW i \in Items, i # op.item, NEW c \in Nat, copyIdx <= c,
           pc = "copy", \A k \in ToCopy : k >= c
    PROVE  Before(OldIndex, i, c) = Before(OldIndex, i, copyIdx)
<1>1. OldIndex \in Seq(Entry) /\ OldIndex = Index(Other(opSect)) /\ copyIdx \in Nat
    BY Working, NvAssumption DEF IInv, FlashOK, SectorOK, Sector, OldIndex, Index, PhaseOK
<1>2. At(OldIndex, i) \in SUBSET Nat
    BY <1>1, AtIs
<1>3. ASSUME NEW k \in At(OldIndex, i), k < c
      PROVE  k < copyIdx
    <2>1. k >= copyIdx => k \in ToCopy
        BY <1>1, <1>3 DEF ToCopy, At
    <2> QED
        BY <1>1, <1>2, <1>3, <2>1
<1>4. \A k \in At(OldIndex, i) : k < copyIdx => k < c
    BY <1>1, <1>2
<1> QED
    BY <1>3, <1>4 DEF Before

\* The next entry of another item is to be copied.
LEMMA CopyWInv ==
    ASSUME IInv, WInv, Copy
    PROVE  WInv'
<1> DEFINE o == OldIndex
           k == CHOOSE k \in ToCopy : \A j \in ToCopy : k <= j
<1>1. /\ pc = "copy" /\ pc' = "index" /\ sectorUpdate
      /\ UNCHANGED <<flash, op, opSect, sectorUpdate, deleteIdx>> /\ ToCopy # {}
      /\ wr' = [kind |-> "copy", item |-> o[k].item, val |-> o[k].val] /\ copyIdx' = k + 1
    BY DEF IInv, PhaseOK, Copy, OldIndex
<1>2. o \in Seq(Entry) /\ copyIdx \in Nat /\ DOMAIN o = 1 .. Len(o) /\ Len(o) \in Nat
    BY Working, NvAssumption DEF IInv, FlashOK, SectorOK, Sector, OldIndex, Index, PhaseOK
<1>3. ToCopy \in SUBSET Nat
    BY <1>2 DEF ToCopy, OldIndex
<1>4. k \in ToCopy /\ \A j \in ToCopy : k <= j
    BY <1>1, <1>3, Smallest
<1> HIDE DEF k
<1>5. /\ k \in Nat /\ k # 0 /\ copyIdx <= k /\ k \in DOMAIN o
      /\ o[k].st = "valid" /\ o[k].item # op.item
    BY <1>2, <1>4 DEF ToCopy, OldIndex
<1>6. /\ NewIndex' = NewIndex /\ OldIndex' = o
      /\ MovedTo = copyIdx /\ MovedTo' = k
    <2>1. k + 1 # 0 /\ (k + 1) - 1 = k
        BY <1>5
    <2> QED
        BY <1>1, <2>1 DEF NewIndex, OldIndex, Index, MovedTo, Other
<1>7. \A i \in Items \ {op.item} : Moved(NewIndex, o, i, k)
    <2> SUFFICES ASSUME NEW i \in Items, i # op.item
                 PROVE  Moved(NewIndex, o, i, k)
        BY Zenon
    <2>1. Moved(NewIndex, o, i, copyIdx)
        BY <1>1, <1>6 DEF WInv, MoveOK
    <2>2. Before(o, i, k) = Before(o, i, copyIdx)
        BY <1>1, <1>3, <1>4, <1>5, CopiedSoFar, Zenon
    <2> QED
        BY <2>1, <2>2 DEF Moved
<1>8. At(NewIndex, op.item) = {}
    BY <1>1 DEF WInv, MoveOK
<1>9. /\ copyIdx' - 1 \in At(o, wr'.item) /\ o[copyIdx' - 1].val = wr'.val
      /\ wr'.item # op.item
    <2>1. copyIdx' - 1 = k /\ wr'.item = o[k].item /\ wr'.val = o[k].val
        BY <1>1, <1>5
    <2> QED
        BY <1>5, <2>1 DEF At
<1> HIDE DEF o
<1>10. MoveOK'
    BY <1>1, <1>6, <1>7, <1>8, <1>9 DEF MoveOK
<1> QED
    BY <1>1, <1>10 DEF WInv, PlaceOK

\* Everything is copied.
LEMMA CopiedWInv ==
    ASSUME IInv, WInv, Copied
    PROVE  WInv'
<1>1. /\ pc = "copy" /\ pc' = "index" /\ sectorUpdate /\ copyIdx' = 0
      /\ UNCHANGED <<flash, op, opSect, sectorUpdate>> /\ ToCopy = {}
    BY DEF IInv, PhaseOK, Copied
<1>2. copyIdx \in Nat /\ IDX_NUM + 1 \in Nat /\ copyIdx <= IDX_NUM + 1
    BY NvAssumption DEF IInv, PhaseOK
<1>3. /\ NewIndex' = NewIndex /\ OldIndex' = OldIndex
      /\ MovedTo = copyIdx /\ MovedTo' = IDX_NUM + 1
    BY <1>1 DEF NewIndex, OldIndex, Index, MovedTo, Other
<1>4. \A i \in Items \ {op.item} : Moved(NewIndex, OldIndex, i, IDX_NUM + 1)
    <2> SUFFICES ASSUME NEW i \in Items, i # op.item
                 PROVE  Moved(NewIndex, OldIndex, i, IDX_NUM + 1)
        BY Zenon
    <2>1. Moved(NewIndex, OldIndex, i, copyIdx)
        BY <1>1, <1>3 DEF WInv, MoveOK
    <2>2. Before(OldIndex, i, IDX_NUM + 1) = Before(OldIndex, i, copyIdx)
        BY <1>1, <1>2, CopiedSoFar, Zenon
    <2> QED
        BY <2>1, <2>2 DEF Moved
<1>5. At(NewIndex, op.item) = {}
    BY <1>1 DEF WInv, MoveOK
<1>6. MoveOK'
    BY <1>1, <1>3, <1>4, <1>5 DEF MoveOK
<1> QED
    BY <1>1, <1>6 DEF WInv, PlaceOK

\* What Moved says of two indexes that hold the same.
LEMMA MovedSame ==
    ASSUME NEW q, NEW r, SameHeld(q, r), NEW o, NEW i, NEW c, Moved(q, o, i, c)
    PROVE  Moved(r, o, i, c)
    BY Zenon DEF SameHeld, Moved

\* The index worked on holds the same after a step of nv_write_item.
LEMMA SameMove ==
    ASSUME WInv, NEW r, IndexOnly(NewIndex, r), SameHeld(NewIndex, r),
           pc \in {"index", "body"}, pc' \in {"body", "state"},
           UNCHANGED <<op, opSect, sectorUpdate, copyIdx, wr>>
    PROVE  MoveOK' /\ NewIndex' = r /\ OldIndex' = OldIndex /\ FoundSect' = FoundSect
<1>1. NewIndex' = r /\ OldIndex' = OldIndex /\ FoundSect' = FoundSect
    BY DEF IndexOnly, NewIndex, OldIndex, Index, Other
<1>2. MovedTo' = MovedTo
    BY DEF MovedTo
<1>3. ASSUME sectorUpdate
      PROVE  /\ \A i \in Items \ {op.item} : Moved(r, OldIndex, i, MovedTo)
             /\ At(r, op.item) = {}
    <2>1. /\ \A i \in Items \ {op.item} : Moved(NewIndex, OldIndex, i, MovedTo)
          /\ At(NewIndex, op.item) = {}
        BY <1>3 DEF WInv, MoveOK
    <2> QED
        BY <2>1, MovedSame DEF SameHeld
<1>4. sectorUpdate /\ copyIdx # 0 =>
        /\ copyIdx - 1 \in At(OldIndex, wr.item) /\ OldIndex[copyIdx - 1].val = wr.val
        /\ wr.item # op.item
    BY DEF WInv, MoveOK
<1> QED
    BY <1>1, <1>2, <1>3, <1>4 DEF MoveOK

\* Before the new item's entry is added, the one it replaces is looked up.
LEMMA WriteIndexWInv ==
    ASSUME IInv, WInv, WriteIndex
    PROVE  WInv'
<1>1. /\ pc = "index" /\ pc' = "body" /\ UNCHANGED <<op, opSect, sectorUpdate, copyIdx, wr>>
      /\ deleteIdx' = IF copyIdx = 0 THEN LastAt(NewIndex, wr.item) ELSE 0
    BY LastValidAt DEF WriteIndex, NewIndex
<1>2. PICK r \in Seq(Entry) : /\ IndexOnly(NewIndex, r) /\ SameHeld(NewIndex, r)
                              /\ Len(r) = Len(NewIndex) + 1
    BY WriteIndexDoes
<1>3. MoveOK' /\ NewIndex' = r /\ FoundSect' = FoundSect
    BY <1>1, <1>2, SameMove
<1>4. copyIdx = 0 => wr = op
    BY <1>1 DEF IInv, PhaseOK
<1>5. LastAt(r, op.item) = LastAt(NewIndex, op.item)
    BY <1>2, SameLast
<1>6. ~sectorUpdate => (Len(NewIndex) = 0 <=> FoundSect = NoSect)
    BY <1>1 DEF WInv, PlaceOK
<1>7. Len(NewIndex) \in Nat
    BY Working DEF NewIndex
<1>8. ~sectorUpdate => (Len(r) = 1 <=> FoundSect = NoSect)
    BY <1>2, <1>6, <1>7
<1>9. PlaceOK'
    BY <1>1, <1>3, <1>4, <1>5, <1>8 DEF PlaceOK
<1> QED
    BY <1>3, <1>9 DEF WInv

\* The payload.
LEMMA WriteBodyWInv ==
    ASSUME IInv, WInv, WriteBody
    PROVE  WInv'
<1>1. pc = "body" /\ pc' = "state" /\ UNCHANGED <<op, opSect, sectorUpdate, copyIdx, wr, deleteIdx>>
    BY DEF WriteBody, ram
<1>2. PICK r \in Seq(Entry) : /\ IndexOnly(NewIndex, r) /\ SameHeld(NewIndex, r)
                              /\ Len(r) = Len(NewIndex)
    BY WriteBodyDoes
<1>3. MoveOK' /\ NewIndex' = r /\ FoundSect' = FoundSect
    BY <1>1, <1>2, SameMove
<1>4. LastAt(r, op.item) = LastAt(NewIndex, op.item)
    BY <1>2, SameLast
<1>5. /\ deleteIdx = IF copyIdx = 0 THEN LastAt(NewIndex, op.item) ELSE 0
      /\ ~sectorUpdate => (Len(NewIndex) = 1 <=> FoundSect = NoSect)
    BY <1>1 DEF WInv, PlaceOK
<1>6. PlaceOK'
    BY <1>1, <1>2, <1>3, <1>4, <1>5 DEF PlaceOK
<1> QED
    BY <1>3, <1>6 DEF WInv

\* One more entry is copied: the last one that counts is the same on both sides.
LEMMA MovedOne ==
    ASSUME NEW q, NEW r, NEW o \in Seq(Entry), NEW k \in Nat \ {0}, NEW h, NEW v,
           AddedAs(q, r, h, v), k \in At(o, h), o[k].val = v, NEW i, Moved(q, o, i, k)
    PROVE  Moved(r, o, i, k + 1)
<1>1. At(o, i) \in SUBSET Nat
    BY AtIs
<1>2. CASE i # h
    <2>1. k \notin At(o, i)
        BY <1>2 DEF At
    <2>2. Before(o, i, k + 1) = Before(o, i, k)
        <3>1. \A j \in At(o, i) : j < k + 1 <=> j < k
            BY <1>1, <2>1
        <3> QED
            BY <3>1 DEF Before
    <2>3. At(r, i) = At(q, i) /\ Value(r, i) = Value(q, i) /\ Olds(r, i) = Olds(q, i)
        BY <1>2 DEF AddedAs
    <2> QED
        BY <2>2, <2>3, Zenon DEF Moved
<1>3. CASE i = h
    <2> DEFINE P == Before(o, i, k)
    <2>1. Before(o, i, k + 1) = P \cup {k}
        <3>1. \A j \in At(o, i) : j < k + 1 <=> (j < k \/ j = k)
            BY <1>1
        <3> QED
            BY <1>3, <3>1 DEF Before
    <2>2. P \in SUBSET (1..k) /\ \A j \in P : j < k
        <3>1. At(o, i) \in SUBSET (1 .. Len(o))
            BY AtIs
        <3> QED
            BY <3>1 DEF Before
    <2> HIDE DEF P
    <2>3. Counts(o, o, P, k)
        BY <2>2, EntryCounts, Zenon
    <2>4. /\ At(q, i) = {} <=> P = {}
          /\ Value(q, i) = Newest(o, P) /\ Olds(q, i) = Earlier(o, P)
        BY Zenon DEF Moved, P
    <2>5. Counting(q, At(q, i)) = Counting(o, P)
        BY <2>4 DEF Counting, Value
    <2>6. Value(r, i) = Newest(o, P \cup {k})
        BY <1>3, <2>3 DEF Counts, AddedAs
    <2>7. Olds(r, i) = Earlier(o, P \cup {k})
        BY <1>3, <2>3, <2>4, <2>5, Zenon DEF Counts, AddedAs
    <2>8. At(r, i) # {} /\ P \cup {k} # {}
        BY <1>3 DEF AddedAs
    <2> QED
        BY <2>1, <2>6, <2>7, <2>8, Zenon DEF Moved
<1> QED
    BY <1>2, <1>3

\* The entry of a copied item becomes valid.
LEMMA CopyStateWInv ==
    ASSUME IInv, WInv, WriteState, copyIdx # 0
    PROVE  WInv'
<1>1. pc = "state" /\ pc' = "copy" /\ UNCHANGED ram /\ sectorUpdate
    BY DEF IInv, PhaseOK, WriteState, Go
<1>2. PICK r \in Seq(Entry) : IndexOnly(NewIndex, r) /\ Added(NewIndex, r)
    BY WriteStateDoes
<1>3. NewIndex' = r /\ OldIndex' = OldIndex
    BY <1>1, <1>2 DEF IndexOnly, NewIndex, OldIndex, Index, Other, ram
<1> DEFINE k == copyIdx - 1
<1>4. /\ k \in At(OldIndex, wr.item) /\ OldIndex[k].val = wr.val /\ wr.item # op.item
      /\ At(NewIndex, op.item) = {}
      /\ \A i \in Items \ {op.item} : Moved(NewIndex, OldIndex, i, k)
    BY <1>1 DEF WInv, MoveOK, MovedTo
<1>5. OldIndex \in Seq(Entry)
    BY Working DEF IInv, FlashOK, SectorOK, Sector, OldIndex, Index
<1>6. k \in Nat \ {0}
    BY <1>4, <1>5, AtIs
<1>7. copyIdx = k + 1
    BY NvAssumption DEF IInv, PhaseOK
<1> HIDE DEF k
<1>8. \A i \in Items \ {op.item} : Moved(r, OldIndex, i, k + 1)
    BY <1>2, <1>4, <1>5, <1>6, MovedOne, Zenon DEF Added
<1>9. At(r, op.item) = {}
    BY <1>2, <1>4 DEF Added, AddedAs
<1>10. MovedTo' = k + 1
    BY <1>1, <1>7 DEF MovedTo, ram
<1>11. MoveOK'
    BY <1>1, <1>3, <1>8, <1>9, <1>10 DEF MoveOK, ram
<1>12. PlaceOK'
    BY <1>1 DEF PlaceOK, ram
<1> QED
    BY <1>11, <1>12 DEF WInv

\* The item written, as the last valid one of the index r that was q.
LEMMA RenewedIs ==
    ASSUME NEW q, NEW r, Added(q, r), wr = op, At(q, op.item) = {}
    PROVE  Renewed(r)
    BY DEF Added, AddedAs, Renewed, Olds, Earlier, Counting

\* The entry of the new item becomes valid in the new sector.
LEMMA MoveStateWInv ==
    ASSUME IInv, IInv', WInv, WriteState, copyIdx = 0, sectorUpdate
    PROVE  WInv' /\ pc' = "ready"
<1>1. pc = "state" /\ wr = op /\ op \in Writes
    BY DEF IInv, PhaseOK, WriteState, WritePcs
<1>2. PICK r \in Seq(Entry) : IndexOnly(NewIndex, r) /\ Added(NewIndex, r)
    BY WriteStateDoes
<1>3. /\ At(NewIndex, op.item) = {} /\ deleteIdx = LastAt(NewIndex, op.item)
      /\ \A i \in Items \ {op.item} : Moved(NewIndex, OldIndex, i, IDX_NUM + 1)
    BY <1>1 DEF WInv, MoveOK, PlaceOK, MovedTo
<1>4. deleteIdx = 0
    BY <1>3 DEF LastAt
<1>5. pc' = "ready" /\ UNCHANGED ram
    BY <1>4 DEF WriteState, AfterDelete, Go
<1>6. NewIndex' = r /\ OldIndex' = OldIndex /\ MovedTo' = IDX_NUM + 1
    BY <1>2, <1>5 DEF IndexOnly, NewIndex, OldIndex, Index, Other, ram, MovedTo
<1>7. Renewed(r)
    BY <1>1, <1>2, <1>3, RenewedIs
<1>8. \A i \in Items \ {op.item} : Moved(r, OldIndex, i, IDX_NUM + 1)
    BY <1>1, <1>2, <1>3, Zenon DEF Added, AddedAs, Moved
<1>9. Flag(Other(opSect))' = "valid"
    BY <1>5 DEF IInv, SectorsOK, WritePcs, ram
<1>10. MoveOK'
    BY <1>1, <1>5, <1>6, <1>7, <1>8, <1>9 DEF MoveOK, Renewed, ram
<1>11. PlaceOK'
    BY <1>5 DEF PlaceOK, ram
<1> QED
    BY <1>5, <1>10, <1>11 DEF WInv

\* The entry of the new item becomes valid in place: what follows, and what it
\* finds there.
LEMMA PlaceStateWInv ==
    ASSUME IInv, WInv, WriteState, ~sectorUpdate
    PROVE  /\ WInv'
           /\ deleteIdx # 0 => pc' = "delete" /\ UNCHANGED ram
           /\ deleteIdx = 0 /\ FoundSect = NoSect => pc' = "first" /\ UNCHANGED ram
           /\ deleteIdx = 0 /\ FoundSect # NoSect => Return
<1> DEFINE n == Len(NewIndex)
<1>1. pc = "state" /\ copyIdx = 0 /\ wr = op /\ op \in Writes
    BY DEF IInv, PhaseOK, WriteState, WritePcs
<1>2. PICK r \in Seq(Entry) : /\ IndexOnly(NewIndex, r) /\ Added(NewIndex, r)
                              /\ Len(r) = n
    BY WriteStateDoes
<1>3. NewIndex \in Seq(Entry) /\ NewIndex[n].st # "valid" /\ deleteIdx < n
    BY WriteStateDoes
<1>8. deleteIdx # 0 => n # 1
    <2>1. deleteIdx < Len(NewIndex) /\ deleteIdx \in Nat /\ Len(NewIndex) \in Nat
        BY WriteStateDoes
    <2> HIDE DEF n
    <2>2. deleteIdx < n /\ deleteIdx \in Nat /\ n \in Nat
        BY <2>1 DEF n
    <2> QED
        BY <2>2
<1>4. deleteIdx = LastAt(NewIndex, op.item) /\ (n = 1 <=> FoundSect = NoSect)
    BY <1>1 DEF WInv, PlaceOK
<1>5. CASE deleteIdx # 0
    <2>1. pc' = "delete" /\ UNCHANGED ram
        BY <1>1, <1>5 DEF WriteState, Go
    <2>2. NewIndex' = r /\ FoundSect' = FoundSect
        BY <1>2, <2>1 DEF IndexOnly, NewIndex, Index, ram
    <2>3. deleteIdx \in At(NewIndex, op.item)
        BY <1>3, <1>4, <1>5, AtIs, LastIs DEF LastAt
    <2>4. deleteIdx \in At(r, op.item) /\ n \in At(r, op.item)
        BY <1>1, <1>2, <2>3 DEF Added, AddedAs
    <2>5. FoundSect # NoSect
        BY <1>4, <1>5, <1>8
    <2>6. PlaceOK'
        BY <1>2, <1>3, <2>1, <2>2, <2>4, <2>5 DEF PlaceOK, ram
    <2>7. MoveOK'
        BY <2>1 DEF MoveOK, ram
    <2> QED
        BY <1>5, <2>1, <2>6, <2>7 DEF WInv
<1>6. CASE deleteIdx = 0 /\ FoundSect = NoSect
    <2>1. pc' = "first" /\ UNCHANGED ram
        BY <1>1, <1>4, <1>6 DEF WriteState, AfterDelete, Go, NewIndex
    <2>2. NewIndex' = r /\ FoundSect' = FoundSect
        BY <1>2, <2>1 DEF IndexOnly, NewIndex, Index, ram
    <2>3. \A i : At(NewIndex, i) = {}
        <3>0. n = 1
            BY <1>4, <1>6
        <3>1. DOMAIN NewIndex = {1} /\ NewIndex[1].st # "valid"
            BY <1>3, <3>0
        <3> QED
            BY <3>1 DEF At
    <2>4. Renewed(r)
        BY <1>1, <1>2, <2>3, RenewedIs
    <2>5. \A i \in Items \ {op.item} : At(r, i) = {}
        BY <1>1, <1>2, <2>3 DEF Added, AddedAs
    <2>6. PlaceOK'
        BY <1>6, <2>1, <2>2, <2>4, <2>5 DEF PlaceOK, Renewed, ram
    <2>7. MoveOK'
        BY <2>1 DEF MoveOK, ram
    <2> QED
        BY <1>6, <2>1, <2>6, <2>7 DEF WInv
<1>7. CASE deleteIdx = 0 /\ FoundSect # NoSect
    <2>1. Return
        BY <1>1, <1>4, <1>7 DEF WriteState, AfterDelete, Go, NewIndex
    <2>2. WInv'
        BY <2>1, QuietWInv DEF Return
    <2> QED
        BY <1>7, <2>1, <2>2
<1> QED
    BY <1>5, <1>6, <1>7

\* The entry replaced is deleted, and the write returns.
LEMMA DeleteOldWInv ==
    ASSUME IInv, WInv, DeleteOld
    PROVE  WInv' /\ Return
<1>1. /\ pc = "delete" /\ ~sectorUpdate /\ deleteIdx < Len(NewIndex)
      /\ deleteIdx \in At(NewIndex, op.item) /\ Go(AfterDelete)
    BY DEF WInv, PlaceOK, DeleteOld
<1>2. NewIndex \in Seq(Entry) /\ Len(NewIndex) \in Nat
    BY Working DEF NewIndex
<1>3. deleteIdx \in Nat \ {0}
    BY <1>1, <1>2, AtIs
<1>4. Return
    <2> DEFINE n == Len(NewIndex)
    <2>1. deleteIdx < n /\ n \in Nat
        BY <1>1, <1>2
    <2> HIDE DEF n
    <2>2. n # 1
        BY <1>3, <2>1
    <2>3. AfterDelete = "done"
        BY <1>1, <2>2 DEF AfterDelete, NewIndex, n
    <2> QED
        BY <1>1, <2>3 DEF Go
<1> QED
    BY <1>4, QuietWInv DEF Return

\* The new sector is READY.
LEMMA ReadyWInv ==
    ASSUME IInv, WInv, Ready
    PROVE  WInv' /\ FlashOK' /\ NewIndex' = NewIndex /\ OldIndex' = OldIndex
           /\ flash'[opSect].flag = "ready" /\ flash'[Other(opSect)].flag = "valid"
           /\ sectorUpdate /\ pc = "ready" /\ pc' = "retire" /\ UNCHANGED ram
<1>1. SetFlag(opSect, "ready") /\ pc = "ready" /\ pc' = "retire" /\ UNCHANGED ram /\ sectorUpdate
    BY DEF IInv, PhaseOK, Ready
<1>2. Len(Index(opSect)) > 0 /\ "ready" \in Flags /\ "ready" # "valid"
    BY <1>1 DEF IInv, ProgressOK, Flags
<1>3. /\ FlashOK' /\ flash'[opSect].flag = "ready"
      /\ flash'[Other(opSect)].flag = flash[Other(opSect)].flag
      /\ \A t \in Sectors : flash'[t].index = flash[t].index
    BY <1>1, <1>2, Working, FlagWritten DEF IInv
<1>4. NewIndex' = NewIndex /\ OldIndex' = OldIndex
    BY <1>1, <1>3, Working DEF NewIndex, OldIndex, Index, ram
<1>5. Flag(Other(opSect)) = "valid" /\ copyIdx = 0 /\ op \in Writes /\ Renewed(NewIndex)
    BY <1>1 DEF WInv, MoveOK
<1>6. \A i \in Items \ {op.item} : Moved(NewIndex, OldIndex, i, MovedTo)
    BY <1>1 DEF WInv, MoveOK
<1>7. MovedTo' = MovedTo
    BY <1>1 DEF MovedTo, ram
<1>8. MoveOK'
    BY <1>1, <1>3, <1>4, <1>5, <1>6, <1>7 DEF MoveOK, Renewed, ram, Flag
<1>9. PlaceOK'
    BY <1>1 DEF PlaceOK, ram
<1> QED
    BY <1>1, <1>3, <1>4, <1>5, <1>8, <1>9 DEF WInv, Flag

\* Every step keeps what is said of a write.
LEMMA NextWInv == IInv /\ WInv /\ [Next]_vars => WInv'
<1> SUFFICES ASSUME IInv, WInv, [Next]_vars PROVE WInv'
    OBVIOUS
<1>1. IInv'
    BY NextKeeps
<1>2. CASE UNCHANGED vars
    <2>1. /\ UNCHANGED <<flash, pc, op, opSect, sectorUpdate, copyIdx, wr, deleteIdx>>
          /\ FoundSect' = FoundSect
        BY <1>2 DEF vars, FoundSect
    <2>2. /\ NewIndex' = NewIndex /\ OldIndex' = OldIndex /\ MovedTo' = MovedTo
          /\ Flag(Other(opSect))' = Flag(Other(opSect))
        BY <2>1 DEF NewIndex, OldIndex, Index, MovedTo, Flag, Other
    <2>3. MoveOK'
        BY <2>1, <2>2 DEF WInv, MoveOK, Renewed
    <2>4. PlaceOK'
        BY <2>1, <2>2 DEF WInv, PlaceOK, Renewed
    <2> QED
        BY <2>3, <2>4 DEF WInv
<1>3. CASE WriteState
    BY <1>1, <1>3, CopyStateWInv, MoveStateWInv, PlaceStateWInv, Zenon
<1>4. CASE \E r \in Requests : Begin(r)
    BY <1>4, QuietSteps
<1>5. CASE \/ SectorMissing \/ ReadItem \/ RemoveItem \/ Switch \/ Clean \/ NotEnoughSpace
           \/ First \/ PowerLoss \/ PowerOn \/ Validate
    BY <1>5, QuietSteps
<1>6. CASE \/ SectorFound \/ RetireOther \/ Room \/ Cleaned \/ Copy \/ Copied
           \/ WriteIndex \/ WriteBody \/ DeleteOld \/ Ready
    BY <1>6, SectorFoundWInv, RetireOtherWInv, RoomWInv, CleanedWInv, CopyWInv, CopiedWInv,
       WriteIndexWInv, WriteBodyWInv, DeleteOldWInv, ReadyWInv
<1> QED
    BY <1>2, <1>3, <1>4, <1>5, <1>6 DEF Next, Step, WriteStep

-----------------------------------------------------------------------------
(***************************************************************************)
(* Every step of the sectors is a step of the store.                       *)
(***************************************************************************)
\* The index seen, before and after a step.
LEMMA ContentIs ==
    /\ Content(flash) = IF FoundSect = NoSect THEN <<>> ELSE flash[FoundSect].index
    /\ Content(flash') = IF FoundSect' = NoSect THEN <<>> ELSE flash'[FoundSect'].index
    BY FoundIs DEF Content

\* An empty module holds nothing.
LEMMA NothingHeld ==
    \A i : At(<<>>, i) = {} /\ Value(<<>>, i) = None /\ Olds(<<>>, i) = {}
    BY DEF At, Value, Olds, Newest, Earlier

\* The flash stays as it is.
LEMMA FlashUnchanged ==
    ASSUME FlashOK, UNCHANGED flash
    PROVE  stored' = stored /\ older' = older
<1>1. FlashOK' /\ Content(flash') = Content(flash)
    BY SameFlash
<1> QED
    BY <1>1, NotSeen

\* The index worked on becomes r, which holds the same.
LEMMA SameSeen ==
    ASSUME IInv, IInv', NEW r, IndexOnly(NewIndex, r),
           FoundSect = opSect => SameHeld(NewIndex, r)
    PROVE  stored' = stored /\ older' = older
<1>1. FoundSect' = FoundSect /\ flash[opSect].index = NewIndex /\ flash'[opSect].index = r
      /\ flash'[Other(opSect)] = flash[Other(opSect)]
    BY DEF IndexOnly
<1>2. FoundSect \in {NoSect, opSect, Other(opSect)}
    BY FoundIs, Working DEF FoundIn, Sectors, Other
<1>3. \A i \in Items : /\ Value(Content(flash'), i) = Value(Content(flash), i)
                       /\ Olds(Content(flash'), i) = Olds(Content(flash), i)
    <2>1. CASE FoundSect = opSect /\ FoundSect # NoSect
        BY <1>1, <2>1, ContentIs DEF SameHeld
    <2>2. CASE FoundSect # opSect \/ FoundSect = NoSect
        <3>1. Content(flash') = Content(flash)
            BY <1>1, <1>2, <2>2, ContentIs
        <3> QED
            BY <3>1
    <2> QED
        BY <2>1, <2>2
<1> QED
    BY <1>3, NotSeen DEF IInv

\* A request begins.
LEMMA BeginStores ==
    ASSUME IInv, WInv, NEW r \in Requests, Begin(r)
    PROVE  StoreStep
<1>1. stored' = stored /\ older' = older
    BY FlashUnchanged DEF IInv, Begin
<1>2. asked = op /\ asked' = op' /\ op' = r
    BY AskedIs DEF Begin
<1>3. op = NoOp
    BY DEF WInv, PlaceOK, Begin
<1> QED
    BY <1>1, <1>2, <1>3, StepAsks

\* The steps that only look at the flash.
LEMMA WorkStores ==
    ASSUME IInv, SectorFound \/ Room \/ Cleaned \/ Copy \/ Copied \/ PowerOn
    PROVE  StoreStep
<1>1. UNCHANGED <<flash, op>> /\ (SectorFound => ~sectorUpdate /\ ~sectorUpdate')
    BY DEF IInv, PhaseOK, SectorFound, Room, Cleaned, Copy, Copied, PowerOn, ram
<1>2. stored' = stored /\ older' = older
    BY <1>1, FlashUnchanged DEF IInv
<1>3. asked' = asked
    <2>1. asked = op
        BY AskedIs DEF SectorFound, Room, Cleaned, Copy, Copied, PowerOn
    <2>2. CASE SectorFound
        <3>1. pc' \in {"retire", "search"}
            BY <2>2 DEF SectorFound
        <3> QED
            BY <1>1, <2>1, <2>2, <3>1, AskedIs
    <2>3. CASE Room \/ Cleaned \/ Copy \/ Copied \/ PowerOn
        <3>1. pc' \notin {"delete", "retire", "validate"}
            BY <2>3 DEF Room, Cleaned, Copy, Copied, PowerOn
        <3> QED
            BY <1>1, <2>1, <3>1, AskedIs
    <2> QED
        BY <2>2, <2>3
<1> QED
    BY <1>2, <1>3, StepUnseen

\* What is seen while a request is looked for is the index worked on.
LEMMA SearchSees ==
    ASSUME IInv, pc = "search"
    PROVE  Content(flash) = NewIndex /\ NewIndex \in Seq(Entry)
<1>1. NewIndex \in Seq(Entry)
    BY Working DEF NewIndex
<1>2. CASE FoundSect = NoSect
    <2>1. opSect = 0 /\ Len(NewIndex) = 0
        BY <1>2 DEF IInv, SectorsOK, PhaseOK, NewIndex, Sectors, NoSect
    <2>2. NewIndex = <<>>
        BY <1>1, <2>1
    <2> QED
        BY <1>1, <1>2, <2>2, ContentIs
<1>3. CASE FoundSect # NoSect
    <2>1. opSect = FoundSect
        BY <1>3 DEF IInv, SectorsOK
    <2> QED
        BY <1>1, <1>3, <2>1, ContentIs DEF NewIndex, Index
<1> QED
    BY <1>2, <1>3

\* A request that finds nothing, or no space, and a read.
LEMMA AnswerStores ==
    ASSUME IInv, \/ ReadItem
                 \/ NotEnoughSpace
                 \/ SectorMissing /\ op.kind # "write"
    PROVE  StoreStep
<1>1. UNCHANGED flash /\ Return
    BY DEF ReadItem, NotEnoughSpace, SectorMissing
<1>2. stored' = stored /\ older' = older
    BY <1>1, FlashUnchanged DEF IInv
<1>3. asked = op /\ asked' = NoOp
    BY <1>1, AskedIs DEF ReadItem, NotEnoughSpace, SectorMissing, Return
<1>4. op \in Requests
    BY RequestKinds DEF IInv, PhaseOK, WritePcs, ReadItem, NotEnoughSpace, SectorMissing
<1>5. op.kind = "remove" => stored[op.item] = None
    <2>1. CASE ReadItem
        BY <2>1 DEF ReadItem
    <2>2. CASE NotEnoughSpace
        BY <2>2, RequestKinds DEF IInv, PhaseOK, WritePcs, NotEnoughSpace
    <2>3. CASE SectorMissing
        <3>1. Content(flash) = <<>>
            BY <2>3, ContentIs DEF SectorMissing
        <3>2. op.item \in Items
            BY <1>4, RequestKinds
        <3> QED
            BY <3>1, <3>2, NothingHeld, HeldTypes DEF IInv
    <2> QED
        BY <2>1, <2>2, <2>3
<1> QED
    BY <1>2, <1>3, <1>4, <1>5, StepAnswers

\* The first write of an empty module erases sector 0.
LEMMA SectorMissingStores ==
    ASSUME IInv, IInv', SectorMissing, op.kind = "write"
    PROVE  StoreStep
<1>1. /\ FoundSect = NoSect /\ pc = "sector" /\ pc' = "search" /\ UNCHANGED ram
      /\ flash' = [flash EXCEPT ![0] = Erased]
    BY DEF SectorMissing
<1>2. FoundSect' = NoSect
    <2>1. flash'[0].flag = "idle" /\ flash'[1] = flash[1]
        BY <1>1 DEF IInv, FlashOK, Sectors, Erased
    <2> QED
        BY <1>1, <2>1, FoundIs DEF FoundIn, CurrentFlags, NoSect
<1>3. Content(flash') = Content(flash)
    BY <1>1, <1>2, ContentIs
<1>4. stored' = stored /\ older' = older
    BY <1>3, NotSeen DEF IInv
<1>5. asked' = asked
    BY <1>1, AskedIs DEF ram
<1> QED
    BY <1>4, <1>5, StepUnseen

\* What is seen when the index worked on is the one read, and becomes r.
LEMMA IndexSeen ==
    ASSUME FoundSect = opSect, opSect \in Sectors, NEW r, IndexOnly(NewIndex, r)
    PROVE  Content(flash) = NewIndex /\ Content(flash') = r
<1>1. FoundSect # NoSect /\ FoundSect' # NoSect
    BY DEF Sectors, NoSect, IndexOnly
<1> QED
    BY <1>1, ContentIs DEF IndexOnly

\* The last entry of an item found is deleted.
LEMMA RemoveItemStores ==
    ASSUME IInv, IInv', RemoveItem
    PROVE  StoreStep
<1> DEFINE k == LastValid(opSect, op.item)
           q == NewIndex
           P == At(NewIndex, op.item)
<1>1. /\ pc = "search" /\ op.kind = "remove" /\ Return
      /\ IF k = 0 THEN UNCHANGED flash ELSE MarkInvalid(opSect, k)
    BY DEF RemoveItem
<1>2. Content(flash) = q /\ q \in Seq(Entry)
    BY <1>1, SearchSees
<1>3. asked = op /\ asked' = NoOp
    BY <1>1, AskedIs DEF Return
<1>4. op \in Requests /\ op.item \in Items
    BY <1>1, RequestKinds DEF IInv, PhaseOK
<1>5. k = IF P = {} THEN 0 ELSE Last(P)
    BY LastValidAt DEF NewIndex, LastAt
<1>6. CASE P = {}
    <2>1. UNCHANGED flash
        BY <1>1, <1>5, <1>6
    <2>2. stored' = stored /\ older' = older
        BY <2>1, FlashUnchanged DEF IInv
    <2>3. stored[op.item] = None
        BY <1>2, <1>4, <1>6, HeldTypes DEF IInv
    <2> QED
        BY <1>3, <1>4, <2>2, <2>3, StepAnswers
<1>7. CASE P # {}
    <2> DEFINE i == op.item
    <2>0. P \in SUBSET (1 .. Len(q)) /\ Len(q) \in Nat /\ DOMAIN q = 1 .. Len(q)
        BY <1>2, AtIs
    <2>1. k \in P /\ k # 0 /\ k \in DOMAIN q /\ k = Last(P)
        <3>1. k = Last(P)
            BY <1>5, <1>7
        <3> HIDE DEF P, q, k
        <3>2. Last(P) \in P
            BY <1>7, <2>0, LastIs
        <3>3. k \in P /\ k \in 1 .. Len(q)
            BY <2>0, <3>1, <3>2
        <3>4. k # 0
            BY <2>0, <3>3
        <3> QED
            BY <2>0, <3>1, <3>3, <3>4
    <2> HIDE DEF k
    <2>2. flash' = [flash EXCEPT ![opSect].index[k] = Blank("invalid")]
        BY <1>1, <2>1 DEF MarkInvalid
    <2>3. Blank("invalid") \in Entry /\ Blank("invalid").st # "valid"
        BY BlankEntry DEF States
    <2>4. PICK r \in Seq(Entry) : IndexOnly(q, r) /\ Replaced(q, r, k, Blank("invalid"))
        BY <2>1, <2>2, <2>3, RewriteDoes
    <2>5. FoundSect = opSect
        <3>1. Len(Index(opSect)) # 0
            BY <1>2, <2>1 DEF NewIndex
        <3> QED
            BY <1>1, <3>1 DEF IInv, SectorsOK, PhaseOK, Sectors, NoSect
    <2>6. Content(flash') = r
        BY <2>4, <2>5, Working, IndexSeen
    <2>7. /\ IF Olds(q, i) = {} THEN Value(r, i) = None /\ Olds(r, i) = {}
             ELSE Value(r, i) \in Olds(q, i) /\ Olds(r, i) \in SUBSET Olds(q, i)
          /\ \A h : h # i => Value(r, h) = Value(q, h) /\ Olds(r, h) = Olds(q, h)
        BY <2>1, <2>3, <2>4, EntryDeleted
    <2>8. /\ stored' = [stored EXCEPT ![i] = Value(r, i)]
          /\ older' = [older EXCEPT ![i] = Olds(r, i)]
        BY <1>2, <1>4, <2>6, <2>7, OneItemSeen DEF IInv
    <2>9. older[i] = Olds(q, i) /\ older \in [Items -> SUBSET Vals]
        BY <1>2, <1>4, HeldTypes DEF IInv, older
    <2> QED
        BY <1>1, <1>3, <1>4, <2>7, <2>8, <2>9, StepRemoves
<1> QED
    BY <1>6, <1>7

\* What is asked once a write has taken effect.
LEMMA AppliedIs ==
    /\ pc = "validate" /\ sectorUpdate => asked = AskedFor(op.item, {})
    /\ pc' = "validate" /\ sectorUpdate' => asked' = AskedFor(op'.item, {})
    /\ pc = "retire" /\ sectorUpdate => asked = IF opSect = 0 THEN AskedFor(op.item, {}) ELSE op
    /\ pc' = "retire" /\ sectorUpdate' =>
         asked' = IF opSect' = 0 THEN AskedFor(op'.item, {}) ELSE op'
    /\ pc = "delete" /\ ~sectorUpdate => asked = AskedFor(op.item, Kept)
    /\ pc' = "delete" /\ ~sectorUpdate' => asked' = AskedFor(op'.item, Kept')
    BY DEF asked, TookEffect, AskedFor, Kept

\* The new sector takes over from the old one: only the new item is seen.
LEMMA MoveSeen ==
    ASSUME IInv, IInv', op \in Writes, Content(flash) = OldIndex, Content(flash') = NewIndex,
           Renewed(NewIndex),
           \A i \in Items \ {op.item} : Moved(NewIndex, OldIndex, i, IDX_NUM + 1)
    PROVE  /\ stored' = [stored EXCEPT ![op.item] = op.val]
           /\ older' = [older EXCEPT ![op.item] = {}]
<1>1. OldIndex \in Seq(Entry) /\ Len(OldIndex) <= IDX_NUM
    BY Working DEF IInv, FlashOK, SectorOK, Sector, OldIndex, Index
<1>2. ASSUME NEW i \in Items, i # op.item
      PROVE  Value(NewIndex, i) = Value(OldIndex, i) /\ Olds(NewIndex, i) = Olds(OldIndex, i)
    <2>1. \A k \in At(OldIndex, i) : k < IDX_NUM + 1
        <3> DEFINE n == Len(OldIndex)
        <3>1. At(OldIndex, i) \in SUBSET (1..n) /\ n \in Nat /\ n <= IDX_NUM
            BY <1>1, AtIs
        <3> HIDE DEF n
        <3> QED
            BY <3>1, NvAssumption
    <2>2. Before(OldIndex, i, IDX_NUM + 1) = At(OldIndex, i)
        BY <2>1 DEF Before
    <2>3. Moved(NewIndex, OldIndex, i, IDX_NUM + 1)
        BY <1>2
    <2> QED
        BY <2>2, <2>3, Zenon DEF Moved, Value, Olds
<1>3. op.item \in Items
    BY RequestKinds
<1>4. /\ stored' = [stored EXCEPT ![op.item] = Value(NewIndex, op.item)]
      /\ older' = [older EXCEPT ![op.item] = Olds(NewIndex, op.item)]
    BY <1>2, <1>3, OneItemSeen DEF IInv
<1> QED
    BY <1>4 DEF Renewed

\* The write of a move takes effect.
LEMMA MoveStores ==
    ASSUME IInv, IInv', op \in Writes, Content(flash) = OldIndex, Content(flash') = NewIndex,
           Renewed(NewIndex),
           \A i \in Items \ {op.item} : Moved(NewIndex, OldIndex, i, IDX_NUM + 1),
           asked = op, asked' = AskedFor(op.item, {})
    PROVE  StoreStep
<1>1. /\ stored' = [stored EXCEPT ![op.item] = op.val]
      /\ older' = [older EXCEPT ![op.item] = {}]
    BY MoveSeen
<1> QED
    BY <1>1, StepWrites

\* The other sector is retired: with it, a move to sector 1 takes effect.
LEMMA RetireOtherStores ==
    ASSUME IInv, IInv', WInv, RetireOther
    PROVE  StoreStep
<1>1. /\ pc = "retire" /\ pc' = "validate" /\ UNCHANGED ram
      /\ flash' = [flash EXCEPT ![Other(opSect)] = [flag |-> "invalid", index |-> <<>>]]
    BY DEF RetireOther
<1>2. opSect \in Sectors /\ Other(opSect) \in Sectors /\ Other(opSect) # opSect
    BY DEF IInv, PhaseOK, Sectors, Other
<1>3. flash'[opSect] = flash[opSect] /\ flash'[Other(opSect)].flag = "invalid"
    BY <1>1, <1>2 DEF IInv, FlashOK
<1>4. flash[opSect].flag = "ready"
    BY <1>1 DEF IInv, SectorsOK, Flag
<1>5. FoundSect' = opSect
    BY <1>2, <1>3, <1>4, FoundIs DEF FoundIn, CurrentFlags, Sectors, Other
<1>6. Content(flash') = NewIndex
    BY <1>2, <1>3, <1>5, ContentIs DEF NewIndex, Index, Sectors, NoSect
<1>7. CASE FoundSect = opSect
    <2>1. Content(flash') = Content(flash)
        BY <1>2, <1>6, <1>7, ContentIs DEF NewIndex, Index, Sectors, NoSect
    <2>2. stored' = stored /\ older' = older
        BY <2>1, NotSeen DEF IInv
    <2>3. sectorUpdate => opSect = 0
        <3>1. sectorUpdate => flash[Other(opSect)].flag = "valid"
            BY <1>1 DEF WInv, MoveOK, Flag
        <3> QED
            BY <1>2, <1>4, <1>7, <3>1, FoundIs DEF FoundIn, CurrentFlags, Sectors, Other
    <2>4. asked' = asked
        BY <1>1, <2>3, AskedIs, AppliedIs DEF ram
    <2> QED
        BY <2>2, <2>4, StepUnseen
<1>8. CASE FoundSect # opSect
    <2>1. sectorUpdate /\ flash[Other(opSect)].flag = "valid"
        BY <1>1, <1>8 DEF WInv, MoveOK, PlaceOK, Flag
    <2>2. opSect # 0 /\ FoundSect = Other(opSect)
        BY <1>2, <1>4, <1>8, <2>1, FoundIs DEF FoundIn, CurrentFlags, Sectors, Other
    <2>3. Content(flash) = OldIndex
        BY <1>2, <2>2, ContentIs DEF OldIndex, Index, Sectors, NoSect
    <2>4. /\ op \in Writes /\ Renewed(NewIndex)
          /\ \A i \in Items \ {op.item} : Moved(NewIndex, OldIndex, i, IDX_NUM + 1)
        BY <1>1, <2>1 DEF WInv, MoveOK, MovedTo
    <2>5. asked = op /\ asked' = AskedFor(op.item, {})
        BY <1>1, <2>1, <2>2, AppliedIs DEF ram
    <2> QED
        BY <1>6, <2>3, <2>4, <2>5, MoveStores
<1> QED
    BY <1>7, <1>8

\* The new sector is READY: a move to sector 0 takes effect.
LEMMA ReadyStores ==
    ASSUME IInv, IInv', WInv, Ready
    PROVE  StoreStep
<1>1. /\ NewIndex' = NewIndex /\ OldIndex' = OldIndex
      /\ flash'[opSect].flag = "ready" /\ flash'[Other(opSect)].flag = "valid"
      /\ sectorUpdate /\ pc = "ready" /\ pc' = "retire" /\ UNCHANGED ram
    BY ReadyWInv
<1>2. opSect \in Sectors /\ Other(opSect) \in Sectors /\ Other(opSect) # opSect
    BY DEF IInv, PhaseOK, Sectors, Other
<1>3. flash[opSect].flag = "idle" /\ flash[Other(opSect)].flag = "valid"
    BY <1>1 DEF IInv, SectorsOK, WritePcs, Flag
<1>4. FoundSect = Other(opSect) /\ FoundSect' = 0
    BY <1>1, <1>2, <1>3, FoundIs DEF FoundIn, CurrentFlags, Sectors, Other
<1>5. Content(flash) = OldIndex
    BY <1>2, <1>4, ContentIs DEF OldIndex, Index, Sectors, NoSect
<1>6. asked = op
    BY <1>1, AskedIs
<1>7. CASE opSect = 0
    <2>1. Content(flash') = NewIndex
        BY <1>1, <1>4, <1>7, ContentIs DEF NewIndex, Index, NoSect, ram
    <2>2. /\ op \in Writes /\ Renewed(NewIndex)
          /\ \A i \in Items \ {op.item} : Moved(NewIndex, OldIndex, i, IDX_NUM + 1)
        BY <1>1 DEF WInv, MoveOK, MovedTo
    <2>3. asked' = AskedFor(op.item, {})
        BY <1>1, <1>7, AppliedIs DEF ram
    <2> QED
        BY <1>5, <1>6, <2>1, <2>2, <2>3, MoveStores
<1>8. CASE opSect # 0
    <2>1. Other(opSect) = 0
        BY <1>2, <1>8 DEF Sectors, Other
    <2>2. Content(flash') = OldIndex
        BY <1>1, <1>4, <2>1, ContentIs DEF OldIndex, Index, NoSect, ram
    <2>3. stored' = stored /\ older' = older
        BY <1>5, <2>2, NotSeen DEF IInv
    <2>4. asked' = op
        BY <1>1, <1>8, AppliedIs DEF ram
    <2> QED
        BY <1>6, <2>3, <2>4, StepUnseen
<1> QED
    BY <1>7, <1>8

\* The sector moved to is VALID: a write of a move returns.
LEMMA ValidateStores ==
    ASSUME IInv, IInv', WInv, Validate
    PROVE  StoreStep
<1>1. /\ pc = "validate" /\ flash' = [flash EXCEPT ![opSect].flag = "valid"]
      /\ IF sectorUpdate THEN Return ELSE pc' = "search" /\ UNCHANGED ram
    BY DEF Validate, SetFlag
<1>2. opSect \in Sectors /\ Other(opSect) \in Sectors /\ Other(opSect) # opSect
    BY DEF IInv, PhaseOK, Sectors, Other
<1>3. flash[opSect].flag = "ready" /\ flash[Other(opSect)].flag = "invalid"
    BY <1>1 DEF IInv, SectorsOK, Flag
<1>4. /\ flash'[opSect].index = flash[opSect].index /\ flash'[opSect].flag = "valid"
      /\ flash'[Other(opSect)] = flash[Other(opSect)]
    BY <1>1, <1>2 DEF IInv, FlashOK, Sector
<1>5. FoundSect = opSect /\ FoundSect' = opSect
    BY <1>2, <1>3, <1>4, FoundIs DEF FoundIn, CurrentFlags, Sectors, Other
<1>6. Content(flash) = NewIndex /\ Content(flash') = NewIndex
    BY <1>2, <1>4, <1>5, ContentIs DEF NewIndex, Index, Sectors, NoSect
<1>7. stored' = stored /\ older' = older
    BY <1>6, NotSeen DEF IInv
<1>8. CASE sectorUpdate
    <2>1. op \in Writes /\ Renewed(NewIndex)
        BY <1>1, <1>8 DEF WInv, MoveOK
    <2>2. older[op.item] = {}
        BY <1>6, <2>1, HeldTypes, RequestKinds DEF IInv, Renewed
    <2>3. older' = [older EXCEPT ![op.item] = {}]
        BY <1>7, <2>2 DEF older
    <2>4. asked = AskedFor(op.item, {})
        BY <1>1, <1>8, AppliedIs
    <2>5. asked' = NoOp
        BY <1>1, <1>8, AskedIs DEF Return
    <2> QED
        BY <1>7, <2>3, <2>4, <2>5, StepReturns
<1>9. CASE ~sectorUpdate
    <2>1. asked' = asked
        BY <1>1, <1>9, AskedIs DEF ram
    <2> QED
        BY <1>7, <2>1, StepUnseen
<1> QED
    BY <1>8, <1>9

\* The other sector is erased, and the one read stays.
LEMMA SwitchStores ==
    ASSUME IInv, IInv', Switch
    PROVE  StoreStep
<1>1. /\ pc = "search" /\ pc' = "clean" /\ op' = op /\ Len(Index(opSect)) > 0
      /\ flash' = [flash EXCEPT ![Other(opSect)] = Erased]
    BY DEF Switch
<1>2. opSect \in Sectors /\ Other(opSect) \in Sectors /\ Other(opSect) # opSect
    BY DEF IInv, PhaseOK, Sectors, Other
<1>3. FoundSect = opSect /\ flash[opSect].flag = "valid"
    BY <1>1 DEF IInv, SectorsOK, PhaseOK, Sectors, NoSect, Flag
<1>4. flash'[opSect] = flash[opSect] /\ flash'[Other(opSect)].flag = "idle"
    BY <1>1, <1>2 DEF IInv, FlashOK, Erased
<1>5. FoundSect' = opSect
    BY <1>2, <1>3, <1>4, FoundIs DEF FoundIn, CurrentFlags, Sectors, Other
<1>6. Content(flash') = Content(flash)
    BY <1>2, <1>3, <1>4, <1>5, ContentIs DEF Sectors, NoSect
<1>7. stored' = stored /\ older' = older
    BY <1>6, NotSeen DEF IInv
<1>8. asked' = asked
    BY <1>1, AskedIs
<1> QED
    BY <1>7, <1>8, StepUnseen

\* An entry that does not count is deleted: an older value is discarded.
LEMMA CleanStores ==
    ASSUME IInv, IInv', Clean
    PROVE  StoreStep
<1> DEFINE s == Other(opSect)
           q == Index(s)
           D == Duplicates(s)
           k == CHOOSE k \in D : \A j \in D : j <= k
           h == q[k].item
           e == Blank("invalid")
<1>1. pc = "clean" /\ D # {} /\ MarkInvalid(s, k) /\ UNCHANGED <<pc, ram>>
    BY DEF Clean
<1>2. s \in Sectors /\ s # NoSect
    BY DEF IInv, PhaseOK, Sectors, Other, NoSect
<1>3. q \in Seq(Entry) /\ q = flash[s].index
    BY <1>2 DEF IInv, FlashOK, SectorOK, Sector, Index
<1>4. FoundSect = s
    <2>1. flash[opSect].flag = "idle" /\ flash[s].flag = "valid"
        BY <1>1 DEF IInv, PhaseOK, SectorsOK, WritePcs, Flag
    <2>2. (opSect = 0 /\ s = 1) \/ (opSect = 1 /\ s = 0)
        BY DEF IInv, PhaseOK, Sectors, Other
    <2> HIDE DEF s
    <2>3. FoundIn(flash) = s
        <3>1. CASE opSect = 0 /\ s = 1
            BY <2>1, <3>1 DEF FoundIn, CurrentFlags
        <3>2. CASE opSect = 1 /\ s = 0
            BY <2>1, <3>2 DEF FoundIn, CurrentFlags
        <3> QED
            BY <2>2, <3>1, <3>2
    <2> QED
        BY <2>3, FoundIs
<1>5. k \in D
    <2>1. D \in SUBSET (1 .. Len(q)) /\ Len(q) \in Nat
        BY <1>3 DEF Duplicates
    <2>2. \E m \in D : \A j \in D : j <= m
        BY <1>1, <2>1, Greatest
    <2> QED
        BY <2>2
<1> HIDE DEF k
<1>6. /\ k \in DOMAIN q /\ q[k].st = "valid" /\ h \in Items
      /\ k \in At(q, h) /\ k # LastValid(s, h)
    <2>1. k \in DOMAIN q /\ q[k].st = "valid" /\ k # LastValid(s, h)
        BY <1>5 DEF Duplicates
    <2>2. h \in Items
        BY <1>2, <2>1 DEF IInv, FlashOK, SectorOK, Index
    <2> QED
        BY <2>1, <2>2 DEF At
<1>7. k # Last(At(q, h))
    BY <1>6, LastValidAt DEF LastAt
<1>8. e \in Entry /\ e.st # "valid"
    BY BlankEntry DEF States
<1> HIDE DEF e, h, D
<1> DEFINE r == flash'[s].index
<1>9. /\ FoundSect' = FoundSect /\ Len(r) = Len(q) /\ r \in Seq(Entry)
      /\ \A j \in DOMAIN q : r[j] = IF j = k THEN e ELSE q[j]
    <2>1. FlashOK /\ k \in DOMAIN Index(s) /\ flash' = [flash EXCEPT ![s].index[k] = e]
        BY <1>1, <1>6 DEF IInv, MarkInvalid, e
    <2>2. /\ FoundSect' = FoundSect
          /\ \A t \in Sectors : flash'[t].flag = flash[t].flag
                                /\ Len(flash'[t].index) = Len(flash[t].index)
                                /\ DOMAIN flash'[t].index = DOMAIN flash[t].index
          /\ \A j \in DOMAIN flash[s].index :
                flash'[s].index[j] = IF j = k THEN e ELSE flash[s].index[j]
        BY <1>2, <1>8, <2>1, EntryWritten, Zenon
    <2>3. r \in Seq(Entry)
        BY <1>2 DEF IInv, FlashOK, SectorOK, Sector
    <2> QED
        BY <1>2, <1>3, <2>2, <2>3
<1>10. Content(flash) = q /\ Content(flash') = r
    BY <1>2, <1>3, <1>4, <1>9, ContentIs
<1> HIDE DEF q, r, s
<1>11. Replaced(q, r, k, e)
    BY <1>3, <1>6, <1>9 DEF Replaced
<1>12. /\ Value(r, h) = Value(q, h) /\ Olds(r, h) \in SUBSET Olds(q, h)
       /\ \A i : i # h => Value(r, i) = Value(q, i) /\ Olds(r, i) = Olds(q, i)
    BY <1>6, <1>7, <1>8, <1>11, EntryDeleted
<1>13. /\ stored' = [stored EXCEPT ![h] = Value(r, h)]
       /\ older' = [older EXCEPT ![h] = Olds(r, h)]
    BY <1>6, <1>10, <1>12, OneItemSeen DEF IInv
<1>14. /\ stored[h] = Value(q, h) /\ older[h] = Olds(q, h)
       /\ older \in [Items -> SUBSET Vals]
    BY <1>6, <1>10, HeldTypes DEF IInv, older
<1>15. stored' = stored
    BY <1>12, <1>13, <1>14 DEF stored
<1>16. older' \in [Items -> SUBSET Vals] /\ \A i \in Items : older'[i] \subseteq older[i]
    BY <1>6, <1>12, <1>13, <1>14
<1>17. asked' = asked
    BY <1>1, AskedIs DEF ram
<1> QED
    BY <1>15, <1>16, <1>17, StepSettles

\* The index fields and the payload are not seen.
LEMMA WriteIndexStores ==
    ASSUME IInv, IInv', WriteIndex \/ WriteBody
    PROVE  StoreStep
<1>1. PICK r \in Seq(Entry) : IndexOnly(NewIndex, r) /\ SameHeld(NewIndex, r)
    BY WriteIndexDoes, WriteBodyDoes
<1>2. stored' = stored /\ older' = older
    BY <1>1, SameSeen
<1>3. asked' = asked
    BY AskedIs DEF WriteIndex, WriteBody, ram
<1> QED
    BY <1>2, <1>3, StepUnseen

\* The state byte of an entry in the new sector is not seen yet.
LEMMA MoveStateStores ==
    ASSUME IInv, IInv', WInv, WriteState, sectorUpdate
    PROVE  StoreStep
<1>1. PICK r \in Seq(Entry) : IndexOnly(NewIndex, r)
    BY WriteStateDoes
<1>2. pc = "state" /\ pc' \in {"copy", "ready"}
    BY MoveStateWInv DEF WriteState, Go
<1>3. op' = op
    BY <1>2 DEF WriteState, Go, Return, ram
<1>4. FoundSect # opSect
    <2>1. flash[opSect].flag = "idle"
        BY <1>2 DEF IInv, SectorsOK, WritePcs, Flag
    <2> QED
        BY <2>1, FoundIs DEF IInv, PhaseOK, FoundIn, CurrentFlags, Sectors, NoSect
<1>5. stored' = stored /\ older' = older
    BY <1>1, <1>4, SameSeen
<1>6. asked' = asked
    BY <1>2, <1>3, AskedIs
<1> QED
    BY <1>5, <1>6, StepUnseen

\* The state byte of the new item in place: with it the write takes effect.
LEMMA PlaceStateStores ==
    ASSUME IInv, IInv', WInv, WriteState, ~sectorUpdate, FoundSect # NoSect
    PROVE  StoreStep
<1> DEFINE q == NewIndex
           i == op.item
           P == At(q, i)
<1>1. pc = "state" /\ copyIdx = 0 /\ wr = op /\ op \in Writes /\ i \in Items /\ FoundSect = opSect
    BY RequestKinds DEF IInv, PhaseOK, SectorsOK, WriteState, WritePcs
<1>2. PICK r \in Seq(Entry) : IndexOnly(q, r) /\ Added(q, r) /\ Len(r) = Len(q)
    BY WriteStateDoes
<1>3. Content(flash) = q /\ Content(flash') = r
    BY <1>1, <1>2, Working, IndexSeen
<1>4. AddedAs(q, r, i, op.val)
    BY <1>1, <1>2 DEF Added
<1>5. q \in Seq(Entry) /\ q[Len(q)].st # "valid"
    BY WriteStateDoes
<1>6. deleteIdx = LastAt(q, i)
    BY <1>1 DEF WInv, PlaceOK
<1>7. stored[i] = Value(q, i) /\ older[i] = Olds(q, i) /\ (P # {} => stored[i] \in Vals)
    BY <1>1, <1>3, HeldTypes DEF IInv
<1>8. P \in SUBSET (1 .. Len(q)) /\ Len(q) \in Nat /\ Len(q) \notin P
    BY <1>5, AtIs DEF At
<1> HIDE DEF q, P, i
<1>9. /\ stored' = [stored EXCEPT ![i] = op.val]
      /\ older' = [older EXCEPT ![i] = Olds(r, i)]
    <2>1. /\ Value(r, i) = op.val
          /\ \A h : h # i => Value(r, h) = Value(q, h) /\ Olds(r, h) = Olds(q, h)
        BY <1>4 DEF AddedAs
    <2> QED
        BY <1>1, <1>3, <2>1, OneItemSeen DEF IInv
<1>10. Olds(r, i) = older[i] \cup Counting(q, P)
    BY <1>4, <1>7 DEF AddedAs, P
<1>11. Olds(r, i) \in SUBSET (older[i] \cup ({stored[i]} \ {None}))
    BY <1>7, <1>10, NvAssumption DEF Counting, Value, P
<1>12. asked = op
    BY <1>1, AskedIs
<1>13. CASE deleteIdx # 0
    <2>1. pc' = "delete" /\ UNCHANGED ram
        BY <1>13, PlaceStateWInv
    <2>2. P # {} /\ deleteIdx = Last(P)
        BY <1>6, <1>13 DEF LastAt, P
    <2>3. NewIndex' = r
        BY <1>2, <2>1 DEF IndexOnly, NewIndex, Index, ram
    <2>4. Kept' = {r[k].val : k \in At(r, i) \ {deleteIdx, Len(r)}}
        BY <2>1, <2>3 DEF Kept, At, ValidAt, NewIndex, ram, i
    <2>5. At(r, i) \ {deleteIdx, Len(r)} = P \ {Last(P)}
        BY <1>2, <1>4, <1>8, <2>2 DEF AddedAs, P
    <2>6. \A k \in P : r[k].val = q[k].val
        BY <1>4 DEF AddedAs, P
    <2>7. older[i] = {q[k].val : k \in P \ {Last(P)}}
        BY <1>7, <2>2 DEF Olds, Earlier, P
    <2>8. Kept' = older[i]
        <3> DEFINE L == P \ {Last(P)}
        <3>1. Kept' = {r[k].val : k \in L}
            BY <2>4, <2>5, Zenon
        <3>2. older[i] = {q[k].val : k \in L} /\ \A k \in L : r[k].val = q[k].val
            BY <2>6, <2>7
        <3> HIDE DEF L
        <3>3. {r[k].val : k \in L} = {q[k].val : k \in L}
            BY <3>2
        <3> QED
            BY <3>1, <3>2, <3>3
    <2>9. asked' = AskedFor(i, Kept')
        BY <2>1, AppliedIs DEF ram, i
    <2> QED
        BY <1>1, <1>9, <1>11, <1>12, <2>8, <2>9, StepWrites DEF i
<1>14. CASE deleteIdx = 0
    <2>1. Return
        BY <1>14, PlaceStateWInv
    <2>2. P = {}
        <3>1. P # {} => Last(P) \in P
            BY <1>8, LastIs
        <3> QED
            BY <1>6, <1>8, <1>14, <3>1 DEF LastAt, P
    <2>3. Olds(r, i) = older[i]
        BY <1>10, <2>2 DEF Counting
    <2>4. asked' = NoOp
        BY <2>1, AskedIs DEF Return
    <2> QED
        BY <1>1, <1>9, <1>11, <1>12, <2>3, <2>4, StepWrites DEF i
<1> QED
    BY <1>13, <1>14

\* The same in an empty module, which has no current sector yet.
LEMMA FirstStateStores ==
    ASSUME IInv, IInv', WInv, WriteState, ~sectorUpdate, FoundSect = NoSect
    PROVE  StoreStep
<1>1. pc = "state" /\ FoundSect # opSect
    BY DEF IInv, PhaseOK, WriteState, Sectors, NoSect
<1>2. PICK r \in Seq(Entry) : IndexOnly(NewIndex, r) /\ Len(r) = Len(NewIndex)
    BY WriteStateDoes
<1>3. stored' = stored /\ older' = older
    BY <1>1, <1>2, SameSeen
<1>4. deleteIdx = 0
    <2> DEFINE n == Len(NewIndex)
    <2>1. n = 1 /\ deleteIdx < n /\ deleteIdx \in Nat
        BY <1>1, WriteStateDoes DEF WInv, PlaceOK
    <2> HIDE DEF n
    <2> QED
        BY <2>1
<1>5. pc' = "first" /\ op' = op
    BY <1>4, PlaceStateWInv DEF ram
<1>6. asked' = asked
    BY <1>1, <1>5, AskedIs
<1> QED
    BY <1>3, <1>6, StepUnseen

\* The entry replaced is deleted, and the write returns.
LEMMA DeleteOldStores ==
    ASSUME IInv, IInv', WInv, DeleteOld
    PROVE  StoreStep
<1> DEFINE q == NewIndex
           i == op.item
           P == At(q, i)
           n == Len(q)
           e == Blank("invalid")
<1>1. /\ pc = "delete" /\ ~sectorUpdate /\ FoundSect # NoSect
      /\ deleteIdx \in P /\ n \in P /\ deleteIdx < n
      /\ flash' = [flash EXCEPT ![opSect].index[deleteIdx] = e]
    BY DEF WInv, PlaceOK, DeleteOld, MarkInvalid
<1>2. op \in Writes /\ i \in Items /\ FoundSect = opSect
    BY <1>1, RequestKinds DEF IInv, PhaseOK, SectorsOK, WritePcs
<1>3. q \in Seq(Entry) /\ P \in SUBSET (1 .. n) /\ n \in Nat /\ DOMAIN q = 1 .. n
    BY Working, AtIs DEF NewIndex
<1>4. e \in Entry /\ e.st # "valid"
    BY BlankEntry DEF States
<1>5. Return
    BY DeleteOldWInv
<1> HIDE DEF e
<1>6. deleteIdx \in DOMAIN q
    <2> HIDE DEF P, q, n
    <2> QED
        BY <1>1, <1>3
<1>7. PICK r \in Seq(Entry) : IndexOnly(q, r) /\ Replaced(q, r, deleteIdx, e)
    BY <1>1, <1>4, <1>6, RewriteDoes
<1>8. Content(flash) = q /\ Content(flash') = r
    BY <1>2, <1>7, Working, IndexSeen
<1>9. asked = AskedFor(i, Kept) /\ asked' = NoOp
    BY <1>1, <1>5, AskedIs, AppliedIs DEF Return
<1>10. Kept = {q[k].val : k \in P \ {deleteIdx, n}}
    BY <1>1 DEF Kept, ValidAt, At, NewIndex
<1> HIDE DEF P, q, n, i
<1>11. Last(P) = n
    BY <1>1, <1>3, LastIs
<1>12. deleteIdx # Last(P)
    BY <1>1, <1>3, <1>11
<1>13. /\ At(r, i) = P \ {deleteIdx}
       /\ Value(r, i) = Value(q, i)
       /\ \A h : h # i => Value(r, h) = Value(q, h) /\ Olds(r, h) = Olds(q, h)
    BY <1>1, <1>4, <1>7, <1>12, EntryDeleted DEF P
<1>14. /\ stored' = [stored EXCEPT ![i] = Value(r, i)]
       /\ older' = [older EXCEPT ![i] = Olds(r, i)]
    BY <1>2, <1>8, <1>13, OneItemSeen DEF IInv
<1>15. stored' = stored
    <2>1. stored[i] = Value(q, i)
        BY <1>2, <1>8, HeldTypes DEF IInv
    <2> QED
        BY <1>13, <1>14, <2>1 DEF stored
<1>16. Olds(r, i) = Kept
    <2> DEFINE R == P \ {deleteIdx}
               L == R \ {n}
    <2>1. n \in R /\ R \in SUBSET (1..n) /\ \A k \in R : k <= n
        BY <1>1, <1>3, <1>11, <1>12
    <2>2. Last(R) = n
        BY <1>3, <2>1, LastIs
    <2>3. R # {}
        BY <2>1
    <2>4. At(r, i) = R
        BY <1>13
    <2> HIDE DEF R
    <2>5. Olds(r, i) = {r[k].val : k \in L}
        BY <2>2, <2>3, <2>4, Zenon DEF Olds, Earlier
    <2>6. L = P \ {deleteIdx, n}
        BY DEF R
    <2>7. \A k \in L : r[k].val = q[k].val
        <3>1. \A k \in DOMAIN q : r[k] = IF k = deleteIdx THEN e ELSE q[k]
            BY <1>7 DEF Replaced
        <3>2. \A k \in L : k \in DOMAIN q /\ k # deleteIdx
            BY <1>3, <2>6
        <3> QED
            BY <3>1, <3>2
    <2>8. Kept = {q[k].val : k \in L}
        BY <1>10, <2>6, Zenon
    <2> HIDE DEF L
    <2>9. {r[k].val : k \in L} = {q[k].val : k \in L}
        BY <2>7
    <2> QED
        BY <2>5, <2>8, <2>9
<1> QED
    BY <1>9, <1>14, <1>15, <1>16, StepReturns

\* The first sector flag: the first write of an empty module takes effect.
LEMMA FirstStores ==
    ASSUME IInv, IInv', WInv, First
    PROVE  StoreStep
<1> DEFINE q == NewIndex
<1>1. pc = "first" /\ flash' = [flash EXCEPT ![opSect].flag = "valid"] /\ Return
    BY DEF First, SetFlag
<1>2. /\ FoundSect = NoSect /\ Renewed(q)
      /\ \A i \in Items \ {op.item} : At(q, i) = {}
    BY <1>1 DEF WInv, PlaceOK
<1>3. op \in Writes /\ op.item \in Items /\ opSect = 0
    BY <1>1, <1>2, RequestKinds DEF IInv, PhaseOK, SectorsOK, WritePcs, NoSect, Sectors
<1>4. flash'[0].flag = "valid" /\ flash'[0].index = q
    BY <1>1, <1>3 DEF IInv, FlashOK, Sector, Sectors, NewIndex, Index
<1>5. Content(flash) = <<>> /\ Content(flash') = q
    BY <1>2, <1>4, FoundIs, ContentIs DEF FoundIn, CurrentFlags, NoSect
<1>6. \A i \in Items : i # op.item => Value(q, i) = None /\ Olds(q, i) = {}
    BY <1>2 DEF Value, Olds, Newest, Earlier
<1>7. \A i \in Items : i # op.item => /\ Value(q, i) = Value(<<>>, i)
                                      /\ Olds(q, i) = Olds(<<>>, i)
    BY <1>6, NothingHeld
<1> HIDE DEF q
<1>8. /\ stored' = [stored EXCEPT ![op.item] = Value(q, op.item)]
      /\ older' = [older EXCEPT ![op.item] = Olds(q, op.item)]
    BY <1>3, <1>5, <1>7, OneItemSeen DEF IInv
<1>9. Value(q, op.item) = op.val /\ Olds(q, op.item) = {}
    BY <1>2 DEF Renewed
<1>10. asked = op /\ asked' = NoOp
    BY <1>1, AskedIs DEF Return
<1> QED
    BY <1>3, <1>8, <1>9, <1>10, StepWrites

\* What a power loss leaves of a current sector's index q: q, or q with a torn entry.
LEMMA CutHeld ==
    ASSUME NEW q \in Seq(Entry), NEW torn \in {<<>>, <<Blank("torn")>>}
    PROVE  SameHeld(q, q \o torn)
<1>1. CASE torn = <<>>
    <2>1. q \o torn = q
        BY <1>1
    <2> QED
        BY <2>1 DEF SameHeld
<1>2. CASE torn = <<Blank("torn")>>
    <2> DEFINE b == Blank("torn")
               r == q \o torn
    <2>1. b \in Entry /\ b.st # "valid"
        BY BlankEntry DEF States
    <2>2. torn = <<b>>
        BY <1>2
    <2> HIDE DEF b
    <2>3. /\ r \in Seq(Entry) /\ Len(r) = Len(q) + 1 /\ r[Len(q) + 1] = b
          /\ \A j \in DOMAIN q : r[j] = q[j]
        BY <2>1, <2>2
    <2> HIDE DEF r
    <2>4. SameHeld(q, r)
        BY <2>1, <2>3, NothingAdded DEF SameHeld
    <2> QED
        BY <2>4 DEF r
<1> QED
    BY <1>1, <1>2

\* The power fails: nothing of it is seen.
LEMMA PowerLossStores ==
    ASSUME IInv, IInv', PowerLoss
    PROVE  StoreStep
<1>1. PICK torn \in {<<>>, <<Blank("torn")>>} : flash' = [s \in Sectors |-> Left(s, torn)]
    BY DEF PowerLoss, Left
<1>2. FoundSect' = FoundSect
    BY PowerLossSteps
<1>3. \A i \in Items : /\ Value(Content(flash'), i) = Value(Content(flash), i)
                       /\ Olds(Content(flash'), i) = Olds(Content(flash), i)
    <2>1. CASE FoundSect = NoSect
        BY <1>2, <2>1, ContentIs
    <2>2. CASE FoundSect # NoSect
        <3> DEFINE f == FoundSect
                   q == flash[f].index
        <3>1. f \in Sectors /\ flash[f].flag \in CurrentFlags
            BY <2>2, FoundIs DEF FoundIn, Sectors
        <3>2. q \in Seq(Entry) /\ flash[f] \in Sector
            BY <3>1 DEF IInv, FlashOK, SectorOK, Sector
        <3>3. flash'[f].index = IF f = opSect THEN q \o torn ELSE q
            BY <1>1, <3>1, <3>2 DEF Left, CurrentFlags, Sector
        <3>4. Content(flash) = q /\ Content(flash') = flash'[f].index
            BY <1>2, <2>2, ContentIs
        <3> HIDE DEF f, q
        <3>5. SameHeld(q, q \o torn)
            BY <3>2, CutHeld
        <3> QED
            BY <3>3, <3>4, <3>5 DEF SameHeld
    <2> QED
        BY <2>1, <2>2
<1>4. stored' = stored /\ older' = older
    BY <1>3, NotSeen DEF IInv
<1>5. asked' = NoOp
    BY AskedIs DEF PowerLoss
<1> QED
    BY <1>4, <1>5, StepPowerLoss

\* Every step of the sectors is one of the store, or none.
LEMMA NextStores == IInv /\ IInv' /\ WInv /\ [Next]_vars => StoreStep
<1> SUFFICES ASSUME IInv, IInv', WInv, [Next]_vars PROVE StoreStep
    OBVIOUS
<1>1. CASE UNCHANGED vars
    <2>1. UNCHANGED <<stored, older, asked>>
        BY <1>1 DEF vars, stored, older, asked, Stored, Older, TookEffect, Kept, LastValid,
           ValidAt, FoundSect, Index
    <2> QED
        BY <2>1, StepUnseen
<1>2. CASE \E r \in Requests : Begin(r)
    BY <1>2, BeginStores
<1>3. CASE SectorFound \/ Room \/ Cleaned \/ Copy \/ Copied \/ PowerOn
    BY <1>3, WorkStores
<1>4. CASE SectorMissing \/ ReadItem \/ RemoveItem \/ NotEnoughSpace
    BY <1>4, SectorMissingStores, AnswerStores, RemoveItemStores
<1>5. CASE RetireOther \/ Validate \/ Switch \/ Clean \/ Ready \/ First \/ DeleteOld
    BY <1>5, RetireOtherStores, ValidateStores, SwitchStores, CleanStores, ReadyStores,
       FirstStores, DeleteOldStores
<1>6. CASE WriteIndex \/ WriteBody
    BY <1>6, WriteIndexStores
<1>7. CASE WriteState
    BY <1>7, MoveStateStores, PlaceStateStores, FirstStateStores
<1>8. CASE PowerLoss
    BY <1>8, PowerLossStores
<1> QED
    BY <1>1, <1>2, <1>3, <1>4, <1>5, <1>6, <1>7, <1>8 DEF Next, Step, WriteStep

\* The module starts empty, with nothing asked.
LEMMA InitStores == Init => WInv /\ Store!Init
<1> SUFFICES ASSUME Init PROVE WInv /\ Store!Init
    OBVIOUS
<1>1. WInv
    BY DEF Init, WInv, MoveOK, PlaceOK
<1>2. FlashOK /\ FoundSect = NoSect
    BY InitKeeps, FoundIs DEF Init, IInv, FoundIn, CurrentFlags, Erased, Sectors
<1>3. Content(flash) = <<>>
    BY <1>2, ContentIs
<1>4. /\ stored = [i \in Items |-> None]
      /\ older = [i \in Items |-> {}]
    BY <1>2, <1>3, SeenNow, NothingHeld DEF Seen
<1>5. asked = [kind |-> "none"]
    BY AskedIs DEF Init, NoOp
<1> QED
    BY <1>1, <1>4, <1>5 DEF Store!Init, Store!NoReq, stored, older, asked

\* Of a write in progress: what a move has copied is what the old sector holds up
\* to there, in its order, and the entry a write is to delete is the one that counted.
THEOREM WritesInductive == Spec => []WInv
    BY InitStores, Inductive, NextWInv, PTL DEF Spec

\* The sectors implement the store of NvStore: a write takes effect at one instant,
\* whole, and on no other item, wherever nv_nvSectorUpdate and the recovery of
\* nv_sector_read are cut short by a power loss.
THEOREM RefinesStore == Spec => ImplementsStore
<1>1. Init => Store!Init
    BY InitStores
<1>2. IInv /\ IInv' /\ WInv /\ [Next]_vars => [Store!Next]_(Store!vars)
    BY NextStores DEF StoreStep, Store!vars, stored, older, asked
<1> QED
    BY <1>1, <1>2, Inductive, WritesInductive, PTL DEF Spec, ImplementsStore, Store!Spec
=============================================================================
