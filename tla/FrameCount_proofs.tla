-------------------------- MODULE FrameCount_proofs --------------------------
(***************************************************************************)
(* Proofs about FrameCount, as MCNvFlash composes it with the items: for   *)
(* every width of a word, capacity of a sector and threshold, and wherever *)
(* the power fails or a write does, no frame counter comes back lower than *)
(* the last one stored or given, nor further ahead than the threshold.     *)
(***************************************************************************)
EXTENDS MCNvFlash, TLAPS

CSectors == {0, 1}

CWords(s) == cFlash[s].words
CFlag(s)  == cFlash[s].flag

InUse == Counter!FoundSect

CFlags == {"idle", "ready", "valid", "invalid"}

CSector == [flag : CFlags, words : Seq(Counter!Counts)]

\* What the words of a sector are: after the first, none is so large that the
\* limit beyond it would be out of range.
WordsOK(w) ==
    /\ w \in Seq(Counter!Counts) /\ Len(w) <= CAP
    /\ \A k \in DOMAIN w : k > 1 => w[k] + THRES < Counter!ErasedWord

CFlashOK ==
    /\ cFlash \in [CSectors -> CSector]
    /\ \A s \in CSectors : /\ WordsOK(CWords(s))
                           /\ CFlag(s) \in {"ready", "valid"} => CWords(s) # <<>>

Saves    == [kind : {"save"}, count : 0..MaxCount, force : BOOLEAN]
Restores == [kind : {"restore"}, count : Counter!Counts, force : BOOLEAN]

\* What the variables of the call hold.
CallOK ==
    /\ cPc \in {"idle", "off", "sector", "retire", "validate", "search", "erase",
                "last", "count", "ready", "invalid", "valid"}
    /\ cSect \in CSectors /\ oldSect \in CSectors \cup {2}
    /\ cUpdate \in BOOLEAN /\ fails \in 0..MaxFails
    /\ count \in Counter!Counts /\ kept \in Counter!Counts /\ spoiled \in BOOLEAN
    /\ IF cPc \in {"idle", "off"} THEN call = Counter!NoCall ELSE call \in Saves \cup Restores
    /\ cPc \in {"idle", "off", "sector"} => cSect = 0
    /\ cPc \in {"idle", "off", "sector", "retire", "validate", "search"} =>
         oldSect = 0 /\ ~cUpdate
    /\ cPc \in {"sector", "retire", "validate", "search"} => ~call.force
    /\ cPc = "erase" => /\ call.force /\ ~cUpdate
                        /\ IF oldSect = 2 THEN cSect = 0 /\ call \in Saves
                           ELSE call \in Restores /\ cSect = oldSect
    /\ cPc = "last" => cUpdate
    /\ cPc \in {"last", "count", "ready", "invalid", "valid"} =>
         /\ cUpdate => call \in Saves /\ ~call.force /\ oldSect # 2
         /\ call.force => (call \in Saves <=> oldSect = 2)
         /\ IF cUpdate \/ call.force THEN cSect = Counter!ForcedSect
            ELSE call \in Saves /\ oldSect = 0
    /\ cPc \in {"invalid", "valid"} => cUpdate \/ call.force

\* Where the sector worked on stands with the one in use.
PlacesOK ==
    /\ cPc \in {"retire", "validate", "search", "valid"} => InUse = cSect
    /\ cPc = "erase" /\ oldSect # 2 => InUse = oldSect
    /\ cPc \in {"last", "count", "ready"} =>
         /\ cUpdate \/ (call.force /\ oldSect # 2) => InUse = oldSect
         /\ cUpdate \/ call.force => CFlag(cSect) = "idle"
    /\ cPc = "last" => CWords(cSect) = <<>>
    /\ cPc = "count" =>
         IF cUpdate THEN Len(CWords(cSect)) = 1
         ELSE IF call.force THEN CWords(cSect) = <<>>
         ELSE \/ InUse = cSect /\ Len(CWords(cSect)) \in 1 .. CAP - 1
              \/ InUse = 2 /\ cSect = 0 /\ CWords(0) = <<>> /\ CFlag(0) = "idle"
    /\ cPc = "ready" =>
         /\ ~cUpdate /\ ~call.force => InUse = 2 /\ cSect = 0 /\ CFlag(0) = "idle"
         /\ CWords(cSect) # <<>>
    /\ cPc \in {"invalid", "valid"} => CFlag(cSect) = "ready"

\* The sector in use ends with the counter last stored or given.
Settled == InUse # 2 => Counter!Last(CWords(InUse)) = kept /\ ~Counter!Jumps(CWords(InUse))

\* Before the words of the sector in use are followed by others, and after.
Early == {"sector", "retire", "validate", "search", "last", "count"}
Late  == {"ready", "invalid", "valid"}

\* How the words stand with what was asked for and what was stored.
CountsOK ==
    /\ Counter!Restored >= kept
    /\ ~Counter!SecondWord => Counter!Restored <= count + THRES
    /\ cPc = "idle" => count = kept
    /\ \/ cPc = "idle"
       \/ cPc \in Early /\ call \in Saves /\ ~call.force
       => Settled /\ count <= kept + THRES
    /\ call \in Saves => call.count = count /\ kept <= count
    /\ call \in Restores /\ call.force => kept <= call.count /\ call.count <= count + THRES
    /\ cPc \in Late =>
         Len(CWords(cSect)) <= 2 /\ Counter!Last(CWords(cSect)) = call.count

CInv == CFlashOK /\ CallOK /\ PlacesOK /\ (~spoiled => CountsOK)

-----------------------------------------------------------------------------
(***************************************************************************)
(* Lemmas on words.                                                        *)
(***************************************************************************)
\* The range of a word.
LEMMA Range ==
    /\ Counter!ErasedWord \in Nat /\ 2^W = Counter!ErasedWord + 1
    /\ Counter!Counts = 0 .. Counter!ErasedWord - 1
    /\ THRES \in Nat /\ MaxCount \in Nat /\ MaxCount + THRES < Counter!ErasedWord
    /\ CAP \in Nat /\ CAP > 2 /\ MaxFails \in Nat
<1>1. 2^W \in Int /\ MaxCount + THRES < 2^W - 1
    BY CounterAssumption
<1> QED
    BY <1>1, CounterAssumption DEF Counter!ErasedWord, Counter!Counts

\* Bits not cleared yet only make a word larger.
LEMMA PartIs ==
    ASSUME NEW c \in Counter!Counts, NEW v \in Counter!PartOf(c)
    PROVE  /\ v \in Int /\ c <= v
           /\ v = Counter!ErasedWord
              \/ (v \in Counter!Counts /\ v + THRES < Counter!ErasedWord)
<1> DEFINE M == 2^W
           e == Counter!ErasedWord
<1>1. /\ v \in 0..e /\ c \in 0 .. e - 1 /\ e \in Nat /\ M = e + 1
      /\ v = e \/ v + THRES < e
    BY Range DEF Counter!PartOf
<1>2. c % M <= v % M
    <2>1. W \in 1..W
        BY CounterAssumption
    <2> QED
        BY <2>1 DEF Counter!PartOf, Counter!HasBitsOf
<1> HIDE DEF M, e
<1>3. c % M = c /\ v % M = v
    BY <1>1
<1>4. v = e \/ v \in 0 .. e - 1
    BY <1>1
<1> QED
    BY <1>1, <1>2, <1>3, <1>4, Range DEF e

\* What is read from the words of a sector that was used.
LEMMA WordsAre ==
    ASSUME NEW w, WordsOK(w), w # <<>>
    PROVE  /\ Len(w) \in Nat /\ Len(w) > 0 /\ Counter!Last(w) \in Counter!Counts
           /\ Counter!Counter(w) \in Counter!Counts
           /\ Len(w) <= 2 => ~Counter!Jumps(w)
           /\ ~Counter!Jumps(w) => Counter!Counter(w) = Counter!Last(w)
           /\ Counter!Jumps(w) => Len(w) > 2
<1>1. w \in Seq(Counter!Counts) /\ Len(w) \in Nat /\ Len(w) > 0
    BY DEF WordsOK
<1>2. Counter!Last(w) \in Counter!Counts
    BY <1>1 DEF Counter!Last
<1>3. Counter!Jumps(w) => Len(w) > 2
    BY DEF Counter!Jumps
<1>4. Counter!Jumps(w) => Counter!Counter(w) \in Counter!Counts
    <2> SUFFICES ASSUME Counter!Jumps(w) PROVE Counter!Counter(w) \in Counter!Counts
        OBVIOUS
    <2> DEFINE k == Len(w) - 1
    <2>1. k \in DOMAIN w /\ k > 1
        BY <1>1, <1>3
    <2>2. w[k] \in Counter!Counts /\ w[k] + THRES < Counter!ErasedWord
        BY <1>1, <2>1 DEF WordsOK
    <2>3. Counter!Counter(w) = w[k] + THRES
        BY DEF Counter!Counter
    <2> HIDE DEF k
    <2> QED
        BY <2>2, <2>3, Range
<1>5. ~Counter!Jumps(w) => Counter!Counter(w) = Counter!Last(w)
    BY DEF Counter!Counter
<1>6. Len(w) <= 2 => ~Counter!Jumps(w)
    BY <1>1, <1>3
<1> QED
    BY <1>1, <1>2, <1>3, <1>4, <1>5, <1>6

\* A word appended.
LEMMA WordAppended ==
    ASSUME NEW w, WordsOK(w), Len(w) < CAP, NEW v \in Counter!Counts,
           w # <<>> => v + THRES < Counter!ErasedWord
    PROVE  /\ WordsOK(Append(w, v)) /\ Append(w, v) # <<>>
           /\ Len(Append(w, v)) = Len(w) + 1 /\ Len(w) \in Nat
           /\ Append(w, v)[Len(w) + 1] = v /\ Counter!Last(Append(w, v)) = v
           /\ \A k \in DOMAIN w : Append(w, v)[k] = w[k]
<1> DEFINE u == Append(w, v)
           n == Len(w)
<1>1. w \in Seq(Counter!Counts) /\ n \in Nat /\ n < CAP /\ DOMAIN w = 1..n
    BY DEF WordsOK
<1>2. /\ u \in Seq(Counter!Counts) /\ Len(u) = n + 1 /\ DOMAIN u = 1 .. n + 1
      /\ u[n + 1] = v /\ \A k \in 1..n : u[k] = w[k]
    BY <1>1
<1>3. w = <<>> <=> n = 0
    BY <1>1
<1> HIDE DEF u, n
<1>4. \A k \in DOMAIN u : k > 1 => u[k] + THRES < Counter!ErasedWord
    <2> SUFFICES ASSUME NEW k \in 1 .. n + 1, k > 1 PROVE u[k] + THRES < Counter!ErasedWord
        BY <1>2
    <2>1. CASE k = n + 1
        <3>1. n # 0
            BY <1>1, <2>1
        <3> QED
            BY <1>2, <1>3, <2>1, <3>1
    <2>2. CASE k # n + 1
        <3>1. k \in 1..n
            BY <1>1, <2>2
        <3>2. w[k] + THRES < Counter!ErasedWord
            BY <1>1, <3>1 DEF WordsOK
        <3> QED
            BY <1>2, <3>1, <3>2
    <2> QED
        BY <2>1, <2>2
<1>5. WordsOK(u)
    BY <1>1, <1>2, <1>4, Range DEF WordsOK
<1>6. u # <<>>
    BY <1>1, <1>2
<1>7. Counter!Last(u) = v
    BY <1>2 DEF Counter!Last
<1> QED
    BY <1>1, <1>2, <1>5, <1>6, <1>7 DEF u, n

\* A word v appended to words that end with the counter k, and is not below it: what
\* is then read is neither, and a word within the limit is believed.
LEMMA ReadBack ==
    ASSUME NEW w, WordsOK(w), Len(w) < CAP, w # <<>>, NEW v \in Counter!Counts,
           v + THRES < Counter!ErasedWord, NEW k, Counter!Last(w) = k, k <= v
    PROVE  LET u == Append(w, v)
           IN  /\ k <= Counter!Counter(u)
               /\ Len(u) # 2 => Counter!Counter(u) <= k + THRES
               /\ v <= k + THRES => ~Counter!Jumps(u)
<1> DEFINE u == Append(w, v)
           n == Len(w)
<1>1. /\ WordsOK(u) /\ u # <<>> /\ Len(u) = n + 1 /\ n \in Nat
      /\ u[n + 1] = v /\ Counter!Last(u) = v /\ \A j \in DOMAIN w : u[j] = w[j]
    BY WordAppended
<1>2. n > 0 /\ k \in Counter!Counts /\ w[n] = k /\ n \in DOMAIN w
    <2>1. w \in Seq(Counter!Counts) /\ n > 0 /\ Counter!Last(w) \in Counter!Counts
        BY WordsAre DEF WordsOK
    <2> QED
        BY <2>1 DEF Counter!Last
<1> HIDE DEF u, n
<1>3. u[Len(u) - 1] = k
    <2>1. Len(u) - 1 = n
        BY <1>1
    <2> QED
        BY <1>1, <1>2, <2>1
<1>4. (v - k) % 2^W = v - k
    <2> DEFINE M == 2^W
               d == v - k
    <2>1. d \in Nat /\ d < M /\ M \in Nat
        BY <1>2, Range
    <2> HIDE DEF M, d
    <2>2. d % M = d
        BY <2>1
    <2> QED
        BY <2>2 DEF M, d
<1>5. Counter!Jumps(u) <=> Len(u) > 2 /\ v - k > THRES
    BY <1>1, <1>3, <1>4 DEF Counter!Jumps
<1>6. Counter!Counter(u) = IF Counter!Jumps(u) THEN k + THRES ELSE v
    BY <1>1, <1>3 DEF Counter!Counter
<1>7. k \in Int /\ v \in Int /\ THRES \in Nat
    BY <1>2, Range
<1>8. k <= Counter!Counter(u)
    BY <1>5, <1>6, <1>7
<1>9. Len(u) # 2 => Counter!Counter(u) <= k + THRES
    <2>1. Len(u) # 2 => Len(u) > 2
        BY <1>1, <1>2
    <2> QED
        BY <1>5, <1>6, <1>7, <2>1
<1>10. v <= k + THRES => ~Counter!Jumps(u)
    BY <1>5, <1>7
<1> QED
    BY <1>8, <1>9, <1>10 DEF u

-----------------------------------------------------------------------------
(***************************************************************************)
(* Lemmas on the sectors.                                                  *)
(***************************************************************************)
Marked == {"ready", "valid"}

\* The sector nv_sector_read stops at, of the flash f.
UsedIn(f) == IF f[0].flag \in Marked THEN 0 ELSE IF f[1].flag \in Marked THEN 1 ELSE 2

\* Which sector is in use, before and after a step.
LEMMA InUseIs ==
    /\ InUse = UsedIn(cFlash) /\ InUse' = UsedIn(cFlash')
    /\ Counter!Restored = IF InUse = 2 THEN 0 ELSE Counter!Counter(CWords(InUse))
    /\ Counter!SecondWord <=> InUse # 2 /\ Len(CWords(InUse)) = 2
<1>1. ASSUME NEW C \in SUBSET {0, 1}, C # {}
      PROVE  (CHOOSE s \in C : \A t \in C : s <= t) = IF 0 \in C THEN 0 ELSE 1
    <2>1. C = {0} \/ C = {1} \/ C = {0, 1}
        BY <1>1
    <2>2. \E s \in C : \A t \in C : s <= t
        BY <2>1
    <2> QED
        BY <2>1, <2>2
<1> DEFINE A == {s \in {0, 1} : cFlash[s].flag \in {"ready", "valid"}}
           B == {s \in {0, 1} : cFlash'[s].flag \in {"ready", "valid"}}
<1>2. InUse = IF A = {} THEN 2 ELSE IF 0 \in A THEN 0 ELSE 1
    BY <1>1 DEF InUse, Counter!FoundSect, Counter!Sectors, Counter!NoSect
<1>3. InUse' = IF B = {} THEN 2 ELSE IF 0 \in B THEN 0 ELSE 1
    BY <1>1 DEF InUse, Counter!FoundSect, Counter!Sectors, Counter!NoSect
<1>4. InUse = UsedIn(cFlash) /\ InUse' = UsedIn(cFlash')
    BY <1>2, <1>3 DEF UsedIn, Marked
<1>5. /\ Counter!Restored = IF InUse = 2 THEN 0 ELSE Counter!Counter(CWords(InUse))
      /\ Counter!SecondWord <=> InUse # 2 /\ Len(CWords(InUse)) = 2
    BY DEF Counter!Restored, Counter!SecondWord, InUse, CWords, Counter!Words, Counter!NoSect
<1> QED
    BY <1>4, <1>5

\* The sector in use is one that is marked, and has words.
LEMMA UsedHas ==
    ASSUME CFlashOK
    PROVE  /\ InUse \in {0, 1, 2}
           /\ InUse # 2 => /\ InUse \in CSectors /\ CFlag(InUse) \in Marked
                           /\ WordsOK(CWords(InUse)) /\ CWords(InUse) # <<>>
           /\ Counter!Restored \in Counter!Counts
<1>1. InUse \in {0, 1, 2} /\ (InUse # 2 => InUse \in CSectors /\ CFlag(InUse) \in Marked)
    BY InUseIs DEF UsedIn, CSectors, CFlag
<1>2. InUse # 2 => WordsOK(CWords(InUse)) /\ CWords(InUse) # <<>>
    BY <1>1 DEF CFlashOK, Marked
<1>3. Counter!Restored \in Counter!Counts
    <2>1. CASE InUse = 2
        BY <2>1, InUseIs, Range
    <2>2. CASE InUse # 2
        BY <1>2, <2>2, InUseIs, WordsAre
    <2> QED
        BY <2>1, <2>2
<1> QED
    BY <1>1, <1>2, <1>3

\* A step that leaves the sector in use as it is.
Unused == InUse' = InUse /\ (InUse # 2 => cFlash'[InUse].words = cFlash[InUse].words)

\* What is read then stays.
LEMMA UseKept ==
    ASSUME Unused
    PROVE  /\ Counter!Restored' = Counter!Restored
           /\ Counter!SecondWord' = Counter!SecondWord
           /\ kept' = kept /\ Settled => Settled'
<1>1. InUse' = InUse /\ (InUse # 2 => cFlash'[InUse].words = cFlash[InUse].words)
    BY DEF Unused
<1>2. InUse # 2 => CWords(InUse)' = CWords(InUse)
    BY <1>1 DEF CWords
<1> QED
    BY <1>1, <1>2 DEF Counter!Restored, Counter!SecondWord, Settled, InUse, CWords,
       Counter!Words, Counter!NoSect, Counter!Counter, Counter!Jumps, Counter!Last

\* A step that leaves the flash as it is.
LEMMA FlashStays ==
    ASSUME CFlashOK, UNCHANGED cFlash
    PROVE  CFlashOK' /\ Unused /\ InUse' = InUse
<1>1. InUse' = InUse
    BY InUseIs
<1> QED
    BY <1>1 DEF CFlashOK, Unused, CWords, CFlag

\* One sector becomes z.
LEMMA CSectorSet ==
    ASSUME CFlashOK, NEW s \in CSectors, NEW z \in CSector, WordsOK(z.words),
           z.flag \in Marked => z.words # <<>>, cFlash' = [cFlash EXCEPT ![s] = z]
    PROVE  /\ CFlashOK'
           /\ cFlash'[s] = z /\ cFlash'[1 - s] = cFlash[1 - s] /\ 1 - s \in CSectors /\ 1 - s # s
<1>1. 1 - s \in CSectors /\ 1 - s # s
    BY DEF CSectors
<1>2. cFlash'[s] = z /\ \A t \in CSectors : t # s => cFlash'[t] = cFlash[t]
    BY DEF CFlashOK
<1>3. cFlash' \in [CSectors -> CSector]
    BY DEF CFlashOK
<1>4. ASSUME NEW t \in CSectors
      PROVE  /\ WordsOK(cFlash'[t].words)
             /\ cFlash'[t].flag \in {"ready", "valid"} => cFlash'[t].words # <<>>
    <2>1. CASE t = s
        BY <1>2, <2>1 DEF Marked
    <2>2. CASE t # s
        BY <1>2, <2>2 DEF CFlashOK, CWords, CFlag
    <2> QED
        BY <2>1, <2>2
<1>5. CFlashOK'
    <2>1. \A t \in CSectors : /\ WordsOK(cFlash'[t].words)
                              /\ cFlash'[t].flag \in {"ready", "valid"} => cFlash'[t].words # <<>>
        BY <1>4
    <2> QED
        BY <1>3, <2>1, Zenon DEF CFlashOK, CWords, CFlag
<1> QED
    BY <1>1, <1>2, <1>5

\* A flag is written.
LEMMA CFlagSet ==
    ASSUME CFlashOK, NEW s \in CSectors, NEW f \in CFlags, f \in Marked => CWords(s) # <<>>,
           cFlash' = [cFlash EXCEPT ![s].flag = f]
    PROVE  /\ CFlashOK'
           /\ cFlash'[s].flag = f /\ cFlash'[s].words = cFlash[s].words
           /\ cFlash'[1 - s] = cFlash[1 - s] /\ 1 - s \in CSectors /\ 1 - s # s
           /\ f \in Marked /\ InUse = s => Unused
<1> DEFINE z == [cFlash[s] EXCEPT !.flag = f]
<1>1. cFlash' = [cFlash EXCEPT ![s] = z]
    BY DEF CFlashOK
<1>2. z \in CSector /\ z.flag = f /\ z.words = cFlash[s].words
    BY DEF CFlashOK, CSector
<1>3. WordsOK(z.words) /\ (z.flag \in Marked => z.words # <<>>)
    BY <1>2 DEF CFlashOK, CWords
<1> HIDE DEF z
<1>4. /\ CFlashOK'
      /\ cFlash'[s] = z /\ cFlash'[1 - s] = cFlash[1 - s] /\ 1 - s \in CSectors /\ 1 - s # s
    BY <1>1, <1>2, <1>3, CSectorSet
<1>5. f \in Marked /\ InUse = s => Unused
    BY <1>2, <1>4, InUseIs DEF UsedIn, CSectors, Unused
<1> QED
    BY <1>2, <1>4, <1>5

\* The words of a sector become u.
LEMMA CWordsSet ==
    ASSUME CFlashOK, NEW s \in CSectors, NEW u, WordsOK(u), CFlag(s) \in Marked => u # <<>>,
           cFlash' = [cFlash EXCEPT ![s].words = u]
    PROVE  /\ CFlashOK'
           /\ cFlash'[s].flag = cFlash[s].flag /\ cFlash'[s].words = u
           /\ cFlash'[1 - s] = cFlash[1 - s] /\ 1 - s \in CSectors /\ 1 - s # s
           /\ InUse' = InUse
<1> DEFINE z == [cFlash[s] EXCEPT !.words = u]
<1>1. cFlash' = [cFlash EXCEPT ![s] = z]
    BY DEF CFlashOK
<1>2. z \in CSector /\ z.flag = cFlash[s].flag /\ z.words = u
    BY DEF CFlashOK, CSector, WordsOK
<1>3. WordsOK(z.words) /\ (z.flag \in Marked => z.words # <<>>)
    BY <1>2 DEF CFlag
<1> HIDE DEF z
<1>4. /\ CFlashOK'
      /\ cFlash'[s] = z /\ cFlash'[1 - s] = cFlash[1 - s] /\ 1 - s \in CSectors /\ 1 - s # s
    BY <1>1, <1>2, <1>3, CSectorSet
<1>5. InUse' = InUse
    BY <1>2, <1>4, InUseIs DEF UsedIn, CSectors
<1> QED
    BY <1>2, <1>4, <1>5

\* A sector is erased, or retired.
LEMMA CSectorCleared ==
    ASSUME CFlashOK, NEW s \in CSectors, NEW f \in {"idle", "invalid"},
           cFlash' = [cFlash EXCEPT ![s] = [flag |-> f, words |-> <<>>]]
    PROVE  /\ CFlashOK'
           /\ cFlash'[s].flag = f /\ cFlash'[s].words = <<>>
           /\ cFlash'[1 - s] = cFlash[1 - s] /\ 1 - s \in CSectors /\ 1 - s # s
           /\ InUse # s => Unused
<1> DEFINE z == [flag |-> f, words |-> <<>>]
<1>1. <<>> \in Seq(Counter!Counts) /\ Len(<<>>) <= CAP /\ DOMAIN <<>> = {}
    BY Range
<1>2. z \in CSector /\ WordsOK(z.words) /\ z.flag = f /\ z.words = <<>> /\ f \notin Marked
    BY <1>1 DEF CSector, CFlags, WordsOK, Marked
<1> HIDE DEF z
<1>3. /\ CFlashOK'
      /\ cFlash'[s] = z /\ cFlash'[1 - s] = cFlash[1 - s] /\ 1 - s \in CSectors /\ 1 - s # s
    BY <1>2, CSectorSet DEF z
<1>4. InUse # s => Unused
    BY <1>2, <1>3, InUseIs DEF UsedIn, CSectors, Unused
<1> QED
    BY <1>2, <1>3, <1>4

\* What is read, by name, so that it can be said of the next state.
UseOK ==
    /\ InUse \in {0, 1, 2}
    /\ InUse # 2 => /\ InUse \in CSectors /\ CFlag(InUse) \in Marked
                    /\ WordsOK(CWords(InUse)) /\ CWords(InUse) # <<>>
    /\ Counter!Restored \in Counter!Counts
    /\ Counter!Restored = IF InUse = 2 THEN 0 ELSE Counter!Counter(CWords(InUse))
    /\ Counter!SecondWord <=> InUse # 2 /\ Len(CWords(InUse)) = 2

\* Before a step.
LEMMA UseNow == CFlashOK => UseOK
    BY UsedHas, InUseIs DEF UseOK

\* After a step.
LEMMA UseNext == CFlashOK' => UseOK'
    BY UseNow, PTL

-----------------------------------------------------------------------------
(***************************************************************************)
(* Every action keeps the inductive invariant.                             *)
(***************************************************************************)
\* The module starts empty.
LEMMA CInitKeeps == Counter!Init => CInv
<1> SUFFICES ASSUME Counter!Init PROVE CInv
    OBVIOUS
<1>1. cFlash = [s \in {0, 1} |-> [flag |-> "idle", words |-> <<>>]]
    BY DEF Counter!Init, Counter!Sectors, Counter!Erased
<1>2. CFlashOK
    <2>1. <<>> \in Seq(Counter!Counts) /\ Len(<<>>) <= CAP /\ DOMAIN <<>> = {}
        BY Range
    <2> QED
        BY <1>1, <2>1 DEF CFlashOK, CSectors, CSector, CFlags, WordsOK, CWords, CFlag
<1>3. CallOK
    <2>1. 0 \in Counter!Counts /\ MaxFails \in 0..MaxFails
        BY Range
    <2>2. /\ cPc = "idle" /\ call = Counter!NoCall /\ cSect = 0 /\ oldSect = 0 /\ cUpdate = FALSE
          /\ fails = MaxFails /\ count = 0 /\ kept = 0 /\ spoiled = FALSE
        BY DEF Counter!Init
    <2> QED
        BY <2>1, <2>2 DEF CallOK, CSectors
<1>4. InUse = 2
    BY <1>1, InUseIs DEF UsedIn, Marked
<1>5. PlacesOK
    BY DEF Counter!Init, PlacesOK
<1>6. CountsOK
    <2>1. Counter!Restored = 0 /\ THRES \in Nat
        BY <1>4, InUseIs, Range
    <2>2. call \notin Saves /\ call \notin Restores
        BY DEF Counter!Init, Counter!NoCall, Saves, Restores
    <2> QED
        BY <1>4, <2>1, <2>2 DEF Counter!Init, CountsOK, Settled, Early, Late
<1> QED
    BY <1>2, <1>3, <1>5, <1>6 DEF CInv

\* A call returns, with v stored or given.
LEMMA CReturnKeeps ==
    ASSUME CallOK, CFlashOK', NEW v \in Counter!Counts, Counter!Return(v),
           fails' \in 0..MaxFails, spoiled' \in BOOLEAN,
           ~spoiled' => /\ count' = v
                        /\ IF InUse' = 2 THEN v = 0
                           ELSE /\ Counter!Last(cFlash'[InUse'].words) = v
                                /\ ~Counter!Jumps(cFlash'[InUse'].words)
    PROVE  CInv'
<1>1. /\ cPc' = "idle" /\ call' = Counter!NoCall /\ cSect' = 0 /\ oldSect' = 0 /\ ~cUpdate'
      /\ kept' = v /\ count' = (IF call.kind = "restore" THEN v ELSE count) /\ cUpdate' = FALSE
    BY DEF Counter!Return, Counter!Reset
<1>2. CallOK'
    BY <1>1 DEF CallOK, CSectors
<1>3. PlacesOK'
    BY <1>1 DEF PlacesOK
<1>4. ASSUME ~spoiled'
      PROVE  CountsOK'
    <2>1. call' \notin Saves /\ call' \notin Restores
        BY <1>1 DEF Counter!NoCall, Saves, Restores
    <2>2. Settled'
        BY <1>1, <1>4 DEF Settled, CWords, Counter!Last, Counter!Jumps
    <2>3. Counter!Restored' = v
        <3>1. CASE InUse' = 2
            BY <1>4, <3>1, UseNext DEF UseOK
        <3>2. CASE InUse' # 2
            <4> DEFINE w == cFlash'[InUse'].words
            <4>1. WordsOK(w) /\ w # <<>> /\ Counter!Restored' = Counter!Counter(w)
                BY <3>2, UseNext DEF UseOK, CWords, WordsOK, Counter!Counter, Counter!Jumps,
                   Counter!Last
            <4>2. Counter!Last(w) = v /\ ~Counter!Jumps(w)
                BY <1>4, <3>2
            <4> HIDE DEF w
            <4> QED
                BY <4>1, <4>2, WordsAre
        <3> QED
            BY <3>1, <3>2
    <2>4. v \in Int /\ THRES \in Nat
        BY Range
    <2>5. kept' = v /\ count' = v
        BY <1>1, <1>4
    <2>6. v >= v /\ v <= v + THRES
        BY <2>4
    <2>7. Counter!Restored' >= kept' /\ Counter!Restored' <= count' + THRES
          /\ count' = kept' /\ count' <= kept' + THRES
        BY <2>3, <2>5, <2>6, Zenon
    <2> QED
        BY <1>1, <2>1, <2>2, <2>7 DEF CountsOK, Early, Late
<1> QED
    BY <1>2, <1>3, <1>4 DEF CInv

\* What the counters are.
LEMMA CountTypes ==
    ASSUME CInv
    PROVE  /\ count \in Int /\ kept \in Int /\ Counter!Restored \in Int /\ THRES \in Nat
           /\ count \in Counter!Counts /\ kept \in Counter!Counts
<1>1. CFlashOK /\ CallOK
    BY DEF CInv
<1>2. Counter!Restored \in Counter!Counts
    BY <1>1, UseNow DEF UseOK
<1> QED
    BY <1>1, <1>2, Range DEF CallOK

\* A counter is to be saved.
LEMMA CSaveKeeps ==
    ASSUME CInv, NEW c \in 0..MaxCount, Counter!Save(c)
    PROVE  CInv'
<1>1. /\ cPc = "idle" /\ cPc' = "sector" /\ c \in count .. count + THRES
      /\ call' = [kind |-> "save", count |-> c, force |-> FALSE] /\ count' = c
      /\ UNCHANGED <<cFlash, cSect, oldSect, cUpdate, fails, kept, spoiled>>
    BY DEF Counter!Save
<1>2. CFlashOK' /\ Unused
    BY <1>1, FlashStays DEF CInv
<1>3. c \in Counter!Counts /\ c \in Int
    BY Range
<1>4. call' \in Saves /\ ~call'.force /\ call'.count = c /\ call' \notin Restores
    BY <1>1 DEF Saves, Restores
<1>5. CallOK'
    BY <1>1, <1>3, <1>4 DEF CInv, CallOK
<1>6. PlacesOK'
    BY <1>1 DEF PlacesOK
<1>7. ~spoiled' => CountsOK'
    <2> SUFFICES ASSUME ~spoiled' PROVE CountsOK'
        OBVIOUS
    <2>1. CountsOK
        BY <1>1 DEF CInv
    <2>2. /\ Counter!Restored' = Counter!Restored /\ Counter!SecondWord' = Counter!SecondWord
          /\ Settled'
        BY <1>1, <1>2, <2>1, UseKept DEF CountsOK, Early, Late
    <2>3. count = kept /\ Counter!Restored >= kept
          /\ (~Counter!SecondWord => Counter!Restored <= count + THRES)
        BY <1>1, <2>1 DEF CountsOK, Early, Late
    <2>4. /\ Counter!Restored' >= kept' /\ kept' <= count' /\ count' <= kept' + THRES
          /\ ~Counter!SecondWord' => Counter!Restored' <= count' + THRES
        BY <1>1, <1>3, <2>2, <2>3, CountTypes
    <2> QED
        BY <1>1, <1>4, <2>2, <2>4 DEF CountsOK, Early, Late
<1> QED
    BY <1>2, <1>5, <1>6, <1>7 DEF CInv

\* What the call is of, while there is one.
LEMMA CallIs ==
    ASSUME CInv, cPc \notin {"idle", "off"}
    PROVE  /\ call.count \in Counter!Counts /\ call.count \in Int /\ call.force \in BOOLEAN
           /\ call \in Saves \/ call \in Restores
           /\ call \in Saves <=> call.kind = "save"
           /\ call \in Restores <=> call.kind = "restore"
           /\ call \in Saves => call.count + THRES < Counter!ErasedWord
<1>1. call \in Saves \/ call \in Restores
    BY DEF CInv, CallOK
<1>2. CASE call \in Saves
    <2>1. /\ call.kind = "save" /\ call.count \in 0..MaxCount /\ call.force \in BOOLEAN
          /\ call \notin Restores
        BY <1>2 DEF Saves, Restores
    <2> DEFINE c == call.count
    <2> HIDE DEF c
    <2>2. c \in 0..MaxCount => c \in Counter!Counts /\ c \in Int /\ c + THRES < Counter!ErasedWord
        BY Range
    <2> QED
        BY <1>2, <2>1, <2>2 DEF c
<1>3. CASE call \in Restores
    <2>1. /\ call.kind = "restore" /\ call.count \in Counter!Counts /\ call.force \in BOOLEAN
          /\ call \notin Saves
        BY <1>3 DEF Saves, Restores
    <2> QED
        BY <1>3, <2>1, Range
<1> QED
    BY <1>1, <1>2, <1>3

\* A step that changes neither what is read, nor the call, nor the counters.
LEMMA CountsStay ==
    ASSUME CInv, ~spoiled, Unused, UNCHANGED <<count, kept, call>>, cPc' # "idle",
           cPc' \in Early => cPc \in Early,
           cPc' \in Late => /\ Len(cFlash'[cSect'].words) <= 2
                            /\ Counter!Last(cFlash'[cSect'].words) = call.count
    PROVE  CountsOK'
<1>1. CountsOK
    BY DEF CInv
<1>2. /\ Counter!Restored' = Counter!Restored /\ Counter!SecondWord' = Counter!SecondWord
      /\ Settled => Settled'
    BY UseKept
<1>3. cPc' \in Early /\ call \in Saves /\ ~call.force => Settled' /\ count <= kept + THRES
    BY <1>1, <1>2 DEF CountsOK
<1>4. cPc' \in Late => Len(CWords(cSect)') <= 2 /\ Counter!Last(CWords(cSect))' = call.count
    BY DEF CWords, Counter!Last
<1> QED
    BY <1>1, <1>2, <1>3, <1>4 DEF CountsOK, CWords

\* A sector is found.
LEMMA CSectorFoundKeeps ==
    ASSUME CInv, Counter!SectorFound
    PROVE  CInv'
<1>1. /\ cPc = "sector" /\ InUse # 2 /\ cSect' = InUse
      /\ cPc' = (IF cFlash[InUse].flag = "ready" THEN "retire" ELSE "search")
      /\ UNCHANGED <<cFlash, call, oldSect, cUpdate, fails, count, kept, spoiled>>
    BY DEF Counter!SectorFound, InUse, Counter!NoSect, Counter!history
<1>2. CFlashOK' /\ Unused /\ InUse' = InUse /\ InUse \in CSectors
    BY <1>1, FlashStays, UseNow DEF CInv, UseOK
<1>3. cPc' \in {"retire", "search"}
    BY <1>1
<1>4. CallOK'
    BY <1>1, <1>2, <1>3 DEF CInv, CallOK
<1>5. PlacesOK'
    BY <1>1, <1>2, <1>3 DEF PlacesOK
<1>6. ~spoiled' => CountsOK'
    BY <1>1, <1>2, <1>3, CountsStay DEF Early, Late
<1> QED
    BY <1>2, <1>4, <1>5, <1>6 DEF CInv

\* No sector is found.
LEMMA CSectorMissingKeeps ==
    ASSUME CInv, Counter!SectorMissing
    PROVE  CInv'
<1>1. cPc = "sector" /\ InUse = 2 /\ fails' = fails
    BY DEF Counter!SectorMissing, InUse, Counter!NoSect
<1>2. CFlashOK /\ CallOK
    BY DEF CInv
<1>3. CASE call.kind = "save"
    <2>1. /\ cFlash' = [s \in {0, 1} |-> [flag |-> "idle", words |-> <<>>]] /\ cPc' = "count"
          /\ UNCHANGED <<call, cSect, oldSect, cUpdate, count, kept, spoiled>>
        BY <1>3 DEF Counter!SectorMissing, Counter!Sectors, Counter!Erased, Counter!ram,
           Counter!history
    <2>2. CFlashOK'
        <3>1. <<>> \in Seq(Counter!Counts) /\ Len(<<>>) <= CAP /\ DOMAIN <<>> = {}
            BY Range
        <3> QED
            BY <2>1, <3>1 DEF CFlashOK, CSectors, CSector, CFlags, WordsOK, CWords, CFlag
    <2>3. InUse' = 2 /\ Unused
        BY <1>1, <2>1, InUseIs DEF UsedIn, Marked, Unused
    <2>4. call \in Saves /\ cSect = 0 /\ oldSect = 0 /\ cUpdate = FALSE /\ call.force = FALSE
        BY <1>1, <1>2, <1>3, CallIs DEF CallOK
    <2>5. CallOK'
        BY <1>1, <1>2, <2>1, <2>4 DEF CallOK
    <2>6. PlacesOK'
        BY <2>1, <2>3, <2>4 DEF PlacesOK, CWords, CFlag
    <2>7. ~spoiled' => CountsOK'
        BY <1>1, <2>1, <2>3, CountsStay DEF Early, Late
    <2> QED
        BY <2>2, <2>5, <2>6, <2>7 DEF CInv
<1>4. CASE call.kind # "save"
    <2>1. Counter!Return(kept) /\ UNCHANGED <<cFlash, spoiled>>
        BY <1>4 DEF Counter!SectorMissing
    <2>2. CFlashOK' /\ InUse' = 2
        BY <1>1, <1>2, <2>1, FlashStays
    <2>3. ~spoiled' => kept = 0
        <3>1. Counter!Restored = 0
            BY <1>1, InUseIs
        <3>2. ~spoiled => Counter!Restored >= kept
            BY DEF CInv, CountsOK
        <3>3. kept \in Nat
            BY Range, CountTypes
        <3> QED
            BY <2>1, <3>1, <3>2, <3>3
    <2>4. count' = kept
        BY <1>1, <1>4, <2>1, CallIs DEF Counter!Return
    <2>5. fails' \in 0..MaxFails /\ spoiled' \in BOOLEAN /\ kept \in Counter!Counts
        BY <1>1, <1>2, <2>1 DEF CallOK
    <2> QED
        BY <1>2, <2>1, <2>2, <2>3, <2>4, <2>5, CReturnKeeps
<1> QED
    BY <1>3, <1>4

\* The sector that is not in use is retired.
LEMMA CRetireOtherKeeps ==
    ASSUME CInv, Counter!RetireOther
    PROVE  CInv'
<1>1. /\ cPc = "retire" /\ cPc' = "validate"
      /\ cFlash' = [cFlash EXCEPT ![1 - cSect] = [flag |-> "invalid", words |-> <<>>]]
      /\ UNCHANGED <<call, cSect, oldSect, cUpdate, fails, count, kept, spoiled>>
    BY DEF Counter!RetireOther, Counter!Other, Counter!ram, Counter!history
<1>2. InUse = cSect /\ 1 - cSect \in CSectors /\ InUse # 1 - cSect
    BY <1>1 DEF CInv, PlacesOK, CallOK, CSectors
<1>3. CFlashOK' /\ Unused
    BY <1>1, <1>2, CSectorCleared DEF CInv
<1>4. CallOK'
    BY <1>1 DEF CInv, CallOK
<1>5. PlacesOK'
    BY <1>1, <1>2, <1>3 DEF PlacesOK, Unused
<1>6. ~spoiled' => CountsOK'
    BY <1>1, <1>3, CountsStay DEF Early, Late
<1> QED
    BY <1>3, <1>4, <1>5, <1>6 DEF CInv

\* The sector in use becomes valid.
LEMMA CValidateKeeps ==
    ASSUME CInv, Counter!Validate
    PROVE  CInv'
<1>1. /\ cPc = "validate" /\ cPc' = "search"
      /\ cFlash' = [cFlash EXCEPT ![cSect].flag = "valid"]
      /\ UNCHANGED <<call, cSect, oldSect, cUpdate, fails, count, kept, spoiled>>
    BY DEF Counter!Validate, Counter!SetFlag, Counter!ram, Counter!history
<1>2. InUse = cSect /\ cSect \in CSectors /\ CWords(cSect) # <<>>
    BY <1>1, UseNow DEF CInv, PlacesOK, CallOK, CSectors, UseOK
<1>3. CFlashOK' /\ Unused
    BY <1>1, <1>2, CFlagSet DEF CInv, CFlags, Marked
<1>4. CallOK'
    BY <1>1 DEF CInv, CallOK
<1>5. PlacesOK'
    BY <1>1, <1>2, <1>3 DEF PlacesOK, Unused
<1>6. ~spoiled' => CountsOK'
    BY <1>1, <1>3, CountsStay DEF Early, Late
<1> QED
    BY <1>3, <1>4, <1>5, <1>6 DEF CInv

\* One of these two flags is not written.
LEMMA CRepairFailsKeeps ==
    ASSUME CInv, Counter!RepairFails
    PROVE  CInv'
<1>1. /\ cPc \in {"retire", "validate"} /\ cPc' = "search" /\ fails > 0 /\ fails' = fails - 1
      /\ UNCHANGED <<cFlash, call, cSect, oldSect, cUpdate, count, kept, spoiled>>
    BY DEF Counter!RepairFails, Counter!ram, Counter!history
<1>2. CFlashOK' /\ Unused /\ InUse' = InUse
    BY <1>1, FlashStays DEF CInv
<1>3. CallOK'
    <2>1. fails' \in 0..MaxFails
        BY <1>1, Range DEF CInv, CallOK
    <2> QED
        BY <1>1, <2>1 DEF CInv, CallOK
<1>4. PlacesOK'
    BY <1>1, <1>2 DEF CInv, PlacesOK
<1>5. ~spoiled' => CountsOK'
    BY <1>1, <1>2, CountsStay DEF Early, Late
<1> QED
    BY <1>2, <1>3, <1>4, <1>5 DEF CInv

\* There is room in the sector.
LEMMA CRoomKeeps ==
    ASSUME CInv, Counter!Room
    PROVE  CInv'
<1>1. /\ cPc = "search" /\ call.kind = "save" /\ Len(CWords(cSect)) # CAP /\ cPc' = "count"
      /\ UNCHANGED <<cFlash, call, cSect, oldSect, cUpdate, fails, count, kept, spoiled>>
    BY DEF Counter!Room, Counter!ram, Counter!history, Counter!Full, Counter!Words, CWords
<1>2. CFlashOK' /\ Unused /\ InUse' = InUse
    BY <1>1, FlashStays DEF CInv
<1>3. InUse = cSect /\ ~cUpdate /\ ~call.force /\ oldSect = 0 /\ call \in Saves
    BY <1>1, CallIs DEF CInv, PlacesOK, CallOK
<1>4. CallOK'
    BY <1>1, <1>3 DEF CInv, CallOK
<1>5. Len(CWords(cSect)) \in 1 .. CAP - 1
    <2>1. WordsOK(CWords(cSect)) /\ CWords(cSect) # <<>>
        BY <1>3, UseNow DEF UseOK, CInv, CallOK, CSectors
    <2> QED
        BY <1>1, <2>1, WordsAre, Range DEF WordsOK
<1>6. PlacesOK'
    BY <1>1, <1>2, <1>3, <1>5 DEF PlacesOK, CWords
<1>7. ~spoiled' => CountsOK'
    BY <1>1, <1>2, CountsStay DEF Early, Late
<1> QED
    BY <1>2, <1>4, <1>6, <1>7 DEF CInv

\* The sector is full, and the other one is erased for it.
LEMMA CSwitchKeeps ==
    ASSUME CInv, Counter!Switch
    PROVE  CInv'
<1>1. /\ cPc = "search" /\ call.kind = "save" /\ oldSect' = cSect /\ cSect' = 1 - cSect
      /\ cFlash' = [cFlash EXCEPT ![1 - cSect] = [flag |-> "idle", words |-> <<>>]]
      /\ cUpdate' = TRUE /\ cPc' = "last"
      /\ UNCHANGED <<call, fails, count, kept, spoiled>>
    BY DEF Counter!Switch, Counter!Other, Counter!Erased, Counter!history
<1>2. /\ InUse = cSect /\ cSect \in CSectors /\ 1 - cSect \in CSectors /\ InUse # 1 - cSect
      /\ ~call.force /\ call \in Saves /\ cSect # 2
    BY <1>1, CallIs DEF CInv, PlacesOK, CallOK, CSectors
<1>3. CFlashOK' /\ Unused /\ cFlash'[1 - cSect].flag = "idle" /\ cFlash'[1 - cSect].words = <<>>
    BY <1>1, <1>2, CSectorCleared DEF CInv
<1>4. CallOK'
    BY <1>1, <1>2 DEF CInv, CallOK, Counter!ForcedSect, Counter!NoSect, Counter!Other
<1>5. PlacesOK'
    BY <1>1, <1>2, <1>3 DEF PlacesOK, Unused, CWords, CFlag
<1>6. ~spoiled' => CountsOK'
    BY <1>1, <1>3, CountsStay DEF Early, Late
<1> QED
    BY <1>3, <1>4, <1>5, <1>6 DEF CInv

\* The last word is believed.
LEMMA CRestoreKeeps ==
    ASSUME CInv, Counter!Restore
    PROVE  CInv'
<1> DEFINE v == Counter!Last(CWords(cSect))
<1>1. /\ cPc = "search" /\ call.kind = "restore" /\ ~Counter!Jumps(CWords(cSect))
      /\ Counter!Return(v) /\ UNCHANGED <<cFlash, fails, spoiled>>
    BY DEF Counter!Restore, Counter!Words, CWords
<1>2. CFlashOK' /\ InUse' = cSect /\ CallOK /\ cSect \in CSectors
    BY <1>1, FlashStays DEF CInv, PlacesOK, CallOK
<1>3. v \in Counter!Counts
    <2>1. WordsOK(CWords(cSect)) /\ CWords(cSect) # <<>>
        BY <1>1, <1>2, UseNow DEF UseOK, CInv, PlacesOK, CSectors
    <2> QED
        BY <2>1, WordsAre
<1>4. count' = v
    BY <1>1 DEF Counter!Return
<1>5. InUse' # 2 /\ cFlash'[InUse'].words = CWords(cSect)
    BY <1>1, <1>2 DEF CWords, CSectors
<1>6. fails' \in 0..MaxFails /\ spoiled' \in BOOLEAN
    BY <1>1, <1>2 DEF CallOK
<1>7. /\ Counter!Last(cFlash'[InUse'].words) = v
      /\ ~Counter!Jumps(cFlash'[InUse'].words)
    BY <1>1, <1>5
<1> HIDE DEF v
<1> QED
    BY <1>1, <1>2, <1>3, <1>4, <1>5, <1>6, <1>7, CReturnKeeps

\* The last word is not believed.
LEMMA CBackOffKeeps ==
    ASSUME CInv, Counter!BackOff
    PROVE  CInv'
<1> DEFINE v == Counter!Counter(CWords(cSect))
<1>1. /\ cPc = "search" /\ call.kind = "restore" /\ Counter!Jumps(CWords(cSect))
      /\ call' = [kind |-> "restore", count |-> v, force |-> TRUE]
      /\ oldSect' = cSect /\ cPc' = "erase"
      /\ UNCHANGED <<cFlash, cSect, cUpdate, fails, count, kept, spoiled>>
    BY DEF Counter!BackOff, Counter!Words, CWords, Counter!history
<1>2. CFlashOK' /\ Unused /\ InUse = cSect /\ InUse' = cSect /\ cSect \in CSectors /\ cSect # 2
    BY <1>1, FlashStays DEF CInv, PlacesOK, CallOK, CSectors
<1>3. v \in Counter!Counts /\ Counter!Restored = v /\ ~Counter!SecondWord
    <2>1. WordsOK(CWords(cSect)) /\ CWords(cSect) # <<>> /\ Counter!Restored = v
          /\ (Counter!SecondWord <=> Len(CWords(cSect)) = 2)
        BY <1>2, UseNow DEF UseOK, CInv
    <2>2. v \in Counter!Counts /\ Len(CWords(cSect)) > 2 /\ Len(CWords(cSect)) \in Nat
        BY <1>1, <2>1, WordsAre
    <2> DEFINE n == Len(CWords(cSect))
    <2>3. n > 2 /\ n \in Nat
        BY <2>2
    <2> HIDE DEF n
    <2>4. n # 2
        BY <2>3
    <2> QED
        BY <2>1, <2>2, <2>4, Zenon DEF n
<1> HIDE DEF v
<1>4. call' \in Restores /\ call' \notin Saves /\ call'.force /\ call'.count = v
    BY <1>1, <1>3 DEF Saves, Restores
<1>5. CallOK'
    BY <1>1, <1>2, <1>4 DEF CInv, CallOK
<1>6. PlacesOK'
    BY <1>1, <1>2 DEF PlacesOK
<1>7. ~spoiled' => CountsOK'
    <2> SUFFICES ASSUME ~spoiled' PROVE CountsOK'
        OBVIOUS
    <2>1. /\ Counter!Restored' = Counter!Restored /\ Counter!SecondWord' = Counter!SecondWord
        BY <1>2, UseKept
    <2>2. CountsOK
        BY <1>1 DEF CInv
    <2>3. kept <= v /\ v <= count + THRES
        BY <1>3, <2>2, CountTypes DEF CountsOK
    <2> QED
        BY <1>1, <1>3, <1>4, <2>1, <2>2, <2>3 DEF CountsOK, Early, Late
<1> QED
    BY <1>2, <1>5, <1>6, <1>7 DEF CInv

\* A sector is erased by force: the one in use only in a retry.
LEMMA CEraseForcedKeeps ==
    ASSUME CInv, Counter!EraseForced
    PROVE  CInv'
<1> DEFINE f == Counter!ForcedSect
<1>1. /\ cPc = "erase" /\ cPc' = "count" /\ cSect' = f
      /\ cFlash' = [cFlash EXCEPT ![f] = [flag |-> "idle", words |-> <<>>]]
      /\ spoiled' = (spoiled \/ (oldSect = 2 /\ InUse = 0))
      /\ UNCHANGED <<call, oldSect, cUpdate, fails, count, kept>>
    BY DEF Counter!EraseForced, Counter!Erased, Counter!NoSect, InUse
<1>2. /\ call.force /\ cUpdate = FALSE /\ oldSect \in {0, 1, 2}
      /\ f = IF oldSect = 2 THEN 0 ELSE 1 - oldSect
      /\ oldSect = 2 => call \in Saves
      /\ oldSect # 2 => call \in Restores /\ InUse = oldSect
    BY <1>1 DEF CInv, CallOK, CSectors, PlacesOK, Counter!ForcedSect, Counter!NoSect,
       Counter!Other
<1>3. f \in CSectors /\ f # 2
    BY <1>2 DEF CSectors
<1> HIDE DEF f
<1>4. /\ CFlashOK' /\ cFlash'[f].flag = "idle" /\ cFlash'[f].words = <<>>
      /\ InUse # f => Unused
    BY <1>1, <1>3, CSectorCleared DEF CInv
<1>5. call \in Saves <=> call.kind = "save"
    BY <1>1, CallIs
<1>6. call \in Restores => call \notin Saves
    BY DEF Saves, Restores
<1>7. CallOK'
    <2>1. f = Counter!ForcedSect'
        BY <1>1 DEF f, Counter!ForcedSect, Counter!Other, Counter!NoSect
    <2> QED
        BY <1>1, <1>2, <1>3, <1>6, <2>1 DEF CInv, CallOK
<1>8. oldSect # 2 => InUse' = oldSect
    BY <1>2, <1>4 DEF Unused
<1>9. PlacesOK'
    BY <1>1, <1>2, <1>4, <1>8 DEF PlacesOK, CWords, CFlag
<1>10. ~spoiled' => CountsOK'
    <2> SUFFICES ASSUME ~spoiled' PROVE CountsOK'
        OBVIOUS
    <2>1. ~spoiled /\ ~(oldSect = 2 /\ InUse = 0)
        BY <1>1, Zenon
    <2>2. InUse # f
        BY <1>2, <2>1
    <2>3. CountsOK /\ Unused
        BY <1>4, <2>1, <2>2 DEF CInv
    <2>4. Counter!Restored' = Counter!Restored /\ Counter!SecondWord' = Counter!SecondWord
        BY <2>3, UseKept
    <2> QED
        BY <1>1, <1>2, <2>3, <2>4 DEF CountsOK, Early, Late
<1> QED
    BY <1>4, <1>7, <1>9, <1>10 DEF CInv

\* A new sector that is not in use: its words are followed by v, at most two in all.
LEMMA NewWord ==
    ASSUME CInv, cPc \in {"last", "count"}, cUpdate \/ Len(CWords(cSect)) = 0,
           NEW v \in Counter!Counts,
           cPc = "count" /\ call \in Saves => v + THRES < Counter!ErasedWord,
           cFlash' = [cFlash EXCEPT ![cSect].words = Append(CWords(cSect), v)]
    PROVE  /\ CFlashOK' /\ Unused /\ InUse # cSect
           /\ cFlash'[cSect].flag = "idle" /\ cFlash'[cSect].words # <<>>
           /\ Len(cFlash'[cSect].words) <= 2 /\ Counter!Last(cFlash'[cSect].words) = v
<1> DEFINE w == CWords(cSect)
           u == Append(w, v)
<1>1. /\ CFlashOK /\ cSect \in CSectors /\ WordsOK(w)
      /\ cPc = "last" => w = <<>>
      /\ cPc = "count" /\ cUpdate => Len(w) = 1 /\ call \in Saves
    BY DEF CInv, CFlashOK, CallOK, PlacesOK
<1>0. /\ Len(w) \in Nat /\ (w = <<>> <=> Len(w) = 0) /\ (Len(w) # 0 => cUpdate)
      /\ Len(w) <= 1
    <2>1. w \in Seq(Counter!Counts)
        BY <1>1 DEF WordsOK
    <2> DEFINE n == Len(w)
    <2>2. n \in Nat /\ (w = <<>> <=> n = 0) /\ (cUpdate => n \in {0, 1}) /\ (cUpdate \/ n = 0)
        BY <1>1, <2>1
    <2> HIDE DEF n
    <2>3. (n # 0 => cUpdate) /\ n <= 1
        BY <2>2
    <2> QED
        BY <2>2, <2>3, Zenon DEF n
<1>2. CFlag(cSect) = "idle"
    <2>1. CASE cUpdate \/ call.force
        BY <2>1 DEF CInv, PlacesOK
    <2>2. CASE ~cUpdate /\ ~call.force
        <3>1. ~(Len(CWords(cSect)) \in 1 .. CAP - 1)
            BY <2>2, Range
        <3> QED
            BY <2>2, <3>1 DEF CInv, PlacesOK, CallOK
    <2> QED
        BY <2>1, <2>2
<1>3. WordsOK(u) /\ u # <<>> /\ Len(u) = Len(w) + 1 /\ Counter!Last(u) = v
    <2>1. Len(w) < CAP /\ (w # <<>> => v + THRES < Counter!ErasedWord)
        BY <1>0, <1>1, Range
    <2> QED
        BY <1>1, <2>1, WordAppended
<1>4. Len(u) <= 2
    BY <1>0, <1>3
<1>5. cFlash' = [cFlash EXCEPT ![cSect].words = u]
    OBVIOUS
<1> HIDE DEF u
<1>6. /\ CFlashOK' /\ InUse' = InUse /\ cFlash'[cSect].words = u
      /\ cFlash'[cSect].flag = "idle" /\ cFlash'[1 - cSect] = cFlash[1 - cSect]
    BY <1>1, <1>2, <1>3, <1>5, CWordsSet DEF Marked, CFlag
<1>7. InUse # cSect
    <2>1. cSect # 2
        BY <1>1 DEF CSectors
    <2> QED
        BY <1>1, <1>2, <2>1, UseNow DEF UseOK, Marked
<1>8. Unused
    BY <1>1, <1>6, <1>7, UseNow DEF Unused, UseOK, CSectors
<1> QED
    BY <1>3, <1>4, <1>6, <1>7, <1>8

\* The sector in use: its words are followed by v, not below the counter to be stored.
Followed(v) ==
    /\ CFlashOK' /\ InUse' = InUse /\ InUse = cSect /\ InUse # 2 /\ call \in Saves /\ ~call.force
    /\ WordsOK(cFlash'[cSect].words) /\ cFlash'[cSect].words # <<>>
    /\ Counter!Last(cFlash'[cSect].words) = v
    /\ ~spoiled => /\ kept <= Counter!Restored'
                   /\ ~Counter!SecondWord' => Counter!Restored' <= kept + THRES
                   /\ v <= kept + THRES => ~Counter!Jumps(cFlash'[cSect].words)

\* Such a word is written, or torn, in the sector in use.
LEMMA NextWord ==
    ASSUME CInv, cPc = "count", ~cUpdate, Len(CWords(cSect)) # 0,
           NEW v \in Counter!Counts, v + THRES < Counter!ErasedWord, call.count <= v,
           CFlashOK', InUse' = InUse, cFlash'[cSect].words = Append(CWords(cSect), v)
    PROVE  Followed(v)
<1> DEFINE w == CWords(cSect)
           u == Append(w, v)
<1>1. CFlashOK /\ cSect \in CSectors /\ WordsOK(w) /\ cSect # 2
    BY DEF CInv, CFlashOK, CallOK, CSectors
<1>2. ~call.force /\ InUse = cSect /\ Len(w) \in 1 .. CAP - 1
    BY DEF CInv, PlacesOK
<1>3. call \in Saves /\ w # <<>> /\ Len(w) < CAP
    BY <1>2, Range DEF CInv, CallOK
<1>4. WordsOK(u) /\ u # <<>> /\ Counter!Last(u) = v
    BY <1>1, <1>3, WordAppended
<1>5. ~spoiled => /\ kept <= Counter!Counter(u)
                  /\ Len(u) # 2 => Counter!Counter(u) <= kept + THRES
                  /\ v <= kept + THRES => ~Counter!Jumps(u)
    <2> SUFFICES ASSUME ~spoiled
                 PROVE  /\ kept <= Counter!Counter(u)
                        /\ Len(u) # 2 => Counter!Counter(u) <= kept + THRES
                        /\ v <= kept + THRES => ~Counter!Jumps(u)
        OBVIOUS
    <2>1. CountsOK
        BY DEF CInv
    <2>2. Counter!Last(w) = kept /\ kept <= call.count
        BY <1>1, <1>2, <1>3, <2>1 DEF CountsOK, Early, Settled
    <2>3. kept <= v
        <3>1. kept \in Int /\ call.count \in Int /\ v \in Int
            BY CountTypes, CallIs, Range
        <3> QED
            BY <2>2, <3>1
    <2> QED
        BY <1>1, <1>3, <2>2, <2>3, ReadBack
<1>6. CFlashOK' /\ InUse' = InUse /\ cFlash'[cSect].words = u
    BY <1>4
<1> HIDE DEF u
<1>7. CWords(InUse)' = u /\ InUse' # 2
    BY <1>1, <1>2, <1>6 DEF CWords
<1>8. Counter!Restored' = Counter!Counter(u) /\ (Counter!SecondWord' <=> Len(u) = 2)
    BY <1>6, <1>7, UseNext DEF UseOK, Counter!Counter, Counter!Jumps, Counter!Last
<1> QED
    BY <1>1, <1>2, <1>3, <1>4, <1>5, <1>6, <1>8 DEF Followed

\* The old sector's last counter is written.
LEMMA CWriteLastKeeps ==
    ASSUME CInv, Counter!WriteLast
    PROVE  CInv'
<1> DEFINE v == Counter!Last(CWords(oldSect))
<1>1. /\ cPc = "last" /\ cPc' = "count"
      /\ cFlash' = [cFlash EXCEPT ![cSect].words = Counter!Grown(@, v)]
      /\ UNCHANGED <<call, cSect, oldSect, cUpdate, fails, count, kept, spoiled>>
    BY DEF Counter!WriteLast, Counter!AppendWord, Counter!Words, CWords, Counter!ram,
       Counter!history
<1>2. /\ cUpdate /\ InUse = oldSect /\ oldSect # 2 /\ cSect \in CSectors
      /\ CFlashOK /\ CallOK /\ CWords(cSect) = <<>>
    BY <1>1 DEF CInv, PlacesOK, CallOK
<1>3. v \in Counter!Counts /\ v # Counter!ErasedWord
    <2>1. v \in Counter!Counts
        BY <1>2, UseNow, WordsAre DEF UseOK, CWords
    <2> QED
        BY <2>1, Range
<1> HIDE DEF v
<1>4. cFlash' = [cFlash EXCEPT ![cSect].words = Append(CWords(cSect), v)]
    BY <1>1, <1>2, <1>3 DEF CFlashOK, CWords, Counter!Grown
<1>5. /\ CFlashOK' /\ Unused /\ cFlash'[cSect].flag = "idle"
    BY <1>1, <1>2, <1>3, <1>4, NewWord
<1>6. Len(cFlash'[cSect].words) = 1
    <2>1. cFlash'[cSect].words = Append(<<>>, v)
        BY <1>2, <1>4 DEF CFlashOK
    <2> QED
        BY <2>1
<1>7. CallOK'
    BY <1>1, <1>2 DEF CallOK, Counter!ForcedSect, Counter!Other, Counter!NoSect
<1>8. PlacesOK'
    BY <1>1, <1>2, <1>5, <1>6 DEF PlacesOK, Unused, CWords, CFlag
<1>9. ~spoiled' => CountsOK'
    BY <1>1, <1>5, CountsStay DEF Early, Late
<1> QED
    BY <1>5, <1>7, <1>8, <1>9 DEF CInv

\* A counter is written.
LEMMA CWriteCountKeeps ==
    ASSUME CInv, Counter!WriteCount
    PROVE  CInv'
<1> DEFINE v == call.count
           w == CWords(cSect)
<1>1. /\ cPc = "count" /\ UNCHANGED <<fails, spoiled>>
      /\ cFlash' = [cFlash EXCEPT ![cSect].words = Counter!Grown(@, v)]
      /\ cUpdate \/ w = <<>> =>
           cPc' = "ready" /\ UNCHANGED <<call, cSect, oldSect, cUpdate, count, kept>>
      /\ ~(cUpdate \/ w = <<>>) => Counter!Return(v)
    BY DEF Counter!WriteCount, Counter!AppendWord, Counter!Words, CWords, Counter!ram
<1>2. /\ v \in Counter!Counts /\ v # Counter!ErasedWord
      /\ call \in Saves => v + THRES < Counter!ErasedWord
    <2>1. v \in Counter!Counts /\ (call \in Saves => v + THRES < Counter!ErasedWord)
        BY <1>1, CallIs
    <2> QED
        BY <2>1, Range
<1>3. CallOK /\ CFlashOK /\ cSect \in CSectors /\ WordsOK(w) /\ (w = <<>> <=> Len(w) = 0)
    BY DEF CInv, CallOK, CFlashOK, WordsOK
<1>4. cFlash' = [cFlash EXCEPT ![cSect].words = Append(w, v)]
    BY <1>1, <1>2, <1>3 DEF Counter!Grown, CWords
<1>5. fails' \in 0..MaxFails /\ spoiled' \in BOOLEAN
    BY <1>1, <1>3 DEF CallOK
<1> HIDE DEF v
<1>6. CASE cUpdate \/ w = <<>>
    <2>1. /\ CFlashOK' /\ Unused /\ InUse # cSect
          /\ cFlash'[cSect].flag = "idle" /\ cFlash'[cSect].words # <<>>
          /\ Len(cFlash'[cSect].words) <= 2 /\ Counter!Last(cFlash'[cSect].words) = v
        BY <1>1, <1>2, <1>3, <1>4, <1>6, NewWord
    <2>2. cPc' = "ready" /\ UNCHANGED <<call, cSect, oldSect, cUpdate, count, kept>>
        BY <1>1, <1>6
    <2>3. CallOK'
        BY <1>1, <1>3, <2>2 DEF CallOK, Counter!ForcedSect, Counter!Other, Counter!NoSect
    <2>4. PlacesOK'
        <3>1. cUpdate \/ (call.force /\ oldSect # 2) => InUse' = oldSect'
            BY <1>1, <2>1, <2>2 DEF CInv, PlacesOK, Unused
        <3>2. ~cUpdate /\ ~call.force => InUse' = 2 /\ cSect = 0
            <4>1. ~cUpdate => Len(w) = 0
                BY <1>3, <1>6
            <4>2. ~(0 \in 1 .. CAP - 1)
                BY Range
            <4> QED
                BY <1>1, <2>1, <4>1, <4>2 DEF CInv, PlacesOK, Unused
        <3> QED
            BY <2>1, <2>2, <3>1, <3>2 DEF PlacesOK, CWords, CFlag
    <2>5. ~spoiled' => CountsOK'
        BY <1>1, <2>1, <2>2, CountsStay DEF v, Early, Late
    <2> QED
        BY <2>1, <2>3, <2>4, <2>5 DEF CInv
<1>7. CASE ~(cUpdate \/ w = <<>>)
    <2>1. v \in Int /\ call.count = v
        BY <1>2, Range DEF v
    <2>2. call \in Saves
        <3>1. ~call.force
            BY <1>1, <1>7 DEF CInv, PlacesOK
        <3> QED
            BY <1>1, <1>7, <3>1 DEF CInv, CallOK
    <2>3. Followed(v)
        <3>1. call.count <= v
            BY <2>1
        <3>2. WordsOK(Append(w, v)) /\ Append(w, v) # <<>>
            <4>1. ~cUpdate /\ Len(w) # 0
                BY <1>3, <1>7
            <4>2. Len(w) \in 1 .. CAP - 1
                BY <1>1, <4>1, Range DEF CInv, PlacesOK
            <4>3. Len(w) < CAP
                BY <4>2, Range
            <4> QED
                BY <1>2, <1>3, <2>2, <4>3, WordAppended
        <3>3. CFlashOK' /\ InUse' = InUse /\ cFlash'[cSect].words = Append(w, v)
            BY <1>3, <1>4, <3>2, CWordsSet
        <3> QED
            BY <1>1, <1>2, <1>3, <1>4, <1>7, <2>2, <3>1, <3>3, NextWord
    <2>4. CFlashOK' /\ InUse' = cSect /\ InUse' # 2 /\ Counter!Last(cFlash'[InUse'].words) = v
        BY <2>3 DEF Followed
    <2>5. count' = count
        BY <1>1, <1>7, <2>2, CallIs DEF Counter!Return
    <2>6. ~spoiled' => count' = v /\ ~Counter!Jumps(cFlash'[InUse'].words)
        <3> SUFFICES ASSUME ~spoiled' PROVE count' = v /\ ~Counter!Jumps(cFlash'[InUse'].words)
            OBVIOUS
        <3>1. CountsOK
            BY <1>1 DEF CInv
        <3>2. v = count /\ count <= kept + THRES
            BY <1>1, <2>1, <2>2, <2>3, <3>1 DEF CountsOK, Early, Followed
        <3>3. ~Counter!Jumps(cFlash'[cSect].words)
            BY <1>1, <2>3, <3>2 DEF Followed
        <3> QED
            BY <2>4, <2>5, <3>2, <3>3
    <2>7. Counter!Return(v)
        BY <1>1, <1>7
    <2> QED
        BY <1>2, <1>3, <1>5, <2>4, <2>6, <2>7, CReturnKeeps
<1> QED
    BY <1>6, <1>7

\* While the flags are written, the counter of the new sector may be read as well as
\* the one of the old sector.
LEMMA LateRead ==
    ASSUME CInv, ~spoiled, cPc \in Late, CFlashOK', InUse' = cSect,
           cFlash'[cSect].words = cFlash[cSect].words
    PROVE  /\ Counter!Restored' = call.count
           /\ kept <= call.count /\ call.count <= count + THRES
           /\ Counter!Last(cFlash'[InUse'].words) = call.count
           /\ ~Counter!Jumps(cFlash'[InUse'].words)
           /\ call \in Saves => count = call.count
<1> DEFINE w == cFlash'[InUse'].words
<1>1. CountsOK /\ CallOK
    BY DEF CInv
<1>2. InUse' # 2 /\ w = CWords(cSect)
    BY <1>1 DEF CallOK, CSectors, CWords
<1>3. Len(w) <= 2 /\ Counter!Last(w) = call.count
    BY <1>1, <1>2 DEF CountsOK
<1>4. WordsOK(w) /\ w # <<>> /\ Counter!Restored' = Counter!Counter(w)
    BY <1>2, UseNext DEF UseOK, CWords, WordsOK, Counter!Counter, Counter!Jumps, Counter!Last
<1> HIDE DEF w
<1>5. ~Counter!Jumps(w) /\ Counter!Counter(w) = call.count
    BY <1>3, <1>4, WordsAre
<1>6. /\ call \in Saves => count = call.count /\ kept <= count
      /\ ~(call \in Saves) => kept <= call.count /\ call.count <= count + THRES
    <2>1. call \in Saves \/ call \in Restores
        BY CallIs DEF Late
    <2>2. ~(call \in Saves) => call.force
        BY <1>1, <2>1 DEF CallOK, Late
    <2> QED
        BY <1>1, <2>1, <2>2 DEF CountsOK
<1>7. count <= count + THRES
    BY CountTypes
<1>8. kept <= call.count /\ call.count <= count + THRES
    BY <1>6, <1>7
<1> QED
    BY <1>3, <1>4, <1>5, <1>6, <1>8 DEF w

\* The new sector becomes ready.
LEMMA CWriteReadyKeeps ==
    ASSUME CInv, Counter!WriteReady
    PROVE  CInv'
<1>1. /\ cPc = "ready" /\ cFlash' = [cFlash EXCEPT ![cSect].flag = "ready"]
      /\ UNCHANGED <<fails, spoiled>>
      /\ cUpdate \/ call.force =>
           cPc' = "invalid" /\ UNCHANGED <<call, cSect, oldSect, cUpdate, count, kept>>
      /\ ~(cUpdate \/ call.force) => Counter!Return(call.count)
    BY DEF Counter!WriteReady, Counter!SetFlag, Counter!ram
<1>2. CallOK /\ CFlashOK /\ cSect \in CSectors /\ CWords(cSect) # <<>>
    BY <1>1 DEF CInv, CallOK, PlacesOK
<1>3. /\ CFlashOK' /\ cFlash'[cSect].flag = "ready" /\ cFlash'[cSect].words = cFlash[cSect].words
      /\ cFlash'[1 - cSect] = cFlash[1 - cSect]
    BY <1>1, <1>2, CFlagSet DEF CFlags, Marked
<1>4. fails' \in 0..MaxFails /\ spoiled' \in BOOLEAN /\ cPc \in Late
    BY <1>1, <1>2 DEF CallOK, Late
<1>5. InUse' # cSect => Unused
    BY <1>2, <1>3, InUseIs DEF UsedIn, CSectors, Unused, Marked
<1>6. CASE cUpdate \/ call.force
    <2>1. cPc' = "invalid" /\ UNCHANGED <<call, cSect, oldSect, cUpdate, count, kept>>
        BY <1>1, <1>6
    <2>2. CallOK'
        BY <1>1, <1>2, <1>6, <2>1
           DEF CallOK, Counter!ForcedSect, Counter!Other, Counter!NoSect
    <2>3. PlacesOK'
        BY <1>3, <2>1 DEF PlacesOK, CFlag
    <2>4. ~spoiled' => CountsOK'
        <3> SUFFICES ASSUME ~spoiled' PROVE CountsOK'
            OBVIOUS
        <3>1. CountsOK /\ ~spoiled
            BY <1>1 DEF CInv
        <3>2. /\ Len(cFlash'[cSect'].words) <= 2
              /\ Counter!Last(cFlash'[cSect'].words) = call.count
            BY <1>3, <1>4, <2>1, <3>1 DEF CountsOK, CWords
        <3>3. CASE InUse' # cSect
            BY <1>4, <1>5, <2>1, <3>1, <3>2, <3>3, CountsStay DEF Early, Late
        <3>4. CASE InUse' = cSect
            <4>1. /\ Counter!Restored' = call.count
                  /\ kept <= call.count /\ call.count <= count + THRES
                BY <1>3, <1>4, <3>1, <3>4, LateRead
            <4>2. Counter!Restored' >= kept /\ Counter!Restored' <= count + THRES
                BY <1>1, <4>1, CountTypes, CallIs
            <4>3. Len(CWords(cSect)') <= 2 /\ Counter!Last(CWords(cSect))' = call.count
                BY <2>1, <3>2 DEF CWords, Counter!Last
            <4> QED
                BY <2>1, <3>1, <4>2, <4>3 DEF CountsOK, CWords, Early, Late
        <3> QED
            BY <3>3, <3>4
    <2> QED
        BY <1>3, <2>2, <2>3, <2>4 DEF CInv
<1>7. CASE ~(cUpdate \/ call.force)
    <2>1. InUse = 2 /\ cSect = 0 /\ call \in Saves
        BY <1>1, <1>7 DEF CInv, PlacesOK, CallOK
    <2>2. InUse' = cSect
        BY <1>3, <2>1, InUseIs DEF UsedIn, Marked
    <2>3. /\ Counter!Return(call.count) /\ count' = count /\ InUse' # 2
          /\ call.count \in Counter!Counts
        BY <1>1, <1>7, <2>1, <2>2, CallIs DEF Counter!Return
    <2>4. ~spoiled' => /\ count' = call.count
                       /\ Counter!Last(cFlash'[InUse'].words) = call.count
                       /\ ~Counter!Jumps(cFlash'[InUse'].words)
        BY <1>1, <1>3, <1>4, <2>1, <2>2, <2>3, LateRead
    <2> QED
        BY <1>2, <1>3, <1>4, <2>3, <2>4, CReturnKeeps
<1> QED
    BY <1>6, <1>7

\* The old sector is retired.
LEMMA CWriteInvalidKeeps ==
    ASSUME CInv, Counter!WriteInvalid
    PROVE  CInv'
<1>1. /\ cPc = "invalid" /\ cPc' = "valid"
      /\ oldSect = 2 => cFlash' = cFlash
      /\ oldSect # 2 =>
           cFlash' = [cFlash EXCEPT ![oldSect] = [flag |-> "invalid", words |-> <<>>]]
      /\ UNCHANGED <<call, cSect, oldSect, cUpdate, fails, count, kept, spoiled>>
    BY DEF Counter!WriteInvalid, Counter!ram, Counter!history, Counter!NoSect
<1>2. /\ CallOK /\ CFlashOK /\ CFlag(cSect) = "ready" /\ cSect \in CSectors
      /\ oldSect \in {0, 1, 2} /\ cSect = IF oldSect = 2 THEN 0 ELSE 1 - oldSect
    BY <1>1 DEF CInv, CallOK, PlacesOK, CSectors, Counter!ForcedSect, Counter!Other,
       Counter!NoSect
<1>3. CFlashOK' /\ InUse' = cSect /\ cFlash'[cSect] = cFlash[cSect]
    <2>1. CASE oldSect = 2
        <3>1. CFlashOK' /\ cFlash'[cSect] = cFlash[cSect]
            BY <1>1, <1>2, <2>1, FlashStays
        <3> QED
            BY <1>1, <1>2, <2>1, <3>1, InUseIs DEF UsedIn, Marked, CFlag
    <2>2. CASE oldSect # 2
        <3>1. oldSect \in CSectors /\ ((oldSect = 0 /\ cSect = 1) \/ (oldSect = 1 /\ cSect = 0))
            <4>1. cSect = 1 - oldSect /\ (oldSect = 0 \/ oldSect = 1)
                BY <1>2, <2>2
            <4> QED
                BY <4>1 DEF CSectors
        <3>2. /\ CFlashOK' /\ cFlash'[oldSect].flag = "invalid"
              /\ cFlash'[1 - oldSect] = cFlash[1 - oldSect]
            BY <1>1, <1>2, <2>2, <3>1, CSectorCleared
        <3> QED
            BY <1>2, <3>1, <3>2, InUseIs DEF UsedIn, Marked, CFlag
    <2> QED
        BY <2>1, <2>2
<1>4. CallOK'
    BY <1>1, <1>2 DEF CallOK, Counter!ForcedSect, Counter!Other, Counter!NoSect
<1>5. PlacesOK'
    BY <1>1, <1>2, <1>3 DEF PlacesOK, CFlag
<1>6. ~spoiled' => CountsOK'
    <2> SUFFICES ASSUME ~spoiled' PROVE CountsOK'
        OBVIOUS
    <2>1. CountsOK /\ ~spoiled /\ cPc \in Late
        BY <1>1 DEF CInv, Late
    <2>2. /\ Counter!Restored' = call.count
          /\ kept <= call.count /\ call.count <= count + THRES
        BY <1>3, <2>1, LateRead
    <2>3. Counter!Restored' >= kept /\ Counter!Restored' <= count + THRES
        BY <1>1, <2>2, CountTypes, CallIs
    <2>4. Len(CWords(cSect)') <= 2 /\ Counter!Last(CWords(cSect))' = call.count
        BY <1>1, <1>3, <2>1 DEF CountsOK, CWords, Counter!Last
    <2> QED
        BY <1>1, <2>1, <2>3, <2>4 DEF CountsOK, CWords, Early, Late
<1> QED
    BY <1>3, <1>4, <1>5, <1>6 DEF CInv

\* The last flag is written, or not: the call is over.
LEMMA CValidReturns ==
    ASSUME CInv, cPc = "valid", CFlashOK', InUse' = cSect,
           cFlash'[cSect].words = cFlash[cSect].words,
           Counter!Return(call.count), fails' \in 0..MaxFails, spoiled' = spoiled
    PROVE  CInv'
<1>1. CallOK /\ cPc \in Late /\ InUse' # 2 /\ spoiled' \in BOOLEAN
    BY DEF CInv, CallOK, CSectors, Late
<1>2. call.count \in Counter!Counts /\ (call \in Saves \/ call.kind = "restore")
    BY CallIs
<1>3. ~spoiled' => /\ count' = call.count
                   /\ Counter!Last(cFlash'[InUse'].words) = call.count
                   /\ ~Counter!Jumps(cFlash'[InUse'].words)
    BY <1>1, <1>2, LateRead DEF Counter!Return
<1> QED
    BY <1>1, <1>2, <1>3, CReturnKeeps

\* The last flag is written.
LEMMA CWriteValidKeeps ==
    ASSUME CInv, Counter!WriteValid
    PROVE  CInv'
<1>1. /\ cPc = "valid" /\ cFlash' = [cFlash EXCEPT ![cSect].flag = "valid"]
      /\ Counter!Return(call.count) /\ UNCHANGED <<fails, spoiled>>
    BY DEF Counter!WriteValid, Counter!SetFlag
<1>2. InUse = cSect /\ cSect \in CSectors /\ CWords(cSect) # <<>> /\ fails' \in 0..MaxFails
    BY <1>1, UseNow DEF CInv, PlacesOK, CallOK, CSectors, UseOK
<1>3. CFlashOK' /\ Unused /\ cFlash'[cSect].words = cFlash[cSect].words
    BY <1>1, <1>2, CFlagSet DEF CInv, CFlags, Marked
<1> QED
    BY <1>1, <1>2, <1>3, CValidReturns DEF Unused

\* The last flag is not written.
LEMMA CValidFailsKeeps ==
    ASSUME CInv, Counter!ValidFails
    PROVE  CInv'
<1>1. /\ cPc = "valid" /\ fails > 0 /\ fails' = fails - 1
      /\ Counter!Return(call.count) /\ UNCHANGED <<cFlash, spoiled>>
    BY DEF Counter!ValidFails
<1>2. InUse = cSect /\ fails' \in 0..MaxFails
    BY <1>1, Range DEF CInv, PlacesOK, CallOK
<1>3. CFlashOK' /\ InUse' = InUse
    BY <1>1, FlashStays DEF CInv
<1> QED
    BY <1>1, <1>2, <1>3, CValidReturns

\* What a start would now read is right.
ReadOK ==
    /\ Counter!Restored >= kept
    /\ ~Counter!SecondWord => Counter!Restored <= count + THRES

\* It stays so when nothing that is in use changes.
LEMMA ReadStays ==
    ASSUME CInv, Unused, UNCHANGED <<count, kept>>, ~spoiled
    PROVE  ReadOK'
<1>1. ReadOK
    BY DEF CInv, CountsOK, ReadOK
<1>2. Counter!Restored' = Counter!Restored /\ Counter!SecondWord' = Counter!SecondWord
    BY UseKept
<1> QED
    BY <1>1, <1>2 DEF ReadOK

\* It stays so when a word follows that is not below the counter to be stored.
LEMMA ReadFollows ==
    ASSUME CInv, NEW v, cPc = "count", Followed(v), UNCHANGED <<count, kept>>, ~spoiled
    PROVE  ReadOK'
<1>1. CountsOK
    BY DEF CInv
<1>2. kept <= count
    BY <1>1 DEF CountsOK, Followed
<1>3. kept <= Counter!Restored' /\ (~Counter!SecondWord' => Counter!Restored' <= kept + THRES)
    BY DEF Followed
<1>4. Counter!Restored' \in Counter!Counts
    BY UseNext DEF Followed, UseOK
<1> DEFINE r == Counter!Restored'
<1>5. r \in Int /\ kept \in Int /\ count \in Int /\ THRES \in Int
    BY <1>4, Range, CountTypes
<1> HIDE DEF r
<1>6. (kept <= r => r >= kept) /\ (r <= kept + THRES => r <= count + THRES)
    BY <1>2, <1>5
<1>7. kept' = kept /\ count' = count
    OBVIOUS
<1>8. r >= kept' /\ (~Counter!SecondWord' => r <= count' + THRES)
    BY <1>3, <1>6, <1>7, Zenon DEF r
<1> QED
    BY <1>8, Zenon DEF ReadOK, r

\* A check that does not agree: once more, by force, or not at all.
LEMMA CCheckSumKeeps ==
    ASSUME CInv, cPc \in {"last", "count", "ready", "invalid"}, Counter!CheckSumError,
           CFlashOK', fails' \in 0..MaxFails, ~spoiled /\ UNCHANGED <<count, kept>> => ReadOK'
    PROVE  CInv'
<1>1. CallOK /\ call.count \in Counter!Counts /\ (call \in Saves \/ call \in Restores)
      /\ call.force \in BOOLEAN
    BY CallIs DEF CInv
<1>2. CASE call.force
    <2>1. Counter!Return(call.count) /\ spoiled' = TRUE
        BY <1>2 DEF Counter!CheckSumError
    <2> QED
        BY <1>1, <2>1, CReturnKeeps
<1>3. CASE ~call.force
    <2>1. /\ call' = [call EXCEPT !.force = TRUE] /\ oldSect' = 2 /\ cSect' = 0
          /\ cUpdate' = FALSE /\ cPc' = "erase" /\ UNCHANGED <<count, kept, spoiled>>
        BY <1>3 DEF Counter!CheckSumError, Counter!NoSect, Counter!history
    <2>2. call \in Saves
        BY <1>1, <1>3 DEF CallOK
    <2>3. /\ call' \in Saves /\ call' \notin Restores /\ call'.force
          /\ call'.count = call.count
        BY <2>1, <2>2 DEF Saves, Restores
    <2>4. CallOK'
        BY <1>1, <2>1, <2>3 DEF CallOK, CSectors
    <2>5. PlacesOK'
        BY <2>1 DEF PlacesOK
    <2>6. ~spoiled' => CountsOK'
        <3> SUFFICES ASSUME ~spoiled' PROVE CountsOK'
            OBVIOUS
        <3>1. CountsOK /\ ReadOK'
            BY <2>1 DEF CInv
        <3> QED
            BY <2>1, <2>2, <2>3, <3>1 DEF CountsOK, ReadOK, Early, Late
    <2> QED
        BY <2>4, <2>5, <2>6 DEF CInv
<1> QED
    BY <1>1, <1>2, <1>3

\* A flag is not written.
LEMMA CFlagFailsKeeps ==
    ASSUME CInv, Counter!FlagFails
    PROVE  CInv'
<1>1. /\ cPc \in {"ready", "invalid"} /\ Counter!CheckSumError /\ cFlash' = cFlash
      /\ fails' = fails \/ (fails > 0 /\ fails' = fails - 1)
    BY DEF Counter!FlagFails
<1>2. fails' \in 0..MaxFails
    BY <1>1, Range DEF CInv, CallOK
<1>3. CFlashOK' /\ Unused
    BY <1>1, FlashStays DEF CInv
<1> QED
    BY <1>1, <1>2, <1>3, ReadStays, CCheckSumKeeps

\* A word is not written as it should be.
LEMMA CWordFailsKeeps ==
    ASSUME CInv, Counter!WordFails
    PROVE  CInv'
<1> DEFINE c == IF cPc = "last" THEN Counter!Last(CWords(oldSect)) ELSE call.count
<1>1. PICK v \in Counter!PartOf(c) :
           cFlash' = [cFlash EXCEPT ![cSect].words = Counter!Grown(@, v)]
    BY DEF Counter!WordFails, Counter!AppendWord, Counter!Words, CWords
<1>2. cPc \in {"last", "count"} /\ fails > 0 /\ fails' = fails - 1 /\ Counter!CheckSumError
    BY DEF Counter!WordFails
<1>3. CFlashOK /\ CallOK /\ cSect \in CSectors /\ fails' \in 0..MaxFails
    BY <1>2, Range DEF CInv, CallOK
<1>4. c \in Counter!Counts
    <2>1. CASE cPc = "last"
        <3>1. InUse = oldSect /\ oldSect # 2
            BY <2>1 DEF CInv, PlacesOK, CallOK
        <3>2. Counter!Last(CWords(oldSect)) \in Counter!Counts
            BY <1>3, <3>1, UseNow, WordsAre DEF UseOK
        <3> QED
            BY <2>1, <3>2
    <2>2. CASE cPc # "last"
        BY <1>2, <2>2, CallIs
    <2> QED
        BY <2>1, <2>2
<1>5. cPc = "count" => c = call.count
    OBVIOUS
<1> HIDE DEF c
<1>6. /\ v \in Int /\ c <= v
      /\ v = Counter!ErasedWord \/ (v \in Counter!Counts /\ v + THRES < Counter!ErasedWord)
    BY <1>1, <1>4, PartIs
<1>7. CASE v = Counter!ErasedWord
    <2>1. cFlash' = cFlash
        BY <1>1, <1>3, <1>7 DEF Counter!Grown, CFlashOK, CSector
    <2> QED
        BY <1>2, <1>3, <2>1, FlashStays, ReadStays, CCheckSumKeeps
<1>8. CASE v # Counter!ErasedWord
    <2>1. cFlash' = [cFlash EXCEPT ![cSect].words = Append(CWords(cSect), v)]
        BY <1>1, <1>3, <1>8 DEF Counter!Grown, CWords, CFlashOK
    <2>2. CASE cUpdate \/ Len(CWords(cSect)) = 0
        <3>1. CFlashOK' /\ Unused
            BY <1>2, <1>6, <1>8, <2>1, <2>2, NewWord
        <3> QED
            BY <1>2, <1>3, <3>1, ReadStays, CCheckSumKeeps
    <2>3. CASE ~(cUpdate \/ Len(CWords(cSect)) = 0)
        <3>1. cPc = "count" /\ call.count <= v
            BY <1>2, <1>3, <1>5, <1>6, <2>3 DEF CallOK
        <3>2. WordsOK(CWords(cSect)) /\ Len(CWords(cSect)) < CAP
            <4>1. Len(CWords(cSect)) \in 1 .. CAP - 1
                BY <2>3, <3>1, Range DEF CInv, PlacesOK
            <4> QED
                BY <1>3, <4>1, Range DEF CFlashOK
        <3>3. WordsOK(Append(CWords(cSect), v)) /\ Append(CWords(cSect), v) # <<>>
            BY <1>6, <1>8, <3>2, WordAppended
        <3>4. CFlashOK' /\ InUse' = InUse /\ cFlash'[cSect].words = Append(CWords(cSect), v)
            BY <1>3, <2>1, <3>3, CWordsSet
        <3>5. Followed(v)
            BY <1>6, <1>8, <2>3, <3>1, <3>4, NextWord
        <3> QED
            BY <1>2, <1>3, <3>1, <3>4, <3>5, ReadFollows, CCheckSumKeeps
    <2> QED
        BY <2>2, <2>3
<1> QED
    BY <1>7, <1>8

\* The stack starts.
LEMMA CPowerOnKeeps ==
    ASSUME CInv, Counter!PowerOn
    PROVE  CInv'
<1>1. /\ cPc = "off" /\ cPc' = "sector"
      /\ call' = [kind |-> "restore", count |-> 0, force |-> FALSE]
      /\ UNCHANGED <<cFlash, cSect, oldSect, cUpdate, fails, count, kept, spoiled>>
    BY DEF Counter!PowerOn, Counter!history
<1>2. CFlashOK' /\ Unused
    BY <1>1, FlashStays DEF CInv
<1>3. call' \in Restores /\ call' \notin Saves /\ ~call'.force
    BY <1>1, Range DEF Saves, Restores
<1>4. CallOK'
    BY <1>1, <1>3 DEF CInv, CallOK
<1>5. PlacesOK'
    BY <1>1 DEF PlacesOK
<1>6. ~spoiled' => CountsOK'
    BY <1>1, <1>2, <1>3, ReadStays DEF CountsOK, ReadOK, Early, Late
<1> QED
    BY <1>2, <1>4, <1>5, <1>6 DEF CInv

\* The power fails.
LEMMA CPowerLossKeeps ==
    ASSUME CInv, Counter!PowerLoss
    PROVE  CInv'
<1> DEFINE W2(v, s) == IF CFlag(s) \notin Marked THEN <<>>
                       ELSE IF s = cSect THEN Counter!Grown(CWords(s), v) ELSE CWords(s)
<1>1. PICK v \in IF cPc = "count" THEN Counter!PartOf(call.count) ELSE {Counter!ErasedWord} :
           cFlash' = [s \in CSectors |-> [cFlash[s] EXCEPT !.words = W2(v, s)]]
    BY DEF Counter!PowerLoss, CFlag, CWords, Marked, CSectors, Counter!Sectors
<1>2. /\ cPc # "off" /\ cPc' = "off" /\ call' = Counter!NoCall /\ cSect' = 0 /\ oldSect' = 0
      /\ cUpdate' = FALSE /\ UNCHANGED <<fails, count, kept, spoiled>>
    BY DEF Counter!PowerLoss, Counter!Reset, Counter!history
<1>3. CFlashOK /\ CallOK /\ cSect \in CSectors
    BY DEF CInv, CallOK
<1>4. \A s \in CSectors : cFlash'[s].flag = CFlag(s) /\ cFlash'[s].words = W2(v, s)
    BY <1>1, <1>3 DEF CFlashOK, CSector, CFlag
<1>5. InUse' = InUse
    BY <1>4, InUseIs DEF UsedIn, CFlag, CSectors
<1>6. /\ v \in Int
      /\ v = Counter!ErasedWord
         \/ (/\ v \in Counter!Counts /\ v + THRES < Counter!ErasedWord
             /\ cPc = "count" /\ call.count <= v)
    <2>1. CASE cPc = "count"
        <3>1. call.count \in Counter!Counts
            BY <2>1, CallIs
        <3> QED
            BY <1>1, <2>1, <3>1, PartIs
    <2>2. CASE cPc # "count"
        BY <1>1, <2>2, Range
    <2> QED
        BY <2>1, <2>2
<1> DEFINE torn == v # Counter!ErasedWord /\ CFlag(cSect) \in Marked
<1>7. torn => /\ cPc = "count" /\ ~cUpdate /\ InUse = cSect /\ InUse # 2
              /\ Len(CWords(cSect)) # 0 /\ Len(CWords(cSect)) < CAP
              /\ W2(v, cSect) = Append(CWords(cSect), v)
    <2> SUFFICES ASSUME torn
                 PROVE  /\ cPc = "count" /\ ~cUpdate /\ InUse = cSect /\ InUse # 2
                        /\ Len(CWords(cSect)) # 0 /\ Len(CWords(cSect)) < CAP
                        /\ W2(v, cSect) = Append(CWords(cSect), v)
        OBVIOUS
    <2>1. cPc = "count"
        BY <1>6
    <2>2. CFlag(cSect) # "idle"
        BY DEF Marked
    <2>3. ~cUpdate /\ InUse = cSect /\ Len(CWords(cSect)) \in 1 .. CAP - 1
        BY <2>1, <2>2 DEF CInv, PlacesOK
    <2>4. Len(CWords(cSect)) # 0 /\ Len(CWords(cSect)) < CAP
        BY <2>3, Range
    <2>5. InUse # 2
        BY <1>3, <2>3 DEF CSectors
    <2> QED
        BY <2>1, <2>3, <2>4, <2>5 DEF Counter!Grown
<1>8. \A s \in CSectors : /\ WordsOK(W2(v, s))
                          /\ CFlag(s) \in Marked => W2(v, s) # <<>>
    <2> SUFFICES ASSUME NEW s \in CSectors
                 PROVE  WordsOK(W2(v, s)) /\ (CFlag(s) \in Marked => W2(v, s) # <<>>)
        OBVIOUS
    <2>1. WordsOK(CWords(s)) /\ (CFlag(s) \in Marked => CWords(s) # <<>>)
        BY <1>3 DEF CFlashOK, Marked
    <2>2. CASE CFlag(s) \notin Marked
        <3>1. <<>> \in Seq(Counter!Counts) /\ Len(<<>>) <= CAP /\ DOMAIN <<>> = {}
            BY Range
        <3> QED
            BY <2>2, <3>1 DEF WordsOK
    <2>3. CASE torn /\ s = cSect
        <3>1. WordsOK(Append(CWords(s), v)) /\ Append(CWords(s), v) # <<>>
            BY <1>6, <1>7, <2>1, <2>3, WordAppended
        <3> QED
            BY <1>7, <2>3, <3>1
    <2>4. CASE CFlag(s) \in Marked /\ ~(torn /\ s = cSect)
        <3>1. W2(v, s) = CWords(s)
            BY <2>4 DEF Counter!Grown
        <3> QED
            BY <2>1, <3>1
    <2> QED
        BY <2>2, <2>3, <2>4
<1>9. CFlashOK'
    <2>1. cFlash' \in [CSectors -> CSector]
        <3>1. \A s \in CSectors : W2(v, s) \in Seq(Counter!Counts)
            BY <1>8 DEF WordsOK
        <3> HIDE DEF W2
        <3>2. \A s \in CSectors : [cFlash[s] EXCEPT !.words = W2(v, s)] \in CSector
            BY <1>3, <3>1 DEF CFlashOK, CSector
        <3> QED
            BY <1>1, <3>2
    <2> HIDE DEF W2
    <2>2. \A s \in CSectors : /\ WordsOK(CWords(s)')
                              /\ CFlag(s)' \in {"ready", "valid"} => CWords(s)' # <<>>
        BY <1>4, <1>8 DEF CWords, CFlag, Marked
    <2> QED
        BY <2>1, <2>2 DEF CFlashOK, CWords, CFlag, WordsOK
<1>10. ~spoiled => ReadOK'
    <2>1. CASE torn
        <3>1. Followed(v)
            BY <1>3, <1>4, <1>5, <1>6, <1>7, <1>9, <2>1, NextWord
        <3> QED
            BY <1>2, <1>7, <2>1, <3>1, ReadFollows
    <2>2. CASE ~torn
        <3>1. InUse # 2 => cFlash'[InUse].words = cFlash[InUse].words
            <4> SUFFICES ASSUME InUse # 2
                         PROVE  cFlash'[InUse].words = cFlash[InUse].words
                OBVIOUS
            <4>1. InUse \in CSectors /\ CFlag(InUse) \in Marked
                BY <1>3, UseNow DEF UseOK
            <4>2. W2(v, InUse) = CWords(InUse)
                BY <2>2, <4>1 DEF Counter!Grown
            <4> QED
                BY <1>4, <4>1, <4>2 DEF CWords
        <3>2. Unused
            BY <1>5, <3>1 DEF Unused
        <3> QED
            BY <1>2, <3>2, ReadStays
    <2> QED
        BY <2>1, <2>2
<1>11. CallOK'
    BY <1>2, <1>3 DEF CallOK, CSectors
<1>12. PlacesOK'
    BY <1>2 DEF PlacesOK
<1>13. ~spoiled' => CountsOK'
    <2>1. call' \notin Saves /\ call' \notin Restores
        BY <1>2 DEF Counter!NoCall, Saves, Restores
    <2> QED
        BY <1>2, <1>10, <2>1 DEF CountsOK, ReadOK, Early, Late
<1> QED
    BY <1>9, <1>11, <1>12, <1>13 DEF CInv

\* A step of anything else leaves the module of the counter as it is.
LEMMA CStutters ==
    ASSUME CInv, UNCHANGED counterVars
    PROVE  CInv'
<1>1. UNCHANGED <<cFlash, cPc, call, cSect, oldSect, cUpdate, fails, count, kept, spoiled>>
    BY DEF counterVars
<1>2. CFlashOK' /\ Unused /\ InUse' = InUse
    BY <1>1, FlashStays DEF CInv
<1>3. CallOK'
    BY <1>1 DEF CInv, CallOK, Counter!ForcedSect, Counter!Other, Counter!NoSect
<1>4. PlacesOK'
    BY <1>1, <1>2 DEF CInv, PlacesOK, CWords, CFlag
<1>5. ~spoiled' => CountsOK'
    <2> SUFFICES ASSUME ~spoiled' PROVE CountsOK'
        OBVIOUS
    <2>1. CountsOK
        BY <1>1 DEF CInv
    <2>2. /\ Counter!Restored' = Counter!Restored /\ Counter!SecondWord' = Counter!SecondWord
          /\ Settled => Settled'
        BY <1>1, <1>2, UseKept
    <2> QED
        BY <1>1, <2>1, <2>2 DEF CountsOK, CWords, Counter!Last, Early, Late
<1> QED
    BY <1>2, <1>3, <1>4, <1>5 DEF CInv

\* A step of the module of the counter.
LEMMA CStepKeeps ==
    ASSUME CInv, Counter!Next
    PROVE  CInv'
<1>1. ASSUME NEW c \in 0..MaxCount, Counter!Save(c) PROVE CInv'
    BY <1>1, CSaveKeeps
<1>2. CASE Counter!Step
    BY <1>2, CSectorFoundKeeps, CSectorMissingKeeps, CRetireOtherKeeps, CValidateKeeps,
       CRepairFailsKeeps, CRestoreKeeps, CBackOffKeeps, CEraseForcedKeeps, CRoomKeeps,
       CSwitchKeeps, CWriteLastKeeps, CWriteCountKeeps, CWriteReadyKeeps,
       CWriteInvalidKeeps, CWriteValidKeeps, CWordFailsKeeps, CFlagFailsKeeps,
       CValidFailsKeeps, Zenon DEF Counter!Step
<1>3. CASE Counter!PowerLoss
    BY <1>3, CPowerLossKeeps
<1>4. CASE Counter!PowerOn
    BY <1>4, CPowerOnKeeps
<1> QED
    BY <1>1, <1>2, <1>3, <1>4 DEF Counter!Next

-----------------------------------------------------------------------------
(***************************************************************************)
(* The theorems.                                                           *)
(***************************************************************************)
\* The inductive invariant (nv_nwkFrameCountSaveToFlashHandler): at every moment of
\* every call the words of the sector in use, and those of the sector that is to follow
\* it, stand as CInv says with what was asked for and what was stored.
THEOREM CounterInductive == AreaSpec => []CInv
<1>1. AreaInit => CInv
    BY CInitKeeps DEF AreaInit
<1>2. CInv /\ [AreaNext]_<<module, vars, counterVars>> => CInv'
    <2>1. ASSUME CInv, AreaNext PROVE CInv'
        BY <2>1, CStutters, CStepKeeps DEF AreaNext
    <2>2. ASSUME CInv, UNCHANGED <<module, vars, counterVars>> PROVE CInv'
        BY <2>2, CStutters
    <2> QED
        BY <2>1, <2>2
<1> QED
    BY <1>1, <1>2, PTL DEF AreaSpec

\* A sector never holds more than FRAMECOUNT_NUM_PER_SECT words, a call works on a
\* sector there is, and every word is below the erased one.
THEOREM CounterTypeCorrect == AreaSpec => []CounterTypeOK
<1>1. CInv => CounterTypeOK
    <2> SUFFICES ASSUME CInv PROVE CounterTypeOK
        OBVIOUS
    <2>1. CFlashOK /\ CallOK
        BY DEF CInv
    <2>2. \A s \in {0, 1} : /\ cFlash[s].flag \in {"idle", "ready", "valid", "invalid"}
                            /\ cFlash[s].words \in Seq(Counter!Counts)
                            /\ Len(cFlash[s].words) <= CAP
        BY <2>1 DEF CFlashOK, CSectors, CSector, CFlags, WordsOK, CWords
    <2>3. \/ call = Counter!NoCall
          \/ call \in [kind : {"save", "restore"}, count : Counter!Counts, force : BOOLEAN]
        <3>1. 0..MaxCount \subseteq Counter!Counts
            BY Range
        <3> QED
            BY <2>1, <3>1 DEF CallOK, Saves, Restores
    <2>4. /\ cPc \in {"idle", "off", "sector", "retire", "validate", "search", "erase",
                      "last", "count", "ready", "invalid", "valid"}
          /\ cSect \in {0, 1} /\ oldSect \in {0, 1} \cup {2} /\ cUpdate \in BOOLEAN
          /\ fails \in 0..MaxFails
          /\ count \in Counter!Counts /\ kept \in Counter!Counts /\ spoiled \in BOOLEAN
        BY <2>1 DEF CallOK, CSectors
    <2> QED
        BY <2>2, <2>3, <2>4 DEF CounterTypeOK, Counter!TypeOK, Counter!Sectors,
           Counter!NoSect, Counter!Words
<1> QED
    BY <1>1, CounterInductive, PTL

\* Wherever the power fails and whichever write does, a start reads a counter that is
\* not below the last one stored or given (nv_nwkFrameCountFromFlash), as long as no
\* retry has erased the sector in use and none has failed.
THEOREM CounterKept == AreaSpec => []KeptCounter
<1>1. CInv => KeptCounter
    BY DEF CInv, CountsOK, KeptCounter, Counter!KeptCounter
<1> QED
    BY <1>1, CounterInductive, PTL

\* Nor is it more than the threshold beyond the last one asked for: the comparison with
\* the word before stops what a torn word would have added, but in the second word.
THEOREM CounterNotFarAhead == AreaSpec => []NotFarAhead
<1>1. CInv => NotFarAhead
    BY DEF CInv, CountsOK, NotFarAhead, Counter!NotFarAhead
<1> QED
    BY <1>1, CounterInductive, PTL
=============================================================================
