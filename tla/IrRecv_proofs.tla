--------------------------- MODULE IrRecv_proofs ---------------------------
(***************************************************************************)
(* That the remote's receiver never goes deaf, and that a key that toggles *)
(* acts no more often than it is pressed, for any keys, any length of a    *)
(* frame, any debounce times above the main loop's lag, and any number of  *)
(* frames and of edges that are noise; where the run checks two bits and   *)
(* three frames.                                                           *)
(*                                                                         *)
(* The second is an argument about credit.  A press of k is worth one      *)
(* action; what is due is the frames that the bits collected and the bits  *)
(* on air may still make up.  A frame that is complete moves its press     *)
(* from what is due to what is spare, and a key that waits or is taken has *)
(* a press to spare, unless it acted within the main loop's lag: then the  *)
(* debounce ignores it.  Read torn by an interrupt, a key may be taken     *)
(* twice, but the second time is within the lag.                           *)
(***************************************************************************)
EXTENDS MCPwmRemote, SequenceTheorems, TLAPS

Codes == Remote!Keys \cup {NoKey}

AirStates == {"idle", "leader_low", "leader_high", "data", "data_high"}

\* The pauses of the main loop between two of its lines.
Taking == {"arguments", "repeat", "cmd", "on_cmd"}
PollSteps == {"task", "timeout", "reset", "polarity", "ready"} \cup Taking

Frames  == [kind : {"frame"}, key : Remote!Keys, edge : 0 .. 2 * BITS + 3]
Repeats == [kind : {"repeat"}, key : {NoKey}, edge : 0..3]

\* What the variables hold, and how many bits there may be.
DecoderOK ==
    /\ s_state \in AirStates /\ s_bits \in Seq(Codes)
    /\ s_state \in {"leader_low", "leader_high"} => s_bits = <<>>
    /\ s_state \in {"data", "data_high"} => Len(s_bits) < BITS
    /\ s_cmd \in Codes /\ s_repeat \in BOOLEAN /\ s_ready \in BOOLEAN

PollerOK ==
    /\ pc \in PollSteps
    /\ cmd \in Codes /\ repeat \in BOOLEAN /\ s_last_cmd \in Codes
    /\ ofRepeat \in BOOLEAN /\ (ofRepeat => pc \in {"repeat", "on_cmd"})

TimesOK ==
    clock \in 0 .. TickMod - 1 /\ s_last_key_time \in 0 .. TickMod - 1 /\ lag \in 0..MaxLag

SendingOK == sending = Remote!Quiet \/ sending \in Frames \/ sending \in Repeats

CountsOK ==
    sent \in [Remote!Keys -> Nat] /\ acted \in [Remote!Keys -> Nat] /\ mixed \in Nat

RemoteOK == DecoderOK /\ PollerOK /\ TimesOK /\ SendingOK /\ CountsOK

\* The presses of k that have not acted.
Credit(k) == sent[k] + mixed - acted[k]

\* The bits of k collected, and those still to come in the frame on air.
GotOf(state, bits, k) ==
    IF state \in {"data", "data_high"} /\ \A i \in 1 .. Len(bits) : bits[i] = k
    THEN Len(bits) ELSE 0

Got(k) == GotOf(s_state, s_bits, k)

\* Bits to come from edge e on.
LeftFrom(e) == IF e <= 4 THEN BITS ELSE BITS - (e - 3) \div 2

Left(k) ==
    IF sending.kind # "frame" \/ sending.key # k THEN 0 ELSE LeftFrom(sending.edge)

\* The frames that n bits may still make up, n being below 2 * BITS.
Need(n) == IF n = 0 THEN 0 ELSE IF n <= BITS THEN 1 ELSE 2

\* The frames of k that may yet be completed.
Due(k) == Need(Got(k) + Left(k))

\* A press of k has not acted, and is not needed for what is on air.
Spare(k) == Due(k) + 1 <= Credit(k)

\* k has acted last, at most n ticks ago.
Since(k, n) == s_last_cmd = k /\ (clock - s_last_key_time) % TickMod <= n

\* A press of k left a key the main loop has not seen.
Waiting(k) == s_ready /\ ~s_repeat /\ s_cmd = k

\* The main loop is taking k as a key that is pressed, or may yet do so.
TakingKey(k) ==
    \/ pc = "arguments" /\ ~s_repeat /\ s_cmd = k
    \/ pc = "cmd" /\ ~repeat /\ s_cmd = k
    \/ pc = "repeat" /\ ~ofRepeat /\ cmd = k
    \/ pc = "on_cmd" /\ ~repeat /\ ~ofRepeat /\ cmd = k

\* Every key the main loop has, or may still take, has a press to spare or acted a
\* moment ago.
KeyOK(k) ==
    /\ Due(k) <= Credit(k)
    /\ Waiting(k) => Spare(k) \/ (pc \notin Taking /\ Since(k, lag))
    /\ TakingKey(k) => Spare(k) \/ Since(k, MaxLag)

KeysOK == \A k \in Toggles : KeyOK(k)

RInv == RemoteOK /\ KeysOK

-----------------------------------------------------------------------------
(***************************************************************************)
(* Lemmas on the signal, the bits and the clock.                           *)
(***************************************************************************)
\* g is a, f and z one after the other, of lengths 3, n and 1.
Joined(g, a, f, z, n) ==
    /\ Len(g) = n + 4
    /\ g[1] = a[1] /\ g[2] = a[2] /\ g[3] = a[3]
    /\ \A i \in 1..n : g[i + 3] = f[i]
    /\ g[n + 4] = z[1]

\* A sequence made of three, the first of length 3 and the last of length 1.
LEMMA ThreeParts ==
    ASSUME NEW S, NEW a \in Seq(S), NEW f \in Seq(S), NEW z \in Seq(S),
           NEW n \in Nat, Len(a) = 3, Len(f) = n, Len(z) = 1,
           NEW g, g = (a \o f) \o z
    PROVE  Joined(g, a, f, z, n)
<1> DEFINE b == a \o f
<1>1. /\ b \in Seq(S) /\ Len(b) = 3 + n
      /\ \A i \in 1 .. 3 + n : b[i] = IF i <= 3 THEN a[i] ELSE f[i - 3]
    <2>1. /\ b \in Seq(S) /\ Len(b) = Len(a) + Len(f)
          /\ \A i \in 1 .. Len(a) + Len(f) : b[i] = IF i <= Len(a) THEN a[i] ELSE f[i - Len(a)]
        BY ConcatProperties, Zenon
    <2> QED
        BY <2>1, Zenon
<1> HIDE DEF b
<1>2. /\ Len(g) = 3 + n + 1
      /\ \A i \in 1 .. 3 + n + 1 : g[i] = IF i <= 3 + n THEN b[i] ELSE z[i - (3 + n)]
    <2>1. /\ Len(b \o z) = Len(b) + Len(z)
          /\ \A i \in 1 .. Len(b) + Len(z) : (b \o z)[i] = IF i <= Len(b) THEN b[i] ELSE z[i - Len(b)]
        BY <1>1, ConcatProperties, Zenon
    <2>2. g = b \o z
        BY DEF b
    <2> QED
        BY <1>1, <2>1, <2>2, Zenon
<1>3. \A i \in 1..3 : g[i] = a[i]
    BY <1>1, <1>2
<1>4. \A i \in 1..n : g[i + 3] = f[i]
    <2> TAKE i \in 1..n
    <2> DEFINE j == i + 3
    <2>1. j \in 1 .. 3 + n /\ j \in 1 .. 3 + n + 1 /\ ~(j <= 3) /\ j <= 3 + n /\ j - 3 = i
        OBVIOUS
    <2> HIDE DEF j
    <2>2. g[j] = b[j] /\ b[j] = f[j - 3]
        BY <1>1, <1>2, <2>1
    <2> QED
        BY <2>1, <2>2 DEF j
<1>5. g[n + 4] = z[1]
    <2> DEFINE j == n + 4
    <2>1. j \in 1 .. 3 + n + 1 /\ ~(j <= 3 + n) /\ j - (3 + n) = 1
        OBVIOUS
    <2> HIDE DEF j
    <2>2. g[j] = z[j - (3 + n)]
        BY <1>2, <2>1
    <2> QED
        BY <2>1, <2>2 DEF j
<1> QED
    BY <1>2, <1>3, <1>4, <1>5 DEF Joined

\* The edges of a frame: which may be the value of a bit.
LEMMA FrameEdgesAre ==
    LET g == Remote!FrameEdges("frame")
        r == Remote!FrameEdges("repeat")
    IN  /\ Len(g) = 2 * BITS + 4 /\ Len(r) = 4
        /\ \A e \in 0 .. 2 * BITS + 3 :
             g[e + 1] = "bit_value" => e >= 4 /\ e <= 2 * BITS + 2 /\ e % 2 = 0
        /\ \A e \in 0..3 : r[e + 1] # "bit_value"
<1> DEFINE n == 2 * BITS
           A == <<"any", "leader_low", "leader_high">>
           F == [i \in 1..n |-> IF i % 2 = 1 THEN "bit_low" ELSE "bit_value"]
           Z == <<"bit_low">>
           G == {"any", "leader_low", "leader_high", "bit_low", "bit_value"}
           g == Remote!FrameEdges("frame")
           r == Remote!FrameEdges("repeat")
<1>1. n \in Nat
    BY RemoteAssumption
<1>2. g = (A \o F) \o Z /\ r = <<"any", "leader_low", "repeat_high", "bit_low">>
    BY DEF Remote!FrameEdges
<1> HIDE DEF n
<1>3. F \in Seq(G) /\ Len(F) = n
    <2>1. F \in [1..n -> G]
        OBVIOUS
    <2> QED
        BY <1>1, <2>1
<1>4. A \in Seq(G) /\ Len(A) = 3 /\ A[1] = "any" /\ A[2] = "leader_low" /\ A[3] = "leader_high"
    OBVIOUS
<1>5. \A i \in 1..n : F[i] = "bit_value" => i % 2 # 1
    OBVIOUS
<1>6. Z \in Seq(G) /\ Len(Z) = 1 /\ Z[1] = "bit_low"
    OBVIOUS
<1> HIDE DEF A, F, Z, G
<1>7. /\ Len(g) = n + 4
      /\ g[1] = "any" /\ g[2] = "leader_low" /\ g[3] = "leader_high"
      /\ \A i \in 1..n : g[i + 3] = F[i]
      /\ g[n + 4] = "bit_low"
    <2>1. g = (A \o F) \o Z
        BY <1>2
    <2> HIDE DEF g
    <2>2. Joined(g, A, F, Z, n)
        <3>1. A \in Seq(G) /\ Len(A) = 3 /\ Z \in Seq(G) /\ Len(Z) = 1
            BY <1>4, <1>6, Zenon
        <3> QED
            BY <1>1, <1>3, <3>1, <2>1, ThreeParts, Zenon
    <2> QED
        BY <1>4, <1>6, <2>2, Zenon DEF Joined
<1> HIDE DEF g
<1>8. ASSUME NEW e \in 0 .. n + 3, g[e + 1] = "bit_value"
      PROVE  e >= 4 /\ e <= n + 2 /\ e % 2 = 0
    <2>1. e # n + 3
        <3>1. e = n + 3 => e + 1 = n + 4
            BY <1>1
        <3> QED
            BY <3>1, <1>7, <1>8
    <2>2. e # 0 /\ e # 1 /\ e # 2
        <3>1. (e = 0 => e + 1 = 1) /\ (e = 1 => e + 1 = 2) /\ (e = 2 => e + 1 = 3)
            OBVIOUS
        <3> QED
            BY <3>1, <1>7, <1>8
    <2> DEFINE i == e - 2
    <2>3. i \in 1..n /\ i + 3 = e + 1
        BY <1>1, <2>1, <2>2
    <2> HIDE DEF i
    <2>4. F[i] = "bit_value"
        BY <1>7, <1>8, <2>3
    <2>5. i % 2 # 1
        BY <1>5, <2>3, <2>4
    <2>6. (e - 2) % 2 # 1 /\ e >= 3 /\ e <= n + 2
        BY <1>1, <2>1, <2>2, <2>5 DEF i
    <2> QED
        BY <1>1, <2>6
<1>9. \A e \in 0..3 : r[e + 1] # "bit_value"
    <2>1. r[1] # "bit_value" /\ r[2] # "bit_value" /\ r[3] # "bit_value" /\ r[4] # "bit_value"
        <3>1. r = <<"any", "leader_low", "repeat_high", "bit_low">>
            BY DEF Remote!FrameEdges
        <3> HIDE DEF r
        <3> QED
            BY <3>1
    <2> HIDE DEF r
    <2>2. \A e \in 0..3 : e + 1 = 1 \/ e + 1 = 2 \/ e + 1 = 3 \/ e + 1 = 4
        OBVIOUS
    <2> QED
        BY <2>1, <2>2
<1>10. Len(r) = 4
    <2>1. r = <<"any", "leader_low", "repeat_high", "bit_low">>
        BY DEF Remote!FrameEdges
    <2> HIDE DEF r
    <2> QED
        BY <2>1
<1> QED
    BY <1>7, <1>8, <1>9, <1>10 DEF n, g, r

\* The bits still to come are one fewer after a bit, and never more.
LEMMA LeftStep ==
    ASSUME NEW e \in 0 .. 2 * BITS + 3
    PROVE  /\ LeftFrom(e) \in 0..BITS /\ LeftFrom(e + 1) \in 0..BITS
           /\ LeftFrom(e + 1) <= LeftFrom(e)
           /\ e >= 4 /\ e <= 2 * BITS + 2 /\ e % 2 = 0 => LeftFrom(e + 1) = LeftFrom(e) - 1
<1> DEFINE b == BITS
<1>1. b \in Nat /\ b > 0
    BY RemoteAssumption
<1> HIDE DEF b
<1>2. \A d \in 0 .. 2 * b + 4 : d > 4 => (d - 3) \div 2 \in 0..b
    BY <1>1
<1>3. e \in 0 .. 2 * b + 3
    BY DEF b
<1>4. e > 4 => (e + 1 - 3) \div 2 >= (e - 3) \div 2
    BY <1>1, <1>3
<1>5. e > 4 /\ e % 2 = 0 => (e + 1 - 3) \div 2 = (e - 3) \div 2 + 1
    BY <1>1, <1>3
<1>6. (5 - 3) \div 2 = 1
    OBVIOUS
<1>7. /\ LeftFrom(e) = IF e <= 4 THEN b ELSE b - (e - 3) \div 2
      /\ LeftFrom(e + 1) = IF e + 1 <= 4 THEN b ELSE b - (e + 1 - 3) \div 2
    BY DEF LeftFrom, b
<1>8. b = BITS
    BY DEF b
<1> QED
    BY <1>1, <1>2, <1>3, <1>4, <1>5, <1>6, <1>7, <1>8

\* The frames that bits may make up: no more for fewer bits, one more for a press, and
\* one fewer after a bit that completes one.
LEMMA NeedIs ==
    /\ \A m, n \in Nat : m <= n => Need(m) <= Need(n)
    /\ \A n \in Nat : Need(n) \in 0..2
    /\ \A n \in 0 .. BITS - 1 : Need(n + BITS) <= Need(n) + 1
    /\ \A n \in 1..BITS : Need(n - 1) + 1 <= Need(BITS - 1 + n)
BY RemoteAssumption DEF Need

\* Subtraction of two readings of the clock.
LEMMA ElapsedIs ==
    ASSUME NEW a \in 0 .. TickMod - 1, NEW b \in 0 .. TickMod - 1
    PROVE  /\ (a + 1) % TickMod \in 0 .. TickMod - 1
           /\ (a - b) % TickMod \in 0 .. TickMod - 1
           /\ (a - a) % TickMod = 0
           /\ (((a + 1) % TickMod) - b) % TickMod <= ((a - b) % TickMod) + 1
<1> DEFINE n == TickMod
           c == (a + 1) % n
<1>1. n \in Nat \ {0} /\ a \in 0 .. n - 1 /\ b \in 0 .. n - 1
    BY RemoteAssumption
<1> HIDE DEF n
<1>2. c = IF a + 1 = n THEN 0 ELSE a + 1
    BY <1>1
<1> HIDE DEF c
<1>3. c \in 0 .. n - 1
    BY <1>1, <1>2
<1>4. ASSUME NEW x \in 0 .. n - 1, NEW y \in 0 .. n - 1
      PROVE  (x - y) % n = IF x >= y THEN x - y ELSE x - y + n
    <2>1. x >= y => (x - y) % n = x - y
        BY <1>1
    <2>2. x < y => (x - y) % n = x - y + n
        BY <1>1
    <2> QED
        BY <2>1, <2>2
<1>5. (a - b) % n = IF a >= b THEN a - b ELSE a - b + n
    BY <1>1, <1>4
<1>6. (a - a) % n = 0
    <2>1. (a - a) % n = IF a >= a THEN a - a ELSE a - a + n
        BY <1>1, <1>4
    <2> QED
        BY <1>1, <2>1
<1>7. (c - b) % n = IF c >= b THEN c - b ELSE c - b + n
    BY <1>1, <1>3, <1>4
<1>8. c \in 0 .. n - 1 /\ (a - b) % n \in 0 .. n - 1 /\ (c - b) % n <= ((a - b) % n) + 1
    BY <1>1, <1>2, <1>5, <1>7
<1> QED
    BY <1>6, <1>8 DEF c, n

\* The bits of k collected: fewer than a frame has, and one more after a bit of k only.
LEMMA GotIs ==
    ASSUME NEW bits \in Seq(Codes), Len(bits) < BITS, NEW k, NEW state
    PROVE  /\ GotOf(state, bits, k) \in 0 .. BITS - 1
           /\ bits = <<>> => GotOf(state, bits, k) = 0
           /\ state \notin {"data", "data_high"} => GotOf(state, bits, k) = 0
           /\ GotOf("data", bits, k) = GotOf("data_high", bits, k)
           /\ GotOf(state, bits, k) <= GotOf("data", bits, k)
<1>1. Len(bits) \in Nat /\ BITS \in Nat
    BY RemoteAssumption, LenProperties
<1>2. bits = <<>> => Len(bits) = 0
    BY EmptySeq, Zenon
<1> DEFINE n == Len(bits)
           A == \A i \in 1 .. Len(bits) : bits[i] = k
<1>3. /\ GotOf(state, bits, k) = IF state \in {"data", "data_high"} /\ A THEN n ELSE 0
      /\ GotOf("data", bits, k) = IF A THEN n ELSE 0
      /\ GotOf("data_high", bits, k) = IF A THEN n ELSE 0
    BY Zenon DEF GotOf
<1>4. n \in Nat /\ n < BITS /\ BITS \in Nat /\ (bits = <<>> => n = 0)
    BY <1>1, <1>2
<1> HIDE DEF n, A
<1> DEFINE x == GotOf(state, bits, k)
           y == GotOf("data", bits, k)
           z == GotOf("data_high", bits, k)
<1>5. (x = n /\ A /\ state \in {"data", "data_high"}) \/ x = 0
    BY <1>3, Zenon
<1>6. y = z /\ ((A /\ y = n) \/ (~A /\ y = 0))
    BY <1>3, Zenon
<1> HIDE DEF x, y, z
<1>7. x \in 0 .. BITS - 1 /\ (bits = <<>> => x = 0) /\ y = z /\ x <= y
    BY <1>4, <1>5, <1>6
<1>8. state \notin {"data", "data_high"} => x = 0
    BY <1>5, Zenon
<1> QED
    BY <1>7, <1>8, Zenon DEF x, y, z

\* One bit more: the last of a frame of k, or not.
LEMMA GotAppend ==
    ASSUME NEW bits \in Seq(Codes), Len(bits) < BITS, NEW key \in Codes, NEW more,
           more = Append(bits, key)
    PROVE  /\ more \in Seq(Codes)
           /\ \A k : GotOf("data", more, k) <= GotOf("data_high", bits, k) + (IF key = k THEN 1 ELSE 0)
           /\ ~(Len(more) < BITS) /\ (\A i \in 1..BITS : more[i] = key)
                => GotOf("data_high", bits, key) = BITS - 1
<1>1. /\ more \in Seq(Codes)
      /\ Len(more) = Len(bits) + 1
      /\ \A i \in 1 .. Len(bits) : more[i] = bits[i]
      /\ more[Len(bits) + 1] = key
    BY AppendProperties, Zenon
<1>2. Len(bits) \in Nat /\ BITS \in Nat
    BY RemoteAssumption, LenProperties
<1> DEFINE n == Len(bits)
           m == Len(more)
<1>3. /\ n \in Nat /\ BITS \in Nat /\ n < BITS /\ m = n + 1
      /\ \A i \in 1..n : more[i] = bits[i]
      /\ more[n + 1] = key
    BY <1>1, <1>2
<1>4. \A k : /\ GotOf("data", more, k) = IF \A i \in 1..m : more[i] = k THEN m ELSE 0
             /\ GotOf("data_high", bits, k) = IF \A i \in 1..n : bits[i] = k THEN n ELSE 0
    BY Zenon DEF GotOf
<1> HIDE DEF n, m
<1>5. ASSUME NEW k
      PROVE  GotOf("data", more, k) <= GotOf("data_high", bits, k) + (IF key = k THEN 1 ELSE 0)
    <2>1. CASE \A i \in 1..m : more[i] = k
        <3>1. key = k
            <4>1. n + 1 \in 1..m
                BY <1>3
            <4> QED
                BY <1>3, <2>1, <4>1
        <3>2. \A i \in 1..n : bits[i] = k
            <4> TAKE i \in 1..n
            <4>1. i \in 1..m
                BY <1>3
            <4> QED
                BY <1>3, <2>1, <4>1
        <3>3. GotOf("data", more, k) = m /\ GotOf("data_high", bits, k) = n
            BY <1>4, <2>1, <3>2, Zenon
        <3> QED
            <4> DEFINE x == GotOf("data", more, k)
                       y == GotOf("data_high", bits, k)
            <4>1. x = m /\ y = n /\ key = k
                BY <3>1, <3>3
            <4> HIDE DEF x, y
            <4>2. x <= y + (IF key = k THEN 1 ELSE 0)
                BY <1>3, <4>1
            <4> QED
                BY <4>2, Zenon DEF x, y
    <2>2. CASE ~(\A i \in 1..m : more[i] = k)
        <3>1. GotOf("data", more, k) = 0
            BY <1>4, <2>2, Zenon
        <3>2. GotOf("data_high", bits, k) = n \/ GotOf("data_high", bits, k) = 0
            BY <1>4, Zenon
        <3> QED
            <4> DEFINE x == GotOf("data", more, k)
                       y == GotOf("data_high", bits, k)
            <4>1. x = 0 /\ (y = n \/ y = 0)
                BY <3>1, <3>2
            <4> HIDE DEF x, y
            <4>2. x <= y + (IF key = k THEN 1 ELSE 0)
                BY <1>3, <4>1
            <4> QED
                BY <4>2, Zenon DEF x, y
    <2> QED
        BY <2>1, <2>2
<1>6. ASSUME ~(m < BITS), \A i \in 1..BITS : more[i] = key
      PROVE  GotOf("data_high", bits, key) = BITS - 1
    <2>1. n = BITS - 1
        BY <1>3, <1>6
    <2>2. \A i \in 1..n : bits[i] = key
        <3> TAKE i \in 1..n
        <3>1. i \in 1..BITS
            BY <1>3, <2>1
        <3> QED
            BY <1>3, <1>6, <3>1
    <2> QED
        BY <1>4, <2>1, <2>2, Zenon
<1> QED
    BY <1>1, <1>5, <1>6 DEF m

-----------------------------------------------------------------------------
(***************************************************************************)
(* The interrupt: what an edge does to the decoder, and to the bits of k.  *)
(***************************************************************************)
\* An edge keeps the key that is left, leaves it again as a repeat, or leaves another
\* one; the bits of k are one more after a bit of k at most, and none are left when k
\* has been decoded.
EdgeDoes(gap, key, k) ==
    \/ /\ UNCHANGED <<s_cmd, s_repeat, s_ready>>
       /\ Got(k)' <= Got(k) + (IF gap = "bit_value" /\ key = k THEN 1 ELSE 0)
    \/ s_cmd' = s_cmd /\ s_repeat' = TRUE /\ Got(k)' = 0
    \/ /\ s_cmd' = key /\ s_repeat' = FALSE /\ gap = "bit_value"
       /\ Got(k)' = 0 /\ (key = k => Got(k) = BITS - 1)

\* Steps of the decoder that collect no bit.
LEMMA NoBit ==
    ASSUME DecoderOK, NEW gap, NEW key,
           s_bits' = s_bits \/ s_bits' = <<>>,
           s_state' \in AirStates,
           s_state' \in {"leader_low", "leader_high"} => s_bits' = <<>>,
           s_state' \in {"data", "data_high"} =>
             s_bits' = s_bits /\ s_state \in {"leader_high", "data", "data_high"},
           \/ UNCHANGED <<s_cmd, s_repeat, s_ready>>
           \/ UNCHANGED s_cmd /\ s_repeat' = TRUE /\ s_ready' = TRUE /\ s_state' = "idle"
    PROVE  DecoderOK' /\ \A k : EdgeDoes(gap, key, k)
<1>1. <<>> \in Seq(Codes) /\ Len(<<>>) = 0 /\ BITS \in Nat /\ BITS > 0
    BY RemoteAssumption, EmptySeq
<1>2. s_state \in {"leader_high", "data", "data_high"} => Len(s_bits) < BITS
    BY <1>1 DEF DecoderOK
<1>3. DecoderOK'
    BY <1>1, <1>2 DEF DecoderOK
<1>4. ASSUME NEW k
      PROVE  EdgeDoes(gap, key, k)
    <2>1. CASE s_state' \notin {"data", "data_high"}
        <3>1. Got(k)' = 0
            BY <2>1, Zenon DEF Got, GotOf
        <3>2. Got(k) \in Nat
            <4>1. CASE s_state \in {"data", "data_high"}
                BY <4>1, GotIs DEF Got, DecoderOK
            <4>2. CASE s_state \notin {"data", "data_high"}
                BY <4>2, Zenon DEF Got, GotOf
            <4> QED
                BY <4>1, <4>2
        <3> DEFINE x == Got(k)
                   b == IF gap = "bit_value" /\ key = k THEN 1 ELSE 0
        <3>3. b \in {0, 1}
            OBVIOUS
        <3> HIDE DEF x, b
        <3>4. 0 <= x + b
            BY <3>2, <3>3 DEF x
        <3> QED
            BY <3>1, <3>4, Zenon DEF EdgeDoes, x, b
    <2>2. CASE s_state' \in {"data", "data_high"}
        <3>1. s_bits' = s_bits /\ s_bits \in Seq(Codes) /\ Len(s_bits) < BITS
            BY <1>2, <2>2 DEF DecoderOK
        <3>2. CASE s_state = "leader_high"
            <4>1. s_bits = <<>>
                BY <3>2 DEF DecoderOK
            <4>2. GotOf(s_state', s_bits, k) = 0 /\ GotOf(s_state, s_bits, k) = 0
                BY <3>1, <4>1, GotIs, Zenon
            <4>3. Got(k)' = 0 /\ Got(k) = 0
                BY <3>1, <4>2 DEF Got
            <4> QED
                BY <2>2, <4>3 DEF EdgeDoes
        <3>3. CASE s_state \in {"data", "data_high"}
            <4>1. GotOf("data", s_bits, k) = GotOf("data_high", s_bits, k) /\ GotOf("data", s_bits, k) \in Nat
                BY <3>1, GotIs
            <4>2. Got(k)' = Got(k) /\ Got(k) \in Nat
                BY <2>2, <3>1, <3>3, <4>1 DEF Got
            <4> DEFINE x == Got(k)
            <4>3. Got(k)' = x /\ x \in Nat
                BY <4>2
            <4> HIDE DEF x
            <4>4. Got(k)' <= x + (IF gap = "bit_value" /\ key = k THEN 1 ELSE 0)
                BY <4>3
            <4> QED
                BY <2>2, <4>4 DEF EdgeDoes, x
        <3> QED
            BY <2>2, <3>2, <3>3
    <2> QED
        BY <2>1, <2>2
<1> QED
    BY <1>3, <1>4

\* The step that collects a bit (data_high, in ir_recv_gpio_irq).
LEMMA OneBit ==
    ASSUME DecoderOK, NEW key \in Codes, s_state = "data_high",
           s_bits' = Append(s_bits, key),
           IF Len(s_bits') < BITS
           THEN s_state' = "data" /\ UNCHANGED <<s_cmd, s_repeat, s_ready>>
           ELSE /\ s_state' = "idle"
                /\ IF \A i \in 1..BITS : s_bits'[i] = key
                   THEN s_cmd' = key /\ s_repeat' = FALSE /\ s_ready' = TRUE
                   ELSE UNCHANGED <<s_cmd, s_repeat, s_ready>>
    PROVE  DecoderOK' /\ \A k : EdgeDoes("bit_value", key, k)
<1>1. s_bits \in Seq(Codes) /\ Len(s_bits) < BITS
    BY DEF DecoderOK
<1> DEFINE more == s_bits'
<1>2. more = Append(s_bits, key)
    OBVIOUS
<1> HIDE DEF more
<1>3. /\ more \in Seq(Codes)
      /\ \A k : GotOf("data", more, k) <= GotOf("data_high", s_bits, k) + (IF key = k THEN 1 ELSE 0)
      /\ ~(Len(more) < BITS) /\ (\A i \in 1..BITS : more[i] = key)
           => GotOf("data_high", s_bits, key) = BITS - 1
    BY <1>1, <1>2, GotAppend, Zenon
<1>4. DecoderOK'
    BY <1>3 DEF DecoderOK, AirStates, more
<1>5. ASSUME NEW k
      PROVE  EdgeDoes("bit_value", key, k)
    <2>1. Got(k) = GotOf("data_high", s_bits, k)
        BY Zenon DEF Got
    <2>2. CASE Len(more) < BITS
        <3>1. Got(k)' = GotOf("data", more, k) /\ UNCHANGED <<s_cmd, s_repeat, s_ready>>
            BY <2>2 DEF Got, more
        <3>2. Got(k)' <= Got(k) + (IF key = k THEN 1 ELSE 0)
            BY <1>3, <2>1, <3>1, Zenon
        <3> QED
            BY <3>1, <3>2, Zenon DEF EdgeDoes
    <2>3. CASE ~(Len(more) < BITS)
        <3>1. s_state' = "idle"
            BY <2>3 DEF more
        <3>2. Got(k)' = 0
            BY <3>1 DEF Got, GotOf
        <3>3. CASE \A i \in 1..BITS : more[i] = key
            <4>1. s_cmd' = key /\ s_repeat' = FALSE /\ s_ready' = TRUE
                BY <2>3, <3>3 DEF more
            <4>2. key = k => Got(k) = BITS - 1
                BY <1>3, <2>1, <2>3, <3>3, Zenon
            <4> QED
                BY <3>2, <4>1, <4>2, Zenon DEF EdgeDoes
        <3>4. CASE ~(\A i \in 1..BITS : more[i] = key)
            <4>1. UNCHANGED <<s_cmd, s_repeat, s_ready>>
                BY <2>3, <3>4 DEF more
            <4> DEFINE x == GotOf("data_high", s_bits, k)
                       b == IF key = k THEN 1 ELSE 0
            <4>2. x \in 0 .. BITS - 1 /\ BITS \in Nat
                BY <1>1, GotIs, RemoteAssumption
            <4>3. b \in {0, 1}
                OBVIOUS
            <4> HIDE DEF x, b
            <4>4. 0 <= x + b
                BY <4>2, <4>3
            <4> QED
                BY <2>1, <3>2, <4>1, <4>4, Zenon DEF EdgeDoes, x, b
        <3> QED
            BY <3>3, <3>4
    <2> QED
        BY <2>2, <2>3
<1> QED
    BY <1>4, <1>5

\* Every edge, in every state of the decoder.
LEMMA EdgeInDoes ==
    ASSUME DecoderOK, NEW level, NEW gap, NEW key \in Codes,
           Remote!EdgeIn(level, gap, key)
    PROVE  DecoderOK' /\ \A k : EdgeDoes(gap, key, k)
<1>1. CASE /\ s_state = "idle" /\ s_state' = "leader_low" /\ s_bits' = <<>>
           /\ UNCHANGED <<s_cmd, s_repeat, s_ready>>
    <2>1. s_state' \in AirStates /\ s_state' \notin {"data", "data_high"}
        BY <1>1 DEF AirStates
    <2> QED
        BY <1>1, <2>1, NoBit, Zenon
<1>2. CASE /\ s_state \in {"leader_low", "data"}
           /\ \/ s_state = "leader_low" /\ s_state' = "leader_high"
              \/ s_state = "data" /\ s_state' = "data_high"
              \/ s_state' = "idle"
           /\ UNCHANGED s_bits /\ UNCHANGED <<s_cmd, s_repeat, s_ready>>
    <2>1. /\ s_state' \in AirStates
          /\ s_state' \in {"leader_low", "leader_high"} => s_bits' = <<>>
          /\ s_state' \in {"data", "data_high"} =>
               s_bits' = s_bits /\ s_state \in {"leader_high", "data", "data_high"}
        BY <1>2 DEF AirStates, DecoderOK
    <2> QED
        BY <1>2, <2>1, NoBit, Zenon
<1>3. CASE /\ s_state = "leader_high"
           /\ \/ s_state' = "data" /\ UNCHANGED <<s_cmd, s_repeat, s_ready>>
              \/ s_state' = "idle" /\ UNCHANGED <<s_cmd, s_repeat, s_ready>>
              \/ s_state' = "idle" /\ UNCHANGED s_cmd /\ s_repeat' = TRUE /\ s_ready' = TRUE
           /\ UNCHANGED s_bits
    <2>1. /\ s_state' \in AirStates
          /\ s_state' \notin {"leader_low", "leader_high"}
          /\ s_state' \in {"data", "data_high"} =>
               s_bits' = s_bits /\ s_state \in {"leader_high", "data", "data_high"}
        BY <1>3 DEF AirStates
    <2> QED
        BY <1>3, <2>1, NoBit, Zenon
<1>4. CASE /\ s_state = "data_high" /\ gap = "bit_value"
           /\ s_bits' = Append(s_bits, key)
           /\ IF Len(s_bits') < BITS
              THEN s_state' = "data" /\ UNCHANGED <<s_cmd, s_repeat, s_ready>>
              ELSE /\ s_state' = "idle"
                   /\ IF \A i \in 1..BITS : s_bits'[i] = key
                      THEN s_cmd' = key /\ s_repeat' = FALSE /\ s_ready' = TRUE
                      ELSE UNCHANGED <<s_cmd, s_repeat, s_ready>>
    BY <1>4, OneBit, Zenon
<1>5. CASE /\ s_state = "data_high" /\ s_state' = "idle"
           /\ UNCHANGED s_bits /\ UNCHANGED <<s_cmd, s_repeat, s_ready>>
    <2>1. s_state' \in AirStates /\ s_state' \notin {"leader_low", "leader_high", "data", "data_high"}
        BY <1>5 DEF AirStates
    <2> QED
        BY <1>5, <2>1, NoBit, Zenon
<1>6. CASE s_state' = s_state /\ UNCHANGED s_bits /\ UNCHANGED <<s_cmd, s_repeat, s_ready>>
    <2>1. /\ s_state' \in AirStates
          /\ s_state' \in {"leader_low", "leader_high"} => s_bits' = <<>>
          /\ s_state' \in {"data", "data_high"} =>
               s_bits' = s_bits /\ s_state \in {"leader_high", "data", "data_high"}
        BY <1>6 DEF DecoderOK
    <2> QED
        BY <1>6, <2>1, NoBit, Zenon
<1>a. CASE /\ s_state = "idle" /\ level = 0
           /\ Remote!Goto("leader_low", 0) /\ s_bits' = <<>> /\ Remote!KeepKey
    BY <1>a, <1>1 DEF Remote!Goto, Remote!KeepKey
<1>b. CASE /\ s_state \in {"leader_low", "data"} /\ level = 1
           /\ IF s_state = "leader_low" /\ gap = "leader_low" THEN Remote!Goto("leader_high", 1)
              ELSE IF s_state = "data" /\ gap = "bit_low" THEN Remote!Goto("data_high", 1)
              ELSE Remote!ToIdle(1)
           /\ UNCHANGED s_bits /\ Remote!KeepKey
    BY <1>b, <1>2 DEF Remote!Goto, Remote!ToIdle, Remote!KeepKey
<1>c. CASE /\ s_state = "leader_high" /\ level = 0
           /\ UNCHANGED s_bits
           /\ IF gap = "leader_high" THEN Remote!Goto("data", 0) /\ Remote!KeepKey
              ELSE /\ Remote!ToIdle(0)
                   /\ IF gap = "repeat_high" THEN Remote!RepeatKey ELSE Remote!KeepKey
    BY <1>c, <1>3 DEF Remote!Goto, Remote!ToIdle, Remote!KeepKey, Remote!RepeatKey
<1>d. CASE /\ s_state = "data_high" /\ level = 0 /\ gap = "bit_value"
           /\ s_bits' = Append(s_bits, key)
           /\ IF Len(s_bits') < BITS THEN Remote!Goto("data", 0) /\ Remote!KeepKey
              ELSE /\ Remote!ToIdle(0)
                   /\ IF \A i \in 1 .. BITS : s_bits'[i] = key THEN Remote!NewKey(key) ELSE Remote!KeepKey
    BY <1>d, <1>4, Zenon DEF Remote!Goto, Remote!ToIdle, Remote!KeepKey, Remote!NewKey
<1>e. CASE /\ s_state = "data_high" /\ level = 0 /\ gap # "bit_value"
           /\ Remote!ToIdle(0) /\ UNCHANGED s_bits /\ Remote!KeepKey
    BY <1>e, <1>5 DEF Remote!ToIdle, Remote!KeepKey
<1>f. CASE Remote!Goto(s_state, level) /\ UNCHANGED s_bits /\ Remote!KeepKey
    BY <1>f, <1>6 DEF Remote!Goto, Remote!KeepKey
<1> QED
    BY <1>a, <1>b, <1>c, <1>d, <1>e, <1>f, Zenon DEF Remote!EdgeIn

-----------------------------------------------------------------------------
(***************************************************************************)
(* The signal's side: interrupts, the remote, noise.                       *)
(***************************************************************************)
\* What no step of the signal touches.
PollerKept ==
    UNCHANGED <<pc, cmd, repeat, s_last_cmd, s_last_key_time, clock, lag, acted, ofRepeat, mixed>>

\* The frame on air has no more bits to come than there are, none if there is no frame.
LEMMA LeftIs ==
    ASSUME SendingOK, NEW k
    PROVE  Left(k) \in 0..BITS
<1>1. CASE sending.kind # "frame" \/ sending.key # k
    BY <1>1, RemoteAssumption DEF Left
<1>2. CASE ~(sending.kind # "frame" \/ sending.key # k)
    <2>1. sending \in Frames
        BY <1>2 DEF SendingOK, Repeats, Remote!Quiet
    <2>2. sending.edge \in 0 .. 2 * BITS + 3
        BY <2>1 DEF Frames
    <2>3. Left(k) = LeftFrom(sending.edge)
        BY <1>2, Zenon DEF Left
    <2> QED
        BY <2>2, <2>3, LeftStep
<1> QED
    BY <1>1, <1>2

\* The bits of k, and the frames they may make up.
LEMMA DueIs ==
    ASSUME RemoteOK, NEW k
    PROVE  /\ Got(k) \in 0 .. BITS - 1 /\ Left(k) \in 0..BITS
           /\ Due(k) \in 0..2
<1>1. BITS \in Nat /\ BITS > 0
    BY RemoteAssumption
<1>2. Got(k) \in 0 .. BITS - 1
    <2>1. CASE s_state \in {"data", "data_high"}
        BY <2>1, GotIs DEF Got, RemoteOK, DecoderOK
    <2>2. CASE s_state \notin {"data", "data_high"}
        BY <1>1, <2>2 DEF Got, GotOf
    <2> QED
        BY <2>1, <2>2
<1>3. Left(k) \in 0..BITS
    BY LeftIs DEF RemoteOK
<1> DEFINE n == Got(k) + Left(k)
<1>4. n \in Nat
    BY <1>1, <1>2, <1>3
<1>5. Due(k) = Need(n)
    BY DEF Due
<1> HIDE DEF n
<1>6. Due(k) \in 0..2
    BY <1>4, <1>5, NeedIs
<1> QED
    BY <1>2, <1>3, <1>6

\* The bounds of what is due.
DueIn(k) == Got(k) \in 0 .. BITS - 1 /\ Left(k) \in 0..BITS /\ Due(k) \in 0..2

\* The same, as a formula of a state, and of the next one.
LEMMA DueBounds == RemoteOK => \A k : DueIn(k)
BY DueIs DEF DueIn

\* Of the next one.
LEMMA DueBoundsNext == (RemoteOK => \A k : DueIn(k))'
BY DueBounds, PTL

\* After a step.
LEMMA DueIsNext ==
    ASSUME RemoteOK', NEW k
    PROVE  /\ Got(k)' \in 0 .. BITS - 1 /\ Left(k)' \in 0..BITS
           /\ Due(k)' \in 0..2
BY DueBoundsNext, Zenon DEF DueIn

\* The presses of k that have not acted are a number.
LEMMA CreditIs ==
    ASSUME RemoteOK, NEW k \in Toggles
    PROVE  Credit(k) \in Int /\ sent[k] \in Nat /\ acted[k] \in Nat /\ mixed \in Nat
BY DEF RemoteOK, CountsOK, Credit, Remote!Keys

\* Fewer bits, fewer frames due.
LEMMA DueLess ==
    ASSUME RemoteOK, RemoteOK', NEW k, Got(k)' + Left(k)' <= Got(k) + Left(k)
    PROVE  Due(k)' <= Due(k)
<1> DEFINE m == Got(k)' + Left(k)'
           n == Got(k) + Left(k)
<1>1. m \in Nat /\ n \in Nat /\ m <= n
    BY DueIs, DueIsNext, RemoteAssumption
<1>2. Due(k)' = Need(m) /\ Due(k) = Need(n)
    BY DEF Due
<1> HIDE DEF m, n
<1> QED
    BY <1>1, <1>2, NeedIs

\* A step that leaves the main loop and the key as they are, and has no more bits of k
\* due than presses.
LEMMA KeyKept ==
    ASSUME RemoteOK, RemoteOK', NEW k \in Toggles, KeyOK(k), PollerKept,
           UNCHANGED <<s_cmd, s_repeat, s_ready>> \/ (s_cmd' = s_cmd /\ s_repeat' = TRUE)
             \/ s_cmd' # k,
           Due(k)' <= Due(k), sent'[k] = sent[k]
    PROVE  KeyOK(k)'
<1>1. Credit(k)' = Credit(k) /\ Credit(k) \in Int
    BY CreditIs, Zenon DEF Credit, PollerKept
<1>2. Due(k)' \in Int /\ Due(k) \in Int
    BY DueIs, DueIsNext
<1>3. Spare(k) => Spare(k)'
    <2> DEFINE d == Due(k)
               e == Due(k)'
               c == Credit(k)
    <2>1. d \in Int /\ e \in Int /\ c \in Int /\ e <= d
        BY <1>1, <1>2
    <2> HIDE DEF d, e, c
    <2>2. d + 1 <= c => e + 1 <= c
        BY <2>1
    <2> QED
        BY <1>1, <2>2, Zenon DEF Spare, d, e, c
<1>4. Due(k)' <= Credit(k)'
    <2> DEFINE d == Due(k)
               e == Due(k)'
               c == Credit(k)
    <2>1. d \in Int /\ e \in Int /\ c \in Int /\ e <= d /\ d <= c
        BY <1>1, <1>2, Zenon DEF KeyOK
    <2> HIDE DEF d, e, c
    <2>2. e <= c
        BY <2>1
    <2> QED
        BY <1>1, <2>2, Zenon DEF e, c
<1>5. (Since(k, lag) => Since(k, lag)') /\ (Since(k, MaxLag) => Since(k, MaxLag)')
    BY Zenon DEF Since, PollerKept
<1>6. Waiting(k)' => Waiting(k)
    BY DEF Waiting
<1>7. TakingKey(k)' => TakingKey(k)
    BY DEF TakingKey, PollerKept
<1>8. pc' = pc
    BY DEF PollerKept
<1> QED
    BY <1>3, <1>4, <1>5, <1>6, <1>7, <1>8, Zenon DEF KeyOK

\* A step that gives k a press to spare.
LEMMA KeySpared ==
    ASSUME RemoteOK', NEW k \in Toggles, Spare(k)'
    PROVE  KeyOK(k)'
<1>1. Credit(k)' \in Int
    BY DEF RemoteOK, CountsOK, Credit, Remote!Keys
<1> DEFINE d == Due(k)'
           c == Credit(k)'
<1>2. d \in Int /\ c \in Int /\ d + 1 <= c
    BY <1>1, DueIsNext DEF Spare
<1> HIDE DEF d, c
<1>3. d <= c
    BY <1>2
<1> QED
    BY <1>3, Zenon DEF KeyOK, d, c

\* After an edge: a bit of k that is collected is one fewer to come, and a frame of k
\* that is complete is no longer due, which leaves its press to spare.
LEMMA KeyAfterEdge ==
    ASSUME RemoteOK, RemoteOK', NEW k \in Toggles, KeyOK(k), PollerKept, UNCHANGED sent,
           NEW gap, NEW key, EdgeDoes(gap, key, k),
           Left(k)' <= Left(k),
           gap = "bit_value" /\ key = k => Left(k)' = Left(k) - 1
    PROVE  KeyOK(k)'
<1> DEFINE g == Got(k)
           h == Got(k)'
           l == Left(k)
           m == Left(k)'
<1>1. /\ g \in 0 .. BITS - 1 /\ h \in 0 .. BITS - 1 /\ l \in 0..BITS /\ m \in 0..BITS
      /\ BITS \in Nat /\ m <= l
    BY DueIs, DueIsNext, RemoteAssumption
<1>2. CASE /\ UNCHANGED <<s_cmd, s_repeat, s_ready>>
           /\ h <= g + (IF gap = "bit_value" /\ key = k THEN 1 ELSE 0)
    <2>1. h + m <= g + l
        <3>1. CASE gap = "bit_value" /\ key = k
            <4>1. m = l - 1 /\ h <= g + 1
                BY <1>2, <3>1
            <4> HIDE DEF g, h, l, m
            <4> QED
                BY <1>1, <4>1
        <3>2. CASE ~(gap = "bit_value" /\ key = k)
            <4>1. h <= g + 0
                BY <1>2, <3>2
            <4> HIDE DEF g, h, l, m
            <4> QED
                BY <1>1, <4>1
        <3> QED
            BY <3>1, <3>2
    <2>2. Due(k)' <= Due(k)
        BY <2>1, DueLess
    <2> QED
        BY <1>2, <2>2, KeyKept
<1>3. CASE h = 0 /\ ((s_cmd' = s_cmd /\ s_repeat' = TRUE) \/ (s_cmd' = key /\ key # k))
    <2>1. h + m <= g + l
        <3> HIDE DEF g, h, l, m
        <3> QED
            BY <1>1, <1>3
    <2>2. Due(k)' <= Due(k)
        BY <2>1, DueLess
    <2> QED
        BY <1>3, <2>2, KeyKept
<1>4. CASE h = 0 /\ gap = "bit_value" /\ key = k /\ g = BITS - 1
    <2>1. l \in 1..BITS /\ m = l - 1
        BY <1>1, <1>4
    <2>2. Due(k) = Need(g + l) /\ Due(k)' = Need(h + m)
        BY DEF Due
    <2> HIDE DEF g, h, l, m
    <2>3. h + m = l - 1 /\ g + l = BITS - 1 + l
        BY <1>1, <1>4, <2>1
    <2>4. Need(l - 1) + 1 <= Need(BITS - 1 + l)
        BY <2>1, NeedIs
    <2>5. Due(k)' + 1 <= Due(k)
        BY <2>2, <2>3, <2>4
    <2>6. Due(k) \in 0..2 /\ Due(k)' \in 0..2
        BY DueIs, DueIsNext
    <2>7. Due(k) <= Credit(k)
        BY DEF KeyOK
    <2>8. Credit(k)' = Credit(k) /\ Credit(k) \in Int
        BY CreditIs, Zenon DEF Credit, PollerKept
    <2>9. Spare(k)'
        <3> DEFINE d == Due(k)
                   e == Due(k)'
                   c == Credit(k)
        <3>1. d \in 0..2 /\ e \in 0..2 /\ c \in Int /\ e + 1 <= d /\ d <= c
            BY <2>5, <2>6, <2>7, <2>8
        <3> HIDE DEF d, e, c
        <3>2. e + 1 <= c
            BY <3>1
        <3> QED
            BY <2>8, <3>2, Zenon DEF Spare, d, e, c
    <2> QED
        BY <2>9, KeySpared
<1> QED
    BY <1>2, <1>3, <1>4, Zenon DEF EdgeDoes

\* The interrupt.
LEMMA IrqDoes ==
    ASSUME RemoteOK, NEW edge, NEW level, NEW gap, NEW key \in Codes,
           Remote!Irq(edge, level, gap, key)
    PROVE  DecoderOK' /\ \A k : EdgeDoes(gap, key, k)
<1>1. CASE Remote!EdgeIn(level, gap, key)
    BY <1>1, EdgeInDoes, Zenon DEF RemoteOK
<1>2. CASE UNCHANGED Remote!decoder
    <2>1. UNCHANGED <<s_state, s_bits, s_cmd, s_repeat, s_ready>>
        BY <1>2 DEF Remote!decoder
    <2>2. DecoderOK'
        BY <2>1 DEF RemoteOK, DecoderOK
    <2>3. ASSUME NEW k
          PROVE  EdgeDoes(gap, key, k)
        <3> DEFINE x == Got(k)
        <3>1. Got(k)' = x
            BY <2>1, Zenon DEF Got
        <3>2. x \in 0 .. BITS - 1 /\ BITS \in Nat
            BY DueIs, RemoteAssumption
        <3> HIDE DEF x
        <3>3. Got(k)' <= x + (IF gap = "bit_value" /\ key = k THEN 1 ELSE 0)
            BY <3>1, <3>2
        <3> QED
            BY <2>1, <3>3 DEF EdgeDoes, x
    <2> QED
        BY <2>2, <2>3
<1> QED
    BY <1>1, <1>2, Zenon DEF Remote!Irq

\* The next edge of the frame on air.
LEMMA AdvanceDoes ==
    ASSUME SendingOK, sending # Remote!Quiet, Remote!Advance
    PROVE  /\ SendingOK' /\ sending.key \in Codes
           /\ \A k : /\ Left(k)' <= Left(k)
                     /\ Remote!NextGap = "bit_value" /\ sending.key = k => Left(k)' = Left(k) - 1
<1> DEFINE e == sending.edge
           n == Len(Remote!FrameEdges(sending.kind))
<1>1. BITS \in Nat /\ BITS > 0
    BY RemoteAssumption
<1>2. CASE sending \in Frames
    <2>1. sending.kind = "frame" /\ sending.key \in Remote!Keys /\ e \in 0 .. 2 * BITS + 3
        BY <1>2 DEF Frames
    <2>2. n = 2 * BITS + 4
        BY <2>1, FrameEdgesAre
    <2>3. sending' = IF e + 1 = n THEN Remote!Quiet ELSE [sending EXCEPT !.edge = e + 1]
        BY Zenon DEF Remote!Advance
    <2>4. \A k : Left(k) = IF sending.key = k THEN LeftFrom(e) ELSE 0
        BY <2>1 DEF Left
    <2>5. Remote!NextGap = "bit_value" => e >= 4 /\ e <= 2 * BITS + 2 /\ e % 2 = 0
        <3>1. Remote!NextGap = "bit_value" => Remote!FrameEdges("frame")[e + 1] = "bit_value"
            BY <2>1 DEF Remote!NextGap
        <3> QED
            BY <2>1, <3>1, FrameEdgesAre, Zenon
    <2>6. /\ LeftFrom(e) \in 0..BITS /\ LeftFrom(e + 1) \in 0..BITS /\ LeftFrom(e + 1) <= LeftFrom(e)
          /\ Remote!NextGap = "bit_value" => LeftFrom(e + 1) = LeftFrom(e) - 1
        BY <2>1, <2>5, LeftStep
    <2>7. CASE e + 1 = n
        <3>1. sending' = Remote!Quiet /\ Remote!NextGap # "bit_value"
            BY <1>1, <2>1, <2>2, <2>3, <2>5, <2>7
        <3>2. \A k : Left(k)' = 0
            BY <3>1 DEF Left, Remote!Quiet
        <3>3. \A k : Left(k) >= 0
            BY <1>1, <2>4, <2>6
        <3>4. SendingOK' /\ sending.key \in Codes
            BY <2>1, <3>1 DEF SendingOK, Codes
        <3> QED
            BY <1>1, <3>1, <3>2, <3>3, <3>4
    <2>8. CASE e + 1 # n
        <3>1. sending' = [sending EXCEPT !.edge = e + 1] /\ e + 1 \in 0 .. 2 * BITS + 3
            BY <1>1, <2>1, <2>2, <2>3, <2>8
        <3>2. sending' \in Frames /\ sending'.kind = "frame" /\ sending'.key = sending.key /\ sending'.edge = e + 1
            BY <1>2, <2>1, <3>1 DEF Frames
        <3>3. \A k : Left(k)' = IF sending.key = k THEN LeftFrom(e + 1) ELSE 0
            BY <3>2 DEF Left
        <3>4. SendingOK' /\ sending.key \in Codes
            BY <2>1, <3>2 DEF SendingOK, Codes
        <3> HIDE DEF e
        <3> QED
            BY <2>4, <2>6, <3>3, <3>4
    <2> QED
        BY <2>7, <2>8
<1>3. CASE sending \in Repeats
    <2>1. sending.kind = "repeat" /\ sending.key = NoKey /\ e \in 0..3
        BY <1>3 DEF Repeats
    <2>2. n = 4
        BY <2>1, FrameEdgesAre
    <2>3. sending' = IF e + 1 = n THEN Remote!Quiet ELSE [sending EXCEPT !.edge = e + 1]
        BY Zenon DEF Remote!Advance
    <2>4. Remote!NextGap # "bit_value"
        <3>1. Remote!NextGap = "bit_value" => Remote!FrameEdges("repeat")[e + 1] = "bit_value"
            BY <2>1 DEF Remote!NextGap
        <3> QED
            BY <2>1, <3>1, FrameEdgesAre, Zenon
    <2>5. sending' = Remote!Quiet \/ (sending' \in Repeats /\ sending'.kind = "repeat")
        <3>1. CASE e + 1 = n
            BY <2>3, <3>1
        <3>2. CASE e + 1 # n
            <4>1. sending' = [sending EXCEPT !.edge = e + 1]
                BY <2>3, <3>2, Zenon
            <4>2. e \in 0..3 /\ e + 1 # 4
                BY <2>1, <2>2, <3>2, Zenon
            <4>3. e + 1 \in 0..3
                <5> HIDE DEF e
                <5> QED
                    BY <4>2
            <4> QED
                BY <1>3, <2>1, <4>1, <4>3 DEF Repeats
        <3> QED
            BY <3>1, <3>2
    <2>6. \A k : Left(k)' = 0 /\ Left(k) = 0
        BY <2>1, <2>5 DEF Left, Remote!Quiet
    <2> QED
        BY <2>1, <2>4, <2>5, <2>6 DEF SendingOK, Codes
<1> QED
    BY <1>2, <1>3 DEF SendingOK

\* An edge of the frame on air that interrupts the main loop.
LEMMA EdgeHeardKeeps ==
    ASSUME RInv, Remote!EdgeHeard
    PROVE  RInv'
<1>1. /\ sending # Remote!Quiet
      /\ Remote!Irq(Remote!NextLevel, Remote!NextLevel, Remote!NextGap, sending.key)
      /\ Remote!Advance
      /\ PollerKept /\ UNCHANGED sent
    BY DEF Remote!EdgeHeard, Remote!time, Remote!done, PollerKept
<1>2. /\ SendingOK' /\ sending.key \in Codes
      /\ \A k : /\ Left(k)' <= Left(k)
                /\ Remote!NextGap = "bit_value" /\ sending.key = k => Left(k)' = Left(k) - 1
    BY <1>1, AdvanceDoes, Zenon DEF RInv, RemoteOK
<1>3. DecoderOK' /\ \A k : EdgeDoes(Remote!NextGap, sending.key, k)
    BY <1>1, <1>2, IrqDoes, Zenon DEF RInv
<1>4. RemoteOK'
    BY <1>1, <1>2, <1>3 DEF RInv, RemoteOK, PollerOK, TimesOK, CountsOK, PollerKept
<1>5. ASSUME NEW k \in Toggles
      PROVE  KeyOK(k)'
    BY <1>1, <1>2, <1>3, <1>4, KeyAfterEdge, Zenon DEF RInv, KeysOK
<1> QED
    BY <1>4, <1>5, Zenon DEF RInv, KeysOK

\* Noise never carries a bit.
LEMMA NoiseKeeps ==
    ASSUME RInv, Remote!Noise
    PROVE  RInv'
<1>1. /\ \E edge, level \in {0, 1} : Remote!Irq(edge, level, "odd", NoKey)
      /\ PollerKept /\ UNCHANGED <<sent, sending>>
    BY DEF Remote!Noise, Remote!time, Remote!done, PollerKept
<1>2. DecoderOK' /\ \A k : EdgeDoes("odd", NoKey, k)
    <2>1. NoKey \in Codes
        BY DEF Codes
    <2> QED
        BY <1>1, <2>1, IrqDoes, Zenon DEF RInv
<1>3. RemoteOK'
    BY <1>1, <1>2 DEF RInv, RemoteOK, PollerOK, TimesOK, CountsOK, PollerKept, SendingOK
<1>4. ASSUME NEW k \in Toggles
      PROVE  KeyOK(k)'
    <2>1. Left(k)' = Left(k) /\ Left(k) \in 0..BITS /\ BITS \in Nat
        BY <1>1, DueIs, RemoteAssumption DEF Left, RInv
    <2>2. Left(k)' <= Left(k) /\ "odd" # "bit_value"
        <3> DEFINE l == Left(k)
        <3> HIDE DEF l
        <3>1. l \in 0..BITS /\ BITS \in Nat => l <= l
            OBVIOUS
        <3> QED
            BY <2>1, <3>1 DEF l
    <2> QED
        BY <1>1, <1>2, <1>3, <2>2, KeyAfterEdge, Zenon DEF RInv, KeysOK
<1> QED
    BY <1>3, <1>4, Zenon DEF RInv, KeysOK

\* An edge that is missed: fewer bits to come, none collected.
LEMMA EdgeMissedKeeps ==
    ASSUME RInv, Remote!EdgeMissed
    PROVE  RInv'
<1>1. /\ sending # Remote!Quiet /\ Remote!Advance /\ UNCHANGED sent
      /\ PollerKept /\ UNCHANGED <<s_state, s_bits, s_cmd, s_repeat, s_ready>>
    BY DEF Remote!EdgeMissed, Remote!time, Remote!done, Remote!decoder, Remote!poller, PollerKept
<1>2. SendingOK' /\ \A k : Left(k)' <= Left(k)
    BY <1>1, AdvanceDoes, Zenon DEF RInv, RemoteOK
<1>3. RemoteOK'
    BY <1>1, <1>2 DEF RInv, RemoteOK, DecoderOK, PollerOK, TimesOK, CountsOK, PollerKept
<1>4. ASSUME NEW k \in Toggles
      PROVE  KeyOK(k)'
    <2> DEFINE g == Got(k)
               l == Left(k)
               m == Left(k)'
    <2>1. Got(k)' = g
        BY <1>1, Zenon DEF Got
    <2>2. g \in 0 .. BITS - 1 /\ l \in 0..BITS /\ m \in 0..BITS /\ BITS \in Nat /\ m <= l
        BY <1>2, <1>3, DueIs, DueIsNext, RemoteAssumption DEF RInv
    <2> HIDE DEF g, l, m
    <2>3. g + m <= g + l
        BY <2>2
    <2>4. Due(k)' <= Due(k)
        BY <1>3, <2>1, <2>3, DueLess, Zenon DEF RInv, g, l, m
    <2> QED
        BY <1>1, <1>3, <2>4, KeyKept, Zenon DEF RInv, KeysOK
<1> QED
    BY <1>3, <1>4, Zenon DEF RInv, KeysOK

\* A step with another frame on air, and the decoder and the main loop as they are.
LEMMA SendsKeeps ==
    ASSUME RInv, PollerKept, UNCHANGED <<s_state, s_bits, s_cmd, s_repeat, s_ready>>,
           SendingOK', CountsOK',
           \A k \in Toggles : \/ sent'[k] = sent[k] /\ Left(k)' <= Left(k)
                              \/ sent'[k] = sent[k] + 1 /\ Left(k) = 0
    PROVE  RInv'
<1>1. RemoteOK'
    BY DEF RInv, RemoteOK, DecoderOK, PollerOK, TimesOK, PollerKept
<1>2. ASSUME NEW k \in Toggles
      PROVE  KeyOK(k)'
    <2> DEFINE g == Got(k)
               l == Left(k)
               m == Left(k)'
               d == Due(k)
               e == Due(k)'
               c == Credit(k)
    <2>1. Got(k)' = g
        BY Zenon DEF Got
    <2>2. g \in 0 .. BITS - 1 /\ l \in 0..BITS /\ m \in 0..BITS /\ BITS \in Nat
        BY <1>1, DueIs, DueIsNext, RemoteAssumption DEF RInv
    <2>3. d \in 0..2 /\ e \in 0..2
        BY <1>1, DueIs, DueIsNext, Zenon DEF RInv
    <2>4. CASE sent'[k] = sent[k] /\ m <= l
        <3>1. g + m <= g + l
            <4> HIDE DEF g, l, m
            <4> QED
                BY <2>2, <2>4
        <3>2. e <= d
            BY <1>1, <2>1, <3>1, DueLess, Zenon DEF RInv
        <3> QED
            BY <1>1, <2>4, <3>2, KeyKept, Zenon DEF RInv, KeysOK
    <2>5. CASE sent'[k] = sent[k] + 1 /\ l = 0
        <3>1. d = Need(g + l) /\ e = Need(g + m)
            BY <2>1 DEF Due
        <3>2. c \in Int /\ sent[k] \in Nat /\ acted[k] \in Nat /\ mixed \in Nat
            BY CreditIs DEF RInv
        <3>3. Credit(k)' = c + 1
            BY <2>5, <3>2 DEF Credit, PollerKept
        <3>4. Need(g + m) <= Need(g) + 1 /\ Need(g) \in 0..2 /\ g + l = g
            <4> HIDE DEF g, l, m
            <4>1. g \in Nat /\ g + m \in Nat /\ g + BITS \in Nat /\ g + m <= g + BITS /\ g + l = g
                BY <2>2, <2>5
            <4>2. Need(g + m) <= Need(g + BITS) /\ Need(g + BITS) <= Need(g) + 1
                BY <2>2, <4>1, NeedIs
            <4>3. Need(g + m) \in 0..2 /\ Need(g + BITS) \in 0..2 /\ Need(g) \in 0..2
                BY <4>1, NeedIs
            <4> QED
                BY <4>1, <4>2, <4>3
        <3>5. e <= d + 1
            BY <3>1, <3>4
        <3>6. d <= c
            BY DEF RInv, KeysOK, KeyOK
        <3> HIDE DEF d, e, c
        <3>7. e <= c + 1 /\ (d + 1 <= c => e + 1 <= c + 1)
            BY <2>3, <3>2, <3>5, <3>6
        <3>8. Due(k)' <= Credit(k)' /\ (Spare(k) => Spare(k)')
            BY <3>3, <3>7, Zenon DEF Spare, d, e, c
        <3>9. /\ (Waiting(k)' => Waiting(k)) /\ (TakingKey(k)' => TakingKey(k)) /\ pc' = pc
              /\ (Since(k, lag) => Since(k, lag)') /\ (Since(k, MaxLag) => Since(k, MaxLag)')
            BY Zenon DEF Waiting, TakingKey, Since, PollerKept
        <3> QED
            BY <3>8, <3>9, Zenon DEF RInv, KeysOK, KeyOK
    <2> QED
        BY <2>4, <2>5, Zenon
<1> QED
    BY <1>1, <1>2, Zenon DEF RInv, KeysOK

\* A key is pressed: its frame is due, and so is its press.
LEMMA PressKeeps ==
    ASSUME RInv, NEW key \in Remote!Keys, Remote!Press(key)
    PROVE  RInv'
<1>1. /\ sending = Remote!Quiet
      /\ sending' = [kind |-> "frame", key |-> key, edge |-> 0]
      /\ sent' = [sent EXCEPT ![key] = @ + 1]
      /\ PollerKept /\ UNCHANGED <<s_state, s_bits, s_cmd, s_repeat, s_ready>>
    BY DEF Remote!Press, Remote!time, Remote!done, Remote!decoder, Remote!poller, PollerKept
<1>2. sent \in [Remote!Keys -> Nat] /\ CountsOK'
    BY <1>1 DEF RInv, RemoteOK, CountsOK, PollerKept
<1>3. SendingOK'
    BY <1>1, RemoteAssumption DEF SendingOK, Frames
<1>4. ASSUME NEW k \in Toggles
      PROVE  \/ sent'[k] = sent[k] /\ Left(k)' <= Left(k)
             \/ sent'[k] = sent[k] + 1 /\ Left(k) = 0
    <2>1. k \in Remote!Keys
        BY DEF Remote!Keys
    <2>2. Left(k) = 0
        BY <1>1 DEF Left, Remote!Quiet
    <2>3. CASE k = key
        BY <1>1, <1>2, <2>1, <2>2, <2>3
    <2>4. CASE k # key
        <3>1. Left(k)' = 0
            BY <1>1, <2>4 DEF Left
        <3> QED
            BY <1>1, <1>2, <2>1, <2>2, <2>4, <3>1
    <2> QED
        BY <2>3, <2>4
<1> QED
    BY <1>1, <1>2, <1>3, <1>4, SendsKeeps, Zenon

\* A key is held: its repeat brings no bit.
LEMMA HoldKeeps ==
    ASSUME RInv, Remote!Hold
    PROVE  RInv'
<1>1. /\ sending = Remote!Quiet
      /\ sending' = [kind |-> "repeat", key |-> NoKey, edge |-> 0]
      /\ UNCHANGED sent
      /\ PollerKept /\ UNCHANGED <<s_state, s_bits, s_cmd, s_repeat, s_ready>>
    BY DEF Remote!Hold, Remote!time, Remote!done, Remote!decoder, Remote!poller, PollerKept
<1>2. CountsOK'
    BY <1>1 DEF RInv, RemoteOK, CountsOK, PollerKept
<1>3. SendingOK'
    BY <1>1 DEF SendingOK, Repeats
<1>4. ASSUME NEW k \in Toggles
      PROVE  sent'[k] = sent[k] /\ Left(k)' <= Left(k)
    <2>1. Left(k) = 0 /\ Left(k)' = 0
        BY <1>1 DEF Left, Remote!Quiet
    <2> QED
        BY <1>1, <2>1
<1> QED
    BY <1>1, <1>2, <1>3, <1>4, SendsKeeps, Zenon

\* A step that changes nothing the invariant is about.
LEMMA NothingKeeps ==
    ASSUME RInv, PollerKept,
           UNCHANGED <<s_state, s_bits, s_cmd, s_repeat, s_ready, sending, sent>>
    PROVE  RInv'
<1>1. SendingOK' /\ CountsOK'
    BY DEF RInv, RemoteOK, SendingOK, CountsOK, PollerKept
<1>2. ASSUME NEW k \in Toggles
      PROVE  sent'[k] = sent[k] /\ Left(k)' <= Left(k)
    <2> DEFINE l == Left(k)
    <2>1. Left(k)' = l /\ l \in 0..BITS /\ BITS \in Nat
        BY DueIs, RemoteAssumption DEF Left, RInv
    <2> HIDE DEF l
    <2>2. l <= l
        BY <2>1
    <2> QED
        BY <2>1, <2>2 DEF l
<1> QED
    BY <1>1, <1>2, SendsKeeps, Zenon

-----------------------------------------------------------------------------
(***************************************************************************)
(* The main loop's side: the clock, ir_recv_poll and ir_recv_on_cmd.       *)
(***************************************************************************)
\* What no step of the main loop touches; but its reset of the decoder.
SignalKept ==
    /\ UNCHANGED <<s_bits, sending, sent>>
    /\ s_state' = s_state \/ s_state' = "idle"

\* A reset decoder has no more bits than before.
LEMMA DueKept ==
    ASSUME RemoteOK, RemoteOK', SignalKept, NEW k
    PROVE  Due(k)' <= Due(k)
<1> DEFINE g == Got(k)
           h == Got(k)'
           l == Left(k)
<1>1. Left(k)' = l
    BY Zenon DEF Left, SignalKept
<1>2. h = g \/ h = 0
    <2>1. s_state' = s_state => h = g
        BY Zenon DEF Got, SignalKept
    <2>2. s_state' = "idle" => h = 0
        BY DEF Got, GotOf
    <2> QED
        BY <2>1, <2>2, Zenon DEF SignalKept
<1>3. g \in 0 .. BITS - 1 /\ l \in 0..BITS /\ BITS \in Nat
    BY DueIs, RemoteAssumption
<1> HIDE DEF g, h, l
<1>4. h + l <= g + l
    BY <1>2, <1>3
<1> QED
    BY <1>1, <1>4, DueLess, Zenon DEF g, h, l

\* Nor more frames due than presses, nor a press less to spare, while no key acts.
LEMMA SpareKept ==
    ASSUME RemoteOK, RemoteOK', SignalKept, UNCHANGED <<acted, mixed>>,
           NEW k \in Toggles, KeyOK(k)
    PROVE  Due(k)' <= Credit(k)' /\ (Spare(k) => Spare(k)')
<1> DEFINE d == Due(k)
           e == Due(k)'
           c == Credit(k)
<1>1. Credit(k)' = c
    BY Zenon DEF Credit, SignalKept
<1>2. d \in 0..2 /\ e \in 0..2 /\ c \in Int /\ e <= d /\ d <= c
    BY DueIs, DueIsNext, CreditIs, DueKept, Zenon DEF KeyOK
<1> HIDE DEF d, e, c
<1>3. e <= c /\ (d + 1 <= c => e + 1 <= c)
    BY <1>2
<1> QED
    BY <1>1, <1>3, Zenon DEF Spare, d, e, c

\* A step of the main loop outside of the lines that take a key.
LEMMA LoopKept ==
    ASSUME RInv, RemoteOK', SignalKept, UNCHANGED <<acted, mixed>>,
           pc \notin Taking, pc' \notin Taking,
           \A k \in Toggles : Waiting(k)' => Waiting(k) /\ (Since(k, lag) => Since(k, lag)')
    PROVE  RInv'
<1>1. ASSUME NEW k \in Toggles
      PROVE  KeyOK(k)'
    <2>1. KeyOK(k) /\ RemoteOK
        BY DEF RInv, KeysOK
    <2>2. Due(k)' <= Credit(k)' /\ (Spare(k) => Spare(k)')
        BY <2>1, SpareKept, Zenon
    <2>3. ~TakingKey(k)'
        BY DEF TakingKey, Taking
    <2> QED
        BY <2>1, <2>2, <2>3, Zenon DEF KeyOK
<1> QED
    BY <1>1, Zenon DEF RInv, KeysOK

\* The clock: a key that waits is older by the tick that its lag counts.
LEMMA TickKeeps ==
    ASSUME RInv, Remote!Tick
    PROVE  RInv'
<1>1. /\ pc = "task" /\ pc' = "task"
      /\ UNCHANGED <<s_state, s_bits, s_cmd, s_repeat, s_ready, sending, sent>>
      /\ UNCHANGED <<cmd, repeat, s_last_cmd, s_last_key_time, acted, ofRepeat, mixed>>
      /\ s_ready => lag < MaxLag
      /\ clock' = (clock + 1) % TickMod
      /\ lag' = IF s_ready THEN lag + 1 ELSE lag
    BY DEF Remote!Tick, Remote!decoder, Remote!poller, Remote!air, Remote!done
<1>2. clock \in 0 .. TickMod - 1 /\ s_last_key_time \in 0 .. TickMod - 1 /\ lag \in 0..MaxLag /\ MaxLag \in Nat
    BY RemoteAssumption DEF RInv, RemoteOK, TimesOK
<1> DEFINE x == (clock - s_last_key_time) % TickMod
           y == (((clock + 1) % TickMod) - s_last_key_time) % TickMod
<1>3. clock' \in 0 .. TickMod - 1 /\ x \in 0 .. TickMod - 1 /\ y <= x + 1
    BY <1>1, <1>2, ElapsedIs
<1>3a. y \in 0 .. TickMod - 1
    BY <1>1, <1>2, <1>3, ElapsedIs
<1>4. lag' \in 0..MaxLag
    BY <1>1, <1>2
<1>5. RemoteOK'
    <2>1. DecoderOK' /\ PollerOK' /\ SendingOK' /\ CountsOK'
        BY <1>1 DEF RInv, RemoteOK, DecoderOK, PollerOK, SendingOK, CountsOK
    <2> QED
        BY <1>1, <1>2, <1>3, <1>4, <2>1 DEF RemoteOK, TimesOK
<1>6. ASSUME NEW k \in Toggles, Waiting(k)'
      PROVE  Waiting(k) /\ (Since(k, lag) => Since(k, lag)')
    <2>1. Waiting(k)
        BY <1>1, <1>6 DEF Waiting
    <2>2. lag' = lag + 1
        BY <1>1, <2>1 DEF Waiting
    <2>3. ASSUME Since(k, lag)
          PROVE  Since(k, lag)'
        <3>1. s_last_cmd' = k /\ x <= lag
            BY <1>1, <2>3 DEF Since
        <3>2. (clock' - s_last_key_time') % TickMod = y
            BY <1>1, Zenon
        <3>3. TickMod \in Nat
            BY RemoteAssumption
        <3> HIDE DEF x, y
        <3>4. y <= lag + 1
            BY <1>2, <1>3, <1>3a, <3>1, <3>3
        <3> QED
            BY <2>2, <3>1, <3>2, <3>4, Zenon DEF Since
    <2> QED
        BY <2>1, <2>3
<1>7. SignalKept /\ UNCHANGED <<acted, mixed>> /\ pc \notin Taking /\ pc' \notin Taking
    BY <1>1 DEF SignalKept, Taking
<1> QED
    BY <1>5, <1>6, <1>7, LoopKept, Zenon

\* ir_recv_poll up to its look at s_ready, and ir_recv_init.
LEMMA PollKeeps ==
    ASSUME RInv,
           \/ Remote!PollState \/ Remote!PollTimeout \/ Remote!ResetState
           \/ Remote!ResetPolarity \/ Remote!InitRecv
    PROVE  RInv'
<1>1. /\ pc \in {"task", "timeout", "reset", "polarity"}
      /\ pc' \in {"timeout", "ready", "reset", "polarity"}
      /\ UNCHANGED <<s_bits, sending, sent, s_repeat>>
      /\ s_state' = s_state \/ s_state' = "idle"
      /\ UNCHANGED <<cmd, repeat, s_last_cmd, s_last_key_time, clock, acted, ofRepeat, mixed>>
      /\ \/ UNCHANGED <<s_cmd, s_ready, lag>>
         \/ s_cmd' = NoKey /\ s_ready' = FALSE /\ lag' = 0
    <2>1. CASE Remote!PollState
        BY <2>1 DEF Remote!PollState, Remote!decoder, Remote!time, Remote!air, Remote!done
    <2>2. CASE Remote!PollTimeout
        BY <2>2 DEF Remote!PollTimeout, Remote!decoder, Remote!time, Remote!air, Remote!done
    <2>3. CASE Remote!ResetState
        BY <2>3 DEF Remote!ResetState, Remote!time, Remote!air, Remote!done
    <2>4. CASE Remote!ResetPolarity
        BY <2>4 DEF Remote!ResetPolarity, Remote!time, Remote!air, Remote!done
    <2>5. CASE Remote!InitRecv
        BY <2>5 DEF Remote!InitRecv, Remote!air, Remote!done
    <2> QED
        BY <2>1, <2>2, <2>3, <2>4, <2>5
<1>2. RemoteOK'
    <2>1. DecoderOK'
        BY <1>1 DEF RInv, RemoteOK, DecoderOK, AirStates, Codes
    <2>2. PollerOK'
        BY <1>1 DEF RInv, RemoteOK, PollerOK, PollSteps
    <2>3. TimesOK'
        BY <1>1, RemoteAssumption DEF RInv, RemoteOK, TimesOK
    <2>4. SendingOK' /\ CountsOK'
        BY <1>1 DEF RInv, RemoteOK, SendingOK, CountsOK
    <2> QED
        BY <2>1, <2>2, <2>3, <2>4 DEF RemoteOK
<1>3. ASSUME NEW k \in Toggles, Waiting(k)'
      PROVE  Waiting(k) /\ (Since(k, lag) => Since(k, lag)')
    <2>1. UNCHANGED <<s_cmd, s_ready, lag>>
        BY <1>1, <1>3 DEF Waiting
    <2> QED
        BY <1>1, <1>3, <2>1, Zenon DEF Waiting, Since
<1>4. SignalKept /\ UNCHANGED <<acted, mixed>> /\ pc \notin Taking /\ pc' \notin Taking
    BY <1>1 DEF SignalKept, Taking
<1> QED
    BY <1>2, <1>3, <1>4, LoopKept, Zenon

\* The key that is ready is taken: it had a press to spare, or acted a moment ago.
LEMMA PollReadyKeeps ==
    ASSUME RInv, Remote!PollReady
    PROVE  RInv'
<1>1. /\ pc = "ready" /\ pc' = (IF s_ready THEN "arguments" ELSE "task")
      /\ s_ready' = FALSE /\ lag' = 0
      /\ UNCHANGED <<s_state, s_bits, sending, sent, s_cmd, s_repeat>>
      /\ UNCHANGED <<cmd, repeat, s_last_cmd, s_last_key_time, clock, acted, ofRepeat, mixed>>
    BY DEF Remote!PollReady, Remote!air, Remote!done
<1>2. RemoteOK'
    <2>1. DecoderOK' /\ SendingOK' /\ CountsOK'
        BY <1>1 DEF RInv, RemoteOK, DecoderOK, SendingOK, CountsOK
    <2>2. PollerOK'
        BY <1>1 DEF RInv, RemoteOK, PollerOK, PollSteps, Taking
    <2>3. TimesOK'
        BY <1>1, RemoteAssumption DEF RInv, RemoteOK, TimesOK
    <2> QED
        BY <2>1, <2>2, <2>3 DEF RemoteOK
<1>3. ASSUME NEW k \in Toggles
      PROVE  KeyOK(k)'
    <2>1. KeyOK(k) /\ RemoteOK
        BY DEF RInv, KeysOK
    <2>2. SignalKept
        BY <1>1, Zenon DEF SignalKept
    <2>3. Due(k)' <= Credit(k)' /\ (Spare(k) => Spare(k)')
        BY <1>1, <1>2, <2>1, <2>2, SpareKept, Zenon
    <2>4. ~Waiting(k)'
        BY <1>1 DEF Waiting
    <2>5. TakingKey(k)' => Waiting(k)
        BY <1>1 DEF TakingKey, Waiting
    <2>6. Since(k, lag) => Since(k, MaxLag)'
        <3> DEFINE x == (clock - s_last_key_time) % TickMod
        <3>1. (clock' - s_last_key_time') % TickMod = x /\ s_last_cmd' = s_last_cmd
            BY <1>1, Zenon
        <3>2. x \in 0 .. TickMod - 1 /\ TickMod \in Nat /\ lag \in 0..MaxLag /\ MaxLag \in Nat
            BY ElapsedIs, RemoteAssumption DEF RInv, RemoteOK, TimesOK
        <3> HIDE DEF x
        <3>3. x <= lag => x <= MaxLag
            BY <3>2
        <3> QED
            BY <3>1, <3>3, Zenon DEF Since, x
    <2> QED
        BY <2>1, <2>3, <2>4, <2>5, <2>6, Zenon DEF KeyOK
<1> QED
    BY <1>2, <1>3, Zenon DEF RInv, KeysOK

\* The arguments are read: one of a key that is waiting again by then has its own press.
LEMMA ReadKeeps ==
    ASSUME RInv, Remote!ReadFirst \/ Remote!ReadSecond
    PROVE  RInv'
<1>1. /\ UNCHANGED <<s_state, s_bits, s_cmd, s_repeat, s_ready, sending, sent>>
      /\ UNCHANGED <<s_last_cmd, s_last_key_time, clock, lag, acted, mixed>>
      /\ \/ /\ pc = "arguments" /\ pc' = "repeat"
            /\ cmd' = s_cmd /\ ofRepeat' = s_repeat /\ repeat' = repeat
         \/ /\ pc = "arguments" /\ pc' = "cmd"
            /\ repeat' = s_repeat /\ cmd' = cmd /\ ofRepeat' = ofRepeat
         \/ /\ pc = "cmd" /\ pc' = "on_cmd"
            /\ cmd' = s_cmd /\ repeat' = repeat /\ ofRepeat' = ofRepeat
         \/ /\ pc = "repeat" /\ pc' = "on_cmd"
            /\ repeat' = s_repeat /\ cmd' = cmd /\ ofRepeat' = ofRepeat
    <2>1. CASE Remote!ReadFirst
        BY <2>1 DEF Remote!ReadFirst, Remote!decoder, Remote!time, Remote!air
    <2>2. CASE Remote!ReadSecond
        BY <2>2 DEF Remote!ReadSecond, Remote!decoder, Remote!time, Remote!air, Remote!done
    <2> QED
        BY <2>1, <2>2
<1>2. RemoteOK'
    <2>1. DecoderOK' /\ SendingOK' /\ CountsOK' /\ TimesOK'
        BY <1>1 DEF RInv, RemoteOK, DecoderOK, SendingOK, CountsOK, TimesOK
    <2>2. PollerOK'
        BY <1>1 DEF RInv, RemoteOK, PollerOK, DecoderOK, PollSteps, Taking
    <2> QED
        BY <2>1, <2>2 DEF RemoteOK
<1>3. ASSUME NEW k \in Toggles
      PROVE  KeyOK(k)'
    <2>1. KeyOK(k) /\ RemoteOK
        BY DEF RInv, KeysOK
    <2>2. SignalKept
        BY <1>1, Zenon DEF SignalKept
    <2>3. Due(k)' <= Credit(k)' /\ (Spare(k) => Spare(k)')
        BY <1>1, <1>2, <2>1, <2>2, SpareKept, Zenon
    <2>4. (Waiting(k)' => Waiting(k)) /\ pc \in Taking
        BY <1>1 DEF Waiting, Taking
    <2>5. TakingKey(k)' => TakingKey(k)
        BY <1>1 DEF TakingKey
    <2>6. Since(k, MaxLag) => Since(k, MaxLag)'
        BY <1>1, Zenon DEF Since
    <2> QED
        BY <2>1, <2>3, <2>4, <2>5, <2>6, Zenon DEF KeyOK
<1> QED
    BY <1>2, <1>3, Zenon DEF RInv, KeysOK

\* The key acts: as one that is pressed, it has a press to spare, for the debounce
\* ignores one that acted within the lag of the main loop; or it was read as a repeat.
LEMMA OnCmdKeeps ==
    ASSUME RInv, Remote!OnCmd
    PROVE  RInv'
<1> DEFINE acts == Remote!Accepted /\ cmd # NoKey
<1>1. /\ pc = "on_cmd" /\ pc' = "task"
      /\ UNCHANGED <<s_state, s_bits, s_cmd, s_repeat, s_ready, sending, sent, clock, lag>>
      /\ IF Remote!Accepted /\ ~repeat
         THEN s_last_cmd' = cmd /\ s_last_key_time' = clock
         ELSE UNCHANGED <<s_last_cmd, s_last_key_time>>
      /\ acted' = IF acts THEN [acted EXCEPT ![cmd] = @ + 1] ELSE acted
      /\ mixed' = IF acts /\ ~repeat /\ ofRepeat THEN mixed + 1 ELSE mixed
      /\ cmd' = NoKey /\ repeat' = FALSE /\ ofRepeat' = FALSE
    BY DEF Remote!OnCmd, Remote!decoder, Remote!time, Remote!air
<1>2. /\ cmd \in Codes /\ s_last_cmd \in Codes /\ clock \in 0 .. TickMod - 1
      /\ acted \in [Remote!Keys -> Nat] /\ mixed \in Nat
    BY DEF RInv, RemoteOK, PollerOK, TimesOK, CountsOK
<1>3. RemoteOK'
    <2>1. DecoderOK' /\ SendingOK'
        BY <1>1 DEF RInv, RemoteOK, DecoderOK, SendingOK
    <2>2. PollerOK'
        <3>1. s_last_cmd' \in Codes /\ NoKey \in Codes
            BY <1>1, <1>2 DEF Codes
        <3> QED
            BY <1>1, <3>1 DEF PollerOK, PollSteps
    <2>3. TimesOK'
        BY <1>1, <1>2 DEF RInv, RemoteOK, TimesOK
    <2>4. CountsOK'
        <3>1. cmd # NoKey => cmd \in Remote!Keys
            BY <1>2 DEF Codes
        <3> HIDE DEF acts
        <3>2. acts => cmd # NoKey
            BY Zenon DEF acts
        <3>3. acted' \in [Remote!Keys -> Nat]
            BY <1>1, <1>2, <3>1, <3>2
        <3>4. mixed' \in Nat
            BY <1>1, <1>2
        <3> QED
            BY <1>1, <3>3, <3>4 DEF RInv, RemoteOK, CountsOK
    <2> QED
        BY <2>1, <2>2, <2>3, <2>4 DEF RemoteOK
<1>4. ASSUME NEW k \in Toggles
      PROVE  KeyOK(k)'
    <2>1. KeyOK(k) /\ RemoteOK
        BY DEF RInv, KeysOK
    <2>2. /\ k \in Remote!Keys /\ k \notin UpDown /\ k # NoKey
          /\ SAME \in Nat /\ MaxLag \in Nat /\ MaxLag < SAME /\ TickMod \in Nat
        BY RemoteAssumption DEF Remote!Keys
    <2> DEFINE d == Due(k)
               c == Credit(k)
    <2>3. d \in 0..2 /\ c \in Int /\ sent[k] \in Nat /\ acted[k] \in Nat /\ d <= c
        BY <2>1, DueIs, CreditIs, Zenon DEF KeyOK
    <2>4. Due(k)' = d
        BY <1>1, Zenon DEF Due, Got, Left
    <2>5. ~TakingKey(k)' /\ (Waiting(k)' => Waiting(k)) /\ pc \in Taking /\ pc' \notin Taking
        BY <1>1 DEF TakingKey, Waiting, Taking
    <2>6. CASE ~(acts /\ cmd = k)
        <3>1. acted'[k] = acted[k]
            BY <1>1, <1>2, <2>2, <2>6
        <3>2. mixed' \in {mixed, mixed + 1}
            BY <1>1
        <3>3. Credit(k)' = c \/ Credit(k)' = c + 1
            BY <1>1, <1>2, <2>3, <3>1, <3>2 DEF Credit
        <3> HIDE DEF d, c
        <3>4. d <= Credit(k)' /\ (d + 1 <= c => d + 1 <= Credit(k)')
            BY <2>3, <3>3
        <3>5. Due(k)' <= Credit(k)' /\ (Spare(k) => Spare(k)')
            BY <2>4, <3>4, Zenon DEF Spare, d, c
        <3> QED
            BY <2>1, <2>5, <3>5, Zenon DEF KeyOK
    <2>7. CASE acts /\ cmd = k
        <3>1. ~repeat
            BY <2>2, <2>7 DEF Remote!Accepted
        <3>2. s_last_cmd' = k /\ s_last_key_time' = clock /\ clock' = clock
            BY <1>1, <2>7, <3>1
        <3>3. acted'[k] = acted[k] + 1
            BY <1>1, <1>2, <2>2, <2>7
        <3>4. Since(k, lag)'
            <4>1. (clock' - s_last_key_time') % TickMod = 0
                BY <1>2, <3>2, ElapsedIs
            <4>2. lag' \in 0..MaxLag
                BY <1>3 DEF RemoteOK, TimesOK
            <4>3. 0 <= lag'
                BY <2>2, <4>2
            <4> QED
                BY <3>2, <4>1, <4>3, Zenon DEF Since
        <3>5. d <= Credit(k)'
            <4>1. CASE ofRepeat
                <5>1. Credit(k)' = c
                    BY <1>1, <1>2, <2>3, <2>7, <3>1, <3>3, <4>1 DEF Credit
                <5> QED
                    BY <2>3, <5>1
            <4>2. CASE ~ofRepeat
                <5>1. Credit(k)' = c - 1
                    BY <1>1, <1>2, <2>3, <2>7, <3>1, <3>3, <4>2 DEF Credit
                <5>2. TakingKey(k)
                    BY <1>1, <2>7, <3>1, <4>2 DEF TakingKey
                <5>3. ~Since(k, MaxLag)
                    <6> DEFINE x == (clock - s_last_key_time) % TickMod
                    <6>1. ~Remote!Debounced(k)
                        BY <2>7, <3>1, Zenon DEF Remote!Accepted
                    <6>2. s_last_cmd = k => ~(x < SAME)
                        BY <2>2, <6>1, Zenon DEF Remote!Debounced, Remote!Limit
                    <6>3. x \in 0 .. TickMod - 1
                        BY ElapsedIs DEF RInv, RemoteOK, TimesOK
                    <6> HIDE DEF x
                    <6>4. x <= MaxLag => x < SAME
                        BY <2>2, <6>3
                    <6> QED
                        BY <6>2, <6>4, Zenon DEF Since, x
                <5>4. d + 1 <= c
                    BY <2>1, <5>2, <5>3, Zenon DEF KeyOK, Spare
                <5> HIDE DEF d, c
                <5> QED
                    BY <2>3, <5>1, <5>4
            <4> QED
                BY <4>1, <4>2
        <3> QED
            BY <2>4, <2>5, <3>4, <3>5, Zenon DEF KeyOK
    <2> QED
        BY <2>6, <2>7
<1> QED
    BY <1>3, <1>4, Zenon DEF RInv, KeysOK

-----------------------------------------------------------------------------
(***************************************************************************)
(* Theorems.                                                               *)
(***************************************************************************)
\* At power-on no key is waiting and none has acted.
LEMMA InitKeeps ==
    ASSUME Remote!Init
    PROVE  RInv
<1>1. RemoteOK
    <2>1. DecoderOK
        BY EmptySeq DEF Remote!Init, DecoderOK, AirStates, Codes
    <2>2. PollerOK
        BY DEF Remote!Init, PollerOK, PollSteps, Codes
    <2>3. TimesOK
        BY RemoteAssumption DEF Remote!Init, TimesOK
    <2>4. SendingOK /\ CountsOK
        BY DEF Remote!Init, SendingOK, CountsOK
    <2> QED
        BY <2>1, <2>2, <2>3, <2>4 DEF RemoteOK
<1>2. ASSUME NEW k \in Toggles
      PROVE  KeyOK(k)
    <2>1. Got(k) = 0 /\ Left(k) = 0
        BY DEF Remote!Init, Got, GotOf, Left, Remote!Quiet
    <2>2. Due(k) = 0
        BY <2>1 DEF Due, Need
    <2>3. k \in Remote!Keys
        BY DEF Remote!Keys
    <2>4. Credit(k) = 0
        BY <2>3 DEF Remote!Init, Credit
    <2>5. ~Waiting(k) /\ ~TakingKey(k)
        BY DEF Remote!Init, Waiting, TakingKey
    <2> QED
        BY <2>2, <2>4, <2>5 DEF KeyOK
<1> QED
    BY <1>1, <1>2 DEF RInv, KeysOK

\* No step of the receiver, its remote or its main loop leaves the invariant.
LEMMA NextKeeps ==
    ASSUME RInv, [Remote!Next]_remoteVars
    PROVE  RInv'
<1>1. CASE \E k \in Remote!Keys : Remote!Press(k)
    BY <1>1, PressKeeps
<1>2. CASE Remote!Silence
    <2>1. PollerKept /\ UNCHANGED <<s_state, s_bits, s_cmd, s_repeat, s_ready, sending, sent>>
        BY <1>2 DEF Remote!Silence, Remote!decoder, Remote!poller, Remote!time, Remote!air,
                    Remote!done, PollerKept
    <2> QED
        BY <2>1, NothingKeeps
<1>3. CASE UNCHANGED remoteVars
    <2>1. PollerKept /\ UNCHANGED <<s_state, s_bits, s_cmd, s_repeat, s_ready, sending, sent>>
        BY <1>3 DEF remoteVars, PollerKept
    <2> QED
        BY <2>1, NothingKeeps
<1>4. CASE Remote!MainLoop
    BY <1>4, PollKeeps, PollReadyKeeps, ReadKeeps, OnCmdKeeps, Zenon DEF Remote!MainLoop
<1> QED
    BY <1>1, <1>2, <1>3, <1>4, HoldKeeps, EdgeHeardKeeps, EdgeMissedKeeps, NoiseKeeps, TickKeeps,
       Zenon DEF Remote!Next

\* The dimmer's steps leave the receiver alone.
LEMMA BothNextIs ==
    ASSUME [BothNext]_<<part, vars, remoteVars>>
    PROVE  [Remote!Next]_remoteVars
BY Zenon DEF BothNext

\* The types of the receiver, and that every key the main loop has or may yet take has a
\* press to spare or acted a moment ago (ir_recv.c:222-237, ir_recv_cmd.c:98-142).
THEOREM RemoteInductive == BothSpec => []RInv
<1>1. BothInit => RInv
    BY InitKeeps, Zenon DEF BothInit
<1>2. RInv /\ [BothNext]_<<part, vars, remoteVars>> => RInv'
    BY NextKeeps, BothNextIs, Zenon
<1> QED
    BY <1>1, <1>2, PTL DEF BothSpec

\* A key that toggles acts no more often than it is pressed, whatever the interrupts come
\* between; but for a held one that is read while another frame is completed.
THEOREM TogglesOnceHolds == BothSpec => []TogglesOnce
<1>1. RInv => TogglesOnce
    <2> SUFFICES ASSUME RInv, NEW k \in Toggles
                 PROVE  acted[k] <= sent[k] + mixed
        BY Zenon DEF TogglesOnce, Remote!TogglesOnce
    <2>1. Due(k) \in 0..2 /\ Due(k) <= Credit(k)
        BY DueIs, Zenon DEF RInv, KeysOK, KeyOK
    <2>2. sent[k] \in Nat /\ acted[k] \in Nat /\ mixed \in Nat /\ Credit(k) \in Int
        BY CreditIs DEF RInv
    <2>3. Credit(k) = sent[k] + mixed - acted[k]
        BY DEF Credit
    <2> QED
        BY <2>1, <2>2, <2>3
<1> QED
    BY <1>1, RemoteInductive, PTL

\* The interrupt leaves a decoder at rest only with the falling edge awaited,
\* whatever it found: ir_recv_gpio_irq turns the polarity before anything else,
\* and ir_reset_to_idle turns it back.
LEMMA EdgeInHears ==
    ASSUME NEW level, NEW gap, NEW k, Remote!EdgeIn(level, gap, k)
    PROVE  s_state' = "idle" => polarity' = "falling"
<1>1. CASE s_state = "idle" /\ level = 0 /\ Remote!Goto("leader_low", 0)
    BY <1>1 DEF Remote!Goto
<1>2. CASE /\ s_state \in {"leader_low", "data"}
           /\ \/ Remote!Goto("leader_high", 1) \/ Remote!Goto("data_high", 1) \/ Remote!ToIdle(1)
    BY <1>2 DEF Remote!Goto, Remote!ToIdle
<1>3. CASE s_state = "leader_high" /\ (Remote!Goto("data", 0) \/ Remote!ToIdle(0))
    BY <1>3 DEF Remote!Goto, Remote!ToIdle
<1>4. CASE s_state = "data_high" /\ (Remote!Goto("data", 0) \/ Remote!ToIdle(0))
    BY <1>4 DEF Remote!Goto, Remote!ToIdle
<1>5. CASE s_state \in {"leader_low", "leader_high", "data", "data_high"} /\ Remote!Goto(s_state, level)
    BY <1>5 DEF Remote!Goto
<1> QED
    BY <1>1, <1>2, <1>3, <1>4, <1>5, Zenon DEF Remote!EdgeIn

\* The main loop's part: ir_reset_to_idle is the only code that puts the decoder to
\* rest with another polarity, and only until its second assignment.
LEMMA MainLoopHears ==
    ASSUME NeverDeaf, Remote!MainLoop
    PROVE  NeverDeaf'
<1>1. CASE Remote!ResetState \/ Remote!InitRecv
    BY <1>1 DEF Remote!ResetState, Remote!InitRecv, NeverDeaf, Remote!NeverDeaf
<1>2. CASE Remote!ResetPolarity
    BY <1>2 DEF Remote!ResetPolarity, NeverDeaf, Remote!NeverDeaf
<1>3. CASE \/ Remote!PollState \/ Remote!PollTimeout \/ Remote!PollReady
           \/ Remote!ReadFirst \/ Remote!ReadSecond \/ Remote!OnCmd
    <2>1. UNCHANGED <<s_state, polarity>> /\ pc # "polarity"
        BY <1>3 DEF Remote!PollState, Remote!PollTimeout, Remote!PollReady, Remote!ReadFirst,
                    Remote!ReadSecond, Remote!OnCmd, Remote!decoder
    <2> QED
        BY <2>1 DEF NeverDeaf, Remote!NeverDeaf
<1> QED
    BY <1>1, <1>2, <1>3 DEF Remote!MainLoop

\* No step leaves the decoder deaf; an edge that comes within the main loop's reset
\* starts a frame, which the reset's second assignment only makes it miss.
LEMMA NextHears ==
    ASSUME NeverDeaf, [Remote!Next]_remoteVars
    PROVE  NeverDeaf'
<1>1. ASSUME NEW edge, NEW level, NEW gap, NEW k,
             Remote!Irq(edge, level, gap, k), UNCHANGED pc
      PROVE  NeverDeaf'
    <2>1. CASE s_state = "idle" /\ level = 1
        BY <1>1, <2>1 DEF Remote!Irq, NeverDeaf, Remote!NeverDeaf, Remote!decoder
    <2>2. CASE ~(s_state = "idle" /\ level = 1)
        <3>1. Remote!EdgeIn(level, gap, k)
            BY <1>1, <2>2 DEF Remote!Irq
        <3> QED
            BY <3>1, EdgeInHears DEF NeverDeaf, Remote!NeverDeaf
    <2> QED
        BY <2>1, <2>2
<1>2. CASE Remote!EdgeHeard \/ Remote!Noise
    <2>1. /\ UNCHANGED pc
          /\ \E edge, level, gap, k : Remote!Irq(edge, level, gap, k)
        BY <1>2 DEF Remote!EdgeHeard, Remote!Noise
    <2> QED
        BY <1>1, <2>1
<1>3. CASE \/ \E k \in Remote!Keys : Remote!Press(k)
           \/ Remote!Hold \/ Remote!EdgeMissed \/ Remote!Silence \/ Remote!Tick \/ UNCHANGED remoteVars
    <2>1. UNCHANGED <<s_state, polarity, pc>>
        BY <1>3 DEF Remote!Press, Remote!Hold, Remote!EdgeMissed, Remote!Silence, Remote!Tick,
                    remoteVars, Remote!decoder, Remote!poller
    <2> QED
        BY <2>1 DEF NeverDeaf, Remote!NeverDeaf
<1> QED
    BY <1>2, <1>3, MainLoopHears DEF Remote!Next

\* The receiver never goes deaf: whenever the decoder is at rest, outside of the main
\* loop's reset, it waits for the edge that begins a frame (ir_recv.c:77-84, 99).
THEOREM NeverDeafHolds == BothSpec => []NeverDeaf
<1>1. BothInit => NeverDeaf
    BY DEF BothInit, Remote!Init, NeverDeaf, Remote!NeverDeaf
<1>2. NeverDeaf /\ [BothNext]_<<part, vars, remoteVars>> => NeverDeaf'
    BY NextHears, BothNextIs, Zenon
<1> QED
    BY <1>1, <1>2, PTL DEF BothSpec
=============================================================================
