-------------------------- MODULE EpeverPoll_proofs --------------------------
(***************************************************************************)
(* Proofs about EpeverPoll, for every timeout, interval, clock, number of  *)
(* faults and length of a pass that EpeverAssumption allows: what reaches  *)
(* the ZCL attributes was read in one cycle, and a cycle is over before    *)
(* the next begins.                                                        *)
(***************************************************************************)
EXTENDS EpeverPoll, TLAPS

InCycle(section) == [section |-> section, now |-> TRUE]

(***************************************************************************)
(* The order of the answers.  The slave answers first what it was asked    *)
(* first, so a frame of this cycle comes after every frame of another.     *)
(***************************************************************************)
\* A request for the first section is never from another cycle: it would be
\* older than the slave's answers are.
FirstIsNew ==
    \A i \in 1..Len(wire) : wire[i].reading.section = 1 =>
        wire[i].reading.now /\ wire[i].age + toPoll >= DEFAULT_INTERVAL

OldBeforeNew ==
    /\ \A i, j \in 1..Len(wire) :
           i < j /\ wire[i].reading.now => wire[j].reading.now
    /\ uart_rx_buf.reading.now => \A i \in 1..Len(wire) : wire[i].reading.now

\* A frame nobody has read came in this pass or, until uart_rx_poll, in the
\* one before: the next cycle is not due yet if it answers the first request.
Unread ==
    uart_rx_flag /\ uart_rx_buf.reading.section = 1 =>
        DEFAULT_INTERVAL - MaxDelay
            <= toPoll + lag + (IF pc \in {"timer", "rx"} THEN MaxLag ELSE 0)

\* What is parsed for a section was read in this cycle.
ParsedIsNew ==
    /\ s_ep_state = 1 /\ (uart_rx_flag \/ pc = "parse")
            /\ uart_rx_buf.reading.section = 1 => uart_rx_buf.reading.now
    /\ s_ep_state > 1 => uart_rx_buf.reading.now
    /\ \A s \in Sections : s < s_ep_state => s_poll_data[s] = InCycle(s)

(***************************************************************************)
(* The time a cycle takes.                                                 *)
(***************************************************************************)
\* An answer is awaited for TIMEOUT, and until the code looks at the clock; a
\* frame that came too late for uart_rx_poll is left to the next pass.
Awaited ==
    s_ep_state # IDLE /\ (s_req_time # 0 \/ pc = "parse") =>
        Elapsed <= TIMEOUT + lag
                      + (IF pc \in {"timer", "rx"} /\ uart_rx_flag THEN MaxLag ELSE 0)

\* Each section before this one took no longer than that.
SectionsTook ==
    s_ep_state # IDLE =>
        DEFAULT_INTERVAL
            <= toPoll + (s_ep_state - 1) * (TIMEOUT + MaxLag) + Elapsed

\* The clock does not come round while an answer is awaited.
NoWrap ==
    s_ep_state # IDLE =>
        /\ toPoll > 0 => Elapsed + toPoll <= DEFAULT_INTERVAL
        /\ toPoll = 0 => Elapsed < DEFAULT_INTERVAL + lag
                                      + (IF pc = "timer" THEN MaxLag ELSE 0)

\* The inductive invariant.
IInv ==
    /\ TypeOK
    /\ FirstIsNew /\ OldBeforeNew /\ Unread /\ ParsedIsNew /\ SnapshotCoherent
    /\ Awaited /\ SectionsTook /\ NoWrap

-----------------------------------------------------------------------------
(***************************************************************************)
(* Lemmas on the clock and on the wire.                                    *)
(***************************************************************************)
Message == [reading : Reading, age : 0..MaxDelay]

\* The difference of two values of a clock that counts modulo n.
LEMMA ModDifference ==
    ASSUME NEW n \in Nat \ {0}, NEW a \in 0..(n - 1), NEW b \in 0..(n - 1)
    PROVE  /\ a >= b => (a - b) % n = a - b
           /\ a < b => (a - b) % n = a - b + n
  OBVIOUS

\* A tick adds one to what has elapsed, unless it has come to a whole round.
LEMMA ElapsedTicks ==
    ASSUME TypeOK, clock' = (clock + 1) % CLOCK, UNCHANGED s_req_time, Elapsed + 1 < CLOCK
    PROVE  Elapsed' = Elapsed + 1
<1>1. CLOCK \in Nat \ {0} /\ clock \in 0..(CLOCK - 1) /\ s_req_time \in 0..(CLOCK - 1)
    BY EpeverAssumption DEF TypeOK
<1>2. clock' = IF clock + 1 = CLOCK THEN 0 ELSE clock + 1
    BY <1>1
<1>3. clock' \in 0..(CLOCK - 1) /\ s_req_time' = s_req_time
    BY <1>1, <1>2
<1>4. /\ clock >= s_req_time => Elapsed = clock - s_req_time
      /\ clock < s_req_time => Elapsed = clock - s_req_time + CLOCK
    BY <1>1, ModDifference DEF Elapsed
<1>5. /\ clock' >= s_req_time => Elapsed' = clock' - s_req_time
      /\ clock' < s_req_time => Elapsed' = clock' - s_req_time + CLOCK
    <2> DEFINE c == clock'
    <2>1. c \in 0..(CLOCK - 1) /\ Elapsed' = (c - s_req_time) % CLOCK
        BY <1>3 DEF Elapsed
    <2> HIDE DEF c
    <2>2. /\ c >= s_req_time => (c - s_req_time) % CLOCK = c - s_req_time
          /\ c < s_req_time => (c - s_req_time) % CLOCK = c - s_req_time + CLOCK
        BY <1>1, <2>1, ModDifference
    <2> QED
        BY <2>1, <2>2 DEF c
<1> QED
    BY <1>1, <1>2, <1>4, <1>5

\* What has elapsed is less than a round, and nothing when a request was sent.
LEMMA ElapsedRange ==
    ASSUME TypeOK
    PROVE  /\ Elapsed \in 0..(CLOCK - 1)
           /\ s_req_time' = clock /\ clock' = clock => Elapsed' = 0
           /\ UNCHANGED <<clock, s_req_time>> => Elapsed' = Elapsed
<1>1. CLOCK \in Nat \ {0} /\ clock \in 0..(CLOCK - 1) /\ s_req_time \in 0..(CLOCK - 1)
    BY EpeverAssumption DEF TypeOK
<1>2. /\ clock >= s_req_time => Elapsed = clock - s_req_time
      /\ clock < s_req_time => Elapsed = clock - s_req_time + CLOCK
    BY <1>1, ModDifference DEF Elapsed
<1>3. (clock - clock) % CLOCK = 0
    BY <1>1
<1>4. s_req_time' = clock /\ clock' = clock => Elapsed' = 0
    BY <1>3 DEF Elapsed
<1>5. UNCHANGED <<clock, s_req_time>> => Elapsed' = Elapsed
    BY DEF Elapsed
<1> QED
    BY <1>1, <1>2, <1>4, <1>5

\* What each step does to the wire keeps it a sequence of messages.
LEMMA Wires ==
    ASSUME TypeOK
    PROVE  /\ \A r \in Sections : Append(wire, Request(r)) \in Seq(Message)
           /\ wire # <<>> => Tail(wire) \in Seq(Message) /\ Head(wire) = wire[1]
                 /\ Len(Tail(wire)) = Len(wire) - 1 /\ 1 \in 1..Len(wire)
                 /\ \A i \in 1..Len(Tail(wire)) : Tail(wire)[i] = wire[i + 1]
           /\ \A i \in 1..Len(wire) : wire[i] \in Message
           /\ \A r : Len(Append(wire, r)) = Len(wire) + 1
                 /\ Append(wire, r)[Len(wire) + 1] = r
                 /\ \A i \in 1..Len(wire) : Append(wire, r)[i] = wire[i]
           /\ Len(wire) \in Nat
<1>1. wire \in Seq(Message)
    BY DEF TypeOK, Message
<1>2. \A r \in Sections : Request(r) \in Message
    BY EpeverAssumption DEF Request, Message, Reading
<1> HIDE DEF Message
<1>3. \A r \in Sections : Append(wire, Request(r)) \in Seq(Message)
    BY <1>1, <1>2
<1> QED
    BY <1>1, <1>3

\* A tick ages each message, and leaves its reading alone.
LEMMA AgedWire ==
    ASSUME TypeOK, \A i \in 1..Len(wire) : wire[i].age < MaxDelay
    PROVE  /\ Aged(wire) \in Seq(Message) /\ Len(Aged(wire)) = Len(wire)
           /\ \A i \in 1..Len(wire) : Aged(wire)[i].reading = wire[i].reading
                                      /\ Aged(wire)[i].age = wire[i].age + 1
<1>1. \A i \in 1..Len(wire) : wire[i] \in Message
    BY Wires, Zenon
<1>2. \A i \in 1..Len(wire) :
          [wire[i] EXCEPT !.age = @ + 1] = [reading |-> wire[i].reading, age |-> wire[i].age + 1]
    BY <1>1 DEF Message
<1>3. \A i \in 1..Len(wire) : wire[i].age + 1 \in 0..MaxDelay /\ wire[i].reading \in Reading
    BY <1>1, EpeverAssumption DEF Message
<1>4. \A i \in 1..Len(wire) : [reading |-> wire[i].reading, age |-> wire[i].age + 1] \in Message
    BY <1>3, Zenon DEF Message
<1>5. Len(wire) \in Nat
    BY Wires
<1>6. Aged(wire) = [i \in 1..Len(wire) |-> [reading |-> wire[i].reading, age |-> wire[i].age + 1]]
    BY <1>2, Zenon DEF Aged
<1> DEFINE A == [i \in 1..Len(wire) |-> [reading |-> wire[i].reading, age |-> wire[i].age + 1]]
<1>7. /\ \A i \in 1..Len(wire) : A[i] \in Message
      /\ \A i \in 1..Len(wire) : A[i].reading = wire[i].reading /\ A[i].age = wire[i].age + 1
      /\ A \in [1..Len(wire) -> Message]
    BY <1>4
<1> HIDE DEF A, Message
<1>8. A \in Seq(Message) /\ Len(A) = Len(wire)
    BY <1>5, <1>7
<1> QED
    BY <1>6, <1>7, <1>8 DEF A

\* An old reading is the same one, asked for in another cycle.
LEMMA OldReading ==
    /\ \A r \in Reading : Old(r) \in Reading /\ Old(r).section = r.section /\ ~Old(r).now
    /\ Old(Missing) = Missing
<1>1. ASSUME NEW S, NEW B, NEW f \in B, NEW r \in [section : S, now : B]
      PROVE  [r EXCEPT !.now = f] = [section |-> r.section, now |-> f] /\ r.section \in S
    OBVIOUS
<1>2. ASSUME NEW r \in Reading
      PROVE  Old(r) = [section |-> r.section, now |-> FALSE] /\ r.section \in Sections
    BY <1>1, Zenon DEF Reading, Old
<1>3. ASSUME NEW S, NEW B, NEW f \in B, NEW s \in S
      PROVE  /\ [section |-> s, now |-> f] \in [section : S, now : B]
             /\ [section |-> s, now |-> f].section = s /\ [section |-> s, now |-> f].now = f
             /\ [[section |-> s, now |-> f] EXCEPT !.now = f] = [section |-> s, now |-> f]
    OBVIOUS
<1>4. \A s \in Sections : [section |-> s, now |-> FALSE] \in Reading
                          /\ [section |-> s, now |-> FALSE].section = s
                          /\ [section |-> s, now |-> FALSE].now = FALSE
    BY <1>3, Zenon DEF Reading
<1>5. Old(Missing) = Missing
    <2>1. FALSE \in BOOLEAN /\ 0 \in {0}
        OBVIOUS
    <2> QED
        BY <1>3, <2>1, Zenon DEF Old, Missing
<1> QED
    BY <1>2, <1>4, <1>5, Zenon

\* What was asked for before a cycle begins counts as old, and that alone.
OldWire == [i \in 1..Len(wire) |-> [wire[i] EXCEPT !.reading = Old(@)]]

LEMMA OldWires ==
    ASSUME TypeOK
    PROVE  /\ OldWire \in Seq(Message) /\ Len(OldWire) = Len(wire)
           /\ \A i \in 1..Len(wire) :
                 /\ OldWire[i].reading.section = wire[i].reading.section
                 /\ ~OldWire[i].reading.now
                 /\ OldWire[i].age = wire[i].age
           /\ Append(OldWire, Request(1)) \in Seq(Message)
           /\ Len(Append(OldWire, Request(1))) = Len(wire) + 1
           /\ Append(OldWire, Request(1))[Len(wire) + 1] = Request(1)
           /\ \A i \in 1..Len(wire) : Append(OldWire, Request(1))[i] = OldWire[i]
<1>1. \A i \in 1..Len(wire) : wire[i] \in Message
    BY Wires, Zenon
<1>3. \A r \in Reading : Old(r) \in Reading /\ Old(r).section = r.section /\ ~Old(r).now
    BY OldReading, Zenon
<1>4. \A i \in 1..Len(wire) : wire[i].reading \in Reading /\ wire[i].age \in 0..MaxDelay
    BY <1>1 DEF Message
<1>5. \A i \in 1..Len(wire) :
          [wire[i] EXCEPT !.reading = Old(@)] = [reading |-> Old(wire[i].reading), age |-> wire[i].age]
    BY <1>1 DEF Message
<1>6. OldWire = [i \in 1..Len(wire) |-> [reading |-> Old(wire[i].reading), age |-> wire[i].age]]
    BY <1>5, Zenon DEF OldWire
<1>7. \A i \in 1..Len(wire) : [reading |-> Old(wire[i].reading), age |-> wire[i].age] \in Message
    BY <1>3, <1>4, Zenon DEF Message
<1> DEFINE O == [i \in 1..Len(wire) |-> [reading |-> Old(wire[i].reading), age |-> wire[i].age]]
<1>8. /\ O \in [1..Len(wire) -> Message]
      /\ \A i \in 1..Len(wire) : O[i].reading = Old(wire[i].reading) /\ O[i].age = wire[i].age
    BY <1>7
<1>9. Request(1) \in Message /\ Len(wire) \in Nat
    BY EpeverAssumption, Wires DEF Request, Message, Reading, Sections
<1> HIDE DEF O, Message
<1>10. O \in Seq(Message) /\ Len(O) = Len(wire)
    BY <1>8, <1>9
<1>11. \A i \in 1..Len(wire) : /\ O[i].reading.section = wire[i].reading.section
                               /\ ~O[i].reading.now
    BY <1>3, <1>4, <1>8, Zenon
<1>12. OldWire = O
    BY <1>6 DEF O
<1> HIDE DEF OldWire
<1> QED
    BY <1>8, <1>9, <1>10, <1>11, <1>12

-----------------------------------------------------------------------------
(***************************************************************************)
(* Type correctness.                                                       *)
(***************************************************************************)
Frame == [ok : BOOLEAN, reading : Reading \cup {Missing}]

TimesOK ==
    /\ clock \in 0..(CLOCK - 1) /\ s_req_time \in 0..(CLOCK - 1)
    /\ lag \in 0..MaxLag
    /\ toPoll \in 0..DEFAULT_INTERVAL
    /\ g_poll_interval = DEFAULT_INTERVAL
    /\ pollInterval \in Intervals \cup {DEFAULT_INTERVAL}
    /\ faults \in 0..MaxFaults
LoopOK ==
    /\ pc \in {"timer", "rx", "parse", "timeout"}
    /\ s_ep_state \in {IDLE} \cup Sections
    /\ pc = "parse" => s_ep_state # IDLE
    /\ uart_rx_flag \in BOOLEAN
DataOK ==
    /\ uart_rx_buf \in Frame
    /\ s_poll_data \in [Sections -> Reading \cup {Missing}]
    /\ published \in [Sections -> Reading \cup {Missing}]
    /\ wire \in Seq(Message)

\* Together they are TypeOK.
LEMMA TypeParts == TypeOK <=> TimesOK /\ LoopOK /\ DataOK
  BY DEF TypeOK, TimesOK, LoopOK, DataOK, Frame, Message

\* The clock and the counters stay in range.
LEMMA TimesTyped ==
    ASSUME TypeOK, [Next]_vars
    PROVE  TimesOK'
<1> USE EpeverAssumption DEF TimesOK, loop, timer, uart, slave, cycle
<1>1. TimesOK
    BY TypeParts
<1>2. CASE Tick
    <2>1. (clock + 1) % CLOCK \in 0..(CLOCK - 1)
        BY <1>1
    <2>2. TurnLate = {} \/ faults > 0
        BY <1>2 DEF Tick
    <2>3. /\ lag < MaxLag /\ clock' = (clock + 1) % CLOCK /\ lag' = lag + 1
          /\ toPoll' = IF toPoll = 0 THEN 0 ELSE toPoll - 1
          /\ faults' = IF TurnLate = {} THEN faults ELSE faults - 1
          /\ UNCHANGED <<s_req_time, g_poll_interval, pollInterval>>
        BY <1>2, Zenon DEF Tick
    <2> QED
        BY <1>1, <2>1, <2>2, <2>3
<1>3. CASE SlaveAnswers \/ SlaveGarbles \/ SlaveLoses
    BY <1>1, <1>3 DEF SlaveAnswers, SlaveGarbles, SlaveLoses, Receive
<1>4. CASE WriteInterval
    BY <1>1, <1>4 DEF WriteInterval
<1>5. CASE epever_poll_timer_cb
    BY <1>1, <1>5 DEF epever_poll_timer_cb, Send
<1>6. CASE NoTimerDue \/ uart_rx_poll
    BY <1>1, <1>6 DEF NoTimerDue, uart_rx_poll
<1>7. CASE uart_rx_parse
    BY <1>1, <1>7 DEF uart_rx_parse, Send
<1>8. CASE epever_modbus_timeout_poll
    BY <1>1, <1>8 DEF epever_modbus_timeout_poll
<1>9. CASE UNCHANGED vars
    BY <1>1, <1>9 DEF vars
<1> QED
    BY <1>2, <1>3, <1>4, <1>5, <1>6, <1>7, <1>8, <1>9 DEF Next, MainLoop

\* The main loop and the state machine stay in their states.
LEMMA LoopTyped ==
    ASSUME TypeOK, [Next]_vars
    PROVE  LoopOK'
<1> USE DEF LoopOK, loop, timer, uart, slave, cycle, Sections, IDLE
<1>1. LoopOK
    BY TypeParts
<1>2. uart_rx_flag' \in {TRUE, FALSE, uart_rx_flag}
    BY Zenon DEF Next, MainLoop, Tick, SlaveAnswers, SlaveGarbles, SlaveLoses, Receive, WriteInterval,
        epever_poll_timer_cb, NoTimerDue, uart_rx_poll, uart_rx_parse, epever_modbus_timeout_poll, vars
<1>3. uart_rx_flag' \in BOOLEAN
    BY <1>1, <1>2, Zenon
<1>4. CASE UNCHANGED <<pc, s_ep_state>>
    BY <1>1, <1>3, <1>4
<1>5. CASE epever_poll_timer_cb
    <2>1. s_ep_state' = 1 /\ pc' = "rx"
        BY <1>5, Zenon DEF epever_poll_timer_cb, Send
    <2> QED
        BY <1>3, <2>1
<1>6. CASE NoTimerDue
    BY <1>1, <1>3, <1>6 DEF NoTimerDue
<1>7. CASE uart_rx_poll
    BY <1>1, <1>3, <1>7 DEF uart_rx_poll
<1>8. CASE uart_rx_parse
    BY <1>1, <1>3, <1>8 DEF uart_rx_parse, Send
<1>9. CASE epever_modbus_timeout_poll
    BY <1>1, <1>3, <1>9 DEF epever_modbus_timeout_poll
<1>10. CASE Tick \/ SlaveAnswers \/ SlaveGarbles \/ SlaveLoses \/ WriteInterval \/ UNCHANGED vars
    BY <1>4, <1>10 DEF Tick, SlaveAnswers, SlaveGarbles, SlaveLoses, Receive, WriteInterval, vars
<1> QED
    BY <1>5, <1>6, <1>7, <1>8, <1>9, <1>10 DEF Next, MainLoop

\* The frame received has the reading of a message, and so have the data.
LEMMA DataTyped ==
    ASSUME TypeOK, [Next]_vars
    PROVE  DataOK'
<1> USE DEF loop, timer, uart, slave, cycle
<1>1. DataOK
    BY TypeParts
<1>2. CASE UNCHANGED <<uart_rx_buf, s_poll_data, published, wire>>
    BY <1>1, <1>2 DEF DataOK
<1>3. uart_rx_buf.reading \in Reading \cup {Missing} /\ uart_rx_buf.ok \in BOOLEAN
    BY <1>1, Zenon DEF DataOK, Frame
<1>4. ASSUME wire # <<>>, NEW ok \in BOOLEAN
      PROVE  [ok |-> ok, reading |-> Head(wire).reading] \in Frame
    <2>1. Head(wire) \in Message
        BY <1>4, Wires
    <2>2. Head(wire).reading \in Reading
        BY <2>1 DEF Message
    <2> QED
        BY <2>2 DEF Frame
<1>5. CASE Tick
    BY <1>1, <1>5, AgedWire DEF DataOK, Tick
<1>6. CASE SlaveAnswers \/ SlaveGarbles \/ SlaveLoses
    <2>1. wire # <<>> /\ wire' = Tail(wire) /\ UNCHANGED <<s_poll_data, published>>
        BY <1>6, Zenon DEF SlaveAnswers, SlaveGarbles, SlaveLoses, Receive
    <2>2. uart_rx_buf' \in Frame
        BY <1>1, <1>4, <1>6, <2>1, Zenon DEF SlaveAnswers, SlaveGarbles, SlaveLoses, Receive, DataOK
    <2> QED
        BY <1>1, <2>1, <2>2, Wires DEF DataOK
<1>7. CASE epever_poll_timer_cb
    <2>1. wire' = Append(OldWire, Request(1)) /\ s_poll_data' = Nothing /\ UNCHANGED published
        BY <1>7 DEF epever_poll_timer_cb, Send, OldWire
    <2>2. ASSUME NEW B, NEW R, NEW f \in [ok : B, reading : R], NEW r \in R
          PROVE  [f EXCEPT !.reading = r] \in [ok : B, reading : R]
        OBVIOUS
    <2>3. Old(uart_rx_buf.reading) \in Reading \cup {Missing}
        BY <1>3, OldReading, Zenon
    <2>4. uart_rx_buf' = [uart_rx_buf EXCEPT !.reading = Old(uart_rx_buf.reading)]
        BY <1>7 DEF epever_poll_timer_cb
    <2>5. uart_rx_buf' \in Frame
        BY <1>1, <2>2, <2>3, <2>4, Zenon DEF Frame, DataOK
    <2>6. Nothing \in [Sections -> Reading \cup {Missing}]
        BY DEF Nothing
    <2> QED
        BY <1>1, <2>1, <2>5, <2>6, OldWires DEF DataOK
<1>8. CASE uart_rx_parse
    <2> DEFINE data == [s_poll_data EXCEPT ![s_ep_state] = uart_rx_buf.reading]
    <2>1. data \in [Sections -> Reading \cup {Missing}]
        BY <1>1, <1>3 DEF DataOK
    <2>2. UNCHANGED uart_rx_buf /\ s_poll_data' \in {data, s_poll_data} /\ published' \in {data, published}
        BY <1>8 DEF uart_rx_parse
    <2>3. \/ s_ep_state < 3 /\ wire' = Append(wire, Request(s_ep_state + 1))
          \/ UNCHANGED wire
        BY <1>8 DEF uart_rx_parse, Send
    <2>4. s_ep_state < 3 => s_ep_state + 1 \in Sections
        BY <1>8 DEF uart_rx_parse, TypeOK, Sections, IDLE
    <2> HIDE DEF data
    <2>5. wire' \in Seq(Message)
        BY <1>1, <2>3, <2>4, Wires, Zenon DEF DataOK
    <2> QED
        BY <1>1, <2>1, <2>2, <2>5 DEF DataOK
<1>9. CASE WriteInterval \/ NoTimerDue \/ uart_rx_poll \/ epever_modbus_timeout_poll \/ UNCHANGED vars
    BY <1>2, <1>9 DEF WriteInterval, NoTimerDue, uart_rx_poll, epever_modbus_timeout_poll, vars
<1> QED
    BY <1>5, <1>6, <1>7, <1>8, <1>9 DEF Next, MainLoop

\* Each step keeps the domains.
LEMMA TypeKept ==
    ASSUME TypeOK, [Next]_vars
    PROVE  TypeOK'
<1>1. TimesOK' /\ LoopOK' /\ DataOK'
    BY TimesTyped, LoopTyped, DataTyped
<1>2. TypeOK' <=> TimesOK' /\ LoopOK' /\ DataOK'
    BY Zenon DEF TypeOK, TimesOK, LoopOK, DataOK, Frame, Message
<1> QED
    BY <1>1, <1>2

-----------------------------------------------------------------------------
(***************************************************************************)
(* The steps beside the main loop.                                         *)
(***************************************************************************)
\* The clauses of the inductive invariant but for the domains.
Kept ==
    /\ FirstIsNew /\ OldBeforeNew /\ Unread /\ ParsedIsNew /\ SnapshotCoherent
    /\ Awaited /\ SectionsTook /\ NoWrap

\* A tick ages the answers, the poll timer and the cycle alike.
LEMMA TickKeeps ==
    ASSUME IInv, Tick
    PROVE  Kept'
<1> USE EpeverAssumption
<1>1. TimesOK /\ LoopOK /\ DataOK /\ Len(wire) \in Nat
    BY TypeParts, Wires DEF IInv
<1>2. /\ lag < MaxLag /\ lag' = lag + 1
      /\ toPoll' = IF toPoll = 0 THEN 0 ELSE toPoll - 1
      /\ wire' = Aged(wire) /\ clock' = (clock + 1) % CLOCK
      /\ UNCHANGED <<pc, s_ep_state, s_req_time, uart_rx_flag, uart_rx_buf, s_poll_data, published>>
    BY Zenon DEF Tick, uart, cycle
<1>3. /\ Len(wire') = Len(wire)
      /\ \A i \in 1..Len(wire) : wire'[i].reading = wire[i].reading
                                 /\ wire'[i].age = wire[i].age + 1
    BY <1>2, AgedWire DEF IInv, Tick
<1>4. \A i \in 1..Len(wire) : wire[i].age \in 0..MaxDelay
    BY Wires DEF IInv, Message
<1>5. FirstIsNew'
    <2>1. \A i \in 1..Len(wire) : wire'[i].reading.section = 1 => wire'[i].reading.now
        BY <1>3, Zenon DEF IInv, FirstIsNew
    <2>2. ASSUME NEW i \in 1..Len(wire), wire'[i].reading.section = 1
          PROVE  wire'[i].age + toPoll' >= DEFAULT_INTERVAL
        <3>1. wire[i].age + toPoll >= DEFAULT_INTERVAL
            BY <1>3, <2>2, Zenon DEF IInv, FirstIsNew
        <3>2. wire[i].age \in Nat /\ wire'[i].age = wire[i].age + 1 /\ wire[i].age <= MaxDelay
            BY <1>3, <1>4
        <3> QED
            BY <1>1, <1>2, <3>1, <3>2 DEF TimesOK
    <2> QED
        BY <1>3, <2>1, <2>2, Zenon DEF FirstIsNew
<1>6. OldBeforeNew'
    BY <1>2, <1>3 DEF IInv, OldBeforeNew
<1>7. Unread'
    BY <1>1, <1>2 DEF IInv, Unread, TimesOK
<1>8. ParsedIsNew' /\ SnapshotCoherent'
    BY <1>2, Zenon DEF IInv, ParsedIsNew, SnapshotCoherent
<1>9. ASSUME s_ep_state # IDLE
      PROVE  Elapsed' = Elapsed + 1 /\ Elapsed \in Nat
    <2>1. Elapsed \in 0..(CLOCK - 1)
        BY ElapsedRange DEF IInv
    <2>2. Elapsed + 1 < CLOCK
        BY <1>1, <1>2, <1>9, <2>1 DEF IInv, NoWrap, TimesOK
    <2> QED
        BY <1>2, <2>1, <2>2, ElapsedTicks DEF IInv
<1>10. Awaited'
    <2> SUFFICES ASSUME s_ep_state # IDLE PROVE Awaited'
        BY <1>2 DEF Awaited
    <2> QED
        BY <1>1, <1>2, <1>9 DEF IInv, Awaited, TimesOK
<1>11. SectionsTook'
    <2> SUFFICES ASSUME s_ep_state # IDLE PROVE SectionsTook'
        BY <1>2 DEF SectionsTook
    <2>1. (s_ep_state - 1) * (TIMEOUT + MaxLag) \in Int
        BY <1>1 DEF LoopOK, IDLE, Sections
    <2> DEFINE took == (s_ep_state - 1) * (TIMEOUT + MaxLag)
    <2>2. DEFAULT_INTERVAL <= toPoll + took + Elapsed
        BY DEF IInv, SectionsTook
    <2> HIDE DEF took
    <2>3. DEFAULT_INTERVAL <= toPoll' + took + Elapsed'
        BY <1>1, <1>2, <1>9, <2>1, <2>2 DEF TimesOK, took
    <2> QED
        BY <1>2, <2>3 DEF SectionsTook, took
<1>12. NoWrap'
    <2> SUFFICES ASSUME s_ep_state # IDLE PROVE NoWrap'
        BY <1>2 DEF NoWrap
    <2> QED
        BY <1>1, <1>2, <1>9 DEF IInv, NoWrap, TimesOK
<1> QED
    BY <1>5, <1>6, <1>7, <1>8, <1>10, <1>11, <1>12 DEF Kept

\* What the clauses say of time does not change with what the slave sends.
LEMMA SameTimes ==
    ASSUME IInv, UNCHANGED <<clock, lag, pc, toPoll, s_ep_state, s_req_time>>,
           uart_rx_flag => uart_rx_flag'
    PROVE  Awaited' /\ SectionsTook' /\ NoWrap'
<1> USE EpeverAssumption
<1>1. Elapsed' = Elapsed /\ Elapsed \in Nat
    BY ElapsedRange DEF IInv
<1>2. MaxLag \in Nat /\ lag \in Nat
    BY TypeParts DEF IInv, TimesOK
<1>3. Awaited'
    BY <1>1, <1>2 DEF IInv, Awaited
<1>4. SectionsTook' /\ NoWrap'
    BY <1>1 DEF IInv, SectionsTook, NoWrap
<1> QED
    BY <1>3, <1>4

\* A frame comes after all that was asked for before, and so may be parsed.
LEMMA ReceiveKeeps ==
    ASSUME IInv, SlaveAnswers \/ SlaveGarbles
    PROVE  Kept'
<1> USE EpeverAssumption DEF loop, timer, cycle
<1>1. /\ wire # <<>> /\ wire' = Tail(wire)
      /\ uart_rx_flag' = TRUE /\ uart_rx_buf'.reading = Head(wire).reading
      /\ UNCHANGED <<clock, lag, pc, toPoll, s_ep_state, s_req_time, s_poll_data, published>>
    BY DEF SlaveAnswers, SlaveGarbles, Receive
<1>2. TimesOK /\ Len(wire) \in Nat
    BY TypeParts, Wires DEF IInv
<1>3. /\ Len(wire') = Len(wire) - 1 /\ 1 \in 1..Len(wire) /\ Head(wire) = wire[1]
      /\ \A i \in 1..Len(wire') : wire'[i] = wire[i + 1]
    BY <1>1, Wires DEF IInv
<1>4. \A i \in 1..Len(wire') : i + 1 \in 1..Len(wire) /\ 1 < i + 1
    BY <1>2, <1>3
<1>5. FirstIsNew'
    BY <1>1, <1>3, <1>4 DEF IInv, FirstIsNew
<1>6. OldBeforeNew'
    <2>1. ASSUME NEW i \in 1..Len(wire'), NEW j \in 1..Len(wire'), i < j, wire'[i].reading.now
          PROVE  wire'[j].reading.now
        <3>1. i + 1 < j + 1
            BY <1>2, <1>3, <2>1
        <3> QED
            BY <1>3, <1>4, <2>1, <3>1, Zenon DEF IInv, OldBeforeNew
    <2>2. ASSUME uart_rx_buf'.reading.now, NEW i \in 1..Len(wire')
          PROVE  wire'[i].reading.now
        BY <1>1, <1>3, <1>4, <2>2, Zenon DEF IInv, OldBeforeNew
    <2> QED
        BY <2>1, <2>2 DEF OldBeforeNew
<1>7. Unread'
    <2> SUFFICES ASSUME wire[1].reading.section = 1
                 PROVE  DEFAULT_INTERVAL - MaxDelay <= toPoll
        <3>1. uart_rx_buf'.reading.section = wire[1].reading.section
            BY <1>1, <1>3
        <3>2. lag \in Nat /\ MaxLag \in Nat /\ toPoll \in Nat /\ DEFAULT_INTERVAL - MaxDelay \in Int
            BY <1>2 DEF TimesOK
        <3>3. ASSUME DEFAULT_INTERVAL - MaxDelay <= toPoll
              PROVE  DEFAULT_INTERVAL - MaxDelay
                        <= toPoll + lag + (IF pc \in {"timer", "rx"} THEN MaxLag ELSE 0)
            BY <3>2, <3>3
        <3> QED
            BY <1>1, <3>1, <3>3, Zenon DEF Unread
    <2>1. wire[1].age + toPoll >= DEFAULT_INTERVAL
        BY <1>3 DEF IInv, FirstIsNew
    <2>2. wire[1].age \in 0..MaxDelay
        BY <1>3, Wires DEF IInv, Message
    <2> QED
        BY <1>2, <2>1, <2>2 DEF TimesOK
<1>8. ParsedIsNew'
    <2>1. wire[1].reading.section = 1 => wire[1].reading.now
        BY <1>3, Zenon DEF IInv, FirstIsNew
    <2>2. s_ep_state > 1 => wire[1].reading.now
        BY <1>3, Zenon DEF IInv, ParsedIsNew, OldBeforeNew
    <2> QED
        BY <1>1, <1>3, <2>1, <2>2, Zenon DEF IInv, ParsedIsNew
<1>9. SnapshotCoherent'
    BY <1>1, Zenon DEF IInv, SnapshotCoherent
<1>10. Awaited' /\ SectionsTook' /\ NoWrap'
    BY <1>1, SameTimes
<1> QED
    BY <1>5, <1>6, <1>7, <1>8, <1>9, <1>10 DEF Kept

\* An answer that is lost leaves the others as they are.
LEMMA LossKeeps ==
    ASSUME IInv, SlaveLoses
    PROVE  Kept'
<1> USE DEF loop, timer, uart, cycle
<1>1. /\ wire # <<>> /\ wire' = Tail(wire)
      /\ UNCHANGED <<clock, lag, pc, toPoll, s_ep_state, s_req_time, uart_rx_flag, uart_rx_buf,
                     s_poll_data, published>>
    BY DEF SlaveLoses
<1>2. Len(wire) \in Nat
    BY Wires DEF IInv
<1>3. /\ Len(wire') = Len(wire) - 1
      /\ \A i \in 1..Len(wire') : wire'[i] = wire[i + 1]
    BY <1>1, Wires DEF IInv
<1>4. \A i \in 1..Len(wire') : i + 1 \in 1..Len(wire)
    BY <1>2, <1>3
<1>5. FirstIsNew'
    BY <1>1, <1>3, <1>4 DEF IInv, FirstIsNew
<1>6. OldBeforeNew'
    <2>1. ASSUME NEW i \in 1..Len(wire'), NEW j \in 1..Len(wire'), i < j, wire'[i].reading.now
          PROVE  wire'[j].reading.now
        <3>1. i + 1 < j + 1
            BY <1>2, <1>3, <2>1
        <3> QED
            BY <1>3, <1>4, <2>1, <3>1, Zenon DEF IInv, OldBeforeNew
    <2>2. ASSUME uart_rx_buf'.reading.now, NEW i \in 1..Len(wire')
          PROVE  wire'[i].reading.now
        BY <1>1, <1>3, <1>4, <2>2, Zenon DEF IInv, OldBeforeNew
    <2> QED
        BY <2>1, <2>2 DEF OldBeforeNew
<1>7. Unread' /\ ParsedIsNew' /\ SnapshotCoherent'
    BY <1>1, Zenon DEF IInv, Unread, ParsedIsNew, SnapshotCoherent
<1>8. Awaited' /\ SectionsTook' /\ NoWrap'
    BY <1>1, SameTimes
<1> QED
    BY <1>5, <1>6, <1>7, <1>8 DEF Kept

\* Nothing the clauses speak of.
LEMMA StutterKeeps ==
    ASSUME IInv, WriteInterval \/ UNCHANGED vars
    PROVE  Kept'
<1>1. UNCHANGED <<clock, lag, pc, toPoll, s_ep_state, s_req_time, uart_rx_flag, uart_rx_buf,
                  s_poll_data, published, wire>>
    BY DEF WriteInterval, loop, uart, slave, cycle, vars
<1>2. Awaited' /\ SectionsTook' /\ NoWrap'
    BY <1>1, SameTimes
<1>3. FirstIsNew' /\ OldBeforeNew' /\ Unread' /\ ParsedIsNew' /\ SnapshotCoherent'
    BY <1>1, Zenon DEF IInv, FirstIsNew, OldBeforeNew, Unread, ParsedIsNew, SnapshotCoherent
<1> QED
    BY <1>2, <1>3 DEF Kept

-----------------------------------------------------------------------------
(***************************************************************************)
(* The main loop.                                                          *)
(***************************************************************************)
\* epever_poll_timer_cb.  No answer to the first request of the cycle before is
\* left: on the wire it would be older than MaxDelay, in the buffer it would
\* have waited for more than two passes.
LEMMA PollTimerKeeps ==
    ASSUME IInv, epever_poll_timer_cb
    PROVE  Kept'
<1> USE EpeverAssumption
<1>1. TimesOK /\ LoopOK /\ DataOK /\ Len(wire) \in Nat
    BY TypeParts, Wires DEF IInv
<1>2. /\ pc = "timer" /\ toPoll = 0 /\ pc' = "rx" /\ toPoll' = DEFAULT_INTERVAL
      /\ wire' = Append(OldWire, Request(1)) /\ s_ep_state' = 1 /\ s_req_time' = clock
      /\ s_poll_data' = Nothing
      /\ uart_rx_flag' = (IF s_ep_state # IDLE THEN FALSE ELSE uart_rx_flag)
      /\ UNCHANGED <<clock, lag, published>>
    BY <1>1 DEF epever_poll_timer_cb, Send, OldWire, TimesOK
<1>3. /\ uart_rx_buf'.reading.section = uart_rx_buf.reading.section /\ ~uart_rx_buf'.reading.now
    <2>1. ASSUME NEW B, NEW R, NEW f \in [ok : B, reading : R], NEW r
          PROVE  [f EXCEPT !.reading = r].reading = r
        OBVIOUS
    <2>2. uart_rx_buf'.reading = Old(uart_rx_buf.reading)
        BY <1>1, <2>1, Zenon DEF epever_poll_timer_cb, DataOK, Frame
    <2>3. uart_rx_buf.reading \in Reading \cup {Missing}
        BY <1>1, Zenon DEF DataOK, Frame
    <2>4. ~Missing.now
        BY DEF Missing
    <2> QED
        BY <2>2, <2>3, <2>4, OldReading, Zenon
<1>4. /\ Len(wire') = Len(wire) + 1 /\ wire'[Len(wire) + 1] = Request(1)
      /\ \A i \in 1..Len(wire) : /\ wire'[i].reading.section = wire[i].reading.section
                                 /\ ~wire'[i].reading.now
                                 /\ wire'[i].age = wire[i].age
    BY <1>2, OldWires DEF IInv
<1>5. Request(1).reading.section = 1 /\ Request(1).reading.now /\ Request(1).age = 0
    BY DEF Request
<1>6. \A i \in 1..Len(wire') : i \in 1..Len(wire) \/ i = Len(wire) + 1
    BY <1>1, <1>4
<1>7. \A i \in 1..Len(wire) : wire[i].reading.section # 1
    <2> SUFFICES ASSUME NEW i \in 1..Len(wire), wire[i].reading.section = 1 PROVE FALSE
        OBVIOUS
    <2>1. wire[i].age + toPoll >= DEFAULT_INTERVAL
        BY DEF IInv, FirstIsNew
    <2>2. wire[i].age \in 0..MaxDelay
        BY Wires DEF IInv, Message
    <2> QED
        BY <1>2, <2>1, <2>2
<1>8. ~(uart_rx_flag' /\ uart_rx_buf'.reading.section = 1)
    <2> SUFFICES ASSUME uart_rx_flag', uart_rx_buf'.reading.section = 1 PROVE FALSE
        OBVIOUS
    <2>1. uart_rx_flag /\ uart_rx_buf.reading.section = 1
        BY <1>2, <1>3
    <2>2. DEFAULT_INTERVAL - MaxDelay <= toPoll + lag + MaxLag
        BY <1>2, <2>1 DEF IInv, Unread
    <2> QED
        BY <1>1, <1>2, <2>2 DEF TimesOK
<1>9. FirstIsNew'
    <2>1. ASSUME NEW i \in 1..Len(wire'), wire'[i].reading.section = 1
          PROVE  wire'[i] = Request(1)
        BY <1>4, <1>6, <1>7, <2>1, Zenon
    <2>2. Request(1).age + toPoll' >= DEFAULT_INTERVAL
        BY <1>2, <1>5
    <2> QED
        BY <1>5, <2>1, <2>2, Zenon DEF FirstIsNew
<1>10. OldBeforeNew'
    <2>1. ASSUME NEW i \in 1..Len(wire'), NEW j \in 1..Len(wire'), i < j, wire'[i].reading.now
          PROVE  FALSE
        <3>1. i \in 1..Len(wire)
            BY <1>1, <1>4, <2>1
        <3> QED
            BY <1>4, <2>1, <3>1, Zenon
    <2> QED
        BY <1>3, <2>1 DEF OldBeforeNew
<1>11. Unread' /\ SnapshotCoherent'
    <2>1. Unread'
        BY <1>8, Zenon DEF Unread
    <2> QED
        BY <1>2, <2>1, Zenon DEF IInv, SnapshotCoherent
<1>12. ParsedIsNew'
    <2>1. pc' # "parse" /\ ~(s_ep_state' > 1)
        BY <1>2
    <2>2. \A s \in Sections : ~(s < s_ep_state')
        BY <1>2 DEF Sections
    <2> QED
        BY <1>8, <2>1, <2>2, Zenon DEF ParsedIsNew
<1>13. Elapsed' = 0
    BY <1>2, ElapsedRange DEF IInv
<1>14. Awaited' /\ SectionsTook' /\ NoWrap'
    BY <1>1, <1>2, <1>13 DEF Awaited, SectionsTook, NoWrap, TimesOK
<1> QED
    BY <1>9, <1>10, <1>11, <1>12, <1>14 DEF Kept

\* The timer is not due: the frame of the pass before is about to be looked at.
LEMMA NoTimerKeeps ==
    ASSUME IInv, NoTimerDue
    PROVE  Kept'
<1>1. /\ pc = "timer" /\ toPoll > 0 /\ pc' = "rx"
      /\ UNCHANGED <<clock, lag, toPoll, s_ep_state, s_req_time, uart_rx_flag, uart_rx_buf,
                     s_poll_data, published, wire>>
    BY DEF NoTimerDue, timer, uart, slave, cycle
<1>2. Elapsed' = Elapsed
    BY <1>1, ElapsedRange DEF IInv
<1>3. Awaited' /\ SectionsTook' /\ NoWrap'
    <2>1. Awaited'
        BY <1>1, <1>2 DEF IInv, Awaited
    <2>2. SectionsTook'
        BY <1>1, <1>2 DEF IInv, SectionsTook
    <2>3. NoWrap'
        BY <1>1, <1>2, TypeParts DEF IInv, NoWrap, TimesOK
    <2> QED
        BY <2>1, <2>2, <2>3
<1>4. pc \in {"timer", "rx"} /\ pc' \in {"timer", "rx"} /\ pc # "parse" /\ pc' # "parse"
    BY <1>1
<1>5. FirstIsNew' /\ OldBeforeNew' /\ SnapshotCoherent'
    BY <1>1, Zenon DEF IInv, FirstIsNew, OldBeforeNew, SnapshotCoherent
<1>6. Unread' /\ ParsedIsNew'
    BY <1>1, <1>4, Zenon DEF IInv, Unread, ParsedIsNew
<1> QED
    BY <1>3, <1>5, <1>6 DEF Kept

\* uart_rx_poll: a frame that is too late ends the cycle, one in time is parsed.
LEMMA RxPollKeeps ==
    ASSUME IInv, uart_rx_poll
    PROVE  Kept'
<1> USE EpeverAssumption
<1>1. TimesOK /\ LoopOK
    BY TypeParts DEF IInv
<1>2. /\ pc = "rx" /\ ~uart_rx_flag' /\ pc' \in {"parse", "timeout"}
      /\ s_ep_state' = IDLE \/ s_ep_state' = s_ep_state
      /\ pc' = "parse" => uart_rx_flag /\ s_ep_state # IDLE /\ Elapsed <= TIMEOUT
      /\ s_ep_state' # IDLE => ~uart_rx_flag \/ Elapsed <= TIMEOUT
      /\ UNCHANGED <<clock, lag, toPoll, s_req_time, uart_rx_buf, s_poll_data, published, wire>>
    BY Zenon DEF uart_rx_poll, timer, slave
<1>3. Elapsed' = Elapsed /\ Elapsed \in Nat
    BY <1>2, ElapsedRange DEF IInv
<1>4. FirstIsNew' /\ OldBeforeNew' /\ SnapshotCoherent' /\ Unread'
    BY <1>2, Zenon DEF IInv, FirstIsNew, OldBeforeNew, SnapshotCoherent, Unread
<1>5. ParsedIsNew'
    <2>1. CASE s_ep_state' = s_ep_state
        BY <1>2, <2>1, Zenon DEF IInv, ParsedIsNew
    <2>2. CASE s_ep_state' = IDLE
        <3>1. s_ep_state' # 1 /\ ~(s_ep_state' > 1) /\ \A s \in Sections : ~(s < s_ep_state')
            BY <2>2 DEF IDLE, Sections
        <3> QED
            BY <3>1, Zenon DEF ParsedIsNew
    <2> QED
        BY <1>2, <2>1, <2>2
<1>6. Awaited'
    BY <1>1, <1>2, <1>3 DEF IInv, Awaited, TimesOK
<1>7. SectionsTook' /\ NoWrap'
    BY <1>1, <1>2, <1>3 DEF IInv, SectionsTook, NoWrap, TimesOK
<1> QED
    BY <1>4, <1>5, <1>6, <1>7 DEF Kept

\* epever_modbus_timeout_poll ends a pass, and a cycle whose answer is too late.
LEMMA TimeoutKeeps ==
    ASSUME IInv, epever_modbus_timeout_poll
    PROVE  Kept'
<1> USE EpeverAssumption
<1>1. TimesOK /\ LoopOK
    BY TypeParts DEF IInv
<1>2. /\ pc = "timeout" /\ pc' = "timer" /\ lag' = 0
      /\ s_ep_state' = IDLE \/ s_ep_state' = s_ep_state
      /\ s_ep_state' # IDLE /\ ~uart_rx_flag /\ s_req_time # 0 => ~(Elapsed > TIMEOUT)
      /\ UNCHANGED <<clock, toPoll, s_req_time, uart_rx_flag, uart_rx_buf, s_poll_data, published,
                     wire>>
    BY Zenon DEF epever_modbus_timeout_poll, timer, uart, slave
<1>3. Elapsed' = Elapsed /\ Elapsed \in Nat
    BY <1>2, ElapsedRange DEF IInv
<1>4. FirstIsNew' /\ OldBeforeNew' /\ SnapshotCoherent'
    BY <1>2, Zenon DEF IInv, FirstIsNew, OldBeforeNew, SnapshotCoherent
<1>5. Unread'
    BY <1>1, <1>2 DEF IInv, Unread, TimesOK
<1>6. ParsedIsNew'
    <2>1. pc' # "parse"
        BY <1>2
    <2>2. CASE s_ep_state' = s_ep_state
        BY <1>2, <2>1, <2>2, Zenon DEF IInv, ParsedIsNew
    <2>3. CASE s_ep_state' = IDLE
        <3>1. s_ep_state' # 1 /\ ~(s_ep_state' > 1) /\ \A s \in Sections : ~(s < s_ep_state')
            BY <2>3 DEF IDLE, Sections
        <3> QED
            BY <3>1, Zenon DEF ParsedIsNew
    <2> QED
        BY <1>2, <2>2, <2>3
<1>7. Awaited'
    BY <1>1, <1>2, <1>3 DEF IInv, Awaited, TimesOK
<1>8. SectionsTook' /\ NoWrap'
    BY <1>1, <1>2, <1>3 DEF IInv, SectionsTook, NoWrap, TimesOK
<1> QED
    BY <1>4, <1>5, <1>6, <1>7, <1>8 DEF Kept

\* The reading that is parsed for a section was asked for in this cycle.
LEMMA ParsedReading ==
    ASSUME IInv, pc = "parse", Parses(uart_rx_buf, s_ep_state)
    PROVE  /\ s_ep_state \in Sections
           /\ uart_rx_buf.reading = InCycle(s_ep_state) /\ uart_rx_buf.reading.now
<1>1. LoopOK /\ DataOK
    BY TypeParts DEF IInv
<1>2. s_ep_state \in Sections /\ uart_rx_buf.reading.section = s_ep_state
    BY <1>1 DEF LoopOK, Parses
<1>3. uart_rx_buf.reading.now
    <2>1. s_ep_state = 1 \/ s_ep_state > 1
        BY <1>2 DEF Sections
    <2> QED
        BY <1>2, <2>1, Zenon DEF IInv, ParsedIsNew
<1>4. uart_rx_buf.reading \in Reading
    <2>1. uart_rx_buf.reading \in Reading \cup {Missing}
        BY <1>1, Zenon DEF DataOK, Frame
    <2>2. Missing.section \notin Sections
        BY DEF Missing, Sections
    <2> QED
        BY <1>2, <2>1, <2>2, Zenon
<1>5. ASSUME NEW S, NEW B, NEW r \in [section : S, now : B]
      PROVE  r = [section |-> r.section, now |-> r.now] /\ r.now \in B
    OBVIOUS
<1>6. /\ uart_rx_buf.reading = [section |-> s_ep_state, now |-> uart_rx_buf.reading.now]
      /\ uart_rx_buf.reading.now \in BOOLEAN
    BY <1>2, <1>4, <1>5, Zenon DEF Reading
<1>7. uart_rx_buf.reading.now = TRUE
    BY <1>3, <1>6, Zenon
<1> QED
    BY <1>2, <1>3, <1>6, <1>7, Zenon DEF InCycle

\* An answer to the first or second section is followed by the next request.
LEMMA NextSectionKeeps ==
    ASSUME IInv, uart_rx_parse, Parses(uart_rx_buf, s_ep_state), s_ep_state < 3,
           Send(s_ep_state + 1, wire), UNCHANGED published,
           s_poll_data' = [s_poll_data EXCEPT ![s_ep_state] = uart_rx_buf.reading]
    PROVE  Kept'
<1> USE EpeverAssumption
<1>1. TimesOK /\ LoopOK /\ DataOK /\ Len(wire) \in Nat
    BY TypeParts, Wires DEF IInv
<1>2. /\ pc = "parse" /\ pc' = "timeout" /\ wire' = Append(wire, Request(s_ep_state + 1))
      /\ s_ep_state' = s_ep_state + 1 /\ s_req_time' = clock
      /\ UNCHANGED <<clock, lag, toPoll, uart_rx_flag, uart_rx_buf, published>>
    BY DEF uart_rx_parse, Send, timer, uart
<1>3. /\ s_ep_state \in Sections /\ uart_rx_buf.reading = InCycle(s_ep_state)
      /\ uart_rx_buf.reading.now
    BY <1>2, ParsedReading
<1>4. /\ Len(wire') = Len(wire) + 1 /\ wire'[Len(wire) + 1] = Request(s_ep_state + 1)
      /\ \A i \in 1..Len(wire) : wire'[i] = wire[i]
    BY <1>2, Wires DEF IInv
<1>5. Request(s_ep_state + 1).reading.section # 1 /\ Request(s_ep_state + 1).reading.now
    BY <1>3 DEF Request, Sections
<1>6. \A i \in 1..Len(wire') : i \in 1..Len(wire) \/ i = Len(wire) + 1
    BY <1>1, <1>4
<1>7. FirstIsNew'
    BY <1>2, <1>4, <1>5, <1>6, Zenon DEF IInv, FirstIsNew
<1>8. OldBeforeNew'
    <2>1. \A i \in 1..Len(wire') : wire'[i].reading.now
        BY <1>3, <1>4, <1>5, <1>6, Zenon DEF IInv, OldBeforeNew
    <2> QED
        BY <2>1, Zenon DEF OldBeforeNew
<1>9. pc \notin {"timer", "rx"} /\ pc' \notin {"timer", "rx"} /\ pc' # "parse"
    BY <1>2
<1>10. Unread' /\ SnapshotCoherent'
    BY <1>2, <1>9, Zenon DEF IInv, Unread, SnapshotCoherent
<1>11. ParsedIsNew'
    <2>1. s_ep_state' # 1
        BY <1>2, <1>3 DEF Sections
    <2>2. ASSUME NEW s \in Sections, s < s_ep_state' PROVE s_poll_data'[s] = InCycle(s)
        <3>1. CASE s = s_ep_state
            BY <1>1, <1>3, <3>1 DEF DataOK
        <3>2. CASE s < s_ep_state
            <4>1. s_poll_data[s] = InCycle(s)
                BY <3>2, Zenon DEF IInv, ParsedIsNew
            <4> QED
                BY <1>1, <1>3, <3>2, <4>1 DEF DataOK, Sections
        <3> QED
            BY <1>2, <1>3, <2>2, <3>1, <3>2 DEF Sections
    <2> QED
        BY <1>2, <1>3, <2>1, <2>2, Zenon DEF ParsedIsNew
<1>12. Elapsed' = 0 /\ Elapsed \in Nat /\ Elapsed <= TIMEOUT + lag
    <2>1. Elapsed' = 0 /\ Elapsed \in 0..(CLOCK - 1)
        BY <1>2, <1>3, ElapsedRange DEF IInv
    <2>2. s_ep_state # IDLE
        BY <1>3 DEF Sections, IDLE
    <2>3. Elapsed <= TIMEOUT + lag + 0
        BY <1>9, <1>2, <2>2 DEF IInv, Awaited
    <2>4. lag \in Nat
        BY <1>1 DEF TimesOK
    <2> QED
        BY <2>1, <2>3, <2>4
<1>13. Awaited' /\ NoWrap'
    BY <1>1, <1>2, <1>12 DEF Awaited, NoWrap, TimesOK
<1>14. SectionsTook'
    <2>1. DEFAULT_INTERVAL <= toPoll + (s_ep_state - 1) * (TIMEOUT + MaxLag) + Elapsed
        BY <1>3 DEF IInv, SectionsTook, Sections, IDLE
    <2>2. Elapsed <= TIMEOUT + MaxLag
        BY <1>1, <1>12 DEF TimesOK
    <2>3. CASE s_ep_state = 1
        BY <1>1, <1>2, <1>12, <2>1, <2>2, <2>3 DEF SectionsTook, TimesOK
    <2>4. CASE s_ep_state = 2
        BY <1>1, <1>2, <1>12, <2>1, <2>2, <2>4 DEF SectionsTook, TimesOK
    <2> QED
        BY <1>3, <2>3, <2>4 DEF Sections
<1> QED
    BY <1>7, <1>8, <1>10, <1>11, <1>13, <1>14 DEF Kept

\* A cycle ends: what it publishes, if anything, is its three readings.
LEMMA CycleEndKeeps ==
    ASSUME IInv, uart_rx_parse, s_ep_state' = IDLE, UNCHANGED wire,
           \/ UNCHANGED published
           \/ /\ Parses(uart_rx_buf, s_ep_state) /\ s_ep_state = 3
              /\ published' = [s_poll_data EXCEPT ![s_ep_state] = uart_rx_buf.reading]
    PROVE  Kept'
<1>1. TimesOK /\ LoopOK /\ DataOK
    BY TypeParts DEF IInv
<1>2. /\ pc = "parse" /\ pc' = "timeout"
      /\ UNCHANGED <<clock, lag, toPoll, uart_rx_flag, uart_rx_buf>>
    BY DEF uart_rx_parse, timer, uart
<1>3. Awaited' /\ SectionsTook' /\ NoWrap'
    BY DEF Awaited, SectionsTook, NoWrap
<1>4. ParsedIsNew'
    <2>1. s_ep_state' # 1 /\ ~(s_ep_state' > 1) /\ \A s \in Sections : ~(s < s_ep_state')
        BY DEF IDLE, Sections
    <2> QED
        BY <2>1, Zenon DEF ParsedIsNew
<1>5. pc \notin {"timer", "rx"} /\ pc' \notin {"timer", "rx"}
    BY <1>2
<1>6. FirstIsNew' /\ OldBeforeNew' /\ Unread'
    BY <1>2, <1>5, Zenon DEF IInv, FirstIsNew, OldBeforeNew, Unread
<1>7. SnapshotCoherent'
    <2>1. CASE UNCHANGED published
        BY <2>1, Zenon DEF IInv, SnapshotCoherent
    <2>2. CASE /\ Parses(uart_rx_buf, s_ep_state) /\ s_ep_state = 3
               /\ published' = [s_poll_data EXCEPT ![s_ep_state] = uart_rx_buf.reading]
        <3>1. uart_rx_buf.reading = InCycle(3)
            BY <1>2, <2>2, ParsedReading
        <3>2. ASSUME NEW s \in Sections PROVE published'[s] = InCycle(s)
            <4>1. CASE s = 3
                BY <1>1, <2>2, <3>1, <4>1 DEF DataOK
            <4>2. CASE s < 3
                <5>1. s_poll_data[s] = InCycle(s)
                    BY <2>2, <4>2, Zenon DEF IInv, ParsedIsNew
                <5> QED
                    BY <1>1, <2>2, <4>2, <5>1 DEF DataOK, Sections
            <4> QED
                BY <4>1, <4>2 DEF Sections
        <3> QED
            BY <3>2, Zenon DEF SnapshotCoherent, InCycle
    <2> QED
        BY <2>1, <2>2
<1> QED
    BY <1>3, <1>4, <1>6, <1>7 DEF Kept

-----------------------------------------------------------------------------
(***************************************************************************)
(* The theorems.                                                           *)
(***************************************************************************)
\* user_init leaves no cycle under way and nothing on the wire.
LEMMA InitIInv == Init => IInv
<1> SUFFICES ASSUME Init PROVE IInv
    OBVIOUS
<1> USE EpeverAssumption
<1>1. TimesOK /\ LoopOK
    <2>1. /\ 0 \in 0..(CLOCK - 1) /\ 0 \in 0..MaxLag /\ MaxFaults \in 0..MaxFaults
          /\ 0..DEFAULT_INTERVAL \subseteq Int
        OBVIOUS
    <2>2. TimesOK
        BY <2>1, Zenon DEF Init, TimesOK
    <2>3. LoopOK
        BY Zenon DEF Init, LoopOK
    <2> QED
        BY <2>2, <2>3
<1>2. DataOK
    <2>1. Nothing \in [Sections -> Reading \cup {Missing}] /\ <<>> \in Seq(Message)
        BY DEF Nothing
    <2>2. [ok |-> FALSE, reading |-> Missing] \in Frame
        BY DEF Frame
    <2> QED
        BY <2>1, <2>2, Zenon DEF Init, DataOK
<1>3. TypeOK
    BY <1>1, <1>2, TypeParts
<1>4. /\ Len(wire) = 0 /\ 1..Len(wire) = {} /\ s_ep_state = IDLE /\ ~uart_rx_flag
      /\ pc # "parse" /\ published = Nothing
      /\ ~(s_ep_state > 1) /\ s_ep_state # 1 /\ \A s \in Sections : ~(s < s_ep_state)
    BY DEF Init, IDLE, Sections
<1>5. FirstIsNew /\ OldBeforeNew
    BY <1>4, Zenon DEF FirstIsNew, OldBeforeNew
<1>6. Unread /\ ParsedIsNew /\ SnapshotCoherent
    BY <1>4, Zenon DEF Unread, ParsedIsNew, SnapshotCoherent
<1>7. Awaited /\ SectionsTook /\ NoWrap
    BY <1>4 DEF Awaited, SectionsTook, NoWrap
<1> QED
    BY <1>3, <1>5, <1>6, <1>7 DEF IInv

\* Every step keeps the inductive invariant.
LEMMA NextKeeps ==
    ASSUME IInv, [Next]_vars
    PROVE  IInv'
<1>1. TypeOK'
    BY TypeKept DEF IInv
<1> SUFFICES Kept'
    BY <1>1 DEF IInv, Kept
<1>2. CASE uart_rx_parse
    BY <1>2, NextSectionKeeps, CycleEndKeeps DEF uart_rx_parse
<1> QED
    BY <1>2, TickKeeps, ReceiveKeeps, LossKeeps, StutterKeeps, PollTimerKeeps, NoTimerKeeps,
       RxPollKeeps, TimeoutKeeps
    DEF Next, MainLoop

\* The inductive invariant holds in every reachable state.
THEOREM Inductive == Spec => []IInv
<1>1. IInv /\ [Next]_vars => IInv'
    BY NextKeeps
<1> QED
    BY InitIInv, <1>1, PTL DEF Spec

\* The clock, the control, the buffer and the readings keep their domains, and
\* no frame is parsed that is not awaited.
THEOREM TypeCorrect == Spec => []TypeOK
<1>1. IInv => TypeOK
    BY DEF IInv
<1> QED
    BY <1>1, Inductive, PTL

\* What epever_attrs_update takes to the ZCL attributes is three sections read
\* in one cycle, however late, lost or damaged earlier answers were.
THEOREM Coherent == Spec => []SnapshotCoherent
<1>1. IInv => SnapshotCoherent
    BY DEF IInv
<1> QED
    BY <1>1, Inductive, PTL

\* A cycle is over when epever_poll_timer_cb is due again, unless its request
\* was sent at clock 0.
THEOREM CyclesEnd == Spec => []CycleEnds
<1>1. ASSUME IInv, pc = "timer", toPoll = 0, s_ep_state # IDLE, s_req_time # 0
      PROVE  FALSE
    <2>1. TimesOK /\ LoopOK /\ Elapsed \in Nat
        BY <1>1, TypeParts, ElapsedRange DEF IInv
    <2>2. Elapsed <= TIMEOUT + lag + MaxLag
        BY <1>1, <2>1, EpeverAssumption DEF IInv, Awaited, TimesOK
    <2>3. DEFAULT_INTERVAL <= (s_ep_state - 1) * (TIMEOUT + MaxLag) + Elapsed
        BY <1>1, <2>1, EpeverAssumption DEF IInv, SectionsTook, LoopOK, Sections, IDLE
    <2>4. (s_ep_state - 1) * (TIMEOUT + MaxLag) <= 2 * (TIMEOUT + MaxLag)
        <3>1. s_ep_state = 1 \/ s_ep_state = 2 \/ s_ep_state = 3
            BY <1>1, <2>1 DEF LoopOK, Sections, IDLE
        <3>2. CASE s_ep_state = 1
            BY <3>2, EpeverAssumption
        <3>3. CASE s_ep_state = 2
            BY <3>3, EpeverAssumption
        <3>4. CASE s_ep_state = 3
            BY <3>4, EpeverAssumption
        <3> QED
            BY <3>1, <3>2, <3>3, <3>4
    <2> DEFINE took == (s_ep_state - 1) * (TIMEOUT + MaxLag)
    <2>5. took \in Int
        BY <1>1, <2>1, EpeverAssumption DEF LoopOK, Sections, IDLE
    <2> HIDE DEF took
    <2> QED
        BY <2>1, <2>2, <2>3, <2>4, <2>5, EpeverAssumption DEF TimesOK, took
<1>2. IInv => CycleEnds
    BY <1>1 DEF CycleEnds
<1> QED
    BY <1>2, Inductive, PTL
=============================================================================
