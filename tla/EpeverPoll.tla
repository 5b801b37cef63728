----------------------------- MODULE EpeverPoll -----------------------------
(***************************************************************************)
(* The Modbus poll of the EPever monitor (apps/epeverMonitor).  A timer    *)
(* starts a cycle of three requests; each is sent when the one before it   *)
(* is answered; the readings are published after the third.  The receive   *)
(* interrupt, the clock and the slave run beside the main loop, whose pass *)
(* is: timers, uart_rx_poll, epever_modbus_timeout_poll.  uart_rx_poll is  *)
(* split where the interrupt can fall between its clearing of the flag and *)
(* its reading of the buffer.                                              *)
(*                                                                         *)
(* The rated-datum states of the code are never entered: user_init starts  *)
(* at EP_STATE_IDLE with the poll timer armed.                             *)
(***************************************************************************)
EXTENDS Integers, Sequences

CONSTANTS TIMEOUT,         \* EP_RSP_TIMEOUT_MS, in ticks
          DEFAULT_INTERVAL,\* 10 s, in ticks
          Intervals,       \* values a client writes to the poll interval
          CLOCK,           \* clock_time() counts modulo this
          MaxLag,          \* bound: ticks one pass of the main loop takes
          MaxDelay,        \* bound: ticks within which a slave answers, if ever
          Prompt,          \* a healthy slave answers within this many ticks
          MaxFaults        \* bound: late, lost and damaged answers

ASSUME EpeverAssumption ==
    /\ TIMEOUT \in Nat /\ MaxLag \in Nat /\ Prompt \in Nat /\ MaxFaults \in Nat
    /\ DEFAULT_INTERVAL \in Nat /\ MaxDelay \in Nat
    /\ Intervals \subseteq Nat
    /\ Prompt + 2 * MaxLag <= TIMEOUT
    /\ MaxDelay + 2 * MaxLag < DEFAULT_INTERVAL
    /\ 3 * TIMEOUT + 4 * MaxLag < DEFAULT_INTERVAL
    /\ CLOCK \in Nat /\ DEFAULT_INTERVAL + 2 * MaxLag <= CLOCK

VARIABLES clock,             \* clock_time()
          lag,               \* ticks the present pass has taken
          pc,                \* where the main loop is
          toPoll,            \* ticks until epever_poll_timer_cb is due
          g_poll_interval,   \* g_poll_interval_ms
          pollInterval,      \* the ZCL attribute of the same name
          s_ep_state,        \* IDLE, or the section whose answer is awaited
          s_req_time,
          uart_rx_flag,
          uart_rx_buf,       \* the last frame received
          s_poll_data,       \* what this cycle has read, by section
          published,         \* what epever_attrs_update last took, or nothing
          wire,              \* requests the slave has not answered
          faults             \* faults the slave may still make

vars == <<clock, lag, pc, toPoll, g_poll_interval, pollInterval, s_ep_state,
          s_req_time, uart_rx_flag, uart_rx_buf, s_poll_data, published, wire,
          faults>>

loop  == <<lag, pc>>
uart  == <<uart_rx_flag, uart_rx_buf>>
slave == <<wire, faults>>
cycle == <<s_ep_state, s_req_time, s_poll_data, published>>
timer == <<toPoll, g_poll_interval, pollInterval>>

Sections == 1..3
IDLE == 0

(* A reading is known by the section it answers and by whether the request *)
(* was made in the present cycle.                                          *)
Reading == [section : Sections, now : BOOLEAN]
Missing == [section |-> 0, now |-> FALSE]
Nothing == [s \in Sections |-> Missing]

Init ==
    /\ clock \in 0..(CLOCK - 1)
    /\ lag = 0 /\ pc = "timer"
    /\ g_poll_interval = DEFAULT_INTERVAL
    /\ pollInterval = DEFAULT_INTERVAL
    /\ toPoll \in 0..DEFAULT_INTERVAL
    /\ s_ep_state = IDLE /\ s_req_time = 0
    /\ uart_rx_flag = FALSE
    /\ uart_rx_buf = [ok |-> FALSE, reading |-> Missing]
    /\ s_poll_data = Nothing /\ published = Nothing
    /\ wire = <<>> /\ faults = MaxFaults

-----------------------------------------------------------------------------
(* The clock, the slave and the receive interrupt.                         *)

Aged(w) == [i \in 1..Len(w) |-> [w[i] EXCEPT !.age = @ + 1]]

TurnLate == {i \in 1..Len(wire) : wire[i].age = Prompt}

(* A tick may come anywhere in a pass.  An answer that is late is a fault. *)
Tick ==
    /\ lag < MaxLag
    /\ \A i \in 1..Len(wire) : wire[i].age < MaxDelay
    /\ TurnLate # {} => faults > 0
    /\ clock' = (clock + 1) % CLOCK
    /\ lag' = lag + 1
    /\ toPoll' = IF toPoll = 0 THEN 0 ELSE toPoll - 1
    /\ wire' = Aged(wire)
    /\ faults' = IF TurnLate = {} THEN faults ELSE faults - 1
    /\ UNCHANGED <<pc, g_poll_interval, pollInterval, uart, cycle>>

(* A frame arrives: DMA fills the buffer and uart_rx_cb sets the flag, even *)
(* over a frame nobody has read.                                           *)
Receive(ok) ==
    /\ uart_rx_buf' = [ok |-> ok, reading |-> Head(wire).reading]
    /\ uart_rx_flag' = TRUE
    /\ wire' = Tail(wire)
    /\ UNCHANGED <<clock, loop, timer, cycle>>

SlaveAnswers ==
    /\ wire # <<>>
    /\ Receive(TRUE)
    /\ UNCHANGED faults

(* A Modbus exception, a bad length or a bad CRC.                          *)
SlaveGarbles ==
    /\ wire # <<>> /\ faults > 0
    /\ faults' = faults - 1
    /\ Receive(FALSE)

SlaveLoses ==
    /\ wire # <<>> /\ faults > 0
    /\ faults' = faults - 1
    /\ wire' = Tail(wire)
    /\ UNCHANGED <<clock, loop, timer, uart, cycle>>

(* A ZCL Write reaches the attribute alone: the cluster callback that      *)
(* would set g_poll_interval_ms is for cluster commands, and Write is a    *)
(* general one.                                                            *)
WriteInterval ==
    /\ \E n \in Intervals : pollInterval' = n
    /\ UNCHANGED <<clock, loop, toPoll, g_poll_interval, uart, slave, cycle>>

-----------------------------------------------------------------------------
(* The main loop.                                                          *)

\* Mutated form: clock_time() is compared as if it never wrapped.
ElapsedUnwrapped == clock - s_req_time

Elapsed == (clock - s_req_time) % CLOCK

Request(section) == [reading |-> [section |-> section, now |-> TRUE], age |-> 0]

(* epever_send_req; w is what is on the wire already.                      *)
Send(section, w) ==
    /\ wire' = Append(w, Request(section))
    /\ s_ep_state' = section
    /\ s_req_time' = clock

Old(reading) == [reading EXCEPT !.now = FALSE]

\* Mutated form: a cycle that is not over is left alone.
epever_poll_timer_cbSkips ==
    /\ pc = "timer" /\ toPoll = 0
    /\ pc' = "rx"
    /\ toPoll' = g_poll_interval
    /\ IF s_ep_state # IDLE
       THEN UNCHANGED <<s_ep_state, s_req_time, s_poll_data, uart, wire>>
       ELSE /\ uart_rx_buf' = [uart_rx_buf EXCEPT !.reading = Old(@)]
            /\ s_poll_data' = Nothing
            /\ Send(1, [i \in 1..Len(wire) |-> [wire[i] EXCEPT !.reading = Old(@)]])
            /\ UNCHANGED uart_rx_flag
    /\ UNCHANGED <<clock, lag, g_poll_interval, pollInterval, published, faults>>

(* epever_poll_timer_cb.  Readings requested before it count as old.       *)
epever_poll_timer_cb ==
    /\ pc = "timer" /\ toPoll = 0
    /\ pc' = "rx"
    /\ uart_rx_flag' = IF s_ep_state # IDLE THEN FALSE ELSE uart_rx_flag
    /\ uart_rx_buf' = [uart_rx_buf EXCEPT !.reading = Old(@)]
    /\ s_poll_data' = Nothing
    /\ Send(1, [i \in 1..Len(wire) |-> [wire[i] EXCEPT !.reading = Old(@)]])
    /\ toPoll' = g_poll_interval
    /\ UNCHANGED <<clock, lag, g_poll_interval, pollInterval, published, faults>>

NoTimerDue ==
    /\ pc = "timer" /\ toPoll > 0
    /\ pc' = "rx"
    /\ UNCHANGED <<clock, lag, timer, uart, slave, cycle>>

\* Mutated form: a frame is parsed whether or not one is awaited.
uart_rx_pollAlways ==
    /\ pc = "rx"
    /\ pc' = IF uart_rx_flag /\ Elapsed <= TIMEOUT THEN "parse" ELSE "timeout"
    /\ uart_rx_flag' = FALSE
    /\ UNCHANGED <<clock, lag, timer, uart_rx_buf, slave, cycle>>

(* uart_rx_poll up to `uart_rx_flag = 0'.                                  *)
uart_rx_poll ==
    LET inTime == s_ep_state # IDLE /\ Elapsed <= TIMEOUT IN
    /\ pc = "rx"
    /\ pc' = IF uart_rx_flag /\ inTime THEN "parse" ELSE "timeout"
    /\ s_ep_state' = IF uart_rx_flag /\ ~inTime THEN IDLE ELSE s_ep_state
    /\ uart_rx_flag' = FALSE
    /\ UNCHANGED <<clock, lag, timer, uart_rx_buf, slave, s_req_time,
                   s_poll_data, published>>

\* Mutated form: the byte count is not compared with the section's.
ParsesAny(frame, section) == frame.ok

(* epever_parse_rsp1, 2 and 3: the byte counts of the sections differ.     *)
Parses(frame, section) == frame.ok /\ frame.reading.section = section

(* The rest of uart_rx_poll.  A frame that came meanwhile may be read      *)
(* half-written, and then fails the CRC.                                   *)
uart_rx_parse ==
    LET section == s_ep_state
        data    == [s_poll_data EXCEPT ![section] = uart_rx_buf.reading]
    IN
    /\ pc = "parse"
    /\ pc' = "timeout"
    /\ \/ /\ Parses(uart_rx_buf, section)
          /\ s_poll_data' = data
          /\ \/ /\ section < 3
                /\ Send(section + 1, wire)
                /\ UNCHANGED published
             \/ /\ section = 3
                /\ published' = data
                /\ s_ep_state' = IDLE
                /\ UNCHANGED <<wire, s_req_time>>
       \/ /\ ~Parses(uart_rx_buf, section) \/ uart_rx_flag
          /\ s_ep_state' = IDLE
          /\ UNCHANGED <<wire, s_req_time, s_poll_data, published>>
    /\ UNCHANGED <<clock, lag, timer, uart, faults>>

epever_modbus_timeout_poll ==
    /\ pc = "timeout"
    /\ pc' = "timer" /\ lag' = 0
    /\ s_ep_state' = IF ~uart_rx_flag /\ s_req_time # 0 /\ Elapsed > TIMEOUT
                     THEN IDLE ELSE s_ep_state
    /\ UNCHANGED <<clock, timer, uart, slave, s_req_time, s_poll_data, published>>

MainLoop ==
    \/ epever_poll_timer_cb
    \/ NoTimerDue
    \/ uart_rx_poll
    \/ uart_rx_parse
    \/ epever_modbus_timeout_poll

Next ==
    \/ Tick
    \/ SlaveAnswers \/ SlaveGarbles \/ SlaveLoses
    \/ WriteInterval
    \/ MainLoop

Spec == Init /\ [][Next]_vars

(* Time passes, the main loop runs, and the slave answers what it does not *)
(* lose.                                                                   *)
Fairness == WF_vars(Tick) /\ WF_vars(MainLoop) /\ WF_vars(SlaveAnswers)

FairSpec == Spec /\ Fairness

-----------------------------------------------------------------------------
(* Properties.                                                             *)

(* Control, buffer and readings stay in their domains.                     *)
TypeOK ==
    /\ clock \in 0..(CLOCK - 1) /\ s_req_time \in 0..(CLOCK - 1)
    /\ lag \in 0..MaxLag
    /\ pc \in {"timer", "rx", "parse", "timeout"}
    /\ toPoll \in 0..DEFAULT_INTERVAL
    /\ g_poll_interval = DEFAULT_INTERVAL
    /\ pollInterval \in Intervals \cup {DEFAULT_INTERVAL}
    /\ s_ep_state \in {IDLE} \cup Sections
    /\ pc = "parse" => s_ep_state # IDLE
    /\ uart_rx_flag \in BOOLEAN
    /\ uart_rx_buf \in [ok : BOOLEAN, reading : Reading \cup {Missing}]
    /\ s_poll_data \in [Sections -> Reading \cup {Missing}]
    /\ published \in [Sections -> Reading \cup {Missing}]
    /\ wire \in Seq([reading : Reading, age : 0..MaxDelay])
    /\ faults \in 0..MaxFaults

(* What reaches the ZCL attributes is one snapshot: all three sections,    *)
(* each read in the cycle that published it, however late, lost or damaged *)
(* the answers to earlier requests were.                                   *)
SnapshotCoherent ==
    published # Nothing =>
        \A s \in Sections : published[s] = [section |-> s, now |-> TRUE]

(* A cycle is over when the next one is due, so that the timer never has   *)
(* to force the state machine to idle; except that a request sent at clock *)
(* 0 is never timed out, because s_req_time = 0 means `nothing sent'.      *)
CycleEnds ==
    pc = "timer" /\ toPoll = 0 => s_ep_state = IDLE \/ s_req_time = 0

Publish == uart_rx_parse /\ s_ep_state = 3 /\ s_poll_data' # s_poll_data

(* Whatever faults there were, readings are published again and again once *)
(* the slave answers in time.                                              *)
ReadingsResume == []<><<Publish>>_vars

(* The interval a client wrote is the one the next cycle waits: "변수만    *)
(* 바꾸면 다음 주기부터 적용됨" (epeverMonitor.c:681).                      *)
IntervalApplied == [][epever_poll_timer_cb => toPoll' = pollInterval]_vars
=============================================================================
