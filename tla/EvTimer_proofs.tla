--------------------------- MODULE EvTimer_proofs ---------------------------
(***************************************************************************)
(* Proofs about EvTimer, for every size of the pool, every set of clients  *)
(* and every period:                                                       *)
(*   - the list holds exactly the slots in use, used_num counts them, and  *)
(*     a handle names its owner's timer and no other (IInv);               *)
(*   - timer_nearest is right in the main loop (NearestRight);             *)
(*   - the walk comes to every timer that was due when it began (WalkInv); *)
(*   - no timer fires a millisecond early or is left a millisecond late,   *)
(*     across the wrap of the counter and the remainders (Timed);          *)
(*   - what the clients see is the timer service (TimerService).           *)
(***************************************************************************)
EXTENDS EvTimer, FiniteSetTheorems, WellFoundedInduction, TLAPS

Control == [head : Slots \cup {NULL}, nearest : Slots \cup {NULL},
            used_num : 0 .. TIMER_EVENT_NUM, evt : [Slots -> Event]]

(***************************************************************************)
(* A ranking r of the slots that decreases along the links makes the used  *)
(* slots one chain from the head: every used slot but the head has exactly *)
(* one predecessor, and the head has none.                                 *)
(***************************************************************************)
Ranked(T, r, B) ==
    /\ T.head \in UsedSlots(T) \cup {NULL}
    /\ T.head = NULL => UsedSlots(T) = {}
    /\ \A s \in UsedSlots(T) :
        /\ T.evt[s].next \in UsedSlots(T) \cup {NULL}
        /\ T.evt[s].next # NULL => r[T.evt[s].next] < r[s]
        /\ T.evt[s].next # T.head
        /\ r[s] <= B
        /\ s # T.head => \E p \in UsedSlots(T) : T.evt[p].next = s
    /\ \A p, q \in UsedSlots(T) :
        T.evt[p].next = T.evt[q].next /\ T.evt[p].next # NULL => p = q

ControlOK(T) ==
    /\ T \in Control
    /\ \E r \in [Slots -> Nat], B \in Nat : Ranked(T, r, B)
    /\ T.used_num = Cardinality(UsedSlots(T))

\* What nearestUpdate leaves: an armed timer with the smallest timeout.
NearestOf(T) ==
    IF T.head = NULL THEN T.nearest = NULL
    ELSE /\ T.nearest \in UsedSlots(T)
         /\ \A m \in UsedSlots(T) : T.evt[T.nearest].timeout <= T.evt[m].timeout

\* The fields of a timer the passing of time depends on.
SameTimes(d, e) ==
    /\ d.timeout = e.timeout /\ d.period = e.period
    /\ d.curSysTick = e.curSysTick /\ d.isRunning = e.isRunning

\* The links of U are those of T without slot s, which keeps its own.
Unlinked(T, U, s) ==
    \/ /\ T.head = s /\ U.head = T.evt[s].next
       /\ \A q \in Slots : U.evt[q].next = T.evt[q].next
    \/ /\ T.head # s /\ U.head = T.head
       /\ \E lst \in UsedSlots(T) :
            /\ lst # s /\ T.evt[lst].next = s
            /\ \A q \in Slots : U.evt[q].next =
                                IF q = lst THEN T.evt[s].next ELSE T.evt[q].next

UntrackedNull == \A c \in Clients \ Tracked : handle[c] = NULL

CursorInUse ==
    /\ pc = "cb" => timerEvt \in UsedSlots(ev_timer) /\ ev_timer.evt[timerEvt].isBusy
    /\ pc = "walk" => timerEvt \in UsedSlots(ev_timer) \cup {NULL}

\* The inductive invariant.
IInv ==
    /\ TypeOK
    /\ ControlOK(ev_timer)
    /\ HandleExact
    /\ UntrackedNull
    /\ BusyIsRunning
    /\ CursorInUse

-----------------------------------------------------------------------------
(***************************************************************************)
(* Lemmas on the operators of the control block.                           *)
(***************************************************************************)
\* Every nonempty set of naturals has a least element.
LEMMA LeastNat ==
    ASSUME NEW S, S \subseteq Nat, S # {}
    PROVE  \E m \in S : \A k \in S : m <= k
<1>1. \E x \in S : \A y \in S : ~ (<<y, x>> \in OpToRel(<, Nat))
    BY NatLessThanWellFounded, WFMin
<1>2. PICK x \in S : \A y \in S : ~ (<<y, x>> \in OpToRel(<, Nat))
    BY <1>1
<1>3. \A y \in S : ~ (y < x)
    BY <1>2 DEF OpToRel
<1>4. \A y \in S : x <= y
    BY <1>3
<1> QED
    BY <1>4

\* The pool is finite, and so is the set of its used slots (freeGet's loop).
LEMMA UsedFinite ==
    ASSUME NEW T
    PROVE  /\ IsFiniteSet(Slots)
           /\ Cardinality(Slots) = TIMER_EVENT_NUM
           /\ IsFiniteSet(UsedSlots(T))
           /\ Cardinality(UsedSlots(T)) \in 0 .. TIMER_EVENT_NUM
<1>1. IsFiniteSet(Slots) /\ Cardinality(Slots) = TIMER_EVENT_NUM
    BY FS_Interval, PoolAssumption DEF Slots
<1>2. UsedSlots(T) \in SUBSET Slots
    BY DEF UsedSlots
<1>3. IsFiniteSet(UsedSlots(T)) /\ Cardinality(UsedSlots(T)) <= TIMER_EVENT_NUM
    BY <1>1, <1>2, FS_Subset
<1> QED
    BY <1>1, <1>3, FS_CardinalityType, PoolAssumption

\* The list holds exactly the slots in use.
LEMMA ListedIsUsed ==
    ASSUME NEW T, ControlOK(T)
    PROVE  Listed(T) = UsedSlots(T)
<1> USE DEF NULL
<1>1. PICK r \in [Slots -> Nat], B \in Nat : Ranked(T, r, B)
    BY DEF ControlOK
<1>2. UsedSlots(T) \in SUBSET Slots
    BY DEF UsedSlots
<1>3. Closed(T, UsedSlots(T))
    BY <1>1 DEF Ranked, Closed
<1>4. Listed(T) \subseteq UsedSlots(T)
    BY <1>2, <1>3 DEF Listed
<1>5. ASSUME NEW S \in SUBSET Slots, Closed(T, S), NEW u \in UsedSlots(T), u \notin S
      PROVE  FALSE
    <2> DEFINE Left == {B - r[s] : s \in UsedSlots(T) \ S}
    <2>1. Left \subseteq Nat
        BY <1>1, <1>2 DEF Ranked
    <2>2. Left # {}
        BY <1>5
    <2>3. \E m \in Left : \A k \in Left : m <= k
        BY <2>1, <2>2, LeastNat
    <2>4. PICK s \in UsedSlots(T) \ S : \A k \in Left : B - r[s] <= k
        BY <2>3
    <2>5. s # T.head
        BY <1>5, <2>4 DEF Closed, UsedSlots, Slots
    <2>6. PICK p \in UsedSlots(T) : T.evt[p].next = s
        BY <1>1, <2>4, <2>5 DEF Ranked
    <2>7. s # NULL
        BY <2>4 DEF UsedSlots, Slots
    <2>8. p \notin S
        BY <1>5, <2>4, <2>6, <2>7 DEF Closed
    <2>9. r[s] < r[p]
        BY <1>1, <2>6, <2>7 DEF Ranked
    <2>10. B - r[s] <= B - r[p]
        BY <2>4, <2>6, <2>8
    <2>11. r[s] \in Nat /\ r[p] \in Nat
        BY <1>2, <2>4, <2>6
    <2> QED
        BY <2>9, <2>10, <2>11
<1>6. UsedSlots(T) \subseteq Listed(T)
    BY <1>2, <1>5 DEF Listed
<1> QED
    BY <1>4, <1>6

\* The list ends.
LEMMA ListEnds ==
    ASSUME NEW T, ControlOK(T), T.head # NULL
    PROVE  \E s \in Listed(T) : T.evt[s].next = NULL
<1> USE DEF NULL
<1>1. PICK r \in [Slots -> Nat], B \in Nat : Ranked(T, r, B)
    BY DEF ControlOK
<1>2. UsedSlots(T) \in SUBSET Slots
    BY DEF UsedSlots
<1> DEFINE Ranks == {r[s] : s \in UsedSlots(T)}
<1>3. Ranks \subseteq Nat /\ Ranks # {}
    BY <1>1, <1>2 DEF Ranked
<1>4. \E m \in Ranks : \A k \in Ranks : m <= k
    BY <1>3, LeastNat
<1>5. PICK s \in UsedSlots(T) : \A q \in UsedSlots(T) : r[s] <= r[q]
    BY <1>4
<1>6. T.evt[s].next \in UsedSlots(T) => r[T.evt[s].next] < r[s]
    BY <1>1, <1>2, <1>5 DEF Ranked, Slots
<1>7. T.evt[s].next \notin UsedSlots(T)
    BY <1>2, <1>5, <1>6
<1>8. T.evt[s].next = NULL
    BY <1>1, <1>5, <1>7 DEF Ranked
<1> QED
    BY <1>5, <1>8, ListedIsUsed

\* What leaves the links, the head and the marks alone keeps the list.
LEMMA SameList ==
    ASSUME NEW T, ControlOK(T), NEW U, U \in Control,
           U.head = T.head, U.used_num = T.used_num,
           \A s \in Slots : U.evt[s].used = T.evt[s].used
                            /\ U.evt[s].next = T.evt[s].next
    PROVE  ControlOK(U) /\ UsedSlots(U) = UsedSlots(T)
<1>1. UsedSlots(U) = UsedSlots(T)
    BY DEF UsedSlots
<1>2. PICK r \in [Slots -> Nat], B \in Nat : Ranked(T, r, B)
    BY DEF ControlOK
<1>3. Ranked(U, r, B)
    BY <1>1, <1>2 DEF Ranked, UsedSlots
<1> QED
    BY <1>1, <1>3 DEF ControlOK

\* ev_timer_nearestUpdate changes nothing but the nearest timer, and finds it.
LEMMA NearestUpdateKeeps ==
    ASSUME NEW T, ControlOK(T)
    PROVE  /\ ControlOK(nearestUpdate(T))
           /\ nearestUpdate(T).evt = T.evt /\ nearestUpdate(T).head = T.head
           /\ UsedSlots(nearestUpdate(T)) = UsedSlots(T)
           /\ NearestOf(nearestUpdate(T))
<1> DEFINE U == nearestUpdate(T)
<1>1. U.evt = T.evt /\ U.head = T.head /\ U.used_num = T.used_num
    BY DEF nearestUpdate, ControlOK, Control
<1>2. T.head = NULL => U.nearest = NULL
    BY DEF nearestUpdate, ControlOK, Control
<1>3. ASSUME T.head # NULL
      PROVE  /\ U.nearest \in Slots /\ U.nearest \in UsedSlots(T)
             /\ \A m \in UsedSlots(T) : T.evt[U.nearest].timeout <= T.evt[m].timeout
    <2> DEFINE Left == {T.evt[s].timeout : s \in Listed(T)}
    <2>1. Listed(T) \subseteq Slots /\ Listed(T) # {}
        BY <1>3, ListEnds DEF Listed
    <2>2. Left \subseteq Nat /\ Left # {}
        BY <2>1 DEF ControlOK, Control, Event
    <2>3. \E m \in Left : \A k \in Left : m <= k
        BY <2>2, LeastNat
    <2>4. \E s \in Listed(T) : \A m \in Listed(T) : T.evt[s].timeout <= T.evt[m].timeout
        BY <2>3
    <2> DEFINE n == CHOOSE s \in Listed(T) :
                        \A m \in Listed(T) : T.evt[s].timeout <= T.evt[m].timeout
    <2>5. n \in Listed(T) /\ \A m \in Listed(T) : T.evt[n].timeout <= T.evt[m].timeout
        BY <2>4
    <2>6. U.nearest = n
        BY <1>3 DEF nearestUpdate, ControlOK, Control
    <2> HIDE DEF n, U
    <2> QED
        BY <2>1, <2>5, <2>6, ListedIsUsed
<1>4. U \in Control
    BY <1>1, <1>2, <1>3 DEF nearestUpdate, ControlOK, Control
<1>5. ControlOK(U) /\ UsedSlots(U) = UsedSlots(T)
    BY <1>1, <1>4, SameList
<1>6. NearestOf(U)
    <2> HIDE DEF U
    <2> QED
        BY <1>1, <1>2, <1>3, <1>5 DEF NearestOf
<1> QED
    BY <1>1, <1>5, <1>6

\* Deleting a used slot takes it, and nothing else, out of the list and of the
\* count: the links of the other slots are closed over the gap.
LEMMA UnonDeletes ==
    ASSUME NEW T, ControlOK(T), NEW s \in UsedSlots(T)
    PROVE  /\ ControlOK(unon(T, s))
           /\ UsedSlots(unon(T, s)) = UsedSlots(T) \ {s}
           /\ unon(T, s).evt[s].isBusy = T.evt[s].isBusy
           /\ unon(T, s).evt[s].next \in UsedSlots(unon(T, s)) \cup {NULL}
           /\ \A q \in Slots \ {s} :
                /\ unon(T, s).evt[q].cb = T.evt[q].cb
                /\ unon(T, s).evt[q].isBusy = T.evt[q].isBusy
                /\ SameTimes(unon(T, s).evt[q], T.evt[q])
           /\ ~unon(T, s).evt[s].isRunning
           /\ Unlinked(T, unon(T, s), s)
           /\ NearestOf(unon(T, s))
<1> USE DEF NULL
<1> DEFINE P == poolDelUpdate(T, s)
           D == ListDelete(P, s)
<1>0. s \in Slots /\ T.evt[s].used /\ T \in Control
    BY DEF UsedSlots, ControlOK
<1>1. /\ P.head = T.head /\ P.nearest = T.nearest
      /\ P.used_num = T.used_num - 1
      /\ P.evt[s] = [Blank EXCEPT !.next = T.evt[s].next, !.isBusy = T.evt[s].isBusy]
      /\ \A q \in Slots \ {s} : P.evt[q] = T.evt[q]
    BY <1>0 DEF poolDelUpdate, Control
<1>1a. P = [head |-> P.head, nearest |-> P.nearest, used_num |-> P.used_num, evt |-> P.evt]
    BY <1>0 DEF poolDelUpdate, Control
<1>2. \A q \in Slots : P.evt[q].next = T.evt[q].next
    BY <1>1 DEF Blank
<1>3. /\ P.evt[s] \in Event /\ ~P.evt[s].used /\ P.evt[s].isBusy = T.evt[s].isBusy
      /\ ~P.evt[s].isRunning
    <2>1. T.evt[s] \in Event
        BY <1>0 DEF Control
    <2>2. T.evt[s].next \in Slots \cup {NULL} /\ T.evt[s].isBusy \in BOOLEAN
        BY <2>1 DEF Event
    <2>3. P.evt[s] = [next |-> T.evt[s].next, cb |-> NoCb, timeout |-> 0,
                      period |-> 0, curSysTick |-> 0, isBusy |-> T.evt[s].isBusy,
                      isRunning |-> FALSE, used |-> FALSE]
        BY <1>1 DEF Blank
    <2>4. 0 \in Ticks
        BY TimeAssumption DEF Ticks
    <2> QED
        BY <2>2, <2>3, <2>4 DEF Event
<1>4. P.evt \in [Slots -> Event]
    <2>1. DOMAIN P.evt = Slots
        BY <1>0 DEF poolDelUpdate, Control
    <2>2. \A q \in Slots : P.evt[q] \in Event
        BY <1>0, <1>1, <1>3 DEF Control
    <2>3. P.evt = [q \in Slots |-> P.evt[q]]
        BY <1>0, <2>1 DEF poolDelUpdate, Control
    <2> QED
        BY <2>2, <2>3
<1>5. UsedSlots(P) = UsedSlots(T) \ {s}
    BY <1>1, <1>3 DEF UsedSlots
<1>6. Listed(P) = Listed(T) /\ Listed(T) = UsedSlots(T)
    <2>1. \A S \in SUBSET Slots : Closed(P, S) <=> Closed(T, S)
        BY <1>1, <1>2 DEF Closed
    <2> QED
        BY <2>1, ListedIsUsed DEF Listed
<1>7. Cardinality(UsedSlots(P)) = Cardinality(UsedSlots(T)) - 1
    BY <1>5, UsedFinite, FS_RemoveElement
<1>8. P.used_num = Cardinality(UsedSlots(P)) /\ P.used_num \in 0 .. TIMER_EVENT_NUM
    BY <1>1, <1>7, UsedFinite DEF ControlOK
<1>9. PICK r \in [Slots -> Nat], B \in Nat : Ranked(T, r, B)
    BY DEF ControlOK
<1>9a. /\ \A q \in UsedSlots(T) : q \in Slots /\ q # NULL
       /\ \A q \in UsedSlots(T) : r[q] \in Nat
       /\ T.head \in UsedSlots(T)
    BY <1>9 DEF Ranked, UsedSlots, Slots
<1>9b. \A q \in UsedSlots(T) :
        /\ T.evt[q].next \in UsedSlots(T) \cup {NULL}
        /\ T.evt[q].next # NULL => r[T.evt[q].next] < r[q]
        /\ T.evt[q].next # T.head
        /\ T.evt[q].next # q
        /\ r[q] <= B
        /\ q # T.head => \E p \in UsedSlots(T) : T.evt[p].next = q
    BY <1>9, <1>9a DEF Ranked
<1>9c. \A p, q \in UsedSlots(T) :
        T.evt[p].next = T.evt[q].next /\ T.evt[p].next # NULL => p = q
    BY <1>9 DEF Ranked
<1>10. /\ ControlOK(D) /\ UsedSlots(D) = UsedSlots(P)
       /\ \A q \in Slots : D.evt[q].cb = P.evt[q].cb /\ D.evt[q].isBusy = P.evt[q].isBusy
       /\ D.evt[s].next = T.evt[s].next
       /\ \A q \in Slots : SameTimes(D.evt[q], P.evt[q])
       /\ Unlinked(T, D, s)
    <2>1. CASE T.head = s
        <3>1. D = [P EXCEPT !.head = P.evt[s].next]
            BY <1>1, <2>1 DEF ListDelete
        <3>2. D.head = T.evt[s].next /\ D.evt = P.evt /\ D.used_num = P.used_num
              /\ D.nearest = P.nearest
            BY <1>0, <1>1a, <1>2, <3>1
        <3>3. D \in Control
            BY <1>0, <1>1, <1>1a, <1>4, <1>8, <3>1, <3>2 DEF Control, Event
        <3>4. UsedSlots(D) = UsedSlots(P)
            BY <3>2 DEF UsedSlots
        <3>5. Ranked(D, r, B)
            <4>1. \A q \in UsedSlots(D) : q \in UsedSlots(T) /\ q # s
                                        /\ D.evt[q].next = T.evt[q].next
                BY <1>2, <1>5, <1>9a, <3>2, <3>4
            <4>2. D.head \in UsedSlots(D) \cup {NULL}
                BY <1>5, <1>9b, <3>2, <3>4
            <4>3. D.head = NULL => UsedSlots(D) = {}
                <5> SUFFICES ASSUME T.evt[s].next = NULL, NEW q \in UsedSlots(D)
                             PROVE  FALSE
                    BY <3>2
                <5> DEFINE Rest == {B - r[x] : x \in UsedSlots(D)}
                <5>1. Rest \subseteq Nat /\ Rest # {}
                    BY <1>9a, <1>9b, <4>1
                <5>1a. \E m \in Rest : \A k \in Rest : m <= k
                    BY <5>1, LeastNat
                <5>2. PICK x \in UsedSlots(D) : \A y \in UsedSlots(D) : B - r[x] <= B - r[y]
                    BY <5>1a
                <5>3. PICK y \in UsedSlots(T) : T.evt[y].next = x
                    BY <1>9b, <2>1, <4>1
                <5>4. y \in UsedSlots(D)
                    BY <1>5, <1>9a, <3>4, <4>1, <5>3
                <5>5. r[x] < r[y] /\ r[x] \in Nat /\ r[y] \in Nat
                    BY <1>9a, <1>9b, <4>1, <5>3
                <5> QED
                    BY <5>2, <5>4, <5>5
            <4>4. \A q \in UsedSlots(D) :
                    /\ D.evt[q].next \in UsedSlots(D) \cup {NULL}
                    /\ D.evt[q].next # NULL => r[D.evt[q].next] < r[q]
                    /\ D.evt[q].next # D.head
                    /\ r[q] <= B
                <5> SUFFICES ASSUME NEW q \in UsedSlots(D)
                             PROVE  /\ D.evt[q].next \in UsedSlots(D) \cup {NULL}
                                    /\ D.evt[q].next # NULL => r[D.evt[q].next] < r[q]
                                    /\ D.evt[q].next # D.head
                                    /\ r[q] <= B
                    OBVIOUS
                <5>1. q \in UsedSlots(T) /\ q # s /\ D.evt[q].next = T.evt[q].next
                    BY <4>1
                <5>2. T.evt[q].next # s
                    BY <1>9b, <2>1, <5>1
                <5>3. D.head # NULL
                    BY <4>3
                <5>4. T.evt[q].next # T.evt[s].next
                    BY <1>9c, <3>2, <5>1, <5>3
                <5> QED
                    BY <1>5, <1>9b, <3>2, <3>4, <5>1, <5>2, <5>4
            <4>5. \A q \in UsedSlots(D) : q # D.head =>
                    \E p \in UsedSlots(D) : D.evt[p].next = q
                BY <1>5, <1>9b, <2>1, <3>2, <3>4, <4>1
            <4>6. \A p, q \in UsedSlots(D) :
                    D.evt[p].next = D.evt[q].next /\ D.evt[p].next # NULL => p = q
                BY <1>9c, <4>1
            <4> QED
                BY <4>2, <4>3, <4>4, <4>5, <4>6 DEF Ranked
        <3>6. ControlOK(D)
            BY <1>8, <3>2, <3>3, <3>4, <3>5 DEF ControlOK
        <3>7. Unlinked(T, D, s)
            BY <1>2, <2>1, <3>2, Zenon DEF Unlinked
        <3>8. \A q \in Slots : SameTimes(D.evt[q], P.evt[q])
            BY <3>2, Zenon DEF SameTimes
        <3> QED
            BY <1>0, <1>2, <3>2, <3>4, <3>6, <3>7, <3>8
    <2>2. CASE T.head # s
        <3> DEFINE lst == CHOOSE p \in Listed(P) : P.evt[p].next = s
        <3>1. \E p \in Listed(P) : P.evt[p].next = s
            BY <1>2, <1>6, <1>9, <2>2 DEF Ranked, UsedSlots
        <3>2. lst \in UsedSlots(T) /\ T.evt[lst].next = s
            BY <1>2, <1>6, <3>1 DEF UsedSlots
        <3>3. lst # s /\ lst \in Slots
            BY <1>9a, <1>9b, <3>2
        <3>4. D = [P EXCEPT !.evt[lst].next = P.evt[s].next]
            BY <1>1, <2>2 DEF ListDelete
        <3>4a. /\ P.evt[lst] \in Event
               /\ T.evt[s].next \in Slots \cup {NULL}
            BY <1>4, <1>9a, <1>9b, <3>3
        <3>5. /\ D.head = T.head /\ D.used_num = P.used_num /\ D.nearest = P.nearest
              /\ D.evt[lst] = [P.evt[lst] EXCEPT !.next = T.evt[s].next]
              /\ \A q \in Slots \ {lst} : D.evt[q] = P.evt[q]
              /\ D.evt = [P.evt EXCEPT ![lst] = [P.evt[lst] EXCEPT !.next = T.evt[s].next]]
            BY <1>1, <1>1a, <1>2, <1>4, <3>3, <3>4
        <3>6. D.evt[lst] \in Event /\ D.evt[lst].used = P.evt[lst].used
              /\ D.evt[lst].cb = P.evt[lst].cb /\ D.evt[lst].isBusy = P.evt[lst].isBusy
              /\ D.evt[lst].next = T.evt[s].next
              /\ SameTimes(D.evt[lst], P.evt[lst])
            <4> DEFINE e == P.evt[lst]
                       n == T.evt[s].next
            <4>1. e \in Event /\ n \in Slots \cup {NULL}
                BY <3>4a
            <4>2. [e EXCEPT !.next = n] =
                    [next |-> n, cb |-> e.cb, timeout |-> e.timeout,
                     period |-> e.period, curSysTick |-> e.curSysTick,
                     isBusy |-> e.isBusy, isRunning |-> e.isRunning, used |-> e.used]
                <5> HIDE DEF e, n
                <5> QED
                    BY <4>1 DEF Event
            <4>3. [e EXCEPT !.next = n] \in Event
                BY <4>1, <4>2 DEF Event
            <4> HIDE DEF e, n
            <4>4. LET d == [e EXCEPT !.next = n]
                  IN  /\ d.used = e.used /\ d.cb = e.cb /\ d.isBusy = e.isBusy
                      /\ d.next = n /\ SameTimes(d, e)
                BY <4>2 DEF SameTimes
            <4> QED
                BY <3>5, <4>3, <4>4 DEF e, n
        <3>6a. D.evt \in [Slots -> Event]
            BY <1>4, <3>3, <3>5, <3>6
        <3>7. D \in Control
            BY <1>0, <1>1, <1>1a, <1>4, <1>8, <3>4, <3>5, <3>6a DEF Control
        <3>8. UsedSlots(D) = UsedSlots(P)
            BY <3>5, <3>6 DEF UsedSlots
        <3>9. \A q \in Slots : D.evt[q].next = IF q = lst THEN T.evt[s].next ELSE T.evt[q].next
            BY <1>2, <3>5, <3>6
        <3>10. Ranked(D, r, B)
            <4>1. \A q \in UsedSlots(D) : q \in Slots /\ q \in UsedSlots(T) /\ q # s
                BY <1>5, <3>8 DEF UsedSlots
            <4>2. D.head \in UsedSlots(D) \cup {NULL} /\ D.head # NULL
                BY <1>5, <1>9, <2>2, <3>5, <3>8 DEF Ranked
            <4>3. \A q \in UsedSlots(D) :
                    /\ D.evt[q].next \in UsedSlots(D) \cup {NULL}
                    /\ D.evt[q].next # NULL => r[D.evt[q].next] < r[q]
                    /\ D.evt[q].next # D.head
                    /\ r[q] <= B
                <5> SUFFICES ASSUME NEW q \in UsedSlots(D)
                             PROVE  /\ D.evt[q].next \in UsedSlots(D) \cup {NULL}
                                    /\ D.evt[q].next # NULL => r[D.evt[q].next] < r[q]
                                    /\ D.evt[q].next # D.head
                                    /\ r[q] <= B
                    OBVIOUS
                <5>1. CASE q = lst
                    <6>1. D.evt[q].next = T.evt[s].next
                        BY <3>9, <4>1, <5>1
                    <6>2. T.evt[s].next # s
                        BY <1>9b
                    <6>3. r[s] < r[q]
                        BY <1>9a, <1>9b, <3>2, <5>1
                    <6>4. T.evt[s].next \in UsedSlots(T) \cup {NULL}
                          /\ (T.evt[s].next # NULL => r[T.evt[s].next] < r[s])
                          /\ T.evt[s].next # T.head
                        BY <1>9 DEF Ranked
                    <6>5. r[s] \in Nat /\ r[q] \in Nat
                          /\ (T.evt[s].next \in UsedSlots(T) => r[T.evt[s].next] \in Nat)
                        BY <1>0, <4>1 DEF UsedSlots
                    <6>6. r[q] <= B
                        BY <1>9, <4>1 DEF Ranked
                    <6> QED
                        BY <1>5, <3>5, <3>8, <6>1, <6>2, <6>3, <6>4, <6>5, <6>6
                <5>2. CASE q # lst
                    <6>1. D.evt[q].next = T.evt[q].next
                        BY <3>9, <4>1, <5>2
                    <6>2. T.evt[q].next # s
                        BY <1>9a, <1>9c, <3>2, <4>1, <5>2
                    <6> QED
                        BY <1>5, <1>9, <3>5, <3>8, <4>1, <6>1, <6>2 DEF Ranked
                <5> QED
                    BY <5>1, <5>2
            <4>4. \A q \in UsedSlots(D) : q # D.head =>
                    \E p \in UsedSlots(D) : D.evt[p].next = q
                <5> SUFFICES ASSUME NEW q \in UsedSlots(D), q # D.head
                             PROVE  \E p \in UsedSlots(D) : D.evt[p].next = q
                    OBVIOUS
                <5>1. PICK p \in UsedSlots(T) : T.evt[p].next = q
                    BY <1>9, <3>5, <4>1 DEF Ranked
                <5>2. CASE p = s
                    BY <1>5, <3>2, <3>3, <3>8, <3>9, <5>1, <5>2
                <5>3. CASE p # s
                    <6>1. p # lst
                        BY <3>2, <4>1, <5>1
                    <6>2. D.evt[p].next = q
                        BY <3>9, <5>1, <6>1 DEF UsedSlots
                    <6> QED
                        BY <1>5, <3>8, <5>3, <6>2
                <5> QED
                    BY <5>2, <5>3
            <4>5. \A p, q \in UsedSlots(D) :
                    D.evt[p].next = D.evt[q].next /\ D.evt[p].next # NULL => p = q
                <5> SUFFICES ASSUME NEW p \in UsedSlots(D), NEW q \in UsedSlots(D),
                                    D.evt[p].next = D.evt[q].next, D.evt[p].next # NULL
                             PROVE  p = q
                    OBVIOUS
                <5>1. /\ D.evt[p].next = IF p = lst THEN T.evt[s].next ELSE T.evt[p].next
                      /\ D.evt[q].next = IF q = lst THEN T.evt[s].next ELSE T.evt[q].next
                    BY <3>9, <4>1
                <5>2. p \in UsedSlots(T) /\ p # s /\ q \in UsedSlots(T) /\ q # s
                    BY <4>1
                <5>3. CASE p = lst /\ q # lst
                    BY <1>9c, <5>1, <5>2, <5>3
                <5>4. CASE p # lst /\ q = lst
                    BY <1>9c, <5>1, <5>2, <5>4
                <5>5. CASE p # lst /\ q # lst
                    BY <1>9c, <5>1, <5>2, <5>5
                <5> QED
                    BY <5>3, <5>4, <5>5
            <4> QED
                BY <4>2, <4>3, <4>4, <4>5 DEF Ranked
        <3>11. ControlOK(D)
            BY <1>8, <3>5, <3>7, <3>8, <3>10 DEF ControlOK
        <3>12. Unlinked(T, D, s)
            BY <2>2, <3>2, <3>3, <3>5, <3>9, Zenon DEF Unlinked
        <3>13. \A q \in Slots : SameTimes(D.evt[q], P.evt[q])
            BY <3>5, <3>6, Zenon DEF SameTimes
        <3> QED
            BY <1>0, <3>3, <3>5, <3>6, <3>8, <3>9, <3>11, <3>12, <3>13
    <2> QED
        BY <2>1, <2>2
<1>11. unon(T, s) = nearestUpdate(D)
    BY <1>6 DEF unon
<1>12. /\ ControlOK(unon(T, s)) /\ unon(T, s).evt = D.evt /\ unon(T, s).head = D.head
       /\ UsedSlots(unon(T, s)) = UsedSlots(D)
       /\ NearestOf(unon(T, s))
    BY <1>10, <1>11, NearestUpdateKeeps
<1>13. T.evt[s].next \in (UsedSlots(T) \ {s}) \cup {NULL}
    BY <1>9b
<1> HIDE DEF P, D
<1>14. Unlinked(T, unon(T, s), s)
    BY <1>10, <1>12, Zenon DEF Unlinked
<1>15. ~unon(T, s).evt[s].isRunning
    BY <1>0, <1>3, <1>10, <1>12, Zenon DEF SameTimes
<1>16. \A q \in Slots \ {s} : SameTimes(unon(T, s).evt[q], T.evt[q])
    <2> SUFFICES ASSUME NEW q \in Slots \ {s}
                 PROVE  SameTimes(unon(T, s).evt[q], T.evt[q])
        OBVIOUS
    <2>1. SameTimes(D.evt[q], P.evt[q]) /\ P.evt[q] = T.evt[q]
        BY <1>1, <1>10
    <2> QED
        BY <1>12, <2>1
<1> QED
    BY <1>0, <1>1, <1>3, <1>5, <1>10, <1>12, <1>13, <1>14, <1>15, <1>16

\* Posting takes a free slot, which becomes the head of the list.
LEMMA PostAdds ==
    ASSUME NEW T, ControlOK(T), ~PoolFull(T), NEW c \in Clients, NEW t \in Timeouts,
           clock \in Ticks
    PROVE  /\ FreeSlot(T) \in Slots \ UsedSlots(T)
           /\ ControlOK(taskPost(T, c, t))
           /\ UsedSlots(taskPost(T, c, t)) = UsedSlots(T) \cup {FreeSlot(T)}
           /\ taskPost(T, c, t).evt[FreeSlot(T)].cb = c
           /\ ~taskPost(T, c, t).evt[FreeSlot(T)].isBusy
           /\ \A q \in Slots \ {FreeSlot(T)} :
                taskPost(T, c, t).evt[q] = T.evt[q]
           /\ taskPost(T, c, t).evt[FreeSlot(T)].timeout = t
           /\ taskPost(T, c, t).evt[FreeSlot(T)].period = t
           /\ ~T.evt[FreeSlot(T)].isRunning =>
                /\ ~taskPost(T, c, t).evt[FreeSlot(T)].isRunning
                /\ taskPost(T, c, t).evt[FreeSlot(T)].curSysTick = clock
           /\ taskPost(T, c, t).evt[FreeSlot(T)].next = T.head
           /\ NearestOf(taskPost(T, c, t))
<1> USE DEF NULL
<1> DEFINE s    == FreeSlot(T)
           tick == IF T.evt[s].isRunning THEN T.evt[s].curSysTick ELSE clock
           slot == [T.evt[s] EXCEPT !.used = TRUE, !.cb = c, !.isBusy = FALSE,
                                    !.period = t, !.timeout = t,
                                    !.curSysTick = tick]
           A    == [T EXCEPT !.evt[s] = slot, !.used_num = @ + 1]
           L    == ListAdd(A, s)
<1>1. s \in Slots \ UsedSlots(T)
    <2> DEFINE Free == Slots \ UsedSlots(T)
    <2>1. Free # {}
        <3>1. Cardinality(UsedSlots(T)) < TIMER_EVENT_NUM
            BY UsedFinite, PoolAssumption DEF PoolFull, ControlOK
        <3>2. UsedSlots(T) \subseteq Slots
            BY DEF UsedSlots
        <3>3. Free = {} => UsedSlots(T) = Slots
            BY <3>2
        <3> QED
            BY <3>1, <3>3, UsedFinite
    <2>2. Free \subseteq Nat
        BY DEF Slots
    <2>3. \E m \in Free : \A k \in Free : m <= k
        BY <2>1, <2>2, LeastNat
    <2> QED
        BY <2>3 DEF FreeSlot
<1>2. T \in Control /\ T.evt[s] \in Event /\ T.head \in Slots \cup {NULL}
    BY <1>1 DEF ControlOK, Control
<1>3. slot = [next |-> T.evt[s].next, cb |-> c, timeout |-> t, period |-> t,
              curSysTick |-> tick, isBusy |-> FALSE,
              isRunning |-> T.evt[s].isRunning, used |-> TRUE]
    <2> DEFINE e == T.evt[s]
    <2>1. e \in Event
        BY <1>2
    <2>2. slot = [e EXCEPT !.used = TRUE, !.cb = c, !.isBusy = FALSE,
                           !.period = t, !.timeout = t, !.curSysTick = tick]
        OBVIOUS
    <2> HIDE DEF e, tick, slot
    <2>3. slot = [next |-> e.next, cb |-> c, timeout |-> t, period |-> t,
                  curSysTick |-> tick, isBusy |-> FALSE,
                  isRunning |-> e.isRunning, used |-> TRUE]
        BY <2>1, <2>2 DEF Event
    <2> QED
        BY <2>3 DEF e
<1>4. /\ A.head = T.head /\ A.nearest = T.nearest /\ A.used_num = T.used_num + 1
      /\ A.evt = [T.evt EXCEPT ![s] = slot]
      /\ A = [head |-> A.head, nearest |-> A.nearest, used_num |-> A.used_num, evt |-> A.evt]
    <2> HIDE DEF s, slot
    <2>1. A = [head |-> T.head, nearest |-> T.nearest, used_num |-> T.used_num + 1,
               evt |-> [T.evt EXCEPT ![s] = slot]]
        <3>1. T = [head |-> T.head, nearest |-> T.nearest, used_num |-> T.used_num,
                   evt |-> T.evt]
            BY <1>2 DEF Control
        <3>2. A = [[T EXCEPT !.evt = [T.evt EXCEPT ![s] = slot]]
                        EXCEPT !.used_num = T.used_num + 1]
            BY <3>1
        <3> DEFINE ev == [T.evt EXCEPT ![s] = slot]
        <3>3. A = [[T EXCEPT !.evt = ev] EXCEPT !.used_num = T.used_num + 1]
            BY <3>2
        <3> HIDE DEF A, ev
        <3>4. A = [head |-> T.head, nearest |-> T.nearest,
                   used_num |-> T.used_num + 1, evt |-> ev]
            BY <1>2, <3>3 DEF Control
        <3> QED
            BY <3>4 DEF ev
    <2> HIDE DEF A
    <2> QED
        BY <2>1
<1>5. /\ L.head = s /\ L.nearest = T.nearest /\ L.used_num = T.used_num + 1
      /\ L.evt = [T.evt EXCEPT ![s] = [slot EXCEPT !.next = T.head]]
      /\ L = [head |-> L.head, nearest |-> L.nearest, used_num |-> L.used_num, evt |-> L.evt]
    <2> HIDE DEF s, slot, A
    <2>1. T.evt \in [Slots -> Event] /\ s \in Slots
        BY <1>1, <1>2 DEF Control
    <2>2. L = [head |-> s, nearest |-> A.nearest, used_num |-> A.used_num,
               evt |-> [A.evt EXCEPT ![s].next = A.head]]
        <3>1. L = [[A EXCEPT !.evt = [A.evt EXCEPT ![s].next = A.head]] EXCEPT !.head = s]
            BY <1>4 DEF ListAdd
        <3> QED
            BY <1>4, <3>1
    <2>3. [A.evt EXCEPT ![s].next = A.head] = [T.evt EXCEPT ![s] = [slot EXCEPT !.next = T.head]]
        BY <1>4, <2>1
    <2> HIDE DEF L
    <2> QED
        BY <1>4, <2>2, <2>3
<1>6. L.evt[s] = [next |-> T.head, cb |-> c, timeout |-> t, period |-> t,
                  curSysTick |-> tick, isBusy |-> FALSE,
                  isRunning |-> T.evt[s].isRunning, used |-> TRUE]
    <2> HIDE DEF slot, tick, s, L
    <2>1. L.evt[s] = [slot EXCEPT !.next = T.head]
        BY <1>1, <1>2, <1>5 DEF Control
    <2> QED
        BY <1>3, <2>1
<1>7. \A q \in Slots \ {s} : L.evt[q] = T.evt[q]
    <2> HIDE DEF slot, s, L
    <2> QED
        BY <1>1, <1>2, <1>5 DEF Control
<1>8. L.evt \in [Slots -> Event]
    <2>1. T.evt[s].isRunning \in BOOLEAN /\ T.evt[s].curSysTick \in Ticks
        BY <1>2 DEF Event
    <2>2. tick \in Ticks /\ t \in Nat
        BY <2>1, TimeAssumption
    <2> HIDE DEF tick, s, slot, L
    <2>3. L.evt[s] \in Event
        BY <1>2, <1>6, <2>1, <2>2 DEF Event
    <2>4. \A q \in Slots : L.evt[q] \in Event
        BY <1>2, <1>7, <2>3 DEF Control
    <2>5. DOMAIN L.evt = Slots /\ L.evt = [q \in Slots |-> L.evt[q]]
        BY <1>2, <1>5 DEF Control
    <2> QED
        BY <2>4, <2>5
<1> HIDE DEF s, tick, slot, A, L
<1>9. UsedSlots(L) = UsedSlots(T) \cup {s}
    BY <1>1, <1>6, <1>7 DEF UsedSlots
<1>10. L.used_num = Cardinality(UsedSlots(L))
    <2>1. Cardinality(UsedSlots(L)) = Cardinality(UsedSlots(T)) + 1
        BY <1>1, <1>9, UsedFinite, FS_AddElement
    <2> QED
        BY <1>5, <2>1 DEF ControlOK
<1>11. L \in Control
    <2>1. L.used_num \in 0 .. TIMER_EVENT_NUM
        BY <1>10, UsedFinite
    <2> QED
        BY <1>1, <1>2, <1>5, <1>8, <2>1 DEF Control
<1>12. PICK r \in [Slots -> Nat], B \in Nat : Ranked(T, r, B)
    BY DEF ControlOK
<1> DEFINE rr == [r EXCEPT ![s] = B + 1]
<1>13. rr \in [Slots -> Nat] /\ rr[s] = B + 1 /\ \A q \in Slots \ {s} : rr[q] = r[q]
    BY <1>1
<1>13a. B + 1 \in Nat /\ \A q \in UsedSlots(T) : q \in Slots /\ q # s /\ q # NULL /\ r[q] \in Nat
    BY <1>1 DEF UsedSlots, Slots
<1>13b. /\ L.evt[s].next = T.head /\ s # NULL
        /\ \A q \in UsedSlots(T) : L.evt[q].next = T.evt[q].next
    BY <1>1, <1>6, <1>7, <1>13a DEF Slots
<1>14. Ranked(L, rr, B + 1)
    <2> HIDE DEF rr
    <2>1. L.head \in UsedSlots(L) /\ L.head # NULL
        BY <1>5, <1>9, <1>13b
    <2>2. \A q \in UsedSlots(L) :
            /\ L.evt[q].next \in UsedSlots(L) \cup {NULL}
            /\ L.evt[q].next # NULL => rr[L.evt[q].next] < rr[q]
            /\ L.evt[q].next # L.head
            /\ rr[q] <= B + 1
        <3> SUFFICES ASSUME NEW q \in UsedSlots(L)
                     PROVE  /\ L.evt[q].next \in UsedSlots(L) \cup {NULL}
                            /\ L.evt[q].next # NULL => rr[L.evt[q].next] < rr[q]
                            /\ L.evt[q].next # L.head
                            /\ rr[q] <= B + 1
            OBVIOUS
        <3>1. CASE q = s
            <4>1. L.evt[q].next \in UsedSlots(T) \cup {NULL}
                BY <1>12, <1>13b, <3>1 DEF Ranked
            <4>2. \A x \in UsedSlots(T) : rr[x] <= B
                BY <1>12, <1>13, <1>13a DEF Ranked
            <4> QED
                BY <1>5, <1>9, <1>13, <1>13a, <1>13b, <3>1, <4>1, <4>2
        <3>2. CASE q # s
            <4>1. q \in UsedSlots(T)
                BY <1>9, <3>2
            <4>2. L.evt[q].next \in UsedSlots(T) \cup {NULL}
                BY <1>12, <1>13b, <4>1 DEF Ranked
            <4>3. L.evt[q].next # NULL => rr[L.evt[q].next] < rr[q]
                BY <1>12, <1>13, <1>13a, <1>13b, <4>1, <4>2 DEF Ranked
            <4>4. rr[q] <= B
                BY <1>12, <1>13, <1>13a, <4>1 DEF Ranked
            <4>5. rr[q] \in Nat
                BY <1>13, <1>13a, <4>1
            <4> QED
                BY <1>5, <1>9, <1>13a, <1>13b, <4>2, <4>3, <4>4, <4>5
        <3> QED
            BY <3>1, <3>2
    <2>3. \A q \in UsedSlots(L) : q # L.head => \E p \in UsedSlots(L) : L.evt[p].next = q
        <3> SUFFICES ASSUME NEW q \in UsedSlots(T)
                     PROVE  \E p \in UsedSlots(L) : L.evt[p].next = q
            BY <1>5, <1>9
        <3>1. CASE q = T.head
            BY <1>9, <1>13b, <3>1
        <3>2. CASE q # T.head
            <4>1. PICK p \in UsedSlots(T) : T.evt[p].next = q
                BY <1>12, <3>2 DEF Ranked
            <4> QED
                BY <1>9, <1>13b, <4>1
        <3> QED
            BY <3>1, <3>2
    <2>4. \A p, q \in UsedSlots(L) :
            L.evt[p].next = L.evt[q].next /\ L.evt[p].next # NULL => p = q
        BY <1>9, <1>12, <1>13b DEF Ranked
    <2> QED
        BY <2>1, <2>2, <2>3, <2>4 DEF Ranked
<1>15. ControlOK(L)
    BY <1>10, <1>11, <1>13, <1>13a, <1>14 DEF ControlOK
<1>16. taskPost(T, c, t) = nearestUpdate(L)
    BY DEF taskPost, s, tick, slot, A, L
<1>17. /\ ControlOK(taskPost(T, c, t)) /\ taskPost(T, c, t).evt = L.evt
       /\ UsedSlots(taskPost(T, c, t)) = UsedSlots(L)
       /\ NearestOf(taskPost(T, c, t))
    BY <1>15, <1>16, NearestUpdateKeeps
<1>18. /\ L.evt[s].cb = c /\ ~L.evt[s].isBusy /\ L.evt[s].timeout = t
       /\ L.evt[s].period = t /\ L.evt[s].next = T.head
       /\ ~T.evt[s].isRunning => ~L.evt[s].isRunning /\ L.evt[s].curSysTick = clock
    BY <1>6 DEF tick
<1> QED
    BY <1>1, <1>7, <1>9, <1>17, <1>18 DEF s

\* The time charged to a timer is a number, across the wrap of the counter.
LEMMA ElapsedNat ==
    ASSUME NEW a \in Ticks, NEW b \in Ticks
    PROVE  /\ Elapsed(a, b) \in Nat
           /\ Elapsed(a, b) \div TicksPerMs \in Nat
           /\ Elapsed(a, b) % TicksPerMs \in 0 .. TicksPerMs - 1
<1>1. a - b \in Int /\ TickMod \in Nat \ {0} /\ TicksPerMs \in Nat \ {0}
    BY TimeAssumption DEF Ticks
<1>2. Elapsed(a, b) \in Nat
    BY <1>1 DEF Elapsed
<1> DEFINE e == Elapsed(a, b)
           n == TicksPerMs
<1> HIDE DEF e, n
<1>3. e \in Nat /\ n \in Nat \ {0}
    BY <1>1, <1>2 DEF e, n
<1>4. e \div n \in Nat
    BY <1>3
<1>5. e % n \in 0 .. n - 1
    BY <1>3
<1> QED
    BY <1>3, <1>4, <1>5 DEF e, n

\* What update charges timer q, and what is left of timeout t after charge d.
Charge(T, ms, q) == IF T.evt[q].isRunning THEN ms ELSE MsSince(T.evt[q])
Left(t, d) == IF t > d THEN t - d ELSE 0

\* Charging the elapsed time changes no link and no mark.
LEMMA UpdateKeeps ==
    ASSUME NEW T, ControlOK(T), NEW ms \in Nat, clock \in Ticks
    PROVE  /\ ControlOK(update(T, ms))
           /\ UsedSlots(update(T, ms)) = UsedSlots(T)
           /\ update(T, ms).head = T.head
           /\ \A q \in Slots : /\ update(T, ms).evt[q].cb = T.evt[q].cb
                               /\ update(T, ms).evt[q].isBusy = T.evt[q].isBusy
                               /\ update(T, ms).evt[q].next = T.evt[q].next
           /\ \A q \in Slots \ UsedSlots(T) : update(T, ms).evt[q] = T.evt[q]
           /\ \A q \in UsedSlots(T) :
                /\ Charge(T, ms, q) \in Nat
                /\ update(T, ms).evt[q].period = T.evt[q].period
                /\ update(T, ms).evt[q].isRunning
                /\ update(T, ms).evt[q].timeout = Left(T.evt[q].timeout, Charge(T, ms, q))
<1> DEFINE U == update(T, ms)
           ch(s) == IF T.evt[s].isRunning THEN ms ELSE MsSince(T.evt[s])
           left(s) == IF T.evt[s].timeout > ch(s) THEN T.evt[s].timeout - ch(s) ELSE 0
           ee == [s \in Slots |->
                    IF s \notin Listed(T) THEN T.evt[s]
                    ELSE [T.evt[s] EXCEPT !.timeout = left(s),
                                          !.isRunning = TRUE, !.curSysTick = 0]]
<1>1. T \in Control
    BY DEF ControlOK
<1>2. U = [T EXCEPT !.evt = ee]
    BY DEF update
<1>3. \A s \in Slots : left(s) \in Nat /\ ch(s) \in Nat
    <2> SUFFICES ASSUME NEW s \in Slots PROVE left(s) \in Nat /\ ch(s) \in Nat
        OBVIOUS
    <2>1. T.evt[s].curSysTick \in Ticks /\ T.evt[s].timeout \in Nat
        BY <1>1 DEF Control, Event
    <2>2. MsSince(T.evt[s]) \in Nat
        BY <2>1, ElapsedNat DEF MsSince
    <2>3. ch(s) \in Nat
        BY <2>2
    <2> HIDE DEF ch
    <2> QED
        BY <2>1, <2>3
<1> HIDE DEF left
<1>4. \A s \in Slots :
        /\ ee[s] \in Event
        /\ ee[s].cb = T.evt[s].cb /\ ee[s].isBusy = T.evt[s].isBusy
        /\ ee[s].used = T.evt[s].used /\ ee[s].next = T.evt[s].next
        /\ s \in Listed(T) => /\ ee[s].period = T.evt[s].period /\ ee[s].isRunning
                              /\ ee[s].timeout = left(s)
    <2> SUFFICES ASSUME NEW s \in Slots, s \in Listed(T)
                 PROVE  /\ ee[s] \in Event
                        /\ ee[s].cb = T.evt[s].cb /\ ee[s].isBusy = T.evt[s].isBusy
                        /\ ee[s].used = T.evt[s].used /\ ee[s].next = T.evt[s].next
                        /\ ee[s].period = T.evt[s].period /\ ee[s].isRunning
                        /\ ee[s].timeout = left(s)
        BY <1>1 DEF Control
    <2> DEFINE e == T.evt[s]
    <2>1. e \in Event
        BY <1>1 DEF Control
    <2>2. ee[s] = [e EXCEPT !.timeout = left(s), !.isRunning = TRUE, !.curSysTick = 0]
        OBVIOUS
    <2>3. 0 \in Ticks
        BY TimeAssumption DEF Ticks
    <2> HIDE DEF e, ee
    <2>4. ee[s] = [next |-> e.next, cb |-> e.cb, timeout |-> left(s), period |-> e.period,
                   curSysTick |-> 0, isBusy |-> e.isBusy, isRunning |-> TRUE,
                   used |-> e.used]
        BY <2>1, <2>2 DEF Event
    <2>5. ee[s] \in Event
        BY <1>3, <2>1, <2>3, <2>4 DEF Event
    <2> QED
        BY <2>4, <2>5 DEF e
<1>5. ee \in [Slots -> Event]
    BY <1>4
<1>5a. \A s \in Slots \ Listed(T) : ee[s] = T.evt[s]
    OBVIOUS
<1> HIDE DEF ee
<1>6. /\ U.head = T.head /\ U.used_num = T.used_num /\ U.evt = ee
      /\ U \in Control
    <2> HIDE DEF U
    <2> QED
        BY <1>1, <1>2, <1>5 DEF Control
<1>7. ControlOK(U) /\ UsedSlots(U) = UsedSlots(T)
    <2> HIDE DEF U
    <2> QED
        BY <1>4, <1>6, SameList
<1> HIDE DEF U
<1>8. \A q \in Slots : /\ U.evt[q].cb = T.evt[q].cb /\ U.evt[q].isBusy = T.evt[q].isBusy
                        /\ U.evt[q].next = T.evt[q].next
    BY <1>4, <1>6
<1>9. Listed(T) = UsedSlots(T) /\ UsedSlots(T) \subseteq Slots
    BY ListedIsUsed DEF UsedSlots
<1>10. \A q \in Slots \ UsedSlots(T) : U.evt[q] = T.evt[q]
    BY <1>5a, <1>6, <1>9
<1>11. \A q \in UsedSlots(T) : /\ ch(q) \in Nat /\ U.evt[q].period = T.evt[q].period
                               /\ U.evt[q].isRunning /\ U.evt[q].timeout = left(q)
    BY <1>3, <1>4, <1>6, <1>9
<1> QED
    BY <1>6, <1>7, <1>8, <1>10, <1>11 DEF U, left, Charge, Left

\* A cancel takes out the slot it names, or changes nothing.
LEMMA CancelDoes ==
    ASSUME NEW T, ControlOK(T), NEW h \in Slots \cup {NULL}
    PROVE  /\ ControlOK(taskCancel(T, h))
           /\ UsedSlots(taskCancel(T, h)) =
                IF CancelAllowed(T, h) THEN UsedSlots(T) \ {h} ELSE UsedSlots(T)
           /\ \A q \in Slots : taskCancel(T, h).evt[q].isBusy = T.evt[q].isBusy
           /\ \A q \in UsedSlots(taskCancel(T, h)) :
                taskCancel(T, h).evt[q].cb = T.evt[q].cb
<1>1. CASE CancelAllowed(T, h)
    <2>1. h \in UsedSlots(T)
        BY <1>1 DEF CancelAllowed, UsedSlots, NULL
    <2>2. taskCancel(T, h) = unon(T, h)
        BY <1>1 DEF taskCancel
    <2>3. \A q \in UsedSlots(unon(T, h)) : q \in Slots \ {h}
        BY <2>1, UnonDeletes DEF UsedSlots
    <2> QED
        BY <1>1, <2>1, <2>2, <2>3, UnonDeletes
<1>2. CASE ~CancelAllowed(T, h)
    BY <1>2 DEF taskCancel
<1> QED
    BY <1>1, <1>2

-----------------------------------------------------------------------------
(***************************************************************************)
(* The invariant holds initially, and every action preserves it.           *)
(***************************************************************************)
\* The empty pool.
LEMMA EmptyControlOK ==
    /\ ControlOK(EmptyControl)
    /\ UsedSlots(EmptyControl) = {}
    /\ \A s \in Slots : ~EmptyControl.evt[s].isBusy /\ ~EmptyControl.evt[s].used
<1>1. Blank \in Event
    BY TimeAssumption DEF Blank, Event, Ticks
<1>2. EmptyControl \in Control
    BY <1>1, PoolAssumption DEF EmptyControl, Control
<1>3. UsedSlots(EmptyControl) = {}
    BY DEF UsedSlots, EmptyControl, Blank
<1>4. Ranked(EmptyControl, [s \in Slots |-> 0], 0)
    BY <1>3 DEF Ranked, EmptyControl
<1>5. EmptyControl.used_num = Cardinality(UsedSlots(EmptyControl))
    BY <1>3, FS_EmptySet DEF EmptyControl
<1>6. [s \in Slots |-> 0] \in [Slots -> Nat]
    OBVIOUS
<1> QED
    BY <1>2, <1>3, <1>4, <1>5, <1>6 DEF ControlOK, EmptyControl, Blank

\* ev_timer_init establishes the invariant.
LEMMA InitIInv == Init => IInv
<1> SUFFICES ASSUME Init PROVE IInv
    OBVIOUS
<1>1. ControlOK(ev_timer) /\ UsedSlots(ev_timer) = {}
      /\ \A s \in Slots : ~ev_timer.evt[s].isBusy /\ ~ev_timer.evt[s].used
    BY EmptyControlOK DEF Init
<1>2. TypeOK
    BY <1>1, TimeAssumption DEF Init, TypeOK, ControlOK, Control, Ticks
<1>3. HandleExact /\ UntrackedNull
    BY <1>1, ClientsAssumption DEF Init, HandleExact, UntrackedNull, NULL, Slots
<1> QED
    BY <1>1, <1>2, <1>3 DEF Init, IInv, BusyIsRunning, CursorInUse

\* The hardware counter touches neither list nor pool.
LEMMA TickKeeps == IInv /\ Tick => IInv'
<1> SUFFICES ASSUME IInv, Tick PROVE IInv'
    OBVIOUS
<1>1. ev_timer' = ev_timer /\ UNCHANGED <<prevSysTick, remSysTick, pc, timerEvt, prev_head, handle, due>>
    BY DEF Tick
<1>2. clock' \in Ticks
    BY TimeAssumption DEF IInv, TypeOK, Tick, Ticks
<1>3. age' \in [Slots -> 0 .. AgeCap]
    <2> SUFFICES ASSUME NEW s \in Slots
                 PROVE  (IF ev_timer.evt[s].used /\ age[s] < AgeCap
                         THEN age[s] + 1 ELSE age[s]) \in 0 .. AgeCap
        BY DEF Tick
    <2>1. age[s] \in 0 .. AgeCap
        BY DEF IInv, TypeOK
    <2> QED
        BY <2>1, TimeAssumption
<1>4. TypeOK'
    BY <1>1, <1>2, <1>3 DEF IInv, TypeOK
<1>5. ControlOK(ev_timer)' /\ HandleExact' /\ UntrackedNull' /\ BusyIsRunning' /\ CursorInUse'
    BY <1>1 DEF IInv, ControlOK, Control, Ranked, UsedSlots, HandleExact, UntrackedNull,
                BusyIsRunning, CursorInUse
<1> QED
    BY <1>4, <1>5 DEF IInv

\* A client arms its timer, cancelling the one it held.
LEMMA ScheduleKeeps ==
    ASSUME NEW c \in Clients, NEW t \in Timeouts, IInv, Schedule(c, t)
    PROVE  IInv'
<1> USE DEF NULL
<1> DEFINE h == handle[c]
           T == taskCancel(ev_timer, h)
           f == FreeSlot(T)
           U == taskPost(T, c, t)
<1>1. /\ ClientMayRun(c) /\ ~PoolFull(T)
      /\ ev_timer' = U
      /\ age' = [age EXCEPT ![f] = 0]
      /\ handle' = [handle EXCEPT ![c] = IF c \in Tracked THEN f ELSE @]
      /\ due' = due \ {h}
      /\ UNCHANGED <<clock, prevSysTick, remSysTick, pc, timerEvt, prev_head>>
    BY DEF Schedule, Post
<1>2. /\ ControlOK(ev_timer) /\ clock \in Ticks /\ handle \in [Clients -> Slots \cup {NULL}]
      /\ h \in Slots \cup {NULL}
    BY DEF IInv, TypeOK
<1>3. /\ ControlOK(T)
      /\ UsedSlots(T) = IF CancelAllowed(ev_timer, h) THEN UsedSlots(ev_timer) \ {h}
                                                      ELSE UsedSlots(ev_timer)
      /\ \A q \in Slots : T.evt[q].isBusy = ev_timer.evt[q].isBusy
      /\ \A q \in UsedSlots(T) : T.evt[q].cb = ev_timer.evt[q].cb
    BY <1>2, CancelDoes
<1> HIDE DEF T
<1>4. /\ f \in Slots \ UsedSlots(T)
      /\ ControlOK(U)
      /\ UsedSlots(U) = UsedSlots(T) \cup {f}
      /\ U.evt[f].cb = c /\ ~U.evt[f].isBusy
      /\ \A q \in Slots \ {f} : U.evt[q].cb = T.evt[q].cb /\ U.evt[q].isBusy = T.evt[q].isBusy
    BY <1>1, <1>2, <1>3, PostAdds
<1> HIDE DEF U, f, h
<1>5. TypeOK'
    <2>1. age' \in [Slots -> 0 .. AgeCap]
        BY <1>1, <1>4, TimeAssumption DEF IInv, TypeOK
    <2>2. handle' \in [Clients -> Slots \cup {NULL}]
        BY <1>1, <1>2, <1>4
    <2>3. ev_timer' \in Control
        BY <1>1, <1>4 DEF ControlOK
    <2> QED
        BY <1>1, <2>1, <2>2, <2>3 DEF IInv, TypeOK, Control
<1>6. UsedSlots(ev_timer)' = UsedSlots(U) /\ ControlOK(ev_timer)'
    <2>1. ControlOK(ev_timer')
        BY <1>1, <1>4
    <2>2. UsedSlots(ev_timer') = UsedSlots(U)
        BY <1>1
    <2> QED
        BY <2>1, <2>2
<1>7. /\ \A q \in Slots : ev_timer.evt[q].used <=> q \in UsedSlots(ev_timer)
      /\ \A q \in Slots : U.evt[q].used <=> q \in UsedSlots(U)
      /\ UsedSlots(T) \subseteq UsedSlots(ev_timer)
    BY <1>3 DEF UsedSlots
<1>8. c \notin Tracked => UsedSlots(T) = UsedSlots(ev_timer)
    BY <1>3 DEF IInv, UntrackedNull, CancelAllowed, h
<1>9. c \in Tracked => \A q \in UsedSlots(T) : ev_timer.evt[q].cb # c
    <2> SUFFICES ASSUME c \in Tracked, NEW q \in UsedSlots(T), ev_timer.evt[q].cb = c
                 PROVE  FALSE
        OBVIOUS
    <2>1. q \in Slots /\ ev_timer.evt[q].used
        BY <1>7 DEF UsedSlots
    <2>2. h = q
        BY <2>1 DEF IInv, HandleExact, h
    <2>3. ~CancelAllowed(ev_timer, h)
        BY <1>3, <2>2
    <2>4. ev_timer.evt[q].isBusy
        BY <2>1, <2>2, <2>3 DEF CancelAllowed, Slots
    <2>5. InOwnCallback(c)
        BY <2>1, <2>4 DEF IInv, BusyIsRunning, InOwnCallback
    <2> QED
        BY <1>1, <2>5 DEF ClientMayRun
<1>10. HandleExact'
    <2> SUFFICES ASSUME NEW d \in Tracked, NEW s \in Slots
                 PROVE  (U.evt[s].used /\ U.evt[s].cb = d) <=> handle'[d] = s
        BY <1>1 DEF HandleExact
    <2>1. d \in Clients
        BY ClientsAssumption
    <2>2. (ev_timer.evt[s].used /\ ev_timer.evt[s].cb = d) <=> handle[d] = s
        BY DEF IInv, HandleExact
    <2>3. CASE d = c
        <3>1. handle'[d] = f
            BY <1>1, <1>2, <2>1, <2>3
        <3> QED
            BY <1>3, <1>4, <1>7, <1>9, <2>3, <3>1
    <2>4. CASE d # c
        <3>1. handle'[d] = handle[d]
            BY <1>1, <1>2, <2>1, <2>4
        <3>2. s = h => ev_timer.evt[s].cb # d
            BY <2>2, <2>4 DEF h, IInv, HandleExact, UntrackedNull, Slots
        <3>3. CASE s = f
            <4>1. handle[d] # f
                BY <1>3, <1>4, <1>7, <2>2, <3>2, <3>3
            <4> QED
                BY <1>4, <2>4, <3>1, <3>3, <4>1
        <3>4. CASE s # f
            <4>1. s \in UsedSlots(ev_timer) /\ s # h => s \in UsedSlots(T)
                BY <1>3
            <4>2. U.evt[s].used <=> s \in UsedSlots(T)
                BY <1>4, <1>7, <3>4
            <4>3. s \in UsedSlots(T) => U.evt[s].cb = ev_timer.evt[s].cb
                BY <1>3, <1>4, <3>4
            <4> QED
                BY <1>7, <2>2, <3>1, <3>2, <4>1, <4>2, <4>3
        <3> QED
            BY <3>3, <3>4
    <2> QED
        BY <2>3, <2>4
<1>11. UntrackedNull'
    BY <1>1, <1>2 DEF IInv, UntrackedNull
<1>12. \A s \in UsedSlots(ev_timer) : ev_timer.evt[s].isBusy => s \in UsedSlots(T)
    BY <1>3 DEF CancelAllowed
<1>13. BusyIsRunning'
    <2> SUFFICES ASSUME NEW s \in Slots, U.evt[s].isBusy
                 PROVE  pc' = "cb" /\ s = timerEvt' /\ U.evt[s].used
        BY <1>1 DEF BusyIsRunning
    <2>1. s # f /\ ev_timer.evt[s].isBusy
        BY <1>3, <1>4
    <2>2. pc = "cb" /\ s = timerEvt /\ ev_timer.evt[s].used
        BY <2>1 DEF IInv, BusyIsRunning
    <2> QED
        BY <1>1, <1>4, <1>7, <1>12, <2>1, <2>2
<1>14. CursorInUse'
    <2>1. pc # "walk"
        BY <1>1 DEF ClientMayRun
    <2>2. pc = "cb" => timerEvt \in UsedSlots(T) /\ ev_timer.evt[timerEvt].isBusy
                       /\ timerEvt \in Slots
        BY <1>12 DEF IInv, CursorInUse, UsedSlots
    <2> QED
        BY <1>1, <1>3, <1>4, <1>6, <2>1, <2>2 DEF CursorInUse
<1> QED
    BY <1>5, <1>6, <1>10, <1>11, <1>13, <1>14 DEF IInv

\* A client cancels its timer, from the main loop or from a callback.
LEMMA CancelKeeps ==
    ASSUME NEW c \in Clients, IInv, Cancel(c)
    PROVE  IInv'
<1> USE DEF NULL
<1> DEFINE h == handle[c]
           T == taskCancel(ev_timer, h)
<1>1. /\ pc \in {"main", "cb"} /\ CancelAllowed(ev_timer, h)
      /\ ev_timer' = T
      /\ handle' = [handle EXCEPT ![c] = NULL]
      /\ due' = due \ {h}
      /\ UNCHANGED <<clock, prevSysTick, remSysTick, pc, timerEvt, prev_head, age>>
    BY DEF Cancel
<1>2. ControlOK(ev_timer) /\ handle \in [Clients -> Slots \cup {NULL}] /\ h \in Slots \cup {NULL}
    BY DEF IInv, TypeOK
<1>3. /\ ControlOK(T)
      /\ UsedSlots(T) = UsedSlots(ev_timer) \ {h}
      /\ \A q \in Slots : T.evt[q].isBusy = ev_timer.evt[q].isBusy
      /\ \A q \in UsedSlots(T) : T.evt[q].cb = ev_timer.evt[q].cb
    BY <1>1, <1>2, CancelDoes
<1> HIDE DEF T
<1>4. ControlOK(ev_timer') /\ UsedSlots(ev_timer') = UsedSlots(T)
    BY <1>1, <1>3
<1>5. TypeOK'
    <2>1. ev_timer' \in Control
        BY <1>4 DEF ControlOK
    <2>2. handle' \in [Clients -> Slots \cup {NULL}]
        BY <1>1, <1>2
    <2> QED
        BY <1>1, <2>1, <2>2 DEF IInv, TypeOK, Control
<1>6. /\ \A q \in Slots : ev_timer.evt[q].used <=> q \in UsedSlots(ev_timer)
      /\ \A q \in Slots : T.evt[q].used <=> q \in UsedSlots(T)
    BY DEF UsedSlots
<1>7. c \in Tracked
    BY <1>1 DEF IInv, UntrackedNull, CancelAllowed
<1>8. HandleExact'
    <2> SUFFICES ASSUME NEW d \in Tracked, NEW s \in Slots
                 PROVE  (T.evt[s].used /\ T.evt[s].cb = d) <=> handle'[d] = s
        BY <1>1 DEF HandleExact
    <2>1. d \in Clients /\ s # NULL
        BY ClientsAssumption DEF Slots
    <2>2. /\ (ev_timer.evt[s].used /\ ev_timer.evt[s].cb = d) <=> handle[d] = s
          /\ (ev_timer.evt[s].used /\ ev_timer.evt[s].cb = c) <=> handle[c] = s
        BY <1>7 DEF IInv, HandleExact
    <2>3. handle'[d] = IF d = c THEN NULL ELSE handle[d]
        BY <1>1, <1>2, <2>1
    <2> QED
        BY <1>3, <1>6, <2>1, <2>2, <2>3
<1>9. UntrackedNull'
    BY <1>1, <1>2 DEF IInv, UntrackedNull
<1>10. \A s \in UsedSlots(ev_timer) : ev_timer.evt[s].isBusy => s \in UsedSlots(T)
    BY <1>1, <1>3 DEF CancelAllowed
<1>11. BusyIsRunning'
    BY <1>1, <1>3, <1>6, <1>10 DEF IInv, BusyIsRunning
<1>12. CursorInUse'
    <2>1. pc = "cb" => timerEvt \in UsedSlots(T) /\ ev_timer.evt[timerEvt].isBusy
                       /\ timerEvt \in Slots
        BY <1>10 DEF IInv, CursorInUse, UsedSlots
    <2> QED
        BY <1>1, <1>3, <1>4, <2>1 DEF CursorInUse
<1> QED
    BY <1>4, <1>5, <1>8, <1>9, <1>11, <1>12 DEF IInv

\* The reset after an exhausted pool starts from the empty pool.
LEMMA PostExhaustedKeeps ==
    ASSUME NEW c \in Clients, PostExhausted(c)
    PROVE  IInv'
<1>1. /\ ev_timer' = EmptyControl /\ clock' = 0 /\ prevSysTick' = 0 /\ remSysTick' = 0
      /\ pc' = "main" /\ timerEvt' = NULL /\ prev_head' = NULL
      /\ handle' = [d \in Clients |-> NULL] /\ age' = [s \in Slots |-> 0] /\ due' = {}
    BY DEF PostExhausted
<1>2. ControlOK(ev_timer') /\ \A s \in Slots : ~ev_timer'.evt[s].isBusy /\ ~ev_timer'.evt[s].used
    BY <1>1, EmptyControlOK
<1>3. TypeOK'
    BY <1>1, <1>2, TimeAssumption DEF TypeOK, ControlOK, Control, Ticks
<1>4. HandleExact' /\ UntrackedNull'
    BY <1>1, <1>2, ClientsAssumption DEF HandleExact, UntrackedNull, NULL, Slots
<1>5. BusyIsRunning' /\ CursorInUse'
    BY <1>1, <1>2 DEF BusyIsRunning, CursorInUse
<1> QED
    BY <1>2, <1>3, <1>4, <1>5 DEF IInv

\* ev_timer_process charges the elapsed time and starts the walk.
LEMMA ProcessKeeps == IInv /\ Process => IInv'
<1> SUFFICES ASSUME IInv, Process PROVE IInv'
    OBVIOUS
<1>1. /\ pc = "main" /\ prevSysTick' = clock
      /\ remSysTick' = (remSysTick + (Lag % TicksPerMs)) % TicksPerMs
      /\ ev_timer' = IF UpdateTime > 0 THEN update(ev_timer, UpdateTime) ELSE ev_timer
      /\ pc' = "walk" /\ timerEvt' = ev_timer.head /\ prev_head' = ev_timer.head
      /\ due' \subseteq Listed(ev_timer)
      /\ UNCHANGED <<clock, handle, age>>
    BY DEF Process
<1>2. ControlOK(ev_timer) /\ clock \in Ticks /\ prevSysTick \in Ticks
      /\ remSysTick \in 0 .. TicksPerMs - 1 /\ TicksPerMs \in Nat \ {0}
    BY TimeAssumption DEF IInv, TypeOK
<1>3. Lag \div TicksPerMs \in Nat /\ Lag % TicksPerMs \in 0 .. TicksPerMs - 1
    BY <1>2, ElapsedNat DEF Lag
<1>4. remSysTick + (Lag % TicksPerMs) \in Nat
    BY <1>2, <1>3
<1>5. (remSysTick + (Lag % TicksPerMs)) \div TicksPerMs \in Nat /\ remSysTick' \in 0 .. TicksPerMs - 1
    <2> DEFINE x == remSysTick + (Lag % TicksPerMs)
               n == TicksPerMs
    <2>1. x \in Nat /\ n \in Nat \ {0} /\ remSysTick' = x % n
        BY <1>1, <1>2, <1>4
    <2> HIDE DEF x, n
    <2>2. x \div n \in Nat /\ x % n \in 0 .. n - 1
        BY <2>1
    <2> QED
        BY <2>1, <2>2 DEF x, n
<1>6. UpdateTime \in Nat
    BY <1>3, <1>5 DEF UpdateTime
<1>7. /\ ControlOK(ev_timer')
      /\ UsedSlots(ev_timer') = UsedSlots(ev_timer)
      /\ ev_timer'.head = ev_timer.head
      /\ \A q \in Slots : /\ ev_timer'.evt[q].cb = ev_timer.evt[q].cb
                          /\ ev_timer'.evt[q].isBusy = ev_timer.evt[q].isBusy
    BY <1>1, <1>2, <1>6, UpdateKeeps
<1>8. \A q \in Slots : ev_timer'.evt[q].used = ev_timer.evt[q].used
    <2>1. \A q \in Slots : ev_timer'.evt[q].used \in BOOLEAN /\ ev_timer.evt[q].used \in BOOLEAN
        BY <1>2, <1>7 DEF ControlOK, Control, Event
    <2> QED
        BY <1>7, <2>1 DEF UsedSlots
<1>9. ev_timer.head \in UsedSlots(ev_timer) \cup {NULL}
    BY <1>2 DEF ControlOK, Ranked
<1>10. TypeOK'
    <2>1. ev_timer' \in Control /\ ev_timer.head \in Slots \cup {NULL}
        BY <1>2, <1>7 DEF ControlOK, Control
    <2>2. due' \subseteq Slots
        BY <1>1 DEF Listed
    <2> QED
        BY <1>1, <1>2, <1>5, <2>1, <2>2 DEF IInv, TypeOK, Control
<1>11. HandleExact' /\ UntrackedNull'
    BY <1>1, <1>7, <1>8 DEF IInv, HandleExact, UntrackedNull
<1>12. BusyIsRunning'
    BY <1>1, <1>7 DEF IInv, BusyIsRunning
<1>13. CursorInUse'
    BY <1>1, <1>7, <1>9 DEF CursorInUse
<1> QED
    BY <1>7, <1>10, <1>11, <1>12, <1>13 DEF IInv

SetBusy(T, s, b) == [T EXCEPT !.evt[s].isBusy = b]

\* Marking a slot busy or not busy.
LEMMA BusyKeeps ==
    ASSUME NEW T, ControlOK(T), NEW s \in Slots, NEW b \in BOOLEAN
    PROVE  /\ ControlOK(SetBusy(T, s, b)) /\ UsedSlots(SetBusy(T, s, b)) = UsedSlots(T) /\ SetBusy(T, s, b).head = T.head
           /\ SetBusy(T, s, b).evt[s].isBusy = b
           /\ \A q \in Slots \ {s} : SetBusy(T, s, b).evt[q].isBusy = T.evt[q].isBusy
           /\ \A q \in Slots : /\ SetBusy(T, s, b).evt[q].used = T.evt[q].used
                               /\ SetBusy(T, s, b).evt[q].cb = T.evt[q].cb
                               /\ SetBusy(T, s, b).evt[q].next = T.evt[q].next
                               /\ SameTimes(SetBusy(T, s, b).evt[q], T.evt[q])
<1> DEFINE e == T.evt[s]
           d == [e EXCEPT !.isBusy = b]
           U == SetBusy(T, s, b)
<1>1. T \in Control /\ e \in Event
    BY DEF ControlOK, Control
<1>2. U = [T EXCEPT !.evt = [T.evt EXCEPT ![s] = d]]
    BY <1>1 DEF Control, SetBusy
<1>3. /\ d \in Event /\ d.isBusy = b
      /\ d.used = e.used /\ d.cb = e.cb /\ d.next = e.next /\ SameTimes(d, e)
    <2> HIDE DEF e
    <2>1. d = [next |-> e.next, cb |-> e.cb, timeout |-> e.timeout, period |-> e.period,
               curSysTick |-> e.curSysTick, isBusy |-> b, isRunning |-> e.isRunning,
               used |-> e.used]
        BY <1>1 DEF Event
    <2> HIDE DEF d
    <2>2. d \in Event
        BY <1>1, <2>1 DEF Event
    <2> QED
        BY <2>1, <2>2 DEF SameTimes
<1> HIDE DEF d, U
<1>4. /\ U.head = T.head /\ U.used_num = T.used_num /\ U \in Control
      /\ U.evt = [T.evt EXCEPT ![s] = d]
    BY <1>1, <1>2, <1>3 DEF Control
<1>5. U.evt[s] = d /\ \A q \in Slots \ {s} : U.evt[q] = T.evt[q]
    BY <1>1, <1>4 DEF Control
<1>6. \A q \in Slots : /\ U.evt[q].used = T.evt[q].used /\ U.evt[q].cb = T.evt[q].cb
                       /\ U.evt[q].next = T.evt[q].next /\ SameTimes(U.evt[q], T.evt[q])
    BY <1>3, <1>5 DEF SameTimes
<1>7. ControlOK(U) /\ UsedSlots(U) = UsedSlots(T)
    BY <1>4, <1>6, SameList
<1> QED
    BY <1>3, <1>4, <1>5, <1>6, <1>7 DEF U

\* The walk passes a timer that is not due.
LEMMA WalkPastKeeps == IInv /\ WalkPast => IInv'
<1> SUFFICES ASSUME IInv, WalkPast PROVE IInv'
    OBVIOUS
<1>1. /\ pc = "walk" /\ timerEvt # NULL /\ timerEvt' = ev_timer.evt[timerEvt].next
      /\ UNCHANGED <<ev_timer, clock, prevSysTick, remSysTick, pc, prev_head, handle, age, due>>
    BY DEF WalkPast
<1>2. timerEvt \in UsedSlots(ev_timer) /\ ControlOK(ev_timer)
    BY <1>1 DEF IInv, CursorInUse
<1>3. timerEvt' \in UsedSlots(ev_timer) \cup {NULL}
    BY <1>1, <1>2 DEF ControlOK, Ranked
<1>4. UsedSlots(ev_timer') = UsedSlots(ev_timer) /\ ControlOK(ev_timer')
    BY <1>1, <1>2
<1>5. TypeOK'
    BY <1>1, <1>3 DEF IInv, TypeOK, UsedSlots
<1>6. HandleExact' /\ UntrackedNull' /\ BusyIsRunning'
    BY <1>1 DEF IInv, HandleExact, UntrackedNull, BusyIsRunning
<1>7. CursorInUse'
    BY <1>1, <1>3, <1>4 DEF CursorInUse
<1> QED
    BY <1>4, <1>5, <1>6, <1>7 DEF IInv

\* The walk marks a due timer busy and calls it.
LEMMA FireKeeps == IInv /\ Fire => IInv'
<1> SUFFICES ASSUME IInv, Fire PROVE IInv'
    OBVIOUS
<1>1. /\ pc = "walk" /\ timerEvt # NULL
      /\ ev_timer' = [ev_timer EXCEPT !.evt[timerEvt].isBusy = TRUE]
      /\ pc' = "cb" /\ due' \subseteq due
      /\ UNCHANGED <<clock, prevSysTick, remSysTick, timerEvt, prev_head, handle, age>>
    BY DEF Fire
<1>2. timerEvt \in UsedSlots(ev_timer) /\ ControlOK(ev_timer) /\ timerEvt \in Slots
    BY <1>1 DEF IInv, CursorInUse, UsedSlots
<1>3. /\ ControlOK(ev_timer') /\ UsedSlots(ev_timer') = UsedSlots(ev_timer)
      /\ ev_timer'.evt[timerEvt].isBusy
      /\ \A q \in Slots \ {timerEvt} : ev_timer'.evt[q].isBusy = ev_timer.evt[q].isBusy
      /\ \A q \in Slots : /\ ev_timer'.evt[q].used = ev_timer.evt[q].used
                          /\ ev_timer'.evt[q].cb = ev_timer.evt[q].cb
    <2> DEFINE b == TRUE
    <2>1. ev_timer' = SetBusy(ev_timer, timerEvt, b)
        BY <1>1 DEF SetBusy
    <2>2. b \in BOOLEAN
        OBVIOUS
    <2> HIDE DEF b
    <2>3. /\ ControlOK(ev_timer') /\ UsedSlots(ev_timer') = UsedSlots(ev_timer)
          /\ ev_timer'.evt[timerEvt].isBusy = b
          /\ \A q \in Slots \ {timerEvt} : ev_timer'.evt[q].isBusy = ev_timer.evt[q].isBusy
          /\ \A q \in Slots : /\ ev_timer'.evt[q].used = ev_timer.evt[q].used
                              /\ ev_timer'.evt[q].cb = ev_timer.evt[q].cb
        BY <1>2, <2>1, <2>2, BusyKeeps
    <2> QED
        BY <2>3 DEF b
<1>4. TypeOK'
    BY <1>1, <1>3 DEF IInv, TypeOK, ControlOK, Control
<1>5. HandleExact' /\ UntrackedNull'
    BY <1>1, <1>3 DEF IInv, HandleExact, UntrackedNull
<1>6. BusyIsRunning'
    BY <1>1, <1>2, <1>3 DEF IInv, BusyIsRunning, UsedSlots
<1>7. CursorInUse'
    BY <1>1, <1>2, <1>3 DEF CursorInUse
<1> QED
    BY <1>3, <1>4, <1>5, <1>6, <1>7 DEF IInv

\* A callback ends its timer; the walk goes on from a slot that was freed.
LEMMA ReturnStopKeeps == IInv /\ ReturnStop => IInv'
<1> SUFFICES ASSUME IInv, ReturnStop PROVE IInv'
    OBVIOUS
<1> USE DEF NULL
<1> DEFINE T == unon(ev_timer, timerEvt)
           c == ev_timer.evt[timerEvt].cb
<1>1. /\ pc = "cb" /\ ev_timer' = [T EXCEPT !.evt[timerEvt].isBusy = FALSE]
      /\ pc' = "walk"
      /\ timerEvt' = IF prev_head # T.head THEN T.head ELSE T.evt[timerEvt].next
      /\ prev_head' = T.head
      /\ handle' = [handle EXCEPT ![c] = NULL]
      /\ UNCHANGED <<clock, prevSysTick, remSysTick, due, age>>
    BY DEF ReturnStop, Resume
<1>2. timerEvt \in UsedSlots(ev_timer) /\ ControlOK(ev_timer) /\ timerEvt \in Slots
    BY <1>1 DEF IInv, CursorInUse, UsedSlots
<1>3. /\ ControlOK(T) /\ UsedSlots(T) = UsedSlots(ev_timer) \ {timerEvt}
      /\ T.evt[timerEvt].next \in UsedSlots(T) \cup {NULL}
      /\ \A q \in Slots \ {timerEvt} : /\ T.evt[q].cb = ev_timer.evt[q].cb
                                       /\ T.evt[q].isBusy = ev_timer.evt[q].isBusy
    BY <1>2, UnonDeletes
<1> HIDE DEF T
<1>4. /\ ControlOK(ev_timer') /\ UsedSlots(ev_timer') = UsedSlots(T)
      /\ ~ev_timer'.evt[timerEvt].isBusy
      /\ \A q \in Slots \ {timerEvt} : ev_timer'.evt[q].isBusy = T.evt[q].isBusy
      /\ \A q \in Slots : ev_timer'.evt[q].cb = T.evt[q].cb
    <2> DEFINE b == FALSE
    <2>1. ev_timer' = SetBusy(T, timerEvt, b)
        BY <1>1 DEF SetBusy
    <2>2. b \in BOOLEAN
        OBVIOUS
    <2> HIDE DEF b
    <2>3. /\ ControlOK(ev_timer') /\ UsedSlots(ev_timer') = UsedSlots(T)
          /\ ev_timer'.evt[timerEvt].isBusy = b
          /\ \A q \in Slots \ {timerEvt} : ev_timer'.evt[q].isBusy = T.evt[q].isBusy
          /\ \A q \in Slots : ev_timer'.evt[q].cb = T.evt[q].cb
        BY <1>2, <1>3, <2>1, <2>2, BusyKeeps
    <2> QED
        BY <2>3 DEF b
<1>5. timerEvt' \in UsedSlots(T) \cup {NULL} /\ T.head \in UsedSlots(T) \cup {NULL}
    BY <1>1, <1>3 DEF ControlOK, Ranked
<1>6. TypeOK'
    <2>1. ev_timer' \in Control
        BY <1>4 DEF ControlOK
    <2>2. handle' \in [Clients -> Slots \cup {NULL}]
        BY <1>1 DEF IInv, TypeOK
    <2>3. timerEvt' \in Slots \cup {NULL} /\ prev_head' \in Slots \cup {NULL}
        BY <1>1, <1>5 DEF UsedSlots
    <2> QED
        BY <1>1, <2>1, <2>2, <2>3 DEF IInv, TypeOK, Control
<1>7. /\ \A q \in Slots : ev_timer.evt[q].used <=> q \in UsedSlots(ev_timer)
      /\ \A q \in Slots : ev_timer'.evt[q].used <=> q \in UsedSlots(ev_timer')
    BY DEF UsedSlots
<1>8. HandleExact'
    <2> SUFFICES ASSUME NEW d \in Tracked, NEW s \in Slots
                 PROVE  (ev_timer'.evt[s].used /\ ev_timer'.evt[s].cb = d) <=> handle'[d] = s
        BY DEF HandleExact
    <2>1. d \in Clients /\ s # NULL
        BY ClientsAssumption DEF Slots
    <2>2. /\ (ev_timer.evt[s].used /\ ev_timer.evt[s].cb = d) <=> handle[d] = s
          /\ (ev_timer.evt[timerEvt].used /\ c = d) <=> handle[d] = timerEvt
        BY <1>2 DEF IInv, HandleExact
    <2>3. handle'[d] = IF d = c THEN NULL ELSE handle[d]
        BY <1>1, <2>1 DEF IInv, TypeOK
    <2>4. ev_timer.evt[timerEvt].used
        BY <1>2, <1>7
    <2>5. CASE s = timerEvt
        BY <1>3, <1>4, <1>7, <2>1, <2>2, <2>3, <2>4, <2>5
    <2>6. CASE s # timerEvt
        <3>1. ev_timer'.evt[s].used <=> ev_timer.evt[s].used
            BY <1>3, <1>4, <1>7, <2>6
        <3>2. ev_timer'.evt[s].cb = ev_timer.evt[s].cb
            BY <1>3, <1>4, <2>6
        <3> QED
            BY <2>1, <2>2, <2>3, <2>4, <2>6, <3>1, <3>2
    <2> QED
        BY <2>5, <2>6
<1>9. UntrackedNull'
    BY <1>1 DEF IInv, UntrackedNull, TypeOK
<1>10. BusyIsRunning'
    BY <1>1, <1>3, <1>4 DEF IInv, BusyIsRunning
<1>11. CursorInUse'
    BY <1>1, <1>4, <1>5 DEF CursorInUse
<1> QED
    BY <1>4, <1>6, <1>8, <1>9, <1>10, <1>11 DEF IInv

\* A callback arms its timer again.
LEMMA ReturnAgainKeeps ==
    ASSUME NEW t \in Timeouts \cup {0}, IInv, ReturnAgain(t)
    PROVE  IInv'
<1> USE DEF NULL
<1> DEFINE p == IF t = 0 THEN ev_timer.evt[timerEvt].period ELSE t
           T == [ev_timer EXCEPT !.evt[timerEvt].period = p, !.evt[timerEvt].timeout = p]
<1>1. /\ pc = "cb" /\ ev_timer' = [T EXCEPT !.evt[timerEvt].isBusy = FALSE]
      /\ pc' = "walk"
      /\ timerEvt' = IF prev_head # T.head THEN T.head ELSE T.evt[timerEvt].next
      /\ prev_head' = T.head
      /\ age' = [age EXCEPT ![timerEvt] = IF Lag < AgeCap THEN Lag ELSE AgeCap]
      /\ UNCHANGED <<clock, prevSysTick, remSysTick, due, handle>>
    BY DEF ReturnAgain, Resume
<1>2. timerEvt \in UsedSlots(ev_timer) /\ ControlOK(ev_timer) /\ timerEvt \in Slots
    BY <1>1 DEF IInv, CursorInUse, UsedSlots
<1> DEFINE e == ev_timer.evt[timerEvt]
           d == [e EXCEPT !.period = p, !.timeout = p]
<1>3. ev_timer \in Control /\ e \in Event
    BY <1>2 DEF ControlOK, Control
<1>4. p \in Nat
    BY <1>3, TimeAssumption DEF Event
<1>5. T = [ev_timer EXCEPT !.evt = [ev_timer.evt EXCEPT ![timerEvt] = d]]
    BY <1>2, <1>3 DEF Control
<1> HIDE DEF p
<1>6. /\ d \in Event /\ d.isBusy = e.isBusy
      /\ d.used = e.used /\ d.cb = e.cb /\ d.next = e.next
    <2> HIDE DEF e
    <2>1. d = [next |-> e.next, cb |-> e.cb, timeout |-> p, period |-> p,
               curSysTick |-> e.curSysTick, isBusy |-> e.isBusy,
               isRunning |-> e.isRunning, used |-> e.used]
        <3>1. d = [e EXCEPT !.period = p, !.timeout = p] /\ e \in Event
            BY <1>3
        <3> HIDE DEF d
        <3> QED
            BY <3>1 DEF Event
    <2> HIDE DEF d
    <2>2. d \in Event
        BY <1>3, <1>4, <2>1 DEF Event
    <2> QED
        BY <2>1, <2>2
<1> HIDE DEF T, d
<1>7. /\ T.head = ev_timer.head /\ T.used_num = ev_timer.used_num /\ T \in Control
      /\ T.evt = [ev_timer.evt EXCEPT ![timerEvt] = d]
    BY <1>3, <1>5, <1>6 DEF Control
<1>8. \A q \in Slots : /\ T.evt[q].used = ev_timer.evt[q].used
                       /\ T.evt[q].cb = ev_timer.evt[q].cb
                       /\ T.evt[q].next = ev_timer.evt[q].next
                       /\ T.evt[q].isBusy = ev_timer.evt[q].isBusy
    BY <1>2, <1>3, <1>6, <1>7 DEF Control
<1>9. ControlOK(T) /\ UsedSlots(T) = UsedSlots(ev_timer)
    BY <1>2, <1>7, <1>8, SameList
<1>10. /\ ControlOK(ev_timer') /\ UsedSlots(ev_timer') = UsedSlots(ev_timer)
       /\ ~ev_timer'.evt[timerEvt].isBusy
       /\ \A q \in Slots \ {timerEvt} : ev_timer'.evt[q].isBusy = ev_timer.evt[q].isBusy
       /\ \A q \in Slots : /\ ev_timer'.evt[q].used = ev_timer.evt[q].used
                           /\ ev_timer'.evt[q].cb = ev_timer.evt[q].cb
    <2> DEFINE b == FALSE
    <2>1. ev_timer' = SetBusy(T, timerEvt, b)
        BY <1>1 DEF SetBusy
    <2>2. b \in BOOLEAN
        OBVIOUS
    <2> HIDE DEF b
    <2>3. /\ ControlOK(ev_timer') /\ UsedSlots(ev_timer') = UsedSlots(T)
          /\ ev_timer'.evt[timerEvt].isBusy = b
          /\ \A q \in Slots \ {timerEvt} : ev_timer'.evt[q].isBusy = T.evt[q].isBusy
          /\ \A q \in Slots : /\ ev_timer'.evt[q].used = T.evt[q].used
                              /\ ev_timer'.evt[q].cb = T.evt[q].cb
        BY <1>2, <1>9, <2>1, <2>2, BusyKeeps
    <2> QED
        BY <1>8, <1>9, <2>3 DEF b
<1>11. timerEvt' \in UsedSlots(ev_timer) \cup {NULL} /\ T.head \in UsedSlots(ev_timer) \cup {NULL}
    BY <1>1, <1>2, <1>7, <1>8 DEF ControlOK, Ranked
<1>12. TypeOK'
    <2>1. ev_timer' \in Control
        BY <1>10 DEF ControlOK
    <2>2. Lag \in Nat /\ age \in [Slots -> 0 .. AgeCap]
        BY ElapsedNat DEF IInv, TypeOK, Lag
    <2>3. age' \in [Slots -> 0 .. AgeCap]
        <3> DEFINE a == IF Lag < AgeCap THEN Lag ELSE AgeCap
        <3>1. a \in 0 .. AgeCap
            BY <2>2, TimeAssumption
        <3>2. age' = [age EXCEPT ![timerEvt] = a]
            BY <1>1
        <3> HIDE DEF a
        <3> QED
            BY <2>2, <3>1, <3>2
    <2>4. timerEvt' \in Slots \cup {NULL} /\ prev_head' \in Slots \cup {NULL}
        BY <1>1, <1>11 DEF UsedSlots
    <2> QED
        BY <1>1, <2>1, <2>3, <2>4 DEF IInv, TypeOK, Control
<1>13. HandleExact' /\ UntrackedNull'
    BY <1>1, <1>10 DEF IInv, HandleExact, UntrackedNull
<1>14. BusyIsRunning'
    BY <1>1, <1>10 DEF IInv, BusyIsRunning
<1>15. CursorInUse'
    BY <1>1, <1>10, <1>11 DEF CursorInUse
<1> QED
    BY <1>10, <1>12, <1>13, <1>14, <1>15 DEF IInv

\* The walk ends and the nearest timer is found again.
LEMMA WalkEndKeeps == IInv /\ WalkEnd => IInv'
<1> SUFFICES ASSUME IInv, WalkEnd PROVE IInv'
    OBVIOUS
<1>1. /\ pc = "walk" /\ ev_timer' = nearestUpdate(ev_timer) /\ pc' = "main" /\ prev_head' = NULL
      /\ UNCHANGED <<clock, prevSysTick, remSysTick, timerEvt, handle, age, due>>
    BY DEF WalkEnd
<1>2. /\ ControlOK(ev_timer') /\ UsedSlots(ev_timer') = UsedSlots(ev_timer)
      /\ ev_timer'.evt = ev_timer.evt
    BY <1>1, NearestUpdateKeeps DEF IInv
<1>3. TypeOK'
    BY <1>1, <1>2 DEF IInv, TypeOK, ControlOK, Control
<1>4. HandleExact' /\ UntrackedNull' /\ BusyIsRunning' /\ CursorInUse'
    BY <1>1, <1>2 DEF IInv, HandleExact, UntrackedNull, BusyIsRunning, CursorInUse
<1> QED
    BY <1>2, <1>3, <1>4 DEF IInv

-----------------------------------------------------------------------------
(***************************************************************************)
(* The theorems.                                                           *)
(***************************************************************************)
\* Every step preserves the invariant.
LEMMA NextKeeps == IInv /\ [Next]_vars => IInv'
<1> SUFFICES ASSUME IInv, [Next]_vars PROVE IInv'
    OBVIOUS
<1>1. CASE Next
    <2>1. ASSUME NEW c \in Clients, NEW t \in Timeouts, Schedule(c, t) PROVE IInv'
        BY <2>1, ScheduleKeeps
    <2>2. ASSUME NEW c \in Clients, Cancel(c) PROVE IInv'
        BY <2>2, CancelKeeps
    <2>3. ASSUME NEW c \in Clients, PostExhausted(c) PROVE IInv'
        BY <2>3, PostExhaustedKeeps
    <2>4. ASSUME NEW t \in Timeouts \cup {0}, ReturnAgain(t) PROVE IInv'
        BY <2>4, ReturnAgainKeeps
    <2>5. MainLoop => IInv'
        BY <2>4, ProcessKeeps, WalkPastKeeps, FireKeeps, ReturnStopKeeps, WalkEndKeeps
        DEF MainLoop
    <2> QED
        BY <1>1, <2>1, <2>2, <2>3, <2>5, TickKeeps DEF Next
<1>2. CASE UNCHANGED vars
    <2>1. UsedSlots(ev_timer') = UsedSlots(ev_timer) /\ (ControlOK(ev_timer) => ControlOK(ev_timer'))
        BY <1>2 DEF vars
    <2>2. TypeOK'
        BY <1>2 DEF IInv, TypeOK, vars
    <2>3. HandleExact' /\ UntrackedNull' /\ BusyIsRunning'
        BY <1>2 DEF IInv, HandleExact, UntrackedNull, BusyIsRunning, vars
    <2>4. CursorInUse'
        BY <1>2, <2>1 DEF IInv, CursorInUse, vars
    <2> QED
        BY <2>1, <2>2, <2>3, <2>4 DEF IInv
<1> QED
    BY <1>1, <1>2

\* The inductive invariant holds in every reachable state.
THEOREM Inductive == Spec => []IInv
<1> QED
    BY InitIInv, NextKeeps, PTL DEF Spec

\* Every variable of the timer service keeps its type: no link, cursor or
\* handle ever points outside the pool, and used_num never leaves its range.
THEOREM TypeCorrect == Spec => []TypeOK
<1>1. IInv => TypeOK
    BY DEF IInv
<1> QED
    BY <1>1, Inductive, PTL

\* freeGet's used_num is the number of armed slots, whatever callbacks do.
THEOREM PoolAccountingHolds == Spec => []PoolAccounting
<1>1. IInv => PoolAccounting
    BY DEF IInv, ControlOK, PoolAccounting
<1> QED
    BY <1>1, Inductive, PTL

\* The list of ev_timer.c ends and holds exactly the armed slots.
THEOREM ListIntactHolds == Spec => []ListIntact
<1>1. IInv => ListIntact
    BY ListedIsUsed, ListEnds DEF IInv, ListIntact
<1> QED
    BY <1>1, Inductive, PTL

\* The handle an application keeps names its own armed timer and no other.
THEOREM HandleExactHolds == Spec => []HandleExact
<1>1. IInv => HandleExact
    BY DEF IInv
<1> QED
    BY <1>1, Inductive, PTL

\* Only the timer whose callback runs is busy, and nothing frees it meanwhile.
THEOREM BusyIsRunningHolds == Spec => []BusyIsRunning
<1>1. IInv => BusyIsRunning
    BY DEF IInv
<1> QED
    BY <1>1, Inductive, PTL

-----------------------------------------------------------------------------
(***************************************************************************)
(* The nearest timer.                                                      *)
(***************************************************************************)
\* A cancel that is allowed is unon of an armed timer that is not running; any
\* other changes nothing.
LEMMA CancelIs ==
    ASSUME NEW T, ControlOK(T), NEW h \in Slots \cup {NULL}
    PROVE  /\ CancelAllowed(T, h) => /\ h \in UsedSlots(T) /\ ~T.evt[h].isBusy
                                     /\ taskCancel(T, h) = unon(T, h)
           /\ ~CancelAllowed(T, h) => taskCancel(T, h) = T
<1>1. CancelAllowed(T, h) => h \in UsedSlots(T) /\ ~T.evt[h].isBusy
    BY DEF CancelAllowed, UsedSlots, NULL
<1>2. /\ CancelAllowed(T, h) => taskCancel(T, h) = unon(T, h)
      /\ ~CancelAllowed(T, h) => taskCancel(T, h) = T
    BY Zenon DEF taskCancel
<1> QED
    BY <1>1, <1>2

\* Whatever changes the timers outside of a walk finds the nearest one again.
LEMMA NextNearest == IInv /\ NearestRight /\ [Next]_vars => NearestRight'
<1> SUFFICES ASSUME IInv, NearestRight, [Next]_vars
             PROVE  pc' = "main" => NearestOf(ev_timer')
    BY DEF NearestRight, NearestOf, UsedSlots
<1>0. ControlOK(ev_timer) /\ clock \in Ticks /\ handle \in [Clients -> Slots \cup {NULL}]
    BY DEF IInv, TypeOK
<1>1. pc = "main" => NearestOf(ev_timer)
    BY DEF NearestRight, NearestOf, UsedSlots
<1>2. ASSUME NEW c \in Clients, NEW t \in Timeouts, Schedule(c, t)
      PROVE  NearestOf(ev_timer')
    <2> DEFINE T == taskCancel(ev_timer, handle[c])
    <2>1. ControlOK(T)
        BY <1>0, CancelDoes
    <2>2. ~PoolFull(T) /\ ev_timer' = taskPost(T, c, t)
        BY <1>2 DEF Schedule, Post
    <2> HIDE DEF T
    <2> QED
        BY <1>0, <2>1, <2>2, PostAdds
<1>3. ASSUME NEW c \in Clients, Cancel(c)
      PROVE  NearestOf(ev_timer')
    <2>1. CancelAllowed(ev_timer, handle[c]) /\ ev_timer' = taskCancel(ev_timer, handle[c])
        BY <1>3 DEF Cancel
    <2>2. handle[c] \in UsedSlots(ev_timer) /\ ev_timer' = unon(ev_timer, handle[c])
        BY <1>0, <2>1, CancelIs
    <2> QED
        BY <1>0, <2>2, UnonDeletes
<1>4. ASSUME NEW c \in Clients, PostExhausted(c)
      PROVE  NearestOf(ev_timer')
    BY <1>4 DEF PostExhausted, NearestOf, EmptyControl
<1>5. WalkEnd => NearestOf(ev_timer')
    BY <1>0, NearestUpdateKeeps DEF WalkEnd
<1>6. Process \/ WalkPast \/ Fire \/ ReturnStop \/ (\E t \in Timeouts \cup {0} : ReturnAgain(t))
        => pc' # "main"
    BY DEF Process, WalkPast, Fire, ReturnStop, ReturnAgain, Resume
<1>7. Tick \/ UNCHANGED vars => ev_timer' = ev_timer /\ pc' = pc
    BY DEF Tick, vars
<1> QED
    BY <1>1, <1>2, <1>3, <1>4, <1>5, <1>6, <1>7 DEF Next, MainLoop

-----------------------------------------------------------------------------
(***************************************************************************)
(* The walk: every due timer lies ahead of the cursor.                     *)
(***************************************************************************)
NextClosed(T, S) == \A q \in S : T.evt[q].next # NULL => T.evt[q].next \in S

\* Following the links from slot n, the walk comes to every slot of Q.
Covers(T, n, Q) ==
    \A S \in SUBSET Slots : NextClosed(T, S) /\ (n # NULL => n \in S) => Q \subseteq S

DueAhead ==
    /\ pc = "main" => due = {}
    /\ pc = "walk" => Covers(ev_timer, timerEvt, due)
    /\ pc = "cb" => /\ timerEvt \notin due
                    /\ Covers(ev_timer, ev_timer.evt[timerEvt].next, due)

\* The armed timers whose timeout is 0 are those due and the one that runs.
DueArmed ==
    /\ \A s \in due : s \in UsedSlots(ev_timer) /\ ev_timer.evt[s].timeout = 0
    /\ \A s \in UsedSlots(ev_timer) : ev_timer.evt[s].timeout = 0 =>
            s \in due \/ (pc = "cb" /\ s = timerEvt)
    /\ pc = "cb" => ev_timer.evt[timerEvt].timeout = 0

Periods == \A s \in UsedSlots(ev_timer) : ev_timer.evt[s].period \in Timeouts

WalkInv == DueAhead /\ DueArmed /\ Periods

\* From the head, the links lead to every armed timer.
LEMMA CoversHead ==
    ASSUME NEW T, ControlOK(T), NEW Q \in SUBSET UsedSlots(T)
    PROVE  Covers(T, T.head, Q)
<1> SUFFICES ASSUME NEW S \in SUBSET Slots, NextClosed(T, S), T.head # NULL => T.head \in S
             PROVE  Q \subseteq S
    BY DEF Covers
<1>1. Closed(T, S)
    BY DEF Closed, NextClosed
<1>2. Listed(T) \subseteq S
    BY <1>1 DEF Listed
<1> QED
    BY <1>2, ListedIsUsed

\* Links that stay the same lead to the same slots.
LEMMA CoversSame ==
    ASSUME NEW T, NEW U, NEW n, NEW Q, Covers(T, n, Q),
           \A q \in Slots : U.evt[q].next = T.evt[q].next
    PROVE  Covers(U, n, Q)
<1>1. \A S \in SUBSET Slots : NextClosed(U, S) => NextClosed(T, S)
    BY DEF NextClosed
<1> QED
    BY <1>1 DEF Covers

\* Past a slot that is not sought.
LEMMA CoversPast ==
    ASSUME NEW T, NEW n \in Slots, NEW Q, Covers(T, n, Q), T.evt[n].next \in Slots \cup {NULL}
    PROVE  Covers(T, T.evt[n].next, Q \ {n})
<1> SUFFICES ASSUME NEW S \in SUBSET Slots, NextClosed(T, S),
                    T.evt[n].next # NULL => T.evt[n].next \in S
             PROVE  Q \ {n} \subseteq S
    BY DEF Covers
<1>1. NextClosed(T, S \cup {n}) /\ S \cup {n} \in SUBSET Slots
    BY DEF NextClosed
<1>2. Q \subseteq S \cup {n}
    BY <1>1 DEF Covers
<1> QED
    BY <1>2

\* A timer put in front of the list leads no link away from what lies ahead.
LEMMA CoversPost ==
    ASSUME NEW T, ControlOK(T), NEW U, NEW f \in Slots \ UsedSlots(T),
           \A q \in Slots \ {f} : U.evt[q].next = T.evt[q].next,
           NEW n \in UsedSlots(T) \cup {NULL}, NEW Q, Covers(T, n, Q)
    PROVE  Covers(U, n, Q)
<1> SUFFICES ASSUME NEW S \in SUBSET Slots, NextClosed(U, S), n # NULL => n \in S
             PROVE  Q \subseteq S
    BY DEF Covers
<1> DEFINE R == S \cap UsedSlots(T)
<1>1. \A q \in UsedSlots(T) : T.evt[q].next \in UsedSlots(T) \cup {NULL}
    BY DEF ControlOK, Ranked
<1>2. \A q \in R : U.evt[q].next = T.evt[q].next
    OBVIOUS
<1>3. NextClosed(T, R)
    BY <1>1, <1>2 DEF NextClosed
<1>4. n # NULL => n \in R
    OBVIOUS
<1>5. Q \subseteq R
    BY <1>3, <1>4 DEF Covers
<1> QED
    BY <1>5

\* Deleting slot h, the cursor's own or another, leads to what lay ahead.
LEMMA CoversUnlinked ==
    ASSUME NEW T, NEW U, NEW h \in Slots, Unlinked(T, U, h), NEW n, NEW m, NEW Q,
           Covers(T, n, Q), m = n \/ (n = h /\ m = T.evt[h].next)
    PROVE  Covers(U, m, Q \ {h})
<1> USE DEF NULL
<1> SUFFICES ASSUME NEW S \in SUBSET Slots, NextClosed(U, S), m # NULL => m \in S
             PROVE  Q \ {h} \subseteq S
    BY DEF Covers
<1> DEFINE R == S \cup {h}
<1>0. R \in SUBSET Slots
    OBVIOUS
<1>1. CASE T.head = h
    <2>1. \A q \in Slots : U.evt[q].next = T.evt[q].next
        BY <1>1 DEF Unlinked
    <2>2. NextClosed(T, S)
        BY <2>1 DEF NextClosed
    <2>3. CASE m = n
        BY <2>2, <2>3 DEF Covers
    <2>4. CASE n = h /\ m = T.evt[h].next
        <3>1. NextClosed(T, R) /\ n \in R
            BY <2>2, <2>4 DEF NextClosed
        <3>2. Q \subseteq R
            BY <1>0, <3>1 DEF Covers
        <3> QED
            BY <3>2
    <2> QED
        BY <2>3, <2>4
<1>2. CASE T.head # h
    <2>1. PICK lst \in UsedSlots(T) :
            /\ lst # h /\ T.evt[lst].next = h
            /\ \A q \in Slots : U.evt[q].next =
                                IF q = lst THEN T.evt[h].next ELSE T.evt[q].next
        BY <1>2 DEF Unlinked
    <2>2. CASE lst \notin S /\ m = n
        <3>1. NextClosed(T, S)
            BY <2>1, <2>2 DEF NextClosed
        <3> QED
            BY <2>2, <3>1 DEF Covers
    <2>3. CASE lst \in S \/ (n = h /\ m = T.evt[h].next)
        <3>1. T.evt[h].next # NULL => T.evt[h].next \in S
            BY <2>1, <2>3 DEF NextClosed
        <3>2. NextClosed(T, R)
            <4> SUFFICES ASSUME NEW q \in R, T.evt[q].next # NULL PROVE T.evt[q].next \in R
                BY DEF NextClosed
            <4>1. CASE q = h
                BY <3>1, <4>1
            <4>2. CASE q = lst
                BY <2>1, <4>2
            <4>3. CASE q # h /\ q # lst
                BY <2>1, <4>3 DEF NextClosed
            <4> QED
                BY <4>1, <4>2, <4>3
        <3>3. n # NULL => n \in R
            BY <2>3
        <3>4. Q \subseteq R
            BY <1>0, <3>2, <3>3 DEF Covers
        <3> QED
            BY <3>4
    <2> QED
        BY <2>2, <2>3
<1> QED
    BY <1>1, <1>2

\* A post, which may cancel the timer the client held before.
LEMMA ScheduleWalks ==
    ASSUME NEW c \in Clients, NEW t \in Timeouts, IInv, WalkInv, Schedule(c, t)
    PROVE  WalkInv'
<1> USE DEF NULL
<1> DEFINE h == handle[c]
           T == taskCancel(ev_timer, h)
           f == FreeSlot(T)
           U == taskPost(T, c, t)
           n == ev_timer.evt[timerEvt].next
<1>1. /\ ClientMayRun(c) /\ ~PoolFull(T)
      /\ ev_timer' = U /\ due' = due \ {h} /\ pc' = pc /\ timerEvt' = timerEvt
    BY DEF Schedule, Post
<1>2. /\ ControlOK(ev_timer) /\ clock \in Ticks /\ handle \in [Clients -> Slots \cup {NULL}]
      /\ h \in Slots \cup {NULL}
    BY DEF IInv, TypeOK
<1>3. /\ ControlOK(T)
      /\ UsedSlots(T) = IF CancelAllowed(ev_timer, h) THEN UsedSlots(ev_timer) \ {h}
                                                      ELSE UsedSlots(ev_timer)
    BY <1>2, CancelDoes
<1>4. /\ f \in Slots \ UsedSlots(T) /\ ControlOK(U)
      /\ UsedSlots(U) = UsedSlots(T) \cup {f}
      /\ \A q \in Slots \ {f} : U.evt[q] = T.evt[q]
      /\ U.evt[f].timeout = t /\ U.evt[f].period = t
    BY <1>1, <1>2, <1>3, PostAdds
<1>5. /\ CancelAllowed(ev_timer, h) => /\ h \in UsedSlots(ev_timer) /\ ~ev_timer.evt[h].isBusy
                                       /\ T = unon(ev_timer, h)
      /\ ~CancelAllowed(ev_timer, h) => T = ev_timer
    BY <1>2, CancelIs
<1>6. \A q \in UsedSlots(T) : /\ q \in UsedSlots(ev_timer) /\ q \in Slots
                              /\ SameTimes(T.evt[q], ev_timer.evt[q])
    <2>1. UsedSlots(T) \subseteq Slots /\ UsedSlots(ev_timer) \subseteq Slots
        BY DEF UsedSlots
    <2>2. CASE CancelAllowed(ev_timer, h)
        BY <1>2, <1>3, <1>5, <2>1, <2>2, UnonDeletes
    <2>3. CASE ~CancelAllowed(ev_timer, h)
        BY <1>3, <1>5, <2>1, <2>3 DEF SameTimes
    <2> QED
        BY <2>2, <2>3
<1>7. ~CancelAllowed(ev_timer, h) => h \notin due
    <2> SUFFICES ASSUME ~CancelAllowed(ev_timer, h), h \in due PROVE FALSE
        OBVIOUS
    <2>1. h \in UsedSlots(ev_timer) /\ h \in Slots /\ h # NULL
        BY DEF WalkInv, DueArmed, UsedSlots, Slots
    <2>2. ev_timer.evt[h].isBusy
        BY <2>1 DEF CancelAllowed, UsedSlots
    <2>3. pc = "cb" /\ h = timerEvt
        BY <2>1, <2>2 DEF IInv, BusyIsRunning
    <2> QED
        BY <2>3 DEF WalkInv, DueAhead
<1> HIDE DEF T, U, f, h
<1>8. /\ \A q \in UsedSlots(T) : SameTimes(U.evt[q], ev_timer.evt[q])
      /\ U.evt[f].timeout # 0 /\ U.evt[f].period \in Timeouts
    <2>1. \A q \in UsedSlots(T) : U.evt[q] = T.evt[q]
        BY <1>4, <1>6
    <2> QED
        BY <1>4, <1>6, <2>1, TimeAssumption
<1>9. Periods'
    <2> SUFFICES ASSUME NEW q \in UsedSlots(U) PROVE U.evt[q].period \in Timeouts
        BY <1>1 DEF Periods
    <2> QED
        BY <1>4, <1>6, <1>8 DEF WalkInv, Periods, SameTimes
<1>10. DueArmed'
    <2>1. ASSUME NEW s \in due'
          PROVE  s \in UsedSlots(U) /\ U.evt[s].timeout = 0
        <3>1. s \in UsedSlots(ev_timer) /\ ev_timer.evt[s].timeout = 0 /\ s # h
            BY <1>1, <2>1 DEF WalkInv, DueArmed
        <3> QED
            BY <1>3, <1>4, <1>8, <3>1 DEF SameTimes
    <2>2. ASSUME NEW s \in UsedSlots(U), U.evt[s].timeout = 0
          PROVE  s \in due' \/ (pc' = "cb" /\ s = timerEvt')
        <3>1. s \in UsedSlots(T)
            BY <1>4, <1>8, <2>2
        <3>2. s \in UsedSlots(ev_timer) /\ ev_timer.evt[s].timeout = 0
            BY <1>6, <1>8, <2>2, <3>1 DEF SameTimes
        <3>3. s \in due \/ (pc = "cb" /\ s = timerEvt)
            BY <3>2 DEF WalkInv, DueArmed
        <3>4. s \in due => s # h
            BY <1>3, <1>7, <3>1
        <3> QED
            BY <1>1, <3>3, <3>4
    <2>3. ASSUME pc = "cb" PROVE U.evt[timerEvt].timeout = 0
        <3>1. /\ ev_timer.evt[timerEvt].timeout = 0 /\ timerEvt \in UsedSlots(ev_timer)
              /\ ev_timer.evt[timerEvt].isBusy
            BY <2>3 DEF WalkInv, DueArmed, IInv, CursorInUse
        <3>2. timerEvt \in UsedSlots(T)
            BY <1>3, <1>5, <3>1
        <3> QED
            BY <1>8, <3>1, <3>2 DEF SameTimes
    <2> QED
        BY <1>1, <2>1, <2>2, <2>3 DEF DueArmed
<1>11. DueAhead'
    <2>1. CASE pc = "main"
        BY <1>1, <2>1 DEF WalkInv, DueAhead
    <2>2. CASE pc = "cb"
        <3>1. /\ timerEvt \notin due /\ Covers(ev_timer, n, due)
              /\ timerEvt \in UsedSlots(ev_timer) /\ timerEvt \in Slots
              /\ ev_timer.evt[timerEvt].isBusy
            BY <2>2 DEF WalkInv, DueAhead, IInv, CursorInUse, UsedSlots
        <3>2. timerEvt \in UsedSlots(T)
            BY <1>3, <1>5, <3>1
        <3>3. Covers(T, T.evt[timerEvt].next, due \ {h})
            <4>1. CASE CancelAllowed(ev_timer, h)
                <5>1. h \in UsedSlots(ev_timer) /\ timerEvt # h /\ h \in Slots
                    BY <1>5, <3>1, <4>1 DEF UsedSlots
                <5>2. Unlinked(ev_timer, T, h)
                    BY <1>2, <1>5, <4>1, <5>1, UnonDeletes
                <5> DEFINE m == T.evt[timerEvt].next
                <5>3. m = n \/ (n = h /\ m = ev_timer.evt[h].next)
                    BY <3>1, <5>1, <5>2 DEF Unlinked
                <5> HIDE DEF m, n
                <5> QED
                    BY <3>1, <5>1, <5>2, <5>3, CoversUnlinked DEF m
            <4>2. CASE ~CancelAllowed(ev_timer, h)
                <5>1. due \ {h} = due /\ T = ev_timer
                    BY <1>5, <1>7, <4>2
                <5> QED
                    BY <3>1, <5>1
            <4> QED
                BY <4>1, <4>2
        <3>4. T.evt[timerEvt].next \in UsedSlots(T) \cup {NULL}
            BY <1>3, <3>2 DEF ControlOK, Ranked
        <3>5. U.evt[timerEvt] = T.evt[timerEvt] /\ \A q \in Slots \ {f} : U.evt[q].next = T.evt[q].next
            BY <1>4, <3>1, <3>2
        <3>6. Covers(U, T.evt[timerEvt].next, due \ {h})
            BY <1>3, <1>4, <3>3, <3>4, <3>5, CoversPost
        <3> QED
            BY <1>1, <2>2, <3>1, <3>5, <3>6 DEF DueAhead
    <2> QED
        BY <1>1, <2>1, <2>2 DEF ClientMayRun
<1> QED
    BY <1>9, <1>10, <1>11 DEF WalkInv

\* A cancel takes its timer out of what the walk has to come to.
LEMMA CancelWalks ==
    ASSUME NEW c \in Clients, IInv, WalkInv, Cancel(c)
    PROVE  WalkInv'
<1> USE DEF NULL
<1> DEFINE h == handle[c]
           n == ev_timer.evt[timerEvt].next
<1>1. /\ pc \in {"main", "cb"} /\ CancelAllowed(ev_timer, h)
      /\ ev_timer' = taskCancel(ev_timer, h) /\ due' = due \ {h}
      /\ pc' = pc /\ timerEvt' = timerEvt
    BY DEF Cancel
<1>2. ControlOK(ev_timer) /\ h \in Slots \cup {NULL}
    BY DEF IInv, TypeOK
<1>3. h \in UsedSlots(ev_timer) /\ ~ev_timer.evt[h].isBusy /\ ev_timer' = unon(ev_timer, h)
      /\ h \in Slots
    BY <1>1, <1>2, CancelIs DEF UsedSlots
<1>4. /\ UsedSlots(ev_timer') = UsedSlots(ev_timer) \ {h}
      /\ \A q \in Slots \ {h} : SameTimes(ev_timer'.evt[q], ev_timer.evt[q])
      /\ Unlinked(ev_timer, ev_timer', h)
    BY <1>2, <1>3, UnonDeletes
<1>5. \A q \in UsedSlots(ev_timer') : /\ q \in UsedSlots(ev_timer) /\ q # h
                                      /\ SameTimes(ev_timer'.evt[q], ev_timer.evt[q])
    BY <1>4 DEF UsedSlots
<1> HIDE DEF h
<1>6. Periods'
    BY <1>5 DEF WalkInv, Periods, SameTimes
<1>7. DueArmed'
    <2>1. ASSUME NEW s \in due'
          PROVE  s \in UsedSlots(ev_timer') /\ ev_timer'.evt[s].timeout = 0
        <3>1. s \in UsedSlots(ev_timer) /\ ev_timer.evt[s].timeout = 0 /\ s # h
            BY <1>1, <2>1 DEF WalkInv, DueArmed
        <3>2. s \in UsedSlots(ev_timer')
            BY <1>4, <3>1
        <3> QED
            BY <1>5, <3>1, <3>2 DEF SameTimes
    <2>2. ASSUME NEW s \in UsedSlots(ev_timer'), ev_timer'.evt[s].timeout = 0
          PROVE  s \in due' \/ (pc' = "cb" /\ s = timerEvt')
        <3>1. s \in UsedSlots(ev_timer) /\ ev_timer.evt[s].timeout = 0 /\ s # h
            BY <1>5, <2>2 DEF SameTimes
        <3> QED
            BY <1>1, <3>1 DEF WalkInv, DueArmed
    <2>3. ASSUME pc = "cb" PROVE ev_timer'.evt[timerEvt].timeout = 0
        <3>1. /\ ev_timer.evt[timerEvt].timeout = 0 /\ timerEvt \in UsedSlots(ev_timer)
              /\ ev_timer.evt[timerEvt].isBusy
            BY <2>3 DEF WalkInv, DueArmed, IInv, CursorInUse
        <3>2. timerEvt \in UsedSlots(ev_timer')
            BY <1>3, <1>4, <3>1
        <3> QED
            BY <1>5, <3>1, <3>2 DEF SameTimes
    <2> QED
        BY <1>1, <2>1, <2>2, <2>3 DEF DueArmed
<1>8. DueAhead'
    <2>1. CASE pc = "main"
        BY <1>1, <2>1 DEF WalkInv, DueAhead
    <2>2. CASE pc = "cb"
        <3>1. /\ timerEvt \notin due /\ Covers(ev_timer, n, due) /\ timerEvt \in Slots
              /\ ev_timer.evt[timerEvt].isBusy
            BY <2>2 DEF WalkInv, DueAhead, IInv, CursorInUse, UsedSlots
        <3>2. timerEvt # h
            BY <1>3, <3>1
        <3> DEFINE m == ev_timer'.evt[timerEvt].next
        <3>3. m = n \/ (n = h /\ m = ev_timer.evt[h].next)
            BY <1>4, <3>1, <3>2 DEF Unlinked
        <3>4. Covers(ev_timer', m, due \ {h})
            <4> HIDE DEF m, n
            <4> QED
                BY <1>3, <1>4, <3>1, <3>3, CoversUnlinked
        <3> QED
            BY <1>1, <2>2, <3>1, <3>4 DEF DueAhead
    <2> QED
        BY <1>1, <2>1, <2>2
<1> QED
    BY <1>6, <1>7, <1>8 DEF WalkInv

\* ev_timer_process splits the elapsed time, with the remainder of the last
\* call, into whole milliseconds and a new remainder.
LEMMA ProcessTime ==
    ASSUME IInv
    PROVE  LET rest == (remSysTick + (Lag % TicksPerMs)) % TicksPerMs
           IN  /\ UpdateTime \in Nat /\ rest \in 0 .. TicksPerMs - 1 /\ Lag \in Nat
               /\ Lag + remSysTick = UpdateTime * TicksPerMs + rest
<1> DEFINE n == TicksPerMs
           e == Lag
           x == remSysTick + (e % n)
<1>1. clock \in Ticks /\ prevSysTick \in Ticks /\ remSysTick \in 0 .. n - 1 /\ n \in Nat \ {0}
    BY TimeAssumption DEF IInv, TypeOK
<1>2. e \in Nat
    BY <1>1, ElapsedNat DEF Lag
<1>3. UpdateTime = (e \div n) + (x \div n)
    BY DEF UpdateTime
<1> HIDE DEF n, e
<1>4. e \div n \in Nat /\ e % n \in 0 .. n - 1 /\ e = n * (e \div n) + (e % n)
    BY <1>1, <1>2
<1>5. x \in Nat
    BY <1>1, <1>4
<1> HIDE DEF x
<1>6. x \div n \in Nat /\ x % n \in 0 .. n - 1 /\ x = n * (x \div n) + (x % n)
    BY <1>1, <1>5
<1>7. ((e \div n) + (x \div n)) * n = n * (e \div n) + n * (x \div n)
    <2> DEFINE a == e \div n
               b == x \div n
    <2>1. a \in Nat /\ b \in Nat
        BY <1>4, <1>6
    <2> HIDE DEF a, b
    <2>2. (a + b) * n = n * a + n * b
        BY <1>1, <2>1
    <2> QED
        BY <2>2 DEF a, b
<1>8. e + remSysTick = UpdateTime * n + (x % n)
    <2> DEFINE p == n * (e \div n)
               q == n * (x \div n)
               r == e % n
               y == x % n
               z == UpdateTime * n
    <2>1. z = p + q
        BY <1>3, <1>7
    <2>2. e = p + r /\ x = q + y /\ x = remSysTick + r
        BY <1>4, <1>6 DEF x
    <2>3. p \in Int /\ q \in Int /\ r \in Int /\ y \in Int /\ remSysTick \in Int
        BY <1>1, <1>4, <1>6
    <2> HIDE DEF p, q, r, y, z
    <2>4. e + remSysTick = z + y
        BY <2>1, <2>2, <2>3
    <2> QED
        BY <2>4 DEF z, y
<1> QED
    BY <1>2, <1>3, <1>4, <1>6, <1>8 DEF n, e, x

\* What the start of a walk does to each timer.
LEMMA ProcessDoes ==
    ASSUME IInv, Process
    PROVE  /\ UsedSlots(ev_timer') = UsedSlots(ev_timer) /\ ControlOK(ev_timer')
           /\ ev_timer'.head = ev_timer.head
           /\ \A q \in Slots \ UsedSlots(ev_timer) : ev_timer'.evt[q] = ev_timer.evt[q]
           /\ UpdateTime = 0 => ev_timer' = ev_timer
           /\ UpdateTime > 0 => \A q \in UsedSlots(ev_timer) :
                /\ Charge(ev_timer, UpdateTime, q) \in Nat
                /\ ev_timer'.evt[q].period = ev_timer.evt[q].period
                /\ ev_timer'.evt[q].isRunning
                /\ ev_timer'.evt[q].timeout =
                        Left(ev_timer.evt[q].timeout, Charge(ev_timer, UpdateTime, q))
<1>1. UpdateTime \in Nat /\ ControlOK(ev_timer) /\ clock \in Ticks
    BY ProcessTime DEF IInv, TypeOK
<1>2. ev_timer' = IF UpdateTime > 0 THEN update(ev_timer, UpdateTime) ELSE ev_timer
    BY DEF Process
<1>3. CASE UpdateTime > 0
    <2>1. ev_timer' = update(ev_timer, UpdateTime) /\ UpdateTime # 0
        BY <1>1, <1>2, <1>3
    <2>2. /\ UsedSlots(ev_timer') = UsedSlots(ev_timer) /\ ControlOK(ev_timer')
          /\ ev_timer'.head = ev_timer.head
          /\ \A q \in Slots \ UsedSlots(ev_timer) : ev_timer'.evt[q] = ev_timer.evt[q]
        BY <1>1, <2>1, UpdateKeeps
    <2>3. \A q \in UsedSlots(ev_timer) :
            /\ Charge(ev_timer, UpdateTime, q) \in Nat
            /\ ev_timer'.evt[q].period = ev_timer.evt[q].period
            /\ ev_timer'.evt[q].isRunning
            /\ ev_timer'.evt[q].timeout =
                    Left(ev_timer.evt[q].timeout, Charge(ev_timer, UpdateTime, q))
        BY <1>1, <2>1, UpdateKeeps, Zenon
    <2> QED
        BY <2>1, <2>2, <2>3, Zenon
<1>4. CASE ~(UpdateTime > 0)
    BY <1>1, <1>2, <1>4
<1> QED
    BY <1>3, <1>4

\* The walk begins with every due timer ahead of it.
LEMMA ProcessWalks == IInv /\ WalkInv /\ Process => WalkInv'
<1> SUFFICES ASSUME IInv, WalkInv, Process PROVE WalkInv'
    OBVIOUS
<1>1. /\ pc' = "walk" /\ timerEvt' = ev_timer.head
      /\ due' = {s \in Listed(ev_timer) : ev_timer'.evt[s].timeout = 0}
    BY DEF Process
<1>2. /\ UsedSlots(ev_timer') = UsedSlots(ev_timer) /\ ControlOK(ev_timer')
      /\ ev_timer'.head = ev_timer.head
      /\ Listed(ev_timer) = UsedSlots(ev_timer)
    BY ProcessDoes, ListedIsUsed DEF IInv
<1>3. \A q \in UsedSlots(ev_timer) : ev_timer'.evt[q].period = ev_timer.evt[q].period
    <2>1. UpdateTime = 0 \/ UpdateTime > 0
        BY ProcessTime
    <2> QED
        BY <2>1, ProcessDoes
<1>4. Periods'
    BY <1>2, <1>3 DEF WalkInv, Periods
<1>5. DueArmed'
    BY <1>1, <1>2 DEF DueArmed
<1>6. Covers(ev_timer', ev_timer'.head, due')
    BY <1>1, <1>2, CoversHead
<1>7. DueAhead'
    BY <1>1, <1>2, <1>6 DEF DueAhead
<1> QED
    BY <1>4, <1>5, <1>7 DEF WalkInv

\* The walk leaves behind only timers that are not due.
LEMMA WalkPastWalks == IInv /\ WalkInv /\ WalkPast => WalkInv'
<1> SUFFICES ASSUME IInv, WalkInv, WalkPast PROVE WalkInv'
    OBVIOUS
<1>1. /\ pc = "walk" /\ timerEvt # NULL /\ timerEvt' = ev_timer.evt[timerEvt].next
      /\ ev_timer.evt[timerEvt].timeout # 0 /\ pc' = "walk"
      /\ ev_timer' = ev_timer /\ due' = due
    BY DEF WalkPast
<1>2. timerEvt \in UsedSlots(ev_timer) /\ timerEvt \in Slots /\ Covers(ev_timer, timerEvt, due)
    BY <1>1 DEF IInv, CursorInUse, WalkInv, DueAhead, UsedSlots
<1>3. timerEvt \notin due
    BY <1>1 DEF WalkInv, DueArmed
<1>4. ev_timer.evt[timerEvt].next \in Slots \cup {NULL}
    BY <1>2 DEF IInv, TypeOK, Event
<1>5. Covers(ev_timer, ev_timer.evt[timerEvt].next, due \ {timerEvt}) /\ due \ {timerEvt} = due
    BY <1>2, <1>3, <1>4, CoversPast
<1>6. DueAhead'
    BY <1>1, <1>5 DEF DueAhead
<1>7. DueArmed' /\ Periods'
    BY <1>1 DEF WalkInv, DueArmed, Periods, UsedSlots
<1> QED
    BY <1>6, <1>7 DEF WalkInv

\* The timer that is called is no longer among those the walk has to come to.
LEMMA FireWalks == IInv /\ WalkInv /\ Fire => WalkInv'
<1> SUFFICES ASSUME IInv, WalkInv, Fire PROVE WalkInv'
    OBVIOUS
<1> DEFINE n == ev_timer.evt[timerEvt].next
<1>1. /\ pc = "walk" /\ timerEvt # NULL /\ timerEvt' = timerEvt /\ pc' = "cb"
      /\ ev_timer' = [ev_timer EXCEPT !.evt[timerEvt].isBusy = TRUE]
      /\ due' = due \ {timerEvt}
    BY DEF Fire
<1>1a. ev_timer.evt[timerEvt].timeout = 0
    BY DEF Fire
<1>2. /\ timerEvt \in UsedSlots(ev_timer) /\ timerEvt \in Slots /\ ControlOK(ev_timer)
      /\ Covers(ev_timer, timerEvt, due)
    BY <1>1 DEF IInv, CursorInUse, WalkInv, DueAhead, UsedSlots
<1>3. /\ UsedSlots(ev_timer') = UsedSlots(ev_timer)
      /\ \A q \in Slots : /\ ev_timer'.evt[q].next = ev_timer.evt[q].next
                          /\ SameTimes(ev_timer'.evt[q], ev_timer.evt[q])
    <2> DEFINE b == TRUE
    <2>1. ev_timer' = SetBusy(ev_timer, timerEvt, b)
        BY <1>1 DEF SetBusy
    <2>2. b \in BOOLEAN
        OBVIOUS
    <2> HIDE DEF b
    <2> QED
        BY <1>2, <2>1, <2>2, BusyKeeps
<1>4. n \in Slots \cup {NULL}
    BY <1>2 DEF IInv, TypeOK, Event
<1>5. Covers(ev_timer, n, due \ {timerEvt})
    BY <1>2, <1>4, CoversPast
<1>6. Covers(ev_timer', n, due \ {timerEvt}) /\ ev_timer'.evt[timerEvt].next = n
    <2> HIDE DEF n
    <2>1. Covers(ev_timer', n, due \ {timerEvt})
        BY <1>3, <1>5, CoversSame
    <2> QED
        BY <1>2, <1>3, <2>1 DEF n
<1>7. DueAhead'
    BY <1>1, <1>6 DEF DueAhead
<1>8. \A q \in UsedSlots(ev_timer) : SameTimes(ev_timer'.evt[q], ev_timer.evt[q])
    BY <1>3 DEF UsedSlots
<1>9. DueArmed' /\ Periods'
    BY <1>1, <1>1a, <1>2, <1>3, <1>8 DEF WalkInv, DueArmed, Periods, SameTimes
<1> QED
    BY <1>7, <1>9 DEF WalkInv

\* A timer armed again with period p, and no longer busy.
Rearmed(T, s, p) == [T EXCEPT !.evt[s].period = p, !.evt[s].timeout = p]

Again(T, s, p) == SetBusy(Rearmed(T, s, p), s, FALSE)

\* Arming a timer again moves no link and gives it the whole of its period.
LEMMA RearmDoes ==
    ASSUME NEW T, ControlOK(T), NEW s \in UsedSlots(T), NEW p \in Nat
    PROVE  /\ ControlOK(Again(T, s, p)) /\ UsedSlots(Again(T, s, p)) = UsedSlots(T) /\ Again(T, s, p).head = T.head
           /\ \A q \in Slots : Again(T, s, p).evt[q].next = T.evt[q].next /\ Again(T, s, p).evt[q].cb = T.evt[q].cb
           /\ \A q \in Slots \ {s} : SameTimes(Again(T, s, p).evt[q], T.evt[q])
           /\ Again(T, s, p).evt[s].timeout = p /\ Again(T, s, p).evt[s].period = p
           /\ Again(T, s, p).evt[s].isRunning = T.evt[s].isRunning
<1> DEFINE e == T.evt[s]
           d == [e EXCEPT !.period = p, !.timeout = p]
           R == Rearmed(T, s, p)
           b == FALSE
           U == Again(T, s, p)
<1>1. T \in Control /\ e \in Event /\ s \in Slots
    BY DEF ControlOK, Control, UsedSlots
<1>2. R = [T EXCEPT !.evt = [T.evt EXCEPT ![s] = d]]
    BY <1>1 DEF Control, Rearmed
<1>3. /\ d \in Event /\ d.isBusy = e.isBusy /\ d.isRunning = e.isRunning
      /\ d.used = e.used /\ d.cb = e.cb /\ d.next = e.next
      /\ d.timeout = p /\ d.period = p
    <2> HIDE DEF e
    <2>1. d = [next |-> e.next, cb |-> e.cb, timeout |-> p, period |-> p,
               curSysTick |-> e.curSysTick, isBusy |-> e.isBusy,
               isRunning |-> e.isRunning, used |-> e.used]
        <3>1. d = [e EXCEPT !.period = p, !.timeout = p] /\ e \in Event
            BY <1>1
        <3> HIDE DEF d
        <3> QED
            BY <3>1 DEF Event
    <2> HIDE DEF d
    <2>2. d \in Event
        BY <1>1, <2>1 DEF Event
    <2> QED
        BY <2>1, <2>2
<1> HIDE DEF R, d
<1>4. /\ R.head = T.head /\ R.used_num = T.used_num /\ R \in Control
      /\ R.evt = [T.evt EXCEPT ![s] = d]
    BY <1>1, <1>2, <1>3 DEF Control
<1>5. R.evt[s] = d /\ \A q \in Slots \ {s} : R.evt[q] = T.evt[q]
    BY <1>1, <1>4 DEF Control
<1>6. \A q \in Slots : R.evt[q].used = T.evt[q].used /\ R.evt[q].next = T.evt[q].next
                       /\ R.evt[q].cb = T.evt[q].cb
    BY <1>3, <1>5
<1>7. ControlOK(R) /\ UsedSlots(R) = UsedSlots(T)
    BY <1>4, <1>6, SameList
<1>8. b \in BOOLEAN
    OBVIOUS
<1>8a. U = SetBusy(R, s, b)
    BY DEF Again, R, b
<1> HIDE DEF b, U
<1>9. /\ ControlOK(U) /\ UsedSlots(U) = UsedSlots(R) /\ U.head = R.head
      /\ \A q \in Slots : /\ U.evt[q].next = R.evt[q].next /\ U.evt[q].cb = R.evt[q].cb
                          /\ SameTimes(U.evt[q], R.evt[q])
    <2> DEFINE V == SetBusy(R, s, b)
    <2>1. /\ ControlOK(V) /\ UsedSlots(V) = UsedSlots(R) /\ V.head = R.head
          /\ \A q \in Slots : /\ V.evt[q].next = R.evt[q].next /\ V.evt[q].cb = R.evt[q].cb
                              /\ SameTimes(V.evt[q], R.evt[q])
        BY <1>1, <1>7, <1>8, BusyKeeps
    <2>2. U = V
        BY <1>8a
    <2> HIDE DEF V
    <2> QED
        BY <2>1, <2>2
<1> HIDE DEF e
<1>10. \A q \in Slots \ {s} : SameTimes(U.evt[q], T.evt[q])
    BY <1>5, <1>9
<1>11. U.evt[s].timeout = p /\ U.evt[s].period = p /\ U.evt[s].isRunning = T.evt[s].isRunning
    BY <1>1, <1>3, <1>5, <1>9 DEF SameTimes, e
<1> QED
    BY <1>4, <1>6, <1>7, <1>9, <1>10, <1>11 DEF U

\* What a callback that stops its timer does to the others.
LEMMA ReturnStopDoes ==
    ASSUME IInv, ReturnStop
    PROVE  /\ pc = "cb" /\ pc' = "walk"
           /\ timerEvt \in UsedSlots(ev_timer) /\ timerEvt \in Slots
           /\ ControlOK(ev_timer') /\ UsedSlots(ev_timer') = UsedSlots(ev_timer) \ {timerEvt}
           /\ timerEvt' \in {ev_timer'.head, ev_timer.evt[timerEvt].next}
           /\ \A q \in Slots \ {timerEvt} : /\ SameTimes(ev_timer'.evt[q], ev_timer.evt[q])
                                            /\ ev_timer'.evt[q].cb = ev_timer.evt[q].cb
           /\ ~ev_timer'.evt[timerEvt].isRunning
           /\ Unlinked(ev_timer, ev_timer', timerEvt)
           /\ UNCHANGED <<clock, prevSysTick, remSysTick, due, age>>
<1> DEFINE T == unon(ev_timer, timerEvt)
           b == FALSE
<1>1. /\ pc = "cb" /\ ev_timer' = SetBusy(T, timerEvt, b) /\ pc' = "walk"
      /\ timerEvt' = IF prev_head # T.head THEN T.head ELSE T.evt[timerEvt].next
      /\ UNCHANGED <<clock, prevSysTick, remSysTick, due, age>>
    BY DEF ReturnStop, Resume, SetBusy
<1>2. timerEvt \in UsedSlots(ev_timer) /\ ControlOK(ev_timer) /\ timerEvt \in Slots
    BY <1>1 DEF IInv, CursorInUse, UsedSlots
<1>3. /\ ControlOK(T) /\ UsedSlots(T) = UsedSlots(ev_timer) \ {timerEvt}
      /\ \A q \in Slots \ {timerEvt} : /\ SameTimes(T.evt[q], ev_timer.evt[q])
                                       /\ T.evt[q].cb = ev_timer.evt[q].cb
      /\ ~T.evt[timerEvt].isRunning
      /\ Unlinked(ev_timer, T, timerEvt)
    BY <1>2, UnonDeletes
<1>4. T.evt[timerEvt].next = ev_timer.evt[timerEvt].next
    BY <1>2, <1>3 DEF Unlinked
<1>5. b \in BOOLEAN
    OBVIOUS
<1> HIDE DEF T, b
<1>6. /\ ControlOK(ev_timer') /\ UsedSlots(ev_timer') = UsedSlots(T) /\ ev_timer'.head = T.head
      /\ \A q \in Slots : /\ ev_timer'.evt[q].next = T.evt[q].next
                          /\ ev_timer'.evt[q].cb = T.evt[q].cb
                          /\ SameTimes(ev_timer'.evt[q], T.evt[q])
    BY <1>1, <1>2, <1>3, <1>5, BusyKeeps
<1>7. Unlinked(ev_timer, ev_timer', timerEvt)
    BY <1>2, <1>3, <1>6 DEF Unlinked, UsedSlots
<1>8. /\ ~ev_timer'.evt[timerEvt].isRunning
      /\ \A q \in Slots \ {timerEvt} : /\ SameTimes(ev_timer'.evt[q], ev_timer.evt[q])
                                       /\ ev_timer'.evt[q].cb = ev_timer.evt[q].cb
    BY <1>2, <1>3, <1>6 DEF SameTimes
<1>9. timerEvt' \in {ev_timer'.head, ev_timer.evt[timerEvt].next}
    BY <1>1, <1>4, <1>6
<1> QED
    BY <1>1, <1>2, <1>3, <1>6, <1>7, <1>8, <1>9

\* What a callback that keeps its timer does.
LEMMA ReturnAgainDoes ==
    ASSUME IInv, Periods, NEW t \in Timeouts \cup {0}, ReturnAgain(t)
    PROVE  /\ pc = "cb" /\ pc' = "walk"
           /\ timerEvt \in UsedSlots(ev_timer) /\ timerEvt \in Slots
           /\ ControlOK(ev_timer') /\ UsedSlots(ev_timer') = UsedSlots(ev_timer)
           /\ ev_timer'.head = ev_timer.head
           /\ timerEvt' \in {ev_timer.head, ev_timer.evt[timerEvt].next}
           /\ \A q \in Slots : /\ ev_timer'.evt[q].next = ev_timer.evt[q].next
                               /\ ev_timer'.evt[q].cb = ev_timer.evt[q].cb
           /\ \A q \in Slots \ {timerEvt} : SameTimes(ev_timer'.evt[q], ev_timer.evt[q])
           /\ ev_timer'.evt[timerEvt].timeout = ev_timer'.evt[timerEvt].period
           /\ ev_timer'.evt[timerEvt].period \in Timeouts
           /\ ev_timer'.evt[timerEvt].isRunning = ev_timer.evt[timerEvt].isRunning
           /\ UNCHANGED <<clock, prevSysTick, remSysTick, due, handle>>
<1> DEFINE p == IF t = 0 THEN ev_timer.evt[timerEvt].period ELSE t
           T == Rearmed(ev_timer, timerEvt, p)
<1>1. /\ pc = "cb" /\ ev_timer' = SetBusy(T, timerEvt, FALSE) /\ pc' = "walk"
      /\ timerEvt' = IF prev_head # T.head THEN T.head ELSE T.evt[timerEvt].next
      /\ UNCHANGED <<clock, prevSysTick, remSysTick, due, handle>>
    BY DEF ReturnAgain, Resume, SetBusy, Rearmed
<1>2. timerEvt \in UsedSlots(ev_timer) /\ ControlOK(ev_timer) /\ timerEvt \in Slots
    BY <1>1 DEF IInv, CursorInUse, UsedSlots
<1>3. p \in Timeouts /\ p \in Nat
    BY <1>2, TimeAssumption DEF Periods
<1> HIDE DEF p
<1>4. /\ ControlOK(ev_timer') /\ UsedSlots(ev_timer') = UsedSlots(ev_timer)
      /\ ev_timer'.head = ev_timer.head
      /\ \A q \in Slots : /\ ev_timer'.evt[q].next = ev_timer.evt[q].next
                          /\ ev_timer'.evt[q].cb = ev_timer.evt[q].cb
      /\ \A q \in Slots \ {timerEvt} : SameTimes(ev_timer'.evt[q], ev_timer.evt[q])
      /\ ev_timer'.evt[timerEvt].timeout = p /\ ev_timer'.evt[timerEvt].period = p
      /\ ev_timer'.evt[timerEvt].isRunning = ev_timer.evt[timerEvt].isRunning
    <2> DEFINE V == Again(ev_timer, timerEvt, p)
           s == timerEvt
    <2>1. /\ ControlOK(V) /\ UsedSlots(V) = UsedSlots(ev_timer) /\ V.head = ev_timer.head
          /\ \A q \in Slots : /\ V.evt[q].next = ev_timer.evt[q].next
                              /\ V.evt[q].cb = ev_timer.evt[q].cb
          /\ \A q \in Slots \ {s} : SameTimes(V.evt[q], ev_timer.evt[q])
          /\ V.evt[s].timeout = p /\ V.evt[s].period = p
          /\ V.evt[s].isRunning = ev_timer.evt[s].isRunning
        BY <1>2, <1>3, RearmDoes
    <2>2. ev_timer' = V
        BY <1>1 DEF Again
    <2> HIDE DEF V
    <2> QED
        BY <2>1, <2>2
<1>5. T.head = ev_timer.head /\ T.evt[timerEvt].next = ev_timer.evt[timerEvt].next
    BY <1>2 DEF Rearmed, ControlOK, Control, Event
<1> QED
    BY <1>1, <1>2, <1>3, <1>4, <1>5

\* The callback that stops its timer leaves every due timer ahead.
LEMMA ReturnStopWalks == IInv /\ WalkInv /\ ReturnStop => WalkInv'
<1> SUFFICES ASSUME IInv, WalkInv, ReturnStop PROVE WalkInv'
    OBVIOUS
<1> DEFINE n == ev_timer.evt[timerEvt].next
<1>1. /\ pc = "cb" /\ pc' = "walk"
      /\ timerEvt \in UsedSlots(ev_timer) /\ timerEvt \in Slots
      /\ ControlOK(ev_timer') /\ UsedSlots(ev_timer') = UsedSlots(ev_timer) \ {timerEvt}
      /\ timerEvt' \in {ev_timer'.head, n}
      /\ \A q \in Slots \ {timerEvt} : SameTimes(ev_timer'.evt[q], ev_timer.evt[q])
      /\ Unlinked(ev_timer, ev_timer', timerEvt)
      /\ due' = due
    BY ReturnStopDoes
<1>2. timerEvt \notin due /\ Covers(ev_timer, n, due)
    BY <1>1 DEF WalkInv, DueAhead
<1>3. \A q \in UsedSlots(ev_timer') : /\ q \in UsedSlots(ev_timer) /\ q # timerEvt
                                      /\ SameTimes(ev_timer'.evt[q], ev_timer.evt[q])
    BY <1>1 DEF UsedSlots
<1>4. Periods'
    BY <1>3 DEF WalkInv, Periods, SameTimes
<1>5. due \subseteq UsedSlots(ev_timer')
    BY <1>1, <1>2 DEF WalkInv, DueArmed
<1>6. DueArmed'
    BY <1>1, <1>3, <1>5 DEF WalkInv, DueArmed, SameTimes
<1>7. Covers(ev_timer', ev_timer'.head, due)
    BY <1>1, <1>5, CoversHead
<1>8. Covers(ev_timer', n, due)
    <2>1. due \ {timerEvt} = due
        BY <1>2
    <2> HIDE DEF n
    <2>2. Covers(ev_timer', n, due \ {timerEvt})
        BY <1>1, <1>2, CoversUnlinked
    <2> QED
        BY <2>1, <2>2
<1>9. DueAhead'
    BY <1>1, <1>7, <1>8 DEF DueAhead
<1> QED
    BY <1>4, <1>6, <1>9 DEF WalkInv

\* And so does the one that keeps it.
LEMMA ReturnAgainWalks ==
    ASSUME IInv, WalkInv, NEW t \in Timeouts \cup {0}, ReturnAgain(t)
    PROVE  WalkInv'
<1> DEFINE n == ev_timer.evt[timerEvt].next
<1>1. /\ pc = "cb" /\ pc' = "walk"
      /\ timerEvt \in UsedSlots(ev_timer) /\ timerEvt \in Slots
      /\ ControlOK(ev_timer') /\ UsedSlots(ev_timer') = UsedSlots(ev_timer)
      /\ ev_timer'.head = ev_timer.head
      /\ timerEvt' \in {ev_timer.head, n}
      /\ \A q \in Slots : ev_timer'.evt[q].next = ev_timer.evt[q].next
      /\ \A q \in Slots \ {timerEvt} : SameTimes(ev_timer'.evt[q], ev_timer.evt[q])
      /\ ev_timer'.evt[timerEvt].timeout = ev_timer'.evt[timerEvt].period
      /\ ev_timer'.evt[timerEvt].period \in Timeouts
      /\ due' = due
    BY ReturnAgainDoes DEF WalkInv
<1>2. timerEvt \notin due /\ Covers(ev_timer, n, due) /\ due \subseteq UsedSlots(ev_timer)
    BY <1>1 DEF WalkInv, DueAhead, DueArmed
<1>3. ev_timer'.evt[timerEvt].timeout # 0
    BY <1>1, TimeAssumption
<1>4. \A q \in UsedSlots(ev_timer) : q # timerEvt => SameTimes(ev_timer'.evt[q], ev_timer.evt[q])
    BY <1>1 DEF UsedSlots
<1>5. Periods'
    BY <1>1, <1>4 DEF WalkInv, Periods, SameTimes
<1>6. DueArmed'
    BY <1>1, <1>2, <1>3, <1>4 DEF WalkInv, DueArmed, SameTimes
<1>7. Covers(ev_timer', ev_timer'.head, due)
    BY <1>1, <1>2, CoversHead
<1>8. Covers(ev_timer', n, due)
    <2> HIDE DEF n
    <2> QED
        BY <1>1, <1>2, CoversSame
<1>9. DueAhead'
    BY <1>1, <1>7, <1>8 DEF DueAhead
<1> QED
    BY <1>5, <1>6, <1>9 DEF WalkInv

\* At its end nothing lies ahead of the walk, so nothing due is left.
LEMMA WalkEndWalks == IInv /\ WalkInv /\ WalkEnd => WalkInv'
<1> SUFFICES ASSUME IInv, WalkInv, WalkEnd PROVE WalkInv'
    OBVIOUS
<1>1. /\ pc = "walk" /\ timerEvt = NULL /\ ev_timer' = nearestUpdate(ev_timer)
      /\ pc' = "main" /\ due' = due
    BY DEF WalkEnd
<1>2. ev_timer'.evt = ev_timer.evt /\ UsedSlots(ev_timer') = UsedSlots(ev_timer)
    BY <1>1, NearestUpdateKeeps DEF IInv
<1>3. Covers(ev_timer, NULL, due)
    BY <1>1 DEF WalkInv, DueAhead
<1>4. due = {}
    <2>1. NextClosed(ev_timer, {}) /\ {} \in SUBSET Slots
        BY DEF NextClosed
    <2>2. due \subseteq {}
        BY <1>3, <2>1 DEF Covers
    <2> QED
        BY <2>2
<1>5. DueAhead' /\ Periods'
    BY <1>1, <1>2, <1>4 DEF WalkInv, DueAhead, Periods
<1>6. DueArmed'
    BY <1>1, <1>2, <1>4 DEF WalkInv, DueArmed
<1> QED
    BY <1>5, <1>6 DEF WalkInv

\* No step leaves a due timer behind.
LEMMA NextWalks == IInv /\ WalkInv /\ [Next]_vars => WalkInv'
<1> SUFFICES ASSUME IInv, WalkInv, [Next]_vars PROVE WalkInv'
    OBVIOUS
<1>1. ASSUME NEW c \in Clients, PostExhausted(c) PROVE WalkInv'
    <2>1. ev_timer' = EmptyControl /\ pc' = "main" /\ due' = {}
        BY <1>1 DEF PostExhausted
    <2>2. UsedSlots(ev_timer') = {}
        BY <2>1, EmptyControlOK
    <2> QED
        BY <2>1, <2>2 DEF WalkInv, DueAhead, DueArmed, Periods
<1>2. ASSUME Tick \/ UNCHANGED vars PROVE WalkInv'
    <2>1. ev_timer' = ev_timer /\ pc' = pc /\ timerEvt' = timerEvt /\ due' = due
        BY <1>2 DEF Tick, vars
    <2>2. DueAhead'
        BY <2>1 DEF WalkInv, DueAhead
    <2> QED
        BY <2>1, <2>2 DEF WalkInv, DueArmed, Periods
<1>3. MainLoop => WalkInv'
    BY ProcessWalks, WalkPastWalks, FireWalks, ReturnStopWalks, ReturnAgainWalks, WalkEndWalks
    DEF MainLoop
<1> QED
    BY <1>1, <1>2, <1>3, ScheduleWalks, CancelWalks DEF Next

-----------------------------------------------------------------------------
(***************************************************************************)
(* The time charged: `age' counts the ticks since a timer was armed, and   *)
(* what has been charged to it follows `age' within two milliseconds.      *)
(***************************************************************************)
\* Timer e, armed a ticks ago, at time now, lag ticks after the last call of
\* ev_timer_process, which left the remainder rem.
Paced(e, a, now, lag, rem) ==
    LET reg     == Elapsed(now, e.curSysTick)
        charged == (e.period - e.timeout) * TicksPerMs
    IN  /\ e.period \in Timeouts /\ e.timeout <= e.period
        /\ ~e.isRunning => /\ e.timeout = e.period
                           /\ reg <= lag + rem
                           /\ a <= reg /\ (a >= AgeCap \/ a = reg)
        /\ e.isRunning /\ e.timeout > 0 => a <= lag + charged + TicksPerMs - 1 + rem
        /\ e.isRunning => a >= AgeCap \/ lag + charged + rem < a + TicksPerMs

\* Two calls of ev_timer_process are never so far apart that the counter comes
\* round, a free slot waits for its registration, and every timer is paced.
Timed ==
    /\ Lag <= MaxLag
    /\ \A s \in Slots \ UsedSlots(ev_timer) : ~ev_timer.evt[s].isRunning
    /\ \A s \in UsedSlots(ev_timer) :
            Paced(ev_timer.evt[s], age[s], clock, Lag, remSysTick)

\* Only four fields matter.
LEMMA PacedSame ==
    ASSUME NEW d, NEW e, SameTimes(d, e), NEW a, NEW now, NEW lag, NEW rem
    PROVE  Paced(d, a, now, lag, rem) <=> Paced(e, a, now, lag, rem)
BY DEF SameTimes, Paced

\* Subtraction of two readings of the counter.
LEMMA ElapsedIs ==
    ASSUME NEW a \in Ticks, NEW b \in Ticks
    PROVE  /\ Elapsed(a, b) \in Ticks
           /\ Elapsed(a, a) = 0
           /\ Elapsed(a, b) + 1 < TickMod =>
                Elapsed((a + 1) % TickMod, b) = Elapsed(a, b) + 1
<1> DEFINE n == TickMod
           c == (a + 1) % n
<1>1. n \in Nat \ {0} /\ a \in 0 .. (n - 1) /\ b \in 0 .. (n - 1)
    BY TimeAssumption DEF Ticks
<1>2. Elapsed(a, b) = (a - b) % n /\ Elapsed(a, a) = (a - a) % n /\ Elapsed(c, b) = (c - b) % n
    BY DEF Elapsed
<1> HIDE DEF n
<1>3. c = IF a + 1 = n THEN 0 ELSE a + 1
    BY <1>1
<1> HIDE DEF c
<1>4. c \in 0 .. (n - 1)
    BY <1>1, <1>3
<1>5. \A x \in 0 .. (n - 1), y \in 0 .. (n - 1) :
        (x - y) % n = IF x >= y THEN x - y ELSE x - y + n
    <2> TAKE x \in 0 .. (n - 1), y \in 0 .. (n - 1)
    <2>1. x >= y => (x - y) % n = x - y
        BY <1>1
    <2>2. x < y => (x - y) % n = x - y + n
        BY <1>1
    <2> QED
        BY <2>1, <2>2
<1>6. /\ Elapsed(a, b) = IF a >= b THEN a - b ELSE a - b + n
      /\ Elapsed(a, a) = 0
      /\ Elapsed(c, b) = IF c >= b THEN c - b ELSE c - b + n
    <2>1. (a - b) % n = IF a >= b THEN a - b ELSE a - b + n
        BY <1>1, <1>5
    <2>2. (a - a) % n = IF a >= a THEN a - a ELSE a - a + n
        BY <1>1, <1>5
    <2>3. (c - b) % n = IF c >= b THEN c - b ELSE c - b + n
        BY <1>1, <1>4, <1>5
    <2> QED
        BY <1>1, <1>2, <2>1, <2>2, <2>3
<1>7. Elapsed(a, b) \in 0 .. (n - 1)
    BY <1>1, <1>6
<1>8. Elapsed(a, b) + 1 < n => Elapsed(c, b) = Elapsed(a, b) + 1
    BY <1>1, <1>3, <1>6
<1> QED
    BY <1>6, <1>7, <1>8 DEF n, c, Ticks

\* The types of what Paced speaks about.
LEMMA PacedTypes ==
    ASSUME TypeOK
    PROVE  /\ Lag \in Nat /\ remSysTick \in 0 .. TicksPerMs - 1 /\ clock \in Ticks
           /\ TicksPerMs \in Nat \ {0} /\ AgeCap \in Nat
           /\ \A s \in Slots : /\ age[s] \in 0 .. AgeCap
                               /\ ev_timer.evt[s].curSysTick \in Ticks
                               /\ ev_timer.evt[s].timeout \in Nat
                               /\ ev_timer.evt[s].period \in Nat
                               /\ ev_timer.evt[s].isRunning \in BOOLEAN
                               /\ Elapsed(clock, ev_timer.evt[s].curSysTick) \in Nat
<1>1. clock \in Ticks /\ prevSysTick \in Ticks
    BY DEF TypeOK
<1>2. Lag \in Nat
    BY <1>1, ElapsedNat DEF Lag
<1>3. \A s \in Slots : ev_timer.evt[s] \in Event
    BY DEF TypeOK
<1>4. \A s \in Slots : /\ age[s] \in 0 .. AgeCap
                       /\ ev_timer.evt[s].curSysTick \in Ticks
                       /\ ev_timer.evt[s].timeout \in Nat
                       /\ ev_timer.evt[s].period \in Nat
                       /\ ev_timer.evt[s].isRunning \in BOOLEAN
    BY <1>3 DEF TypeOK, Event
<1>5. \A s \in Slots : Elapsed(clock, ev_timer.evt[s].curSysTick) \in Nat
    BY <1>1, <1>4, ElapsedNat
<1> QED
    BY <1>1, <1>2, <1>4, <1>5, TimeAssumption DEF TypeOK

\* A tick makes every timer and the lag one tick older.
LEMMA TickTimes == IInv /\ Timed /\ Tick => Timed'
<1> SUFFICES ASSUME IInv, Timed, Tick PROVE Timed'
    OBVIOUS
<1>1. /\ Lag < MaxLag /\ clock' = (clock + 1) % TickMod
      /\ age' = [s \in Slots |-> IF ev_timer.evt[s].used /\ age[s] < AgeCap
                                 THEN age[s] + 1 ELSE age[s]]
      /\ ev_timer' = ev_timer /\ prevSysTick' = prevSysTick /\ remSysTick' = remSysTick
    BY DEF Tick
<1>2. TypeOK
    BY DEF IInv
<1>3. Lag' = Lag + 1
    <2>1. clock \in Ticks /\ prevSysTick \in Ticks
        BY <1>2 DEF TypeOK
    <2>2. Elapsed(clock, prevSysTick) + 1 < TickMod
        BY <1>1, <1>2, PacedTypes, TimeAssumption DEF Lag
    <2>3. Elapsed(clock', prevSysTick) = Elapsed(clock, prevSysTick) + 1
        BY <1>1, <2>1, <2>2, ElapsedIs
    <2> QED
        BY <1>1, <2>3 DEF Lag
<1>4. Lag' <= MaxLag
    BY <1>1, <1>2, <1>3, PacedTypes, TimeAssumption
<1>5. ASSUME NEW s \in UsedSlots(ev_timer)
      PROVE  Paced(ev_timer.evt[s], age'[s], clock', Lag + 1, remSysTick)
    <2> DEFINE e    == ev_timer.evt[s]
               a    == age[s]
               reg  == Elapsed(clock, e.curSysTick)
               done == (e.period - e.timeout) * TicksPerMs
    <2>1. /\ s \in Slots /\ a \in 0 .. AgeCap /\ e.curSysTick \in Ticks
          /\ e.timeout \in Nat /\ e.period \in Nat /\ e.isRunning \in BOOLEAN /\ reg \in Nat
          /\ AgeCap \in Nat /\ TicksPerMs \in Nat \ {0} /\ remSysTick \in 0 .. TicksPerMs - 1
          /\ clock \in Ticks /\ Lag \in Nat
        BY <1>2, PacedTypes DEF UsedSlots
    <2>2. Paced(e, a, clock, Lag, remSysTick)
        BY DEF Timed
    <2>3. age'[s] = IF a < AgeCap THEN a + 1 ELSE a
        BY <1>1, <2>1 DEF UsedSlots
    <2>4. done \in Int
        BY <2>1
    <2>5. ~e.isRunning => Elapsed(clock', e.curSysTick) = reg + 1
        <3>1. ~e.isRunning => reg <= Lag + remSysTick
            BY <2>2 DEF Paced
        <3>2. ~e.isRunning => reg + 1 < TickMod
            BY <1>1, <2>1, <3>1, TimeAssumption
        <3> QED
            BY <1>1, <2>1, <3>2, ElapsedIs
    <2> DEFINE reg2 == Elapsed(clock', e.curSysTick)
               b    == age'[s]
    <2>6. /\ e.period \in Timeouts /\ e.timeout <= e.period
          /\ ~e.isRunning => /\ e.timeout = e.period /\ reg <= Lag + remSysTick
                             /\ a <= reg /\ (a >= AgeCap \/ a = reg)
          /\ e.isRunning /\ e.timeout > 0 => a <= Lag + done + TicksPerMs - 1 + remSysTick
          /\ e.isRunning => a >= AgeCap \/ Lag + done + remSysTick < a + TicksPerMs
        BY <2>2 DEF Paced
    <2>7. /\ ~e.isRunning => /\ reg2 <= (Lag + 1) + remSysTick
                             /\ b <= reg2 /\ (b >= AgeCap \/ b = reg2)
          /\ e.isRunning /\ e.timeout > 0 => b <= (Lag + 1) + done + TicksPerMs - 1 + remSysTick
          /\ e.isRunning => b >= AgeCap \/ (Lag + 1) + done + remSysTick < b + TicksPerMs
        <3> HIDE DEF e, a, reg, done, reg2, b
        <3>1. b = IF a < AgeCap THEN a + 1 ELSE a
            BY <2>3 DEF b
        <3>2. ~e.isRunning => reg2 = reg + 1
            BY <2>5 DEF reg2
        <3> QED
            BY <2>1, <2>4, <2>6, <3>1, <3>2
    <2> HIDE DEF e, a, b
    <2> QED
        BY <2>6, <2>7 DEF Paced, e, b
<1>6. \A s \in Slots \ UsedSlots(ev_timer) : ~ev_timer.evt[s].isRunning
    BY DEF Timed
<1>7. UsedSlots(ev_timer') = UsedSlots(ev_timer)
    BY <1>1
<1> QED
    BY <1>1, <1>3, <1>4, <1>5, <1>6, <1>7 DEF Timed

\* What is charged in all after a charge of d milliseconds.
LEMMA ChargedAfter ==
    ASSUME NEW p \in Nat, NEW t \in 0 .. p, NEW d \in Nat, NEW k \in Nat
    PROVE  /\ Left(t, d) \in 0 .. t
           /\ (p - Left(t, d)) * k <= (p - t) * k + d * k
           /\ Left(t, d) > 0 => (p - Left(t, d)) * k = (p - t) * k + d * k
<1> DEFINE u == Left(t, d)
<1>1. u \in 0 .. t /\ (p - u) \in Nat /\ (p - t) \in Nat /\ (p - u) <= (p - t) + d
      /\ (u > 0 => p - u = (p - t) + d)
    BY DEF Left
<1> HIDE DEF u
<1>2. \A x \in Nat, y \in Nat, z \in Nat :
        /\ x <= y + z => x * k <= y * k + z * k
        /\ x = y + z => x * k = y * k + z * k
    <2> TAKE x \in Nat, y \in Nat, z \in Nat
    <2>1. (y + z) * k = y * k + z * k
        OBVIOUS
    <2>2. x <= y + z => x * k <= (y + z) * k
        <3> SUFFICES ASSUME x <= y + z PROVE x * k <= (y + z) * k
            OBVIOUS
        <3> DEFINE w == (y + z) - x
        <3>1. w \in Nat /\ y + z = x + w
            OBVIOUS
        <3> HIDE DEF w
        <3>2. (x + w) * k = x * k + w * k /\ w * k \in Nat /\ x * k \in Nat
            BY <3>1
        <3>3. x * k <= (x + w) * k
            BY <3>2
        <3> QED
            BY <3>1, <3>3
    <2> QED
        BY <2>1, <2>2
<1>3. (p - u) * k <= (p - t) * k + d * k
    BY <1>1, <1>2
<1>4. u > 0 => (p - u) * k = (p - t) * k + d * k
    BY <1>1, <1>2
<1> QED
    BY <1>1, <1>3, <1>4 DEF u

\* ev_timer_process charges what has passed, to the remainder it carries on.
LEMMA ProcessTimes == IInv /\ Timed /\ Process => Timed'
<1> SUFFICES ASSUME IInv, Timed, Process PROVE Timed'
    OBVIOUS
<1> DEFINE ms   == UpdateTime
           rest == (remSysTick + (Lag % TicksPerMs)) % TicksPerMs
<1>1. /\ prevSysTick' = clock /\ clock' = clock /\ age' = age
      /\ remSysTick' = rest
    BY DEF Process
<1>2. TypeOK
    BY DEF IInv
<1>3. /\ ms \in Nat /\ rest \in 0 .. TicksPerMs - 1 /\ Lag \in Nat
      /\ Lag + remSysTick = ms * TicksPerMs + rest
    BY ProcessTime
<1>4. Lag' = 0
    BY <1>1, <1>2, ElapsedIs DEF Lag, TypeOK
<1>5. /\ UsedSlots(ev_timer') = UsedSlots(ev_timer)
      /\ \A q \in Slots \ UsedSlots(ev_timer) : ev_timer'.evt[q] = ev_timer.evt[q]
      /\ ms = 0 => ev_timer' = ev_timer
      /\ ms > 0 => \A q \in UsedSlots(ev_timer) :
                /\ Charge(ev_timer, ms, q) \in Nat
                /\ ev_timer'.evt[q].period = ev_timer.evt[q].period
                /\ ev_timer'.evt[q].isRunning
                /\ ev_timer'.evt[q].timeout =
                        Left(ev_timer.evt[q].timeout, Charge(ev_timer, ms, q))
    BY ProcessDoes
<1> HIDE DEF ms, rest
<1>6. ASSUME NEW s \in UsedSlots(ev_timer)
      PROVE  Paced(ev_timer'.evt[s], age[s], clock, 0, rest)
    <2> DEFINE e    == ev_timer.evt[s]
               a    == age[s]
               reg  == Elapsed(clock, e.curSysTick)
               p    == e.period
               t    == e.timeout
               done == (p - t) * TicksPerMs
               K    == TicksPerMs
    <2>1. /\ s \in Slots /\ a \in 0 .. AgeCap /\ t \in Nat /\ p \in Nat
          /\ e.isRunning \in BOOLEAN /\ reg \in Nat
          /\ AgeCap \in Nat /\ K \in Nat \ {0} /\ remSysTick \in 0 .. K - 1
        BY <1>2, PacedTypes DEF UsedSlots
    <2>2. Paced(e, a, clock, Lag, remSysTick)
        BY DEF Timed
    <2>3. /\ p \in Timeouts /\ t <= p
          /\ ~e.isRunning => /\ t = p /\ reg <= Lag + remSysTick
                             /\ a <= reg /\ (a >= AgeCap \/ a = reg)
          /\ e.isRunning /\ t > 0 => a <= Lag + done + K - 1 + remSysTick
          /\ e.isRunning => a >= AgeCap \/ Lag + done + remSysTick < a + K
        BY <2>2 DEF Paced
    <2>4. done \in Int
        BY <2>1
    <2>5. CASE ms = 0
        <3>1. Lag + remSysTick = rest
            BY <1>3, <2>1, <2>5
        <3>2. ev_timer'.evt[s] = e
            BY <1>5, <2>5
        <3>3. /\ ~e.isRunning => reg <= 0 + rest
              /\ e.isRunning /\ t > 0 => a <= 0 + done + K - 1 + rest
              /\ e.isRunning => a >= AgeCap \/ 0 + done + rest < a + K
            <4> HIDE DEF e, a, reg, p, t, done, K
            <4> QED
                BY <1>3, <2>1, <2>3, <2>4, <3>1
        <3>4. Paced(e, a, clock, 0, rest)
            BY <2>3, <3>3 DEF Paced
        <3> QED
            BY <3>2, <3>4
    <2>6. CASE ms > 0
        <3> DEFINE d  == Charge(ev_timer, ms, s)
                   f  == ev_timer'.evt[s]
                   u  == f.timeout
                   dd == (p - u) * K
        <3>1. d \in Nat /\ f.period = p /\ f.isRunning /\ u = Left(t, d)
            BY <1>5, <2>6
        <3>2. u \in 0 .. t /\ dd <= done + d * K /\ (u > 0 => dd = done + d * K)
            <4>1. p \in Nat /\ t \in 0 .. p /\ d \in Nat /\ K \in Nat /\ u = Left(t, d)
                BY <2>1, <2>3, <3>1
            <4>1a. done = (p - t) * K
                OBVIOUS
            <4> HIDE DEF p, t, d, K, u, done
            <4>2. /\ Left(t, d) \in 0 .. t
                  /\ (p - Left(t, d)) * K <= (p - t) * K + d * K
                  /\ Left(t, d) > 0 => (p - Left(t, d)) * K = (p - t) * K + d * K
                BY <4>1, ChargedAfter
            <4> QED
                BY <4>1, <4>1a, <4>2
        <3>3. dd \in Int /\ d * K \in Int
            BY <2>1, <3>1, <3>2
        <3>4. /\ e.isRunning => d = ms
              /\ ~e.isRunning => d = reg \div K
            BY DEF Charge, MsSince
        <3>5. /\ u > 0 => a <= 0 + dd + K - 1 + rest
              /\ a >= AgeCap \/ 0 + dd + rest < a + K
            <4>1. CASE e.isRunning
                <5>1. d * K = Lag + remSysTick - rest
                    BY <1>3, <2>1, <3>4, <4>1
                <5> DEFINE x == d * K
                <5> HIDE DEF e, a, reg, p, t, done, K, d, f, u, dd, x
                <5> QED
                    BY <1>3, <2>1, <2>3, <2>4, <3>2, <3>3, <4>1, <5>1 DEF x
            <4>2. CASE ~e.isRunning
                <5>1. reg % K \in 0 .. K - 1 /\ reg = K * (reg \div K) + (reg % K) /\ reg \div K \in Nat
                    <6> HIDE DEF reg, K
                    <6> QED
                        BY <2>1
                <5>2. d * K = reg - (reg % K)
                    <6> DEFINE y == reg % K
                               z == reg \div K
                    <6>1. d = z /\ reg = K * z + y /\ z \in Nat /\ y \in Int
                        BY <3>4, <4>2, <5>1
                    <6>2. K \in Nat
                        BY <2>1
                    <6> HIDE DEF y, z, reg, K, d
                    <6>3. d * K = reg - y
                        BY <6>1, <6>2
                    <6> QED
                        BY <6>3 DEF y
                <5>3. done = 0
                    BY <2>1, <2>3, <4>2
                <5> DEFINE x == d * K
                           y == reg % K
                <5>4. x = reg - y /\ y \in 0 .. K - 1 /\ rest \in 0 .. K - 1
                    <6>1. rest \in 0 .. K - 1
                        BY <1>3
                    <6> HIDE DEF d, K, reg
                    <6> QED
                        BY <5>1, <5>2, <6>1
                <5> HIDE DEF e, a, reg, p, t, done, K, d, f, u, dd, x, y
                <5> QED
                    BY <1>3, <2>1, <2>3, <2>4, <3>2, <3>3, <4>2, <5>3, <5>4 DEF x
            <4> QED
                BY <4>1, <4>2
        <3>6. u <= p
            BY <2>1, <2>3, <3>2
        <3>7. Paced(f, a, clock, 0, rest)
            BY <2>3, <3>1, <3>5, <3>6 DEF Paced
        <3> QED
            BY <3>7
    <2> QED
        BY <1>3, <2>5, <2>6
<1>7. \A s \in Slots \ UsedSlots(ev_timer') : ~ev_timer'.evt[s].isRunning
    BY <1>5 DEF Timed
<1> QED
    BY <1>1, <1>4, <1>5, <1>6, <1>7, TimeAssumption DEF Timed

\* A post starts a timer's time at the tick of its registration.
LEMMA ScheduleTimes ==
    ASSUME NEW c \in Clients, NEW t \in Timeouts, IInv, Timed, Schedule(c, t)
    PROVE  Timed'
<1> USE DEF NULL
<1> DEFINE h == handle[c]
           T == taskCancel(ev_timer, h)
           f == FreeSlot(T)
           U == taskPost(T, c, t)
<1>1. /\ ~PoolFull(T) /\ ev_timer' = U
      /\ age' = [age EXCEPT ![f] = 0]
      /\ UNCHANGED <<clock, prevSysTick, remSysTick>>
    BY DEF Schedule, Post
<1>2. ControlOK(ev_timer) /\ clock \in Ticks /\ h \in Slots \cup {NULL} /\ TypeOK
    BY DEF IInv, TypeOK
<1>3. /\ ControlOK(T)
      /\ UsedSlots(T) = IF CancelAllowed(ev_timer, h) THEN UsedSlots(ev_timer) \ {h}
                                                      ELSE UsedSlots(ev_timer)
    BY <1>2, CancelDoes
<1>4. /\ f \in Slots \ UsedSlots(T) /\ ControlOK(U)
      /\ UsedSlots(U) = UsedSlots(T) \cup {f}
      /\ \A q \in Slots \ {f} : U.evt[q] = T.evt[q]
      /\ U.evt[f].timeout = t /\ U.evt[f].period = t
      /\ ~T.evt[f].isRunning => ~U.evt[f].isRunning /\ U.evt[f].curSysTick = clock
    BY <1>1, <1>2, <1>3, PostAdds
<1>5. /\ \A q \in UsedSlots(T) : /\ q \in UsedSlots(ev_timer)
                                 /\ SameTimes(T.evt[q], ev_timer.evt[q])
      /\ \A q \in Slots \ UsedSlots(T) : ~T.evt[q].isRunning
    <2>0. UsedSlots(T) \subseteq Slots /\ UsedSlots(ev_timer) \subseteq Slots
        BY DEF UsedSlots
    <2>1. CASE CancelAllowed(ev_timer, h)
        <3>1. h \in UsedSlots(ev_timer) /\ T = unon(ev_timer, h)
            BY <1>2, <2>1, CancelIs
        <3>2. /\ \A q \in Slots \ {h} : SameTimes(T.evt[q], ev_timer.evt[q])
              /\ ~T.evt[h].isRunning
            BY <1>2, <3>1, UnonDeletes
        <3> QED
            BY <1>3, <2>0, <2>1, <3>2 DEF Timed, SameTimes
    <2>2. CASE ~CancelAllowed(ev_timer, h)
        <3>1. T = ev_timer
            BY <1>2, <2>2, CancelIs
        <3> QED
            BY <3>1 DEF Timed, SameTimes
    <2> QED
        BY <2>1, <2>2
<1> HIDE DEF T, U, f, h
<1>6. Lag' = Lag
    BY <1>1 DEF Lag
<1>7. ASSUME NEW s \in UsedSlots(U)
      PROVE  Paced(U.evt[s], age'[s], clock, Lag, remSysTick)
    <2>1. CASE s = f
        <3>1. age'[s] = 0 /\ ~U.evt[s].isRunning /\ U.evt[s].curSysTick = clock
            BY <1>1, <1>2, <1>4, <1>5, <2>1 DEF TypeOK
        <3>2. Elapsed(clock, clock) = 0
            BY <1>2, ElapsedIs
        <3>3. Lag \in Nat /\ remSysTick \in Nat /\ t \in Nat
            BY <1>2, PacedTypes, TimeAssumption
        <3> QED
            BY <1>4, <2>1, <3>1, <3>2, <3>3 DEF Paced
    <2>2. CASE s # f
        <3>1. s \in UsedSlots(T) /\ s \in UsedSlots(ev_timer) /\ s \in Slots
            BY <1>4, <1>5, <2>2 DEF UsedSlots
        <3>2. SameTimes(U.evt[s], ev_timer.evt[s]) /\ age'[s] = age[s]
            BY <1>1, <1>2, <1>4, <1>5, <2>2, <3>1 DEF TypeOK
        <3>3. Paced(ev_timer.evt[s], age[s], clock, Lag, remSysTick)
            BY <3>1 DEF Timed
        <3> QED
            BY <3>2, <3>3, PacedSame
    <2> QED
        BY <2>1, <2>2
<1>8. \A s \in Slots \ UsedSlots(U) : ~U.evt[s].isRunning
    BY <1>4, <1>5
<1> QED
    BY <1>1, <1>6, <1>7, <1>8 DEF Timed

\* What leaves the clock and the timers that stay armed alone keeps their time.
LEMMA TimesKept ==
    ASSUME Timed, UNCHANGED <<clock, prevSysTick, remSysTick>>,
           UsedSlots(ev_timer') \subseteq UsedSlots(ev_timer),
           \A s \in UsedSlots(ev_timer') :
                \/ SameTimes(ev_timer'.evt[s], ev_timer.evt[s]) /\ age'[s] = age[s]
                \/ Paced(ev_timer'.evt[s], age'[s], clock, Lag, remSysTick),
           \A s \in Slots \ UsedSlots(ev_timer') :
                \/ SameTimes(ev_timer'.evt[s], ev_timer.evt[s]) /\ s \notin UsedSlots(ev_timer)
                \/ ~ev_timer'.evt[s].isRunning
    PROVE  Timed'
<1>1. Lag' = Lag
    BY DEF Lag
<1>2. ASSUME NEW s \in UsedSlots(ev_timer')
      PROVE  Paced(ev_timer'.evt[s], age'[s], clock, Lag, remSysTick)
    <2>1. Paced(ev_timer.evt[s], age[s], clock, Lag, remSysTick)
        BY DEF Timed
    <2> QED
        BY <2>1, PacedSame
<1>3. \A s \in Slots \ UsedSlots(ev_timer') : ~ev_timer'.evt[s].isRunning
    BY DEF Timed, SameTimes
<1> QED
    BY <1>1, <1>2, <1>3 DEF Timed

\* A cancel and the steps of the walk leave the time of the others alone; a
\* timer armed again counts from the last call of ev_timer_process.
LEMMA WalkTimes ==
    ASSUME IInv, WalkInv, Timed,
           WalkPast \/ Fire \/ ReturnStop \/ WalkEnd
             \/ (\E c \in Clients : Cancel(c)) \/ (\E t \in Timeouts \cup {0} : ReturnAgain(t))
    PROVE  Timed'
<1>0. UsedSlots(ev_timer) \subseteq Slots /\ ControlOK(ev_timer) /\ TypeOK
    BY DEF UsedSlots, IInv
<1>1. CASE WalkPast \/ WalkEnd
    <2>1. /\ ev_timer'.evt = ev_timer.evt /\ age' = age
          /\ UNCHANGED <<clock, prevSysTick, remSysTick>>
        BY <1>0, <1>1, NearestUpdateKeeps DEF WalkPast, WalkEnd
    <2>2. UsedSlots(ev_timer') = UsedSlots(ev_timer)
        BY <2>1 DEF UsedSlots
    <2>3. \A s \in Slots : SameTimes(ev_timer'.evt[s], ev_timer.evt[s])
        BY <2>1 DEF SameTimes
    <2> QED
        BY <1>0, <2>1, <2>2, <2>3, TimesKept
<1>2. CASE Fire
    <2>1. /\ timerEvt \in Slots
          /\ ev_timer' = [ev_timer EXCEPT !.evt[timerEvt].isBusy = TRUE] /\ age' = age
          /\ UNCHANGED <<clock, prevSysTick, remSysTick>>
        BY <1>2 DEF Fire, CursorInUse, UsedSlots, IInv, NULL
    <2> DEFINE b == TRUE
    <2>2. ev_timer' = SetBusy(ev_timer, timerEvt, b) /\ b \in BOOLEAN
        BY <2>1 DEF SetBusy
    <2> HIDE DEF b
    <2>3. /\ UsedSlots(ev_timer') = UsedSlots(ev_timer)
          /\ \A q \in Slots : SameTimes(ev_timer'.evt[q], ev_timer.evt[q])
        <3> DEFINE V == SetBusy(ev_timer, timerEvt, b)
        <3>1. /\ UsedSlots(V) = UsedSlots(ev_timer)
              /\ \A q \in Slots : SameTimes(V.evt[q], ev_timer.evt[q])
            BY <1>0, <2>1, <2>2, BusyKeeps
        <3>2. ev_timer' = V
            BY <2>2
        <3> HIDE DEF V
        <3> QED
            BY <3>1, <3>2
    <2> QED
        BY <1>0, <2>1, <2>3, TimesKept
<1>3. CASE ReturnStop
    <2>1. /\ UsedSlots(ev_timer') = UsedSlots(ev_timer) \ {timerEvt}
          /\ \A q \in Slots \ {timerEvt} : SameTimes(ev_timer'.evt[q], ev_timer.evt[q])
          /\ ~ev_timer'.evt[timerEvt].isRunning
          /\ UNCHANGED <<clock, prevSysTick, remSysTick>> /\ age' = age
        BY <1>3, ReturnStopDoes
    <2> QED
        BY <1>0, <2>1, TimesKept
<1>4. ASSUME NEW c \in Clients, Cancel(c)
      PROVE  Timed'
    <2> DEFINE h == handle[c]
    <2>1. /\ CancelAllowed(ev_timer, h) /\ ev_timer' = taskCancel(ev_timer, h)
          /\ UNCHANGED <<clock, prevSysTick, remSysTick>> /\ age' = age /\ h \in Slots \cup {NULL}
        BY <1>0, <1>4 DEF Cancel, TypeOK
    <2>2. h \in UsedSlots(ev_timer) /\ ev_timer' = unon(ev_timer, h)
        BY <1>0, <2>1, CancelIs
    <2>3. /\ UsedSlots(ev_timer') = UsedSlots(ev_timer) \ {h}
          /\ \A q \in Slots \ {h} : SameTimes(ev_timer'.evt[q], ev_timer.evt[q])
          /\ ~ev_timer'.evt[h].isRunning
        BY <1>0, <2>2, UnonDeletes
    <2> HIDE DEF h
    <2> QED
        BY <1>0, <2>1, <2>3, TimesKept
<1>5. ASSUME NEW t \in Timeouts \cup {0}, ReturnAgain(t)
      PROVE  Timed'
    <2> DEFINE e == ev_timer'.evt[timerEvt]
    <2>1. /\ pc = "cb" /\ timerEvt \in Slots /\ timerEvt \in UsedSlots(ev_timer)
          /\ UsedSlots(ev_timer') = UsedSlots(ev_timer)
          /\ \A q \in Slots \ {timerEvt} : SameTimes(ev_timer'.evt[q], ev_timer.evt[q])
          /\ e.timeout = e.period /\ e.period \in Timeouts
          /\ e.isRunning = ev_timer.evt[timerEvt].isRunning
          /\ UNCHANGED <<clock, prevSysTick, remSysTick>>
        BY <1>5, ReturnAgainDoes DEF WalkInv
    <2>2. age' = [age EXCEPT ![timerEvt] = IF Lag < AgeCap THEN Lag ELSE AgeCap]
        BY <1>5 DEF ReturnAgain
    <2>3. ev_timer.evt[timerEvt].timeout = 0
        BY <2>1 DEF WalkInv, DueArmed
    <2>4. e.isRunning
        <3>1. Paced(ev_timer.evt[timerEvt], age[timerEvt], clock, Lag, remSysTick)
            BY <2>1 DEF Timed
        <3>2. ev_timer.evt[timerEvt].period # 0
            BY <3>1, TimeAssumption DEF Paced
        <3> QED
            BY <2>1, <2>3, <3>1, <3>2 DEF Paced
    <2>5. Paced(e, age'[timerEvt], clock, Lag, remSysTick)
        <3> DEFINE a == age'[timerEvt]
                   done == (e.period - e.timeout) * TicksPerMs
        <3>1. a = IF Lag < AgeCap THEN Lag ELSE AgeCap
            BY <1>0, <2>1, <2>2 DEF TypeOK
        <3>2. /\ Lag \in Nat /\ AgeCap \in Nat /\ TicksPerMs \in Nat \ {0}
              /\ remSysTick \in 0 .. TicksPerMs - 1
            BY <1>0, PacedTypes
        <3>3. done = 0 /\ e.timeout <= e.period
            <4>1. e.period \in Nat /\ e.timeout = e.period
                BY <2>1, TimeAssumption
            <4> HIDE DEF e
            <4>2. e.period - e.timeout = 0 /\ e.timeout <= e.period
                BY <4>1
            <4>3. 0 * TicksPerMs = 0
                BY <3>2
            <4> QED
                BY <4>2, <4>3
        <3> HIDE DEF a, done, e
        <3>4. /\ a <= Lag + done + TicksPerMs - 1 + remSysTick
              /\ a >= AgeCap \/ Lag + done + remSysTick < a + TicksPerMs
            BY <3>1, <3>2, <3>3
        <3>5. e.isRunning /\ e.period \in Timeouts
            BY <2>1, <2>4
        <3> QED
            BY <3>3, <3>4, <3>5 DEF Paced, done, a
    <2>6. \A s \in Slots \ {timerEvt} : age'[s] = age[s]
        BY <1>0, <2>2 DEF TypeOK
    <2> HIDE DEF e
    <2> QED
        BY <1>0, <2>1, <2>5, <2>6, TimesKept DEF e
<1> QED
    BY <1>1, <1>2, <1>3, <1>4, <1>5

\* Every step keeps the timers' time.
LEMMA NextTimes == IInv /\ WalkInv /\ Timed /\ [Next]_vars => Timed'
<1> SUFFICES ASSUME IInv, WalkInv, Timed, [Next]_vars PROVE Timed'
    OBVIOUS
<1>1. ASSUME NEW c \in Clients, PostExhausted(c) PROVE Timed'
    <2>1. ev_timer' = EmptyControl /\ clock' = 0 /\ prevSysTick' = 0
        BY <1>1 DEF PostExhausted
    <2>2. UsedSlots(ev_timer') = {}
        BY <2>1, EmptyControlOK
    <2>3. \A s \in Slots : ~ev_timer'.evt[s].isRunning
        BY <2>1 DEF EmptyControl, Blank
    <2>4. Lag' = 0
        <3>1. 0 \in Ticks
            BY TimeAssumption DEF Ticks
        <3> QED
            BY <2>1, <3>1, ElapsedIs DEF Lag
    <2> QED
        BY <2>2, <2>3, <2>4, TimeAssumption DEF Timed
<1>2. CASE UNCHANGED vars
    BY <1>2 DEF vars, Timed, Lag, Paced, Elapsed, UsedSlots
<1> QED
    BY <1>1, <1>2, TickTimes, ProcessTimes, ScheduleTimes, WalkTimes DEF Next, MainLoop

-----------------------------------------------------------------------------
(***************************************************************************)
(* The theorems about the nearest timer, the walk and the time.            *)
(***************************************************************************)
\* All of it holds when ev_timer_init is done.
LEMMA InitRest == Init => NearestRight /\ WalkInv /\ Timed
<1> SUFFICES ASSUME Init PROVE NearestRight /\ WalkInv /\ Timed
    OBVIOUS
<1>1. /\ ev_timer = EmptyControl /\ clock = 0 /\ prevSysTick = 0 /\ pc = "main" /\ due = {}
    BY DEF Init
<1>2. UsedSlots(ev_timer) = {}
    BY <1>1, EmptyControlOK
<1>3. NearestRight
    BY <1>1 DEF NearestRight, EmptyControl
<1>4. WalkInv
    BY <1>1, <1>2 DEF WalkInv, DueAhead, DueArmed, Periods
<1>5. Timed
    <2>1. \A s \in Slots : ~ev_timer.evt[s].isRunning
        BY <1>1 DEF EmptyControl, Blank
    <2>2. Lag = 0
        <3>1. 0 \in Ticks
            BY TimeAssumption DEF Ticks
        <3> QED
            BY <1>1, <3>1, ElapsedIs DEF Lag
    <2> QED
        BY <1>2, <2>1, <2>2, TimeAssumption DEF Timed
<1> QED
    BY <1>3, <1>4, <1>5

\* timer_nearest, from which the sleep time is taken, is right in the main loop.
THEOREM NearestRightHolds == Spec => []NearestRight
<1>1. Init => NearestRight
    BY InitRest
<1> QED
    BY <1>1, NextNearest, Inductive, PTL DEF Spec

\* Where the walk stands and what is due, in every reachable state.
THEOREM WalkInductive == Spec => []WalkInv
<1>1. Init => WalkInv
    BY InitRest
<1> QED
    BY <1>1, NextWalks, Inductive, PTL DEF Spec

\* The walk of ev_timer_executeCB calls every timer that was due when it began,
\* whatever the callbacks post and cancel.
THEOREM NoDueSkippedHolds == Spec => []NoDueSkipped
<1>1. WalkInv => NoDueSkipped
    BY DEF WalkInv, DueAhead, NoDueSkipped
<1> QED
    BY <1>1, WalkInductive, PTL

\* What has been charged to each timer follows the time since it was armed.
THEOREM TimesInductive == Spec => []Timed
<1>1. Init => Timed
    BY InitRest
<1> QED
    BY <1>1, NextTimes, WalkInductive, Inductive, PTL DEF Spec

\* No timer fires a millisecond or more too early.  Ages are counted up to
\* AgeCap, which has to be beyond the longest period.
THEOREM NotEarlyHolds ==
    ASSUME \A t \in Timeouts : (t - 1) * TicksPerMs < AgeCap
    PROVE  Spec => []NotEarly
<1>1. IInv /\ Timed => NotEarly
    <2> SUFFICES ASSUME IInv, Timed, NEW s \in UsedSlots(ev_timer),
                        ev_timer.evt[s].timeout = 0
                 PROVE  age[s] > (ev_timer.evt[s].period - 1) * TicksPerMs
        BY DEF NotEarly
    <2> DEFINE e == ev_timer.evt[s]
               p == e.period
               a == age[s]
               K == TicksPerMs
    <2>1. /\ s \in Slots /\ a \in 0 .. AgeCap /\ p \in Nat /\ e.isRunning \in BOOLEAN
          /\ Lag \in Nat /\ remSysTick \in 0 .. K - 1 /\ K \in Nat \ {0} /\ AgeCap \in Nat
        BY PacedTypes DEF UsedSlots, IInv
    <2>2. Paced(e, a, clock, Lag, remSysTick) /\ e.timeout = 0
        BY DEF Timed
    <2>3. p \in Timeouts /\ p # 0
        BY <2>2, TimeAssumption DEF Paced
    <2>4. e.isRunning
        BY <2>1, <2>2, <2>3 DEF Paced
    <2>5. a >= AgeCap \/ Lag + (p - 0) * K + remSysTick < a + K
        BY <2>2, <2>4 DEF Paced
    <2>6. (p - 1) * K = p * K - K /\ p * K \in Int /\ (p - 0) * K = p * K
        <3> HIDE DEF p, K
        <3> QED
            BY <2>1
    <2>7. (p - 1) * K < AgeCap
        BY <2>3
    <2> DEFINE x == p * K
               y == (p - 1) * K
    <2>8. y = x - K /\ x \in Int /\ y < AgeCap
        BY <2>6, <2>7
    <2>9. a >= AgeCap \/ Lag + x + remSysTick < a + K
        BY <2>5, <2>6
    <2> HIDE DEF x, y, K, a, p, e
    <2>10. a > y
        BY <2>1, <2>8, <2>9
    <2> QED
        BY <2>10 DEF a, y, p, e, K
<1> QED
    BY <1>1, TimesInductive, Inductive, PTL

\* No timer is left in the main loop that had been over for a millisecond when
\* ev_timer_process last ran.
THEOREM NotLateHolds == Spec => []NotLate
<1>1. IInv /\ WalkInv /\ Timed => NotLate
    <2> SUFFICES ASSUME IInv, WalkInv, Timed, pc = "main", NEW s \in UsedSlots(ev_timer)
                 PROVE  age[s] - Lag < (ev_timer.evt[s].period + 1) * TicksPerMs - 1
        BY DEF NotLate
    <2> DEFINE e == ev_timer.evt[s]
               p == e.period
               t == e.timeout
               a == age[s]
               K == TicksPerMs
               reg == Elapsed(clock, e.curSysTick)
    <2>1. /\ s \in Slots /\ a \in 0 .. AgeCap /\ p \in Nat /\ t \in Nat
          /\ e.isRunning \in BOOLEAN /\ reg \in Nat
          /\ Lag \in Nat /\ remSysTick \in 0 .. K - 1 /\ K \in Nat \ {0}
        BY PacedTypes DEF UsedSlots, IInv
    <2>2. Paced(e, a, clock, Lag, remSysTick)
        BY DEF Timed
    <2>3. t # 0
        BY DEF WalkInv, DueAhead, DueArmed
    <2>4. p \in Timeouts /\ t <= p /\ p > 0
        <3>1. p \in Timeouts /\ t <= p
            BY <2>2 DEF Paced
        <3>2. p \in Nat \ {0}
            BY <3>1, TimeAssumption
        <3> HIDE DEF p
        <3> QED
            BY <3>1, <3>2
    <2> DEFINE x == p * K
               y == (p - t) * K
               z == (p + 1) * K
    <2>5. x \in Int /\ y \in Int /\ z = x + K /\ y <= x - K /\ x >= K
        <3> HIDE DEF p, K, t
        <3>1. \E q \in Nat : p - t = q /\ q <= p - 1
            BY <2>1, <2>3, <2>4
        <3>2. (p + 1) * K = p * K + K /\ p * K \in Int /\ (p - 1) * K = p * K - K
            BY <2>1
        <3>3. \A u \in Nat, v \in Nat : u <= v => u * K <= v * K
            <4> TAKE u \in Nat, v \in Nat
            <4> HAVE u <= v
            <4> DEFINE w == v - u
            <4>1. w \in Nat /\ v = u + w
                OBVIOUS
            <4> HIDE DEF w
            <4>2. (u + w) * K = u * K + w * K /\ w * K \in Nat /\ u * K \in Nat
                BY <2>1, <4>1
            <4> QED
                BY <4>1, <4>2
        <3>4. (p - t) * K <= (p - 1) * K /\ (p - t) * K \in Int
            BY <2>1, <2>4, <3>1, <3>3
        <3>5. 1 * K <= p * K
            BY <2>1, <2>4, <3>3
        <3>6. 1 * K = K
            BY <2>1
        <3> QED
            BY <3>2, <3>4, <3>5, <3>6
    <2>6. /\ ~e.isRunning => reg <= Lag + remSysTick /\ a <= reg
          /\ e.isRunning => a <= Lag + y + K - 1 + remSysTick
        BY <2>1, <2>2, <2>3 DEF Paced
    <2> HIDE DEF x, y, z, K, a, t, p, reg, e
    <2>7. a - Lag < z - 1
        BY <2>1, <2>5, <2>6
    <2> QED
        BY <2>7 DEF a, z, p, e, K
<1> QED
    BY <1>1, TimesInductive, WalkInductive, Inductive, PTL

-----------------------------------------------------------------------------
(***************************************************************************)
(* Refinement: what the clients see of the timers is the timer service.    *)
(***************************************************************************)
pending == [s \in UsedSlots(ev_timer) |-> ev_timer.evt[s].cb]
running == IF pc = "cb" THEN timerEvt ELSE NULL

\* A step of the timer service, with Next's disjuncts expanded.
ServiceStep ==
    \/ \E c \in Clients : Service!PostTimer(c)
    \/ \E c \in Tracked : Service!CancelTimer(c)
    \/ Service!Start
    \/ Service!Finish
    \/ Service!Exhausted
    \/ UNCHANGED <<pending, running>>

\* The same timers with the same owners are the same pending timers.
LEMMA PendingSame ==
    ASSUME UsedSlots(ev_timer') = UsedSlots(ev_timer),
           \A s \in UsedSlots(ev_timer) : ev_timer'.evt[s].cb = ev_timer.evt[s].cb
    PROVE  pending' = pending
BY DEF pending

\* The empty pool is a service without timers.
LEMMA InitService == Init => Service!Init
<1> SUFFICES ASSUME Init PROVE Service!Init
    OBVIOUS
<1>1. UsedSlots(ev_timer) = {}
    BY EmptyControlOK DEF Init
<1>2. pending = <<>>
    BY <1>1 DEF pending
<1> QED
    BY <1>2 DEF Service!Init, Init, pending

\* Scheduling replaces the timer a tracked client has, or adds another.
LEMMA ScheduleServes ==
    ASSUME NEW c \in Clients, NEW t \in Timeouts, IInv, Schedule(c, t)
    PROVE  Service!PostTimer(c)
<1> USE DEF NULL
<1> DEFINE h == handle[c]
           T == taskCancel(ev_timer, h)
           f == FreeSlot(T)
           U == taskPost(T, c, t)
           Own == {s \in UsedSlots(ev_timer) : ev_timer.evt[s].cb = c}
           Gone == IF c \in Tracked THEN Own ELSE {}
           kept == [s \in UsedSlots(ev_timer) \ Gone |-> ev_timer.evt[s].cb]
<1>1. /\ ClientMayRun(c) /\ ~PoolFull(T) /\ ev_timer' = U
      /\ pc' = pc /\ timerEvt' = timerEvt
    BY DEF Schedule, Post
<1>2. ControlOK(ev_timer) /\ clock \in Ticks /\ h \in Slots \cup {NULL}
    BY DEF IInv, TypeOK
<1>3. /\ ControlOK(T)
      /\ UsedSlots(T) = IF CancelAllowed(ev_timer, h) THEN UsedSlots(ev_timer) \ {h}
                                                      ELSE UsedSlots(ev_timer)
      /\ \A q \in UsedSlots(T) : T.evt[q].cb = ev_timer.evt[q].cb
    BY <1>2, CancelDoes
<1>4. /\ f \in Slots \ UsedSlots(T)
      /\ UsedSlots(U) = UsedSlots(T) \cup {f} /\ U.evt[f].cb = c
      /\ \A q \in Slots \ {f} : U.evt[q] = T.evt[q]
    BY <1>1, <1>2, <1>3, PostAdds
<1>5. UsedSlots(ev_timer) \subseteq Slots /\ UsedSlots(T) \subseteq UsedSlots(ev_timer)
    BY <1>3 DEF UsedSlots
<1> HIDE DEF T, U, f
<1>6. c \in Tracked => ~InOwnCallback(c)
    BY <1>1 DEF ClientMayRun
<1>7. UsedSlots(T) = UsedSlots(ev_timer) \ Gone
    <2>1. CASE c \notin Tracked
        <3>1. h = NULL
            BY <2>1 DEF IInv, UntrackedNull
        <3> QED
            BY <1>3, <2>1, <3>1 DEF CancelAllowed
    <2>2. CASE c \in Tracked
        <3>1. \A s \in Slots : (ev_timer.evt[s].used /\ ev_timer.evt[s].cb = c) <=> h = s
            BY <2>2 DEF IInv, HandleExact
        <3>2. Own = IF h \in UsedSlots(ev_timer) THEN {h} ELSE {}
            BY <1>5, <3>1 DEF UsedSlots
        <3>3. CASE h \in UsedSlots(ev_timer)
            <4>1. ev_timer.evt[h].cb = c /\ ev_timer.evt[h].used /\ h # NULL /\ h \in Slots
                BY <1>5, <3>1, <3>3 DEF UsedSlots, Slots
            <4>2. ~ev_timer.evt[h].isBusy
                BY <1>6, <2>2, <4>1 DEF IInv, BusyIsRunning, InOwnCallback
            <4>3. CancelAllowed(ev_timer, h)
                BY <4>1, <4>2 DEF CancelAllowed
            <4> QED
                BY <1>3, <2>2, <3>2, <3>3, <4>3
        <3>4. CASE h \notin UsedSlots(ev_timer)
            BY <1>3, <2>2, <3>2, <3>4
        <3> QED
            BY <3>3, <3>4
    <2> QED
        BY <2>1, <2>2
<1>8. DOMAIN pending = UsedSlots(ev_timer) /\ \A s \in UsedSlots(ev_timer) : pending[s] = ev_timer.evt[s].cb
    BY DEF pending
<1>9. Service!Owned(c) = Own /\ Service!Without(Gone) = kept
    BY <1>8 DEF Service!Owned, Service!Without, pending
<1>10. c \in Tracked => running \notin Own
    <2> SUFFICES ASSUME c \in Tracked, running \in Own PROVE FALSE
        OBVIOUS
    <2>1. running # NULL
        BY <1>5 DEF Slots
    <2>2. pc = "cb" /\ running = timerEvt
        BY <2>1 DEF running
    <2>3. ev_timer.evt[timerEvt].cb = c
        BY <2>2
    <2> QED
        BY <1>6, <2>2, <2>3 DEF InOwnCallback
<1>11. running' = running
    BY <1>1 DEF running
<1>12. pending' = Service!Joined(kept, f, c)
    <2>1. pending' = [s \in UsedSlots(T) \cup {f} |-> U.evt[s].cb]
        BY <1>1, <1>4 DEF pending
    <2>2. DOMAIN kept = UsedSlots(T) /\ \A s \in UsedSlots(T) : kept[s] = ev_timer.evt[s].cb
        BY <1>7
    <2>3. \A s \in UsedSlots(T) : s # f /\ U.evt[s].cb = ev_timer.evt[s].cb
        BY <1>3, <1>4, <1>5
    <2> HIDE DEF kept
    <2>4. Service!Joined(kept, f, c) =
            [s \in UsedSlots(T) \cup {f} |-> IF s = f THEN c ELSE kept[s]]
        BY <2>2 DEF Service!Joined
    <2> QED
        BY <1>4, <2>1, <2>2, <2>3, <2>4
<1>13. f \in Slots \ DOMAIN kept
    BY <1>4, <1>7
<1> HIDE DEF kept, Own
<1> QED
    BY <1>9, <1>10, <1>11, <1>12, <1>13 DEF Service!PostTimer, Gone, pending, running

\* A cancel takes away a timer that is not running.
LEMMA CancelServes ==
    ASSUME NEW c \in Clients, IInv, Cancel(c)
    PROVE  \E d \in Tracked : Service!CancelTimer(d)
<1> USE DEF NULL
<1> DEFINE h == handle[c]
<1>1. /\ CancelAllowed(ev_timer, h) /\ ev_timer' = taskCancel(ev_timer, h)
      /\ pc' = pc /\ timerEvt' = timerEvt
    BY DEF Cancel
<1>2. ControlOK(ev_timer) /\ h \in Slots \cup {NULL}
    BY DEF IInv, TypeOK
<1>3. /\ UsedSlots(ev_timer') = UsedSlots(ev_timer) \ {h}
      /\ \A q \in UsedSlots(ev_timer') : ev_timer'.evt[q].cb = ev_timer.evt[q].cb
    BY <1>1, <1>2, CancelDoes
<1>4. h \in UsedSlots(ev_timer) /\ ~ev_timer.evt[h].isBusy /\ h \in Slots
    BY <1>1, <1>2, CancelIs DEF UsedSlots
<1>5. c \in Tracked
    BY <1>1 DEF IInv, UntrackedNull, CancelAllowed
<1>6. ev_timer.evt[h].cb = c
    BY <1>4, <1>5 DEF IInv, HandleExact
<1>7. running # h
    <2> SUFFICES ASSUME running = h PROVE FALSE
        OBVIOUS
    <2>1. pc = "cb" /\ timerEvt = h
        BY <1>4 DEF running, Slots
    <2> QED
        BY <1>4, <2>1 DEF IInv, CursorInUse
<1> HIDE DEF h
<1>8. DOMAIN pending = UsedSlots(ev_timer) /\ pending[h] = c
    BY <1>4, <1>6 DEF pending
<1>9. h \in Service!Owned(c) \ {running}
    BY <1>4, <1>7, <1>8 DEF Service!Owned, pending
<1>10. pending' = Service!Without({h})
    BY <1>3 DEF pending, Service!Without
<1>11. running' = running
    BY <1>1 DEF running
<1>12. Service!CancelTimer(c)
    BY <1>9, <1>10, <1>11 DEF Service!CancelTimer, pending, running
<1> QED
    BY <1>5, <1>12

\* The pool is exhausted only when every timer is pending.
LEMMA ExhaustedServes ==
    ASSUME NEW c \in Clients, IInv, PostExhausted(c)
    PROVE  Service!Exhausted
<1> USE DEF NULL
<1> DEFINE h == handle[c]
           T == taskCancel(ev_timer, h)
<1>1. PoolFull(T) /\ ev_timer' = EmptyControl /\ pc' = "main"
    BY DEF PostExhausted
<1>2. ControlOK(ev_timer) /\ h \in Slots \cup {NULL}
    BY DEF IInv, TypeOK
<1>3. ControlOK(T) /\ UsedSlots(T) \subseteq UsedSlots(ev_timer)
    BY <1>2, CancelDoes
<1>4. Cardinality(UsedSlots(T)) >= TIMER_EVENT_NUM
    BY <1>1, <1>3 DEF PoolFull, ControlOK
<1> HIDE DEF T
<1>5. UsedSlots(T) = Slots
    <2>1. UsedSlots(T) \subseteq Slots
        BY DEF UsedSlots
    <2>2. Cardinality(UsedSlots(T)) = Cardinality(Slots)
        BY <1>4, UsedFinite, PoolAssumption
    <2> QED
        BY <2>1, <2>2, UsedFinite, FS_Subset
<1>6. UsedSlots(ev_timer) = Slots
    BY <1>3, <1>5 DEF UsedSlots
<1>7. DOMAIN pending = Slots
    BY <1>6 DEF pending
<1>8. UsedSlots(ev_timer') = {}
    BY <1>1, EmptyControlOK
<1>9. pending' = <<>>
    BY <1>8 DEF pending
<1>10. running' = NULL
    BY <1>1 DEF running
<1> QED
    BY <1>7, <1>9, <1>10 DEF Service!Exhausted, pending, running

\* The walk runs one callback at a time, each for a pending timer.
LEMMA MainLoopServes == IInv /\ WalkInv /\ MainLoop => ServiceStep
<1> SUFFICES ASSUME IInv, WalkInv, MainLoop PROVE ServiceStep
    OBVIOUS
<1>0. ControlOK(ev_timer) /\ UsedSlots(ev_timer) \subseteq Slots
    BY DEF IInv, UsedSlots
<1>1. CASE Process
    <2>1. /\ UsedSlots(ev_timer') = UsedSlots(ev_timer)
          /\ \A s \in Slots : ev_timer'.evt[s].cb = ev_timer.evt[s].cb
        <3>1. /\ UpdateTime \in Nat /\ clock \in Ticks
              /\ ev_timer' = IF UpdateTime > 0 THEN update(ev_timer, UpdateTime) ELSE ev_timer
            BY <1>1, ProcessTime DEF Process, IInv, TypeOK
        <3> QED
            BY <1>0, <3>1, UpdateKeeps
    <2>2. pending' = pending
        BY <1>0, <2>1, PendingSame
    <2>3. running' = running
        BY <1>1 DEF running, Process
    <2> QED
        BY <2>2, <2>3 DEF ServiceStep
<1>2. CASE WalkPast \/ WalkEnd
    <2>1. ev_timer'.evt = ev_timer.evt
        BY <1>0, <1>2, NearestUpdateKeeps DEF WalkPast, WalkEnd
    <2>2. pending' = pending
        BY <2>1 DEF pending, UsedSlots
    <2>3. running' = running
        BY <1>2 DEF running, WalkPast, WalkEnd
    <2> QED
        BY <2>2, <2>3 DEF ServiceStep
<1>3. CASE Fire
    <2> DEFINE b == TRUE
               V == SetBusy(ev_timer, timerEvt, b)
    <2>1. /\ pc = "walk" /\ pc' = "cb" /\ timerEvt # NULL /\ timerEvt' = timerEvt
          /\ ev_timer' = V /\ b \in BOOLEAN
        BY <1>3 DEF Fire, SetBusy
    <2>2. timerEvt \in UsedSlots(ev_timer)
        BY <2>1 DEF IInv, CursorInUse
    <2> HIDE DEF b
    <2>3. /\ UsedSlots(V) = UsedSlots(ev_timer)
          /\ \A q \in Slots : V.evt[q].cb = ev_timer.evt[q].cb
        BY <1>0, <2>1, <2>2, BusyKeeps
    <2> HIDE DEF V
    <2>4. pending' = pending
        BY <1>0, <2>1, <2>3, PendingSame
    <2>5. running = NULL /\ running' = timerEvt /\ DOMAIN pending = UsedSlots(ev_timer)
        BY <2>1 DEF running, pending
    <2>6. Service!Start
        BY <2>2, <2>4, <2>5 DEF Service!Start, pending, running
    <2> QED
        BY <2>6 DEF ServiceStep
<1>4. CASE ReturnStop
    <2>1. /\ pc = "cb" /\ pc' = "walk" /\ timerEvt \in Slots
          /\ UsedSlots(ev_timer') = UsedSlots(ev_timer) \ {timerEvt}
          /\ \A q \in Slots \ {timerEvt} : ev_timer'.evt[q].cb = ev_timer.evt[q].cb
        BY <1>4, ReturnStopDoes
    <2>2. running = timerEvt /\ running # NULL /\ running' = NULL
        BY <2>1 DEF running, Slots, NULL
    <2>3. pending' = Service!Without({timerEvt})
        BY <1>0, <2>1 DEF pending, Service!Without
    <2>4. Service!Finish
        BY <2>2, <2>3 DEF Service!Finish, pending, running
    <2> QED
        BY <2>4 DEF ServiceStep
<1>5. ASSUME NEW t \in Timeouts \cup {0}, ReturnAgain(t) PROVE ServiceStep
    <2>1. /\ pc = "cb" /\ pc' = "walk" /\ timerEvt \in Slots
          /\ UsedSlots(ev_timer') = UsedSlots(ev_timer)
          /\ \A q \in Slots : ev_timer'.evt[q].cb = ev_timer.evt[q].cb
        BY <1>5, ReturnAgainDoes DEF WalkInv
    <2>2. running = timerEvt /\ running # NULL /\ running' = NULL
        BY <2>1 DEF running, Slots, NULL
    <2>3. pending' = pending
        BY <1>0, <2>1, PendingSame
    <2>4. Service!Finish
        BY <2>2, <2>3 DEF Service!Finish, pending, running
    <2> QED
        BY <2>4 DEF ServiceStep
<1> QED
    BY <1>1, <1>2, <1>3, <1>4, <1>5 DEF MainLoop

\* Every step of the timers is a step of the service, or one it does not see.
LEMMA NextServes == IInv /\ WalkInv /\ [Next]_vars => [Service!Next]_<<pending, running>>
<1> SUFFICES ASSUME IInv, WalkInv, [Next]_vars PROVE ServiceStep
    BY DEF ServiceStep, Service!Next, pending, running
<1>1. CASE Tick \/ UNCHANGED vars
    BY <1>1 DEF Tick, vars, ServiceStep, pending, running, UsedSlots
<1>2. ASSUME NEW c \in Clients, NEW t \in Timeouts, Schedule(c, t) PROVE ServiceStep
    BY <1>2, ScheduleServes DEF ServiceStep
<1>3. ASSUME NEW c \in Clients, Cancel(c) PROVE ServiceStep
    BY <1>3, CancelServes DEF ServiceStep
<1>4. ASSUME NEW c \in Clients, PostExhausted(c) PROVE ServiceStep
    BY <1>4, ExhaustedServes DEF ServiceStep
<1> QED
    BY <1>1, <1>2, <1>3, <1>4, MainLoopServes DEF Next

\* The pool, the list and the walk implement the timer service: a posted timer
\* stays pending until it is cancelled or its callback ends it.
THEOREM RefinesService == Spec => ImplementsService
<1>1. Init => Service!Init
    BY InitService
<1>2. IInv /\ WalkInv /\ [Next]_vars => [Service!Next]_<<pending, running>>
    BY NextServes
<1> QED
    BY <1>1, <1>2, Inductive, WalkInductive, PTL
    DEF Spec, ImplementsService, Service!Spec, pending, running
=============================================================================
