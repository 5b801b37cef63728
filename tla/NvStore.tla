------------------------------- MODULE NvStore -------------------------------
(***************************************************************************)
(* What drv_nv.c promises its callers: a store of one value per item that  *)
(* a power loss never leaves half written.  A request takes effect at one  *)
(* instant, before or after which the power may fail, and it concerns its  *)
(* own item only.                                                          *)
(*                                                                         *)
(* stale[i] holds the older values of i that a power loss kept the store   *)
(* from discarding.  They are never read, but removing i may uncover one.  *)
(***************************************************************************)
CONSTANTS Items, Vals, None

VARIABLES
    store,   \* what a read of each item returns
    stale,   \* older values not yet discarded
    req      \* the request being served

vars == <<store, stale, req>>

NoReq == [kind |-> "none"]

Requests == {[kind |-> "write", item |-> i, val |-> v] : i \in Items, v \in Vals}
              \cup {[kind |-> k, item |-> i, val |-> None] :
                        k \in {"remove", "read"}, i \in Items}

\* A write that has taken effect but has not discarded what it replaced.
Applied(i, kept) == [kind |-> "applied", item |-> i, kept |-> kept]

Init ==
    /\ store = [i \in Items |-> None]
    /\ stale = [i \in Items |-> {}]
    /\ req = NoReq

Ask(r) ==
    /\ req = NoReq
    /\ req' = r
    /\ UNCHANGED <<store, stale>>

\* The old value is discarded in the same step, or later.
Write ==
    /\ req.kind = "write"
    /\ store' = [store EXCEPT ![req.item] = req.val]
    /\ \E left \in SUBSET (stale[req.item] \cup ({store[req.item]} \ {None})) :
         /\ stale' = [stale EXCEPT ![req.item] = left]
         /\ \/ left \subseteq stale[req.item] /\ req' = NoReq
            \/ \E kept \in SUBSET stale[req.item] : req' = Applied(req.item, kept)

\* A write that returns has discarded the value it replaced.
Return ==
    /\ req.kind = "applied"
    /\ \E left \in SUBSET req.kept : stale' = [stale EXCEPT ![req.item] = left]
    /\ req' = NoReq
    /\ UNCHANGED store

Remove ==
    /\ req.kind = "remove"
    /\ IF stale[req.item] = {}
       THEN store' = [store EXCEPT ![req.item] = None] /\ UNCHANGED stale
       ELSE \E v \in stale[req.item], left \in SUBSET stale[req.item] :
              /\ store' = [store EXCEPT ![req.item] = v]
              /\ stale' = [stale EXCEPT ![req.item] = left]
    /\ req' = NoReq

\* A read, an item not found, no space: nothing changes.
Answer ==
    /\ req.kind \in {"read", "remove", "write"}
    /\ req.kind = "remove" => store[req.item] = None
    /\ req' = NoReq
    /\ UNCHANGED <<store, stale>>

\* Older values of any item may be discarded at any time.
Settle ==
    /\ \E left \in [Items -> SUBSET Vals] :
         /\ \A i \in Items : left[i] \subseteq stale[i]
         /\ stale' = left
    /\ UNCHANGED <<store, req>>

PowerLoss ==
    /\ req' = NoReq
    /\ UNCHANGED <<store, stale>>

Next ==
    \/ \E r \in Requests : Ask(r)
    \/ Write
    \/ Return
    \/ Remove
    \/ Answer
    \/ Settle
    \/ PowerLoss

Spec == Init /\ [][Next]_vars
=============================================================================
