------------------------------ MODULE MCNvFlash ------------------------------
(***************************************************************************)
(* The NV area for TLC: a module of items (two of two values each) and the *)
(* module of the frame counter.  They share drv_nv.c and nothing else: no  *)
(* sector belongs to both, and the main loop carries out one request at a  *)
(* time.  So each is followed with the other one at rest.                  *)
(***************************************************************************)
EXTENDS NvFlash

CONSTANTS onoff, level, x, y,
          CAP, W, THRES, MaxCount, MaxFails

ASSUME CounterAssumption ==
    /\ CAP \in Nat /\ CAP > 2
    /\ W \in Nat \ {0} /\ THRES \in Nat \ {0} /\ MaxFails \in Nat
    /\ MaxCount \in Nat /\ MaxCount + THRES < 2^W - 1

VARIABLES module,   \* the module that is used
          cFlash, cPc, call, cSect, oldSect, cUpdate, fails, count, kept, spoiled

Counter == INSTANCE FrameCount
    WITH flash <- cFlash, pc <- cPc, opSect <- cSect, sectorUpdate <- cUpdate

counterVars == <<cFlash, cPc, call, cSect, oldSect, cUpdate, fails, count, kept, spoiled>>

AreaInit == Init /\ Counter!Init /\ module \in {"items", "frame count"}

AreaNext ==
    /\ UNCHANGED module
    /\ \/ module = "items" /\ Next /\ UNCHANGED counterVars
       \/ module = "frame count" /\ Counter!Next /\ UNCHANGED vars

AreaSpec == AreaInit /\ [][AreaNext]_<<module, vars, counterVars>>

\* nv_nwkFrameCount*: the sectors hold at most FRAMECOUNT_NUM_PER_SECT words,
\* and the call's variables keep their types.
CounterTypeOK == Counter!TypeOK

\* A counter once stored or given never comes back lower (FrameCount).
KeptCounter == Counter!KeptCounter

\* A damaged word takes the counter at most THRES ahead (FrameCount).
NotFarAhead == Counter!NotFarAhead
=============================================================================
