------------------------------ MODULE SlotLock ------------------------------
(* What slots.rs promises, without its table: every slot is a lock with at   *)
(* most one holder, a connection holds at most one slot, and the death of    *)
(* the daemon frees everything.                                              *)
CONSTANTS LockSlot, Holder, Nobody

VARIABLE holder  \* slot -> who holds it, or Nobody

LockInit == holder = [s \in LockSlot |-> Nobody]

Lock(n, s) ==
    /\ holder[s] = Nobody
    /\ \A r \in LockSlot : holder[r] # n
    /\ holder' = [holder EXCEPT ![s] = n]

Unlock(n, s) ==
    /\ holder[s] = n
    /\ holder' = [holder EXCEPT ![s] = Nobody]

Crash == holder' = [s \in LockSlot |-> Nobody]

LockNext ==
    \/ \E n \in Holder, s \in LockSlot : Lock(n, s) \/ Unlock(n, s)
    \/ Crash

LockSpec == LockInit /\ [][LockNext]_holder
=============================================================================
