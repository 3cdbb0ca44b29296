---------------------------- MODULE Slots_proofs ----------------------------
(* The slot table, for any number of connections, keys and slots.            *)
EXTENDS Slots, TLAPS

(* The initial table and guards satisfy the invariant.                       *)
LEMMA SlotInitInv == SlotInit => SlotInv
BY DeploymentAssumption
   DEF SlotInit, SlotInv, SlotTypeOK, SlotExclusive, SlotAccounted

(* try_acquire takes a slot the table holds free, so no guard names it yet.  *)
LEMMA TryAcquireInv ==
    ASSUME SlotInv, NEW n \in Conn, NEW k \in Key, NEW i \in Index, TryAcquire(n, k, i)
    PROVE  SlotInv'
<1> DEFINE s(j) == <<k, j>>
<1>1. PICK j \in Index :
          /\ ~table[s(j)]
          /\ table' = [table EXCEPT ![s(j)] = TRUE]
          /\ guard' = [guard EXCEPT ![n] = s(j)]
    BY DEF TryAcquire, IsFirstFree, FreeIndexes
<1>2. s(j) \in Slot /\ s(j) # NoSlot
    BY DeploymentAssumption DEF Slot
<1>3. \A m \in Conn : guard[m] # s(j)
    BY <1>1, <1>2 DEF SlotInv, SlotAccounted
<1> HIDE DEF s
<1>4. SlotTypeOK'
    BY <1>1, <1>2 DEF SlotInv, SlotTypeOK
<1>5. SlotExclusive'
    BY <1>1, <1>3 DEF SlotInv, SlotTypeOK, SlotExclusive
<1>6. SlotAccounted'
    BY <1>1, <1>2, DeploymentAssumption
       DEF SlotInv, SlotTypeOK, SlotAccounted, TryAcquire
<1> QED BY <1>4, <1>5, <1>6 DEF SlotInv

(* Dropping a guard frees the one slot it names, which no other guard names. *)
LEMMA DropGuardInv ==
    ASSUME SlotInv, NEW n \in Conn, DropGuard(n)
    PROVE  SlotInv'
<1>1. guard[n] \in Slot
    BY DEF DropGuard, SlotInv, SlotTypeOK
<1>2. SlotTypeOK'
    BY <1>1 DEF DropGuard, SlotInv, SlotTypeOK
<1>3. SlotExclusive'
    BY DEF DropGuard, SlotInv, SlotTypeOK, SlotExclusive
<1>4. SlotAccounted'
    <2> SUFFICES ASSUME NEW s \in Slot
                 PROVE  table'[s] <=> \E m \in Conn : guard'[m] = s
        BY DEF SlotAccounted
    <2>1. CASE s = guard[n]
        BY <1>1, <2>1, DeploymentAssumption
           DEF DropGuard, SlotInv, SlotTypeOK, SlotExclusive
    <2>2. CASE s # guard[n]
        BY <1>1, <2>2, DeploymentAssumption
           DEF DropGuard, SlotInv, SlotTypeOK, SlotAccounted
    <2> QED BY <2>1, <2>2
<1> QED BY <1>2, <1>3, <1>4 DEF SlotInv

(* A restart leaves nothing lent and no guard alive.                         *)
LEMMA ForgetSlotsInv == ForgetSlots => SlotInv'
BY DeploymentAssumption
   DEF ForgetSlots, SlotInv, SlotTypeOK, SlotExclusive, SlotAccounted

(* Every step of the slot table keeps the invariant.                         *)
LEMMA SlotNextInv == SlotInv /\ [SlotNext]_slotVars => SlotInv'
<1> SUFFICES ASSUME SlotInv, [SlotNext]_slotVars PROVE SlotInv'
    OBVIOUS
<1>1. ASSUME NEW n \in Conn, NEW k \in Key, NEW i \in Index, TryAcquire(n, k, i)
      PROVE  SlotInv'
    BY <1>1, TryAcquireInv
<1>2. ASSUME NEW n \in Conn, DropGuard(n) PROVE SlotInv'
    BY <1>2, DropGuardInv
<1>3. CASE ForgetSlots
    BY <1>3, ForgetSlotsInv
<1>4. CASE UNCHANGED slotVars
    BY <1>4 DEF slotVars, SlotInv, SlotTypeOK, SlotExclusive, SlotAccounted
<1> QED BY <1>1, <1>2, <1>3, <1>4 DEF SlotNext

(* SlotTable and SlotGuard: two connections never hold one slot, and the     *)
(* table is right about which slots are held, for every number of slots.     *)
THEOREM SlotSafety == SlotSpec => []SlotInv
<1>1. SlotInit => SlotInv
    BY SlotInitInv
<1>2. SlotInv /\ [SlotNext]_slotVars => SlotInv'
    BY SlotNextInv
<1> QED BY <1>1, <1>2, PTL DEF SlotSpec

(* SlotGuard::workspace: where no two slots have one directory, no two       *)
(* threads work in one.                                                      *)
THEOREM DirectorySafety ==
    ASSUME WorkspacesDistinct
    PROVE  SlotSpec => []DirectoryExclusive
<1>1. SlotInv => DirectoryExclusive
    <2> SUFFICES ASSUME SlotInv,
                        NEW m \in Conn, NEW n \in Conn,
                        guard[m] # NoSlot, guard[n] # NoSlot,
                        Workspace(m) = Workspace(n)
                 PROVE  m = n
        BY DEF DirectoryExclusive
    <2>1. guard[m] \in Slot /\ guard[n] \in Slot
        BY DEF SlotInv, SlotTypeOK
    <2>2. guard[m] = guard[n]
        BY <2>1 DEF WorkspacesDistinct, Workspace
    <2> QED BY <2>2 DEF SlotInv, SlotExclusive
<1>2. SlotSpec => []SlotInv
    BY SlotSafety
<1> QED BY <1>1, <1>2, PTL

-----------------------------------------------------------------------------
(* The refinement mapping.  In guards no two of which agree on a slot, the   *)
(* holder of a slot is the one connection whose guard names it, if any.      *)
LEMMA HolderIsTheGuard ==
    ASSUME NEW g \in [Conn -> Slot \cup {NoSlot}], NEW s \in Slot,
           \A m, n \in Conn : g[m] = g[n] /\ g[m] # NoSlot => m = n
    PROVE  /\ \A n \in Conn : HolderIn(g, s) = n <=> g[n] = s
           /\ HolderIn(g, s) = NoConn <=> ~\E n \in Conn : g[n] = s
<1>1. CASE \E n \in Conn : g[n] = s
    <2>1. HolderIn(g, s) \in Conn /\ g[HolderIn(g, s)] = s
        BY <1>1 DEF HolderIn
    <2>2. \A n \in Conn : g[n] = s => n = HolderIn(g, s)
        BY <2>1, DeploymentAssumption
    <2> QED BY <1>1, <2>1, <2>2, DeploymentAssumption
<1>2. CASE ~\E n \in Conn : g[n] = s
    <2>1. HolderIn(g, s) = NoConn
        BY <1>2 DEF HolderIn
    <2> QED BY <2>1, <1>2, DeploymentAssumption
<1> QED BY <1>1, <1>2

(* Every step of the table is a step of the locks, or leaves them alone.     *)
LEMMA StepIsLockStep ==
    SlotInv /\ SlotInv' /\ [SlotNext]_slotVars
        => [Locks!LockNext]_([s \in Slot |-> HolderIn(guard, s)])
<1> SUFFICES ASSUME SlotInv, SlotInv', [SlotNext]_slotVars
             PROVE  [Locks!LockNext]_([s \in Slot |-> HolderIn(guard, s)])
    OBVIOUS
<1> DEFINE h(g) == [s \in Slot |-> HolderIn(g, s)]
<1>1. \A s \in Slot : /\ \A n \in Conn : h(guard)[s] = n <=> guard[n] = s
                      /\ h(guard)[s] = NoConn <=> ~\E n \in Conn : guard[n] = s
    BY HolderIsTheGuard DEF SlotInv, SlotTypeOK, SlotExclusive
<1>2. \A s \in Slot : /\ \A n \in Conn : h(guard')[s] = n <=> guard'[n] = s
                      /\ h(guard')[s] = NoConn <=> ~\E n \in Conn : guard'[n] = s
    BY HolderIsTheGuard DEF SlotInv, SlotTypeOK, SlotExclusive
<1>3. \A s \in Slot : /\ h(guard)[s] \in Conn \cup {NoConn}
                      /\ h(guard')[s] \in Conn \cup {NoConn}
    BY <1>1, <1>2
<1>4. ASSUME NEW n \in Conn, NEW k \in Key, NEW i \in Index, TryAcquire(n, k, i)
      PROVE  Locks!LockNext
    <2>1. PICK j \in Index :
              /\ ~table[<<k, j>>]
              /\ guard[n] = NoSlot
              /\ guard' = [guard EXCEPT ![n] = <<k, j>>]
        BY <1>4 DEF TryAcquire, IsFirstFree, FreeIndexes
    <2> DEFINE t == <<k, j>>
    <2>2. t \in Slot
        BY DEF Slot
    <2> HIDE DEF t
    <2>3. guard'[n] = t /\ \A m \in Conn \ {n} : guard'[m] = guard[m]
        BY <2>1 DEF t, SlotInv, SlotTypeOK
    <2>4. h(guard)[t] = NoConn
        BY <1>1, <2>1, <2>2 DEF t, SlotInv, SlotAccounted
    <2>5. \A r \in Slot : h(guard)[r] # n
        BY <1>1, <2>1, DeploymentAssumption
    <2>6. \A r \in Slot : h(guard')[r] = IF r = t THEN n ELSE h(guard)[r]
        <3>1. h(guard')[t] = n
            BY <1>2, <2>2, <2>3
        <3>2. ASSUME NEW r \in Slot, r # t PROVE h(guard')[r] = h(guard)[r]
            <4>1. \A m \in Conn : guard'[m] = r <=> guard[m] = r
                BY <2>1, <2>3, <3>2, DeploymentAssumption
            <4>2. CASE h(guard)[r] = NoConn
                BY <1>1, <1>2, <4>1, <4>2
            <4>3. CASE h(guard)[r] \in Conn
                BY <1>1, <1>2, <4>1, <4>3
            <4> QED BY <1>3, <4>2, <4>3
        <3> QED BY <3>1, <3>2
    <2>7. h(guard') = [h(guard) EXCEPT ![t] = n]
        BY <2>2, <2>6
    <2>8. Locks!Lock(n, t)
        BY <2>4, <2>5, <2>7 DEF Locks!Lock
    <2> QED BY <2>2, <2>8 DEF Locks!LockNext
<1>5. ASSUME NEW n \in Conn, DropGuard(n) PROVE Locks!LockNext
    <2> DEFINE t == guard[n]
    <2>1. t \in Slot
        BY <1>5 DEF DropGuard, SlotInv, SlotTypeOK
    <2>2. guard'[n] = NoSlot /\ \A m \in Conn \ {n} : guard'[m] = guard[m]
        BY <1>5 DEF DropGuard, SlotInv, SlotTypeOK
    <2>3. h(guard)[t] = n
        BY <1>1, <2>1
    <2>4. \A r \in Slot : h(guard')[r] = IF r = t THEN NoConn ELSE h(guard)[r]
        <3>1. h(guard')[t] = NoConn
            BY <1>2, <2>1, <2>2, DeploymentAssumption DEF SlotInv, SlotExclusive
        <3>2. ASSUME NEW r \in Slot, r # t PROVE h(guard')[r] = h(guard)[r]
            BY <1>1, <1>2, <1>3, <2>2, <3>2, DeploymentAssumption
        <3> QED BY <3>1, <3>2
    <2>5. h(guard') = [h(guard) EXCEPT ![t] = NoConn]
        BY <2>1, <2>4
    <2>6. Locks!Unlock(n, t)
        BY <2>3, <2>5 DEF Locks!Unlock
    <2> QED BY <2>1, <2>6 DEF Locks!LockNext
<1>6. CASE ForgetSlots
    <2>1. \A s \in Slot : h(guard')[s] = NoConn
        BY <1>2, <1>6, DeploymentAssumption DEF ForgetSlots
    <2>2. Locks!Crash
        BY <2>1 DEF Locks!Crash
    <2> QED BY <2>2 DEF Locks!LockNext
<1>7. CASE UNCHANGED slotVars
    BY <1>7 DEF slotVars
<1> QED BY <1>4, <1>5, <1>6, <1>7 DEF SlotNext

(* Table and guards implement one lock per slot (SlotLock), for every        *)
(* number of connections, keys and slots.                                    *)
THEOREM SlotsImplementLocks == SlotSpec => SlotsAreLocks
<1>1. SlotInit => Locks!LockInit
    BY DeploymentAssumption DEF SlotInit, Locks!LockInit, HolderIn
<1>2. SlotSpec => []SlotInv
    BY SlotSafety
<1>3. SlotInv /\ SlotInv' /\ [SlotNext]_slotVars
          => [Locks!LockNext]_([s \in Slot |-> HolderIn(guard, s)])
    BY StepIsLockStep
<1> QED BY <1>1, <1>2, <1>3, PTL DEF SlotSpec, SlotsAreLocks, Locks!LockSpec
=============================================================================
