------------------------------- MODULE Slots --------------------------------
(* daemon/src/slots.rs, SlotTable and SlotGuard: the in-memory table that    *)
(* lends the slots of a (team, scope) to the connection threads.  Every      *)
(* operation runs under the table's one mutex, so each is one step.          *)
EXTENDS Deployment

VARIABLES
    table,  \* SlotTable.inner: which slots are lent.  An entry the code has
            \* not created yet reads as [false; SLOTS_PER_SCOPE].
    guard   \* the SlotGuard a connection's thread keeps alive, or NoSlot

slotVars == <<table, guard>>

SlotInit ==
    /\ table = [s \in Slot |-> FALSE]
    /\ guard = [n \in Conn |-> NoSlot]

FreeIndexes(k) == {i \in Index : ~table[<<k, i>>]}

AllBusy(k) == FreeIndexes(k) = {}

(* Variant, as if the table were not consulted.                              *)
IsPreferred(k, preferred, i) == i = preferred

(* `order.find(..)`: the preferred index comes first, then the others upward. *)
IsFirstFree(k, preferred, i) ==
    /\ i \in FreeIndexes(k)
    /\ \/ i = preferred
       \/ /\ preferred \notin FreeIndexes(k)
          /\ \A j \in FreeIndexes(k) : i <= j

(* try_acquire when a slot is free; when AllBusy it returns None and leaves  *)
(* the table as it is.                                                       *)
TryAcquire(n, k, preferred) ==
    /\ guard[n] = NoSlot
    /\ \E i \in Index :
          /\ IsFirstFree(k, preferred, i)
          /\ table' = [table EXCEPT ![<<k, i>>] = TRUE]
          /\ guard' = [guard EXCEPT ![n] = <<k, i>>]

(* Drop for SlotGuard: runs when serve_build returns, fails or panics.       *)
DropGuard(n) ==
    /\ guard[n] # NoSlot
    /\ table' = [table EXCEPT ![guard[n]] = FALSE]
    /\ guard' = [guard EXCEPT ![n] = NoSlot]

(* The daemon process dies: "slot state is in-memory only".                  *)
ForgetSlots ==
    /\ table' = [s \in Slot |-> FALSE]
    /\ guard' = [n \in Conn |-> NoSlot]

(* The directory the thread of connection n works in.                        *)
Workspace(n) == WorkspaceOf(guard[n])

SlotNext ==
    \/ \E n \in Conn, k \in Key, i \in Index : TryAcquire(n, k, i)
    \/ \E n \in Conn : DropGuard(n)
    \/ ForgetSlots

SlotSpec == SlotInit /\ [][SlotNext]_slotVars

-----------------------------------------------------------------------------
SlotTypeOK ==
    /\ table \in [Slot -> BOOLEAN]
    /\ guard \in [Conn -> Slot \cup {NoSlot}]

(* Two connection threads never hold the same slot.                          *)
SlotExclusive ==
    \A m, n \in Conn : guard[m] = guard[n] /\ guard[m] # NoSlot => m = n

(* The table says a slot is lent exactly while some guard for it is alive:   *)
(* no error path leaks a slot, and none frees a slot still in use.           *)
SlotAccounted ==
    \A s \in Slot : table[s] <=> \E n \in Conn : guard[n] = s

(* No two threads work in one directory at a time, whatever their scopes     *)
(* are called.                                                               *)
DirectoryExclusive ==
    \A m, n \in Conn :
        guard[m] # NoSlot /\ guard[n] # NoSlot /\ Workspace(m) = Workspace(n) => m = n

SlotInv == SlotTypeOK /\ SlotExclusive /\ SlotAccounted

(* The table and the guards together are a lock per slot.                    *)
HolderIn(g, s) ==
    IF \E n \in Conn : g[n] = s THEN CHOOSE n \in Conn : g[n] = s ELSE NoConn

Locks == INSTANCE SlotLock WITH
    LockSlot <- Slot, Holder <- Conn, Nobody <- NoConn,
    holder   <- [s \in Slot |-> HolderIn(guard, s)]

SlotsAreLocks == Locks!LockSpec
=============================================================================
