----------------------------- MODULE Deployment -----------------------------
(* Who builds what, and where: the parameters every module of the build      *)
(* service shares, and the two functions of slots.rs that turn them into a   *)
(* slot and a directory.                                                     *)
EXTENDS Naturals, Sequences

CONSTANTS
    Client,           \* developer workstations, each with one checkout
    Conn,             \* websocket connections the daemon can be serving
    Key,              \* (team, scope) pairs: records [team, scope] of token sequences
    SLOTS_PER_SCOPE,  \* workspace directories per key, 1 in the code
    KeyOf,            \* the team and scope a client's abrasive.toml names
    SlotForUser,      \* slot_for_user of the client's login: its preferred index
    NoSlot,           \* "no SlotGuard is alive"
    NoConn            \* "no connection"

Index == 0 .. SLOTS_PER_SCOPE - 1

Slot == Key \X Index

(* format!("{home}/{team}_{scope}/slot{}", index): the directory is named by *)
(* team, underscore, scope run together, so the two are told apart only as   *)
(* far as that concatenation tells them apart.                               *)
WorkspaceOf(s) == << s[1].team \o <<"_">> \o s[1].scope, s[2] >>

Directory == {WorkspaceOf(s) : s \in Slot}

(* No two slots share a directory.  It is not assumed: it is false of some   *)
(* keys (the run clash), and the results that need it name it.               *)
WorkspacesDistinct ==
    \A s, r \in Slot : WorkspaceOf(s) = WorkspaceOf(r) => s = r

ASSUME DeploymentAssumption ==
    /\ SLOTS_PER_SCOPE \in Nat \ {0}
    /\ KeyOf \in [Client -> Key]
    /\ SlotForUser \in [Client -> Index]
    /\ NoSlot \notin Slot
    /\ NoConn \notin Conn
=============================================================================
