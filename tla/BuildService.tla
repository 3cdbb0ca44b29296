---------------------------- MODULE BuildService ----------------------------
(* Workstations and daemon together: concurrent build attempts for the same  *)
(* or for different scopes, developers who edit meanwhile, connections that  *)
(* break at any point, a daemon that restarts.                               *)
EXTENDS Cli, Daemon

CONSTANTS
    MaxEdits,     \* bound: edits in a behaviour
    MaxBreaks,    \* bound: attempts given up or connections lost
    MaxFailures,  \* bound: failed writes, overlooked files, restarts of the daemon
    MaxUpsets,    \* bound: all of these together
    VanishAllowed \* may a workstation fall silent without closing?

ASSUME BudgetAssumption ==
    /\ MaxEdits \in Nat /\ MaxBreaks \in Nat /\ MaxFailures \in Nat
    /\ MaxUpsets \in Nat /\ VanishAllowed \in BOOLEAN

VARIABLES
    edits, breaks, failures,  \* how much of the bounds is used
    drift,   \* history: client -> paths edited since its attempt began, and
             \* stale files its sync has overlooked
    honest   \* history: slot -> its fingerprint was recorded by a sync no edit
             \* overlapped and that overlooked nothing stale, and no sync has
             \* touched its directory since

budgetVars == <<edits, breaks, failures>>
historyVars == <<drift, honest>>
vars == <<cliVars, slotVars, daemonVars, netVars, budgetVars, historyVars>>

Init ==
    /\ CliInit
    /\ NetInit
    /\ DaemonInit
    /\ edits = 0 /\ breaks = 0 /\ failures = 0
    /\ drift = [c \in Client |-> {}]
    /\ honest = [s \in Slot |-> TRUE]

(* A Probe of this client is under way and its sync not yet over.            *)
SyncPending(c) ==
    \E n \in Conn :
        /\ owner[n] = c
        /\ \/ HasMail(toDaemon, n)
           \/ thread[n].pc \in {"acquired", "bundle", "manifest", "receive", "insert"}

-----------------------------------------------------------------------------
(* open_connection without a live agent connection: a fresh connection.  Its *)
(* handshakes are answered by the daemon's accept loop and the new thread,   *)
(* which enters its serve loop before the client can send anything.          *)
ProbeOnFresh(c, n) ==
    /\ cli[c].pc = "stamped"
    /\ cli[c].conn = NoConn
    /\ thread[n].pc = "none"
    /\ link[n] = "shut"
    /\ \A b \in Client : cli[b].conn # n
    /\ link' = [link EXCEPT ![n] = "up"]
    /\ owner' = [owner EXCEPT ![n] = c]
    /\ toClient' = [toClient EXCEPT ![n] = <<>>]
    /\ Goto(n, "idle")
    /\ SendProbe(c, n)
    /\ UNCHANGED <<slotVars, fingerprints, disk>>

(* The workstation loses power or network: nothing more is heard of it.      *)
Vanish(c) ==
    /\ VanishAllowed
    /\ cli[c].conn # NoConn
    /\ link[cli[c].conn] = "up"
    /\ link' = [link EXCEPT ![cli[c].conn] = "lost"]
    /\ toClient' = [toClient EXCEPT ![cli[c].conn] = <<>>]
    /\ cli' = [cli EXCEPT ![c] = Idle(NoConn)]
    /\ UNCHANGED <<checkout, owner, toDaemon>>

CliSteps(c) ==
    \/ TakeFingerprint(c)
    \/ ProbeOnKept(c)
    \/ CannotConnect(c)
    \/ SyncSettled(c)
    \/ SendManifest(c)
    \/ LearnNeeded(c)
    \/ \E p \in Path : StreamFile(c, p)
    \/ SendSyncDone(c)
    \/ EndSession(c)

(* What a connection's thread does of itself, errors that may happen aside.  *)
ThreadSteps(n) ==
    \/ ServeProbe(n)
    \/ RejectBusy(n)
    \/ SkipSync(n)
    \/ StartSync(n)
    \/ \E p \in Path : WriteBundled(n, p)
    \/ ReconcileBundled(n, {}, {})
    \/ ReconcileManifest(n, {}, {})
    \/ ReceiveFile(n)
    \/ AckSync(n)
    \/ InsertFingerprint(n)
    \/ RunBuild(n)
    \/ Finish(n)
    \/ PeerGone(n)
    \/ Unwind(n)

(* A path the directory cannot take fails every time, and costs no budget.   *)
Blocked(n) == \E p \in Path : Writing(n, p) /\ ~CanWrite(disk[Workspace(n)], p)

BlockedFails(n) == Blocked(n) /\ IoFails(n)

-----------------------------------------------------------------------------
(* The history variables follow the steps and never guard one.               *)

(* Source files, as opposed to build output, differ before and after.        *)
SourcesTouched(s) ==
    \E p \in Path \ TargetPath :
        disk'[WorkspaceOf(s)].file[p] # disk[WorkspaceOf(s)].file[p]

RecordedNow(s, n) ==
    /\ guard[n] = s
    /\ thread[n].pc = "insert"
    /\ thread'[n].pc = "build"

NoteHonesty ==
    honest' = [s \in Slot |->
        IF \E n \in Conn : RecordedNow(s, n)
        THEN \E n \in Conn : RecordedNow(s, n) /\ drift[owner[n]] = {}
        ELSE honest[s] /\ ~SourcesTouched(s)]

BeginAttempt(c) ==
    /\ ScanFiles(c)
    /\ drift' = [drift EXCEPT ![c] = IF SyncPending(c) THEN @ ELSE {}]
    /\ UNCHANGED <<slotVars, daemonVars, budgetVars, honest>>

ClientStep(c) ==
    \/ /\ CliSteps(c)
       /\ UNCHANGED <<slotVars, daemonVars, budgetVars, historyVars>>
    \/ /\ \E n \in Conn : ProbeOnFresh(c, n)
       /\ UNCHANGED <<budgetVars, historyVars>>

(* recv_frame or send_frame reports a connection the daemon has closed.      *)
NoticeShut(c) ==
    /\ cli[c].conn # NoConn
    /\ link[cli[c].conn] = "shut"
    /\ GiveUp(c)
    /\ UNCHANGED <<slotVars, daemonVars, budgetVars, historyVars>>

DaemonStep(n) ==
    /\ ThreadSteps(n) \/ BlockedFails(n)
    /\ NoteHonesty
    /\ UNCHANGED <<cliVars, budgetVars, drift>>

UpsetAllowed == edits + breaks + failures < MaxUpsets

EditStep ==
    /\ UpsetAllowed
    /\ edits < MaxEdits
    /\ edits' = edits + 1
    /\ \E c \in Client, p \in Path : \E v \in Version \cup {Absent} :
          /\ Edit(c, p, v)
          /\ drift' = [drift EXCEPT ![c] = @ \cup {p}]
    /\ UNCHANGED <<slotVars, daemonVars, breaks, failures, honest>>

BreakStep ==
    /\ UpsetAllowed
    /\ breaks < MaxBreaks
    /\ breaks' = breaks + 1
    /\ \E c \in Client : GiveUp(c) \/ Vanish(c)
    /\ UNCHANGED <<slotVars, daemonVars, edits, failures, historyVars>>

(* What is stale and overlooked stays; what the client has comes again.      *)
Overlook(n) ==
    \E unread, stuck \in SUBSET Path :
        /\ ReconcileOverlooking(n, unread, stuck)
        /\ drift' = [drift EXCEPT ![owner[n]] =
                        @ \cup ((unread \cup stuck) \ Files(thread'[n].files))]

FailStep ==
    /\ UpsetAllowed
    /\ failures < MaxFailures
    /\ failures' = failures + 1
    /\ \/ (\E n \in Conn : IoFails(n)) /\ UNCHANGED drift
       \/ Restart /\ UNCHANGED drift
       \/ \E n \in Conn : Overlook(n)
    /\ NoteHonesty
    /\ UNCHANGED <<cliVars, edits, breaks>>

Next ==
    \/ \E c \in Client : BeginAttempt(c) \/ ClientStep(c) \/ NoticeShut(c)
    \/ \E n \in Conn : DaemonStep(n)
    \/ EditStep
    \/ BreakStep
    \/ FailStep

Spec == Init /\ [][Next]_vars

(* The scheduler runs every thread and every CLI that can run, cargo ends,   *)
(* and a connection that was closed is reported to the other end.  Nobody    *)
(* has to start an attempt, edit, or break anything.                         *)
Fairness ==
    /\ \A c \in Client : WF_vars(ClientStep(c) \/ NoticeShut(c))
    /\ \A n \in Conn : WF_vars(DaemonStep(n))

FairSpec == Spec /\ Fairness

-----------------------------------------------------------------------------
TypeOK ==
    /\ CliTypeOK
    /\ NetTypeOK
    /\ DaemonTypeOK
    /\ edits \in 0 .. MaxEdits /\ breaks \in 0 .. MaxBreaks /\ failures \in 0 .. MaxFailures
    /\ drift \in [Client -> SUBSET Path]
    /\ honest \in [Slot -> BOOLEAN]

(* When a sync is acknowledged, the directory holds the client's manifest:   *)
(* every file of it, and no file of an earlier tree or of another client,    *)
(* whatever the directory held before and whatever hint chose the bundle.    *)
(* Excepted are paths the client edited during the attempt, stale files the  *)
(* daemon could not read or remove (main.rs:400 ignores it, 440-459 drop     *)
(* them), and leftovers below a "target" component, which walk_workspace     *)
(* never looks at.  A file of the client is there whatever was overlooked.   *)
SyncExact ==
    \A n \in Conn : thread[n].pc = "insert" =>
        \A p \in Path \ drift[owner[n]] :
            \/ disk[Workspace(n)].file[p] = thread[n].files[p]
            \/ p \in TargetPath /\ thread[n].files[p] = Absent

(* A build reads the tree whose fingerprint its client probed with, whether  *)
(* the sync was done or skipped, as long as no edit overlapped the sync that *)
(* recorded the fingerprint, that sync could read and remove every stale     *)
(* file, and no sync has been broken off since.                              *)
BuildReadsOwnTree ==
    \A n \in Conn : thread[n].pc = "build" /\ honest[guard[n]] =>
        Describes(thread[n].fp, disk[Workspace(n)].file)

(* From the moment a thread looks whether its sync may be skipped, and from  *)
(* the end of one that is not, until the build has ended, nothing writes a   *)
(* source file where it builds: no other client's sync, failed write or      *)
(* restart, nor a clean.  What was found up to date is still so when built.  *)
TreeSteady ==
    [][\A n \in Conn : thread[n].pc \in {"acquired", "insert", "build"} =>
          \A p \in Path \ TargetPath :
              disk'[Workspace(n)].file[p] = disk[Workspace(n)].file[p]]_vars

(* A client and its thread never wait for each other: while the connection   *)
(* is up and empty, not both sides are in a receive.                         *)
TurnsAgree ==
    \A c \in Client :
        LET n == cli[c].conn IN
        /\ cli[c].pc \in {"response", "needed", "ack", "output"}
        /\ link[n] = "up"
        /\ ~HasMail(toClient, n) /\ ~HasMail(toDaemon, n)
        => thread[n].pc \notin {"none", "idle", "manifest", "receive"}

(* Neither side ever meets a message it has no case for, also when one       *)
(* connection carries the sessions of several CLI runs.                      *)
NoUnexpectedMessage ==
    /\ \A n \in Conn : HasMail(toDaemon, n) =>
          Head(toDaemon[n]).kind \in
              CASE thread[n].pc = "manifest" -> {"Manifest"}
                [] thread[n].pc = "receive"  -> {"FileData", "SyncDone"}
                [] thread[n].pc = "idle"     -> {"Probe"}
                [] OTHER                     -> ClientKinds
    /\ \A c \in Client : cli[c].conn # NoConn /\ HasMail(toClient, cli[c].conn) =>
          Head(toClient[cli[c].conn]).kind \in
              CASE cli[c].pc = "response" -> {"ProbeAccepted", "SyncAck", "NeedFiles",
                                              "ProbeMiss", "SlotsBusy"}
                [] cli[c].pc = "needed"   -> {"NeedFiles", "SlotsBusy"}
                [] cli[c].pc = "ack"      -> {"SyncAck"}
                [] cli[c].pc = "output"   -> {"BuildFinished"}
                [] OTHER                  -> {}

(* Every attempt comes to an end: built, refused as busy, or failed.         *)
AttemptEnds ==
    \A c \in Client : cli[c].pc # "idle" ~> cli[c].pc = "idle"

(* A slot that is lent is returned, whatever becomes of the client that      *)
(* asked, unless that client fell silent in the middle of a sync: the        *)
(* daemon's sockets have no timeout.                                         *)
SlotReturned ==
    \A n \in Conn :
        guard[n] # NoSlot ~>
            \/ guard[n] = NoSlot
            \/ link[n] = "lost" /\ thread[n].pc \in {"manifest", "receive"}

(* main.rs:198-201 as it stands: a speculative sync either is complete or    *)
(* finishes with the stragglers.  No directory is in a state in which a file *)
(* of the client's tree cannot be written.                                   *)
SyncCanFinish == \A n \in Conn : ~Blocked(n)

(* slots.rs:19-23 as it stands: a probe that matches the cached fingerprint  *)
(* means that the slot's source tree is already up to date, that is, the     *)
(* tree of the client that probes (but for what it edits meanwhile).         *)
CachedMeansUpToDate ==
    \A n \in Conn :
        thread[n].pc = "acquired" /\ fingerprints[guard[n]] = thread[n].fp =>
            \A p \in Path \ (TargetPath \cup drift[owner[n]]) :
                disk[Workspace(n)].file[p] = BuildManifest(checkout[owner[n]])[p]
=============================================================================
