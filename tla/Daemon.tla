------------------------------- MODULE Daemon -------------------------------
(* daemon/src/main.rs: one thread per connection, which lends itself a slot, *)
(* brings the slot's directory to the client's tree, builds and lets go.     *)
(* Threads share the slot table, the fingerprint cache and the directories.  *)
EXTENDS Slots, Network

CONSTANT NoFingerprint  \* the cache has no entry for the slot

ASSUME DaemonAssumption == NoFingerprint \notin Fingerprint

VARIABLES
    thread,       \* connection -> where its thread is in serve
    fingerprints, \* FingerprintCache: slot -> the last fingerprint synced into it
    disk          \* the workspace directories

daemonVars == <<thread, fingerprints, disk>>

ThreadStates == {"none", "idle", "acquired", "bundle", "manifest", "receive",
                 "insert", "build", "release", "unwind"}

At(pc) == [pc |-> pc, cmd |-> "build", fp |-> EmptyTree, speculative |-> TRUE,
           files |-> EmptyTree, bundle |-> EmptyTree]

DaemonInit ==
    /\ SlotInit
    /\ thread = [n \in Conn |-> At("none")]
    /\ fingerprints = [s \in Slot |-> NoFingerprint]
    /\ disk = [d \in Directory |-> EmptyDisk]

DaemonTypeOK ==
    /\ SlotTypeOK
    /\ thread \in [Conn -> [pc : ThreadStates, cmd : {"build", "clean"}, fp : Fingerprint,
                            speculative : BOOLEAN, files : Tree, bundle : Tree]]
    /\ fingerprints \in [Slot -> Fingerprint \cup {NoFingerprint}]
    /\ disk \in [Directory -> Disk]

Become(n, state) == thread' = [thread EXCEPT ![n] = state]

Goto(n, pc) == Become(n, [thread[n] EXCEPT !.pc = pc])

(* `send_msg(..)?`: on a connection that is shut the send may fail, and the  *)
(* thread then unwinds instead of going on.                                  *)
Reply(n, m, state) ==
    \/ /\ toClient' = Carry(toClient, n, m)
       /\ Become(n, state)
    \/ /\ link[n] = "shut"
       /\ Goto(n, "unwind")
       /\ UNCHANGED toClient

(* recv_msg returned a message of this kind.                                 *)
Read(n, kind) ==
    /\ HasMail(toDaemon, n)
    /\ Head(toDaemon[n]).kind = kind
    /\ toDaemon' = [toDaemon EXCEPT ![n] = Tail(@)]

(* serve_one_request reads a Probe and serve_build finds a slot for it.      *)
ServeProbe(n) ==
    LET probe == Head(toDaemon[n]) IN
    /\ thread[n].pc = "idle"
    /\ Read(n, "Probe")
    /\ TryAcquire(n, KeyOf[owner[n]], SlotForUser[owner[n]])
    /\ Become(n, [pc |-> "acquired", cmd |-> probe.cmd, fp |-> probe.fp,
                  speculative |-> probe.speculative,
                  files |-> probe.files, bundle |-> probe.bundle])
    /\ UNCHANGED <<fingerprints, disk, link, owner, toClient>>

(* Variant: a busy daemon does not answer.                                   *)
RejectSilently(n) ==
    /\ thread[n].pc = "idle"
    /\ Read(n, "Probe")
    /\ AllBusy(KeyOf[owner[n]])
    /\ UNCHANGED <<slotVars, thread, fingerprints, disk, link, owner, toClient>>

RejectBusy(n) ==
    /\ thread[n].pc = "idle"
    /\ Read(n, "Probe")
    /\ AllBusy(KeyOf[owner[n]])
    /\ Reply(n, [kind |-> "SlotsBusy"], At("idle"))
    /\ UNCHANGED <<slotVars, fingerprints, disk, link, owner>>

(* setup_workspace, then FingerprintCache::matches: the fast path.           *)
SkipSync(n) ==
    /\ thread[n].pc = "acquired"
    /\ fingerprints[guard[n]] = thread[n].fp
    /\ Reply(n, [kind |-> "ProbeAccepted"], [thread[n] EXCEPT !.pc = "build"])
    /\ UNCHANGED <<slotVars, fingerprints, disk, link, owner, toDaemon>>

(* The slow path: on to the bundled files, or to asking for the manifest.    *)
StartSync(n) ==
    /\ thread[n].pc = "acquired"
    /\ fingerprints[guard[n]] # thread[n].fp
    /\ IF thread[n].speculative
       THEN Goto(n, "bundle") /\ UNCHANGED toClient
       ELSE Reply(n, [kind |-> "ProbeMiss"], [thread[n] EXCEPT !.pc = "manifest"])
    /\ UNCHANGED <<slotVars, fingerprints, disk, link, owner, toDaemon>>

(* One turn of write_bundled_files: before anything stale is deleted.        *)
WriteBundled(n, p) ==
    LET d == disk[Workspace(n)] IN
    /\ thread[n].pc = "bundle"
    /\ p \in Files(thread[n].bundle)
    /\ CanWrite(d, p)
    /\ disk' = [disk EXCEPT ![Workspace(n)] = WriteFile(d, p, thread[n].bundle[p])]
    /\ Become(n, [thread[n] EXCEPT !.bundle[p] = Absent])
    /\ UNCHANGED <<slotVars, fingerprints, netVars>>

(* local_manifest, needed_files, delete_stale, against the manifest `files`; *)
(* then the answer, also when files in the directory could not be walked or  *)
(* read (unread) or not be removed (stuck).                                  *)
Reconcile(n, files, ackIfComplete, unread, stuck) ==
    LET d      == disk[Workspace(n)]
        loc    == LocalManifest(d, unread)
        needed == NeededFiles(files, loc)
    IN  /\ disk' = [disk EXCEPT ![Workspace(n)] = DeleteStale(d, loc, files, stuck)]
        /\ IF needed = {} /\ ackIfComplete
           THEN Reply(n, [kind |-> "SyncAck"],
                      [thread[n] EXCEPT !.pc = "insert", !.files = files])
           ELSE Reply(n, [kind |-> "NeedFiles", paths |-> needed],
                      [thread[n] EXCEPT !.pc = "receive", !.files = files])

(* speculative_sync once the bundle is on disk.                              *)
ReconcileBundled(n, unread, stuck) ==
    /\ thread[n].pc = "bundle"
    /\ Files(thread[n].bundle) = {}
    /\ Reconcile(n, thread[n].files, TRUE, unread, stuck)
    /\ UNCHANGED <<slotVars, fingerprints, link, owner, toDaemon>>

(* Variant: also a client of before speculative sync is told at once when    *)
(* nothing is needed.                                                        *)
ReconcileManifestAcks(n, unread, stuck) ==
    /\ thread[n].pc = "manifest"
    /\ Read(n, "Manifest")
    /\ Reconcile(n, Head(toDaemon[n]).files, TRUE, unread, stuck)
    /\ UNCHANGED <<slotVars, fingerprints, link, owner>>

(* legacy_sync: expect_manifest and handle_sync, which asks for files even   *)
(* when it needs none.                                                       *)
ReconcileManifest(n, unread, stuck) ==
    /\ thread[n].pc = "manifest"
    /\ Read(n, "Manifest")
    /\ Reconcile(n, Head(toDaemon[n]).files, FALSE, unread, stuck)
    /\ UNCHANGED <<slotVars, fingerprints, link, owner>>

(* The sync that passes over files it could not walk, read or remove: nobody *)
(* is told, and it goes on to its end.                                       *)
ReconcileOverlooking(n, unread, stuck) ==
    /\ ReconcileBundled(n, unread, stuck) \/ ReconcileManifest(n, unread, stuck)
    /\ unread \cup stuck # {}
    /\ unread \cup stuck \subseteq Files(LocalManifest(disk[Workspace(n)], {}))

(* receive_files: a FileData is written as it comes; nobody compares it with *)
(* the manifest.                                                             *)
ReceiveFile(n) ==
    LET m == Head(toDaemon[n])
        d == disk[Workspace(n)]
    IN  /\ thread[n].pc = "receive"
        /\ Read(n, "FileData")
        /\ CanWrite(d, m.path)
        /\ disk' = [disk EXCEPT ![Workspace(n)] = WriteFile(d, m.path, m.contents)]
        /\ UNCHANGED <<slotVars, thread, fingerprints, link, owner, toClient>>

(* Variant: the SyncAck is forgotten.                                        *)
AckSyncSilently(n) ==
    /\ thread[n].pc = "receive"
    /\ Read(n, "SyncDone")
    /\ Goto(n, "insert")
    /\ UNCHANGED <<slotVars, fingerprints, disk, link, owner, toClient>>

AckSync(n) ==
    /\ thread[n].pc = "receive"
    /\ Read(n, "SyncDone")
    /\ Reply(n, [kind |-> "SyncAck"], [thread[n] EXCEPT !.pc = "insert"])
    /\ UNCHANGED <<slotVars, fingerprints, disk, link, owner>>

(* Variant: the first fingerprint recorded for a slot stays.                 *)
InsertFingerprintOnce(n) ==
    /\ thread[n].pc = "insert"
    /\ fingerprints' = [fingerprints EXCEPT ![guard[n]] =
                           IF @ = NoFingerprint THEN thread[n].fp ELSE @]
    /\ Goto(n, "build")
    /\ UNCHANGED <<slotVars, disk, netVars>>

(* slow_path records the probe's fingerprint for the slot.                   *)
InsertFingerprint(n) ==
    /\ thread[n].pc = "insert"
    /\ fingerprints' = [fingerprints EXCEPT ![guard[n]] = thread[n].fp]
    /\ Goto(n, "build")
    /\ UNCHANGED <<slotVars, disk, netVars>>

(* run_build up to BuildFinished, whose send may fail unnoticed, as may a    *)
(* clean.  What cargo does below "target" is not part of the tree.           *)
RunBuild(n) ==
    /\ thread[n].pc = "build"
    /\ IF thread[n].cmd = "clean"
       THEN \E left \in SUBSET RootTarget :
               disk' = [disk EXCEPT ![Workspace(n)] = CleanTarget(@, left)]
       ELSE UNCHANGED disk
    /\ toClient' = Carry(toClient, n, [kind |-> "BuildFinished"])
    /\ Become(n, At("release"))
    /\ UNCHANGED <<slotVars, fingerprints, link, owner, toDaemon>>

(* Variant: the guard lives as long as the connection.                       *)
FinishKeepsGuard(n) ==
    /\ thread[n].pc = "release"
    /\ Become(n, At("idle"))
    /\ UNCHANGED <<slotVars, fingerprints, disk, netVars>>

(* serve_build returns Ok: the guard is dropped, the serve loop goes round.  *)
Finish(n) ==
    /\ thread[n].pc = "release"
    /\ DropGuard(n)
    /\ Become(n, At("idle"))
    /\ UNCHANGED <<fingerprints, disk, netVars>>

(* The next thing the thread does is to write p.                             *)
Writing(n, p) ==
    \/ thread[n].pc = "bundle" /\ p \in Files(thread[n].bundle)
    \/ /\ thread[n].pc = "receive"
       /\ HasMail(toDaemon, n)
       /\ Head(toDaemon[n]).kind = "FileData"
       /\ Head(toDaemon[n]).path = p

(* A write of p that fails: it left the file alone, or cut it off.           *)
FailedWrite(n, p) ==
    \/ UNCHANGED disk
    \/ /\ CanWrite(disk[Workspace(n)], p)
       /\ disk' = [disk EXCEPT ![Workspace(n)] = WriteFile(@, p, Torn)]

(* An I/O error below setup_workspace or create_dir_all/fs::write: a full    *)
(* disk, or a path the directory cannot take.  A write cut short leaves the  *)
(* file torn.                                                                *)
IoFails(n) ==
    /\ \/ /\ thread[n].pc = "acquired"
          /\ UNCHANGED <<disk, toDaemon>>
       \/ /\ \E p \in Path : Writing(n, p) /\ FailedWrite(n, p)
          /\ IF thread[n].pc = "receive" THEN Read(n, "FileData") ELSE UNCHANGED toDaemon
    /\ Goto(n, "unwind")
    /\ UNCHANGED <<slotVars, fingerprints, link, owner, toClient>>

(* recv_msg fails where the thread waits for its client.                     *)
PeerGone(n) ==
    /\ thread[n].pc \in {"idle", "manifest", "receive"}
    /\ link[n] = "shut"
    /\ Goto(n, "unwind")
    /\ UNCHANGED <<slotVars, fingerprints, disk, netVars>>

(* Variant: a guard given up on an error path leaves its slot lent.          *)
UnwindLeaks(n) ==
    /\ thread[n].pc = "unwind"
    /\ guard' = [guard EXCEPT ![n] = NoSlot]
    /\ Become(n, At("none"))
    /\ link' = Shut(n)
    /\ owner' = [owner EXCEPT ![n] = NoClient]
    /\ toDaemon' = [toDaemon EXCEPT ![n] = <<>>]
    /\ UNCHANGED <<table, fingerprints, disk, toClient>>

(* The error propagates out of serve: the guard, if any, is dropped and so   *)
(* is the socket.                                                            *)
Unwind(n) ==
    /\ thread[n].pc = "unwind"
    /\ IF guard[n] = NoSlot THEN UNCHANGED slotVars ELSE DropGuard(n)
    /\ Become(n, At("none"))
    /\ link' = Shut(n)
    /\ owner' = [owner EXCEPT ![n] = NoClient]
    /\ toDaemon' = [toDaemon EXCEPT ![n] = <<>>]
    /\ UNCHANGED <<fingerprints, disk, toClient>>

(* The process dies and systemd starts it anew: the directories are all that *)
(* is left, a file being written then may be torn.                           *)
Restart ==
    /\ ForgetSlots
    /\ thread' = [n \in Conn |-> At("none")]
    /\ fingerprints' = [s \in Slot |-> NoFingerprint]
    /\ \/ UNCHANGED disk
       \/ \E n \in Conn, p \in Path : Writing(n, p) /\ FailedWrite(n, p)
    /\ link' = [n \in Conn |-> "shut"]
    /\ owner' = [n \in Conn |-> NoClient]
    /\ toDaemon' = [n \in Conn |-> <<>>]
    /\ UNCHANGED toClient
=============================================================================
