------------------------ MODULE BuildService_proofs -------------------------
(* The build service, for any number of clients, connections, scopes, slots, *)
(* paths and contents, and any number of edits, breaks and failures: every   *)
(* variable keeps its type, and what the service does to the slot table is   *)
(* what Slots allows, so that the results about Slots hold of the service.   *)
EXTENDS BuildService, Slots_proofs, SequenceTheorems

-----------------------------------------------------------------------------
(* The values the two sides compute.                                         *)

(* The three walks of the CLI give a manifest, a fingerprint and a bundle.   *)
LEMMA WalksTyped ==
    ASSUME NEW w \in Checkout
    PROVE  /\ BuildManifest(w) \in Tree
           /\ FingerprintOf(w) \in Fingerprint
           /\ \A paths \in SUBSET Path : Bundle(w, paths) \in Tree
<1>1. BuildManifest(w) \in Tree
    BY SourceTreeAssumption DEF BuildManifest, Checkout, Tree
<1>2. FingerprintOf(w) \in Fingerprint
    BY SourceTreeAssumption DEF FingerprintOf, Checkout, Fingerprint
<1>3. \A paths \in SUBSET Path : Bundle(w, paths) \in Tree
    BY <1>1 DEF Bundle, Tree
<1> QED BY <1>1, <1>2, <1>3

(* Nothing is a tree and a fingerprint.                                      *)
LEMMA EmptyTyped ==
    /\ EmptyTree \in Tree
    /\ EmptyTree \in Fingerprint
    /\ EmptyDisk \in Disk
BY DEF EmptyTree, EmptyDisk, Tree, Fingerprint, Disk

(* What a sync does to a directory leaves a directory.                       *)
LEMMA DiskTyped ==
    ASSUME NEW d \in Disk
    PROVE  /\ \A p \in Path, c \in Content \cup {Torn} : WriteFile(d, p, c) \in Disk
           /\ \A loc, files, stuck : DeleteStale(d, loc, files, stuck) \in Disk
           /\ \A left : CleanTarget(d, left) \in Disk
<1>1. \A p \in Path, c \in Content \cup {Torn} : WriteFile(d, p, c) \in Disk
    BY SourceTreeAssumption DEF WriteFile, Disk
<1>2. \A loc, files, stuck : DeleteStale(d, loc, files, stuck) \in Disk
    BY DEF DeleteStale, Disk
<1>3. \A left : CleanTarget(d, left) \in Disk
    BY DEF CleanTarget, Disk
<1> QED BY <1>1, <1>2, <1>3

(* What is read off a message of a kind.                                     *)
LEMMA ProbeFields ==
    ASSUME NEW m \in ToDaemon, m.kind = "Probe"
    PROVE  /\ m.cmd \in {"build", "clean"}
           /\ m.fp \in Fingerprint
           /\ m.speculative \in BOOLEAN
           /\ m.files \in Tree
           /\ m.bundle \in Tree
BY NetworkAssumption DEF ToDaemon

(* A Manifest carries a tree.                                                *)
LEMMA ManifestFields ==
    ASSUME NEW m \in ToDaemon, m.kind = "Manifest"
    PROVE  m.files \in Tree
BY DEF ToDaemon

(* A FileData carries a path and contents.                                   *)
LEMMA FileFields ==
    ASSUME NEW m \in ToDaemon, m.kind = "FileData"
    PROVE  m.path \in Path /\ m.contents \in Content
BY DEF ToDaemon

(* A NeedFiles carries paths.                                                *)
LEMMA NeedFields ==
    ASSUME NEW m \in ToClient, m.kind = "NeedFiles"
    PROVE  m.paths \in SUBSET Path
BY DEF ToClient
-----------------------------------------------------------------------------
(* The inductive invariant.  Types alone are not inductive: what is read off *)
(* a message is typed only if the connection is one, and a slot is asked for *)
(* with the key and the index of a client only if the thread has a client.   *)

CliRecord == [pc : CliStates, conn : Conn \cup {NoConn}, files : Tree,
              fp : Fingerprint, todo : SUBSET Path]

ThreadRecord == [pc : ThreadStates, cmd : {"build", "clean"}, fp : Fingerprint,
                 speculative : BOOLEAN, files : Tree, bundle : Tree]

(* A CLI in the middle of a session has a connection.                        *)
Connected ==
    \A c \in Client :
        cli[c].pc \in {"response", "needed", "stream", "ack", "output"} => cli[c].conn \in Conn

(* A thread serves the client that authenticated.                            *)
Authenticated ==
    \A n \in Conn : thread[n].pc # "none" => owner[n] \in Client

(* A thread between try_acquire and the end of serve_build holds a slot, one *)
(* at the top of its loop holds none.                                        *)
HoldsItsSlot ==
    \A n \in Conn :
        /\ thread[n].pc \in ThreadStates \ {"none", "idle", "unwind"} => guard[n] # NoSlot
        /\ thread[n].pc \in {"none", "idle"} => guard[n] = NoSlot

BudgetTypeOK ==
    /\ edits \in 0 .. MaxEdits /\ breaks \in 0 .. MaxBreaks /\ failures \in 0 .. MaxFailures
    /\ drift \in [Client -> SUBSET Path]
    /\ honest \in [Slot -> BOOLEAN]

ServiceInv ==
    /\ CliTypeOK /\ NetTypeOK /\ DaemonTypeOK /\ BudgetTypeOK
    /\ SlotInv
    /\ Connected /\ Authenticated /\ HoldsItsSlot

-----------------------------------------------------------------------------
(* A message joins a queue, or the bytes go nowhere: the queues stay queues. *)
LEMMA CarryTyped ==
    ASSUME NEW M, NEW q \in [Conn -> Seq(M)], NEW n \in Conn, NEW m \in M
    PROVE  /\ Carry(q, n, m) \in [Conn -> Seq(M)]
           /\ [q EXCEPT ![n] = Append(@, m)] \in [Conn -> Seq(M)]
<1>1. Append(q[n], m) \in Seq(M)
    BY AppendProperties
<1> QED BY <1>1 DEF Carry

(* A message leaves a queue.                                                 *)
LEMMA TakenTyped ==
    ASSUME NEW M, NEW q \in [Conn -> Seq(M)], NEW n \in Conn, q[n] # <<>>
    PROVE  /\ Head(q[n]) \in M
           /\ [q EXCEPT ![n] = Tail(@)] \in [Conn -> Seq(M)]
<1>1. Head(q[n]) \in M /\ Tail(q[n]) \in Seq(M)
    BY HeadTailProperties
<1> QED BY <1>1

(* What was in flight is gone.                                               *)
LEMMA EmptiedTyped ==
    ASSUME NEW M, NEW q \in [Conn -> Seq(M)], NEW n
    PROVE  [q EXCEPT ![n] = <<>>] \in [Conn -> Seq(M)]
<1>1. <<>> \in Seq(M)
    BY EmptySeq
<1> QED BY <1>1

(* What the two sides send is what their channels may carry.                 *)
LEMMA PlainMessages ==
    /\ \A k \in {"ProbeAccepted", "ProbeMiss", "SyncAck", "SlotsBusy", "BuildFinished"} :
          [kind |-> k] \in ToClient
    /\ \A paths \in SUBSET Path : [kind |-> "NeedFiles", paths |-> paths] \in ToClient
    /\ [kind |-> "SyncDone"] \in ToDaemon
    /\ \A t \in Tree : [kind |-> "Manifest", files |-> t] \in ToDaemon
    /\ \A p \in Path, x \in Content : [kind |-> "FileData", path |-> p, contents |-> x] \in ToDaemon
BY DEF ToClient, ToDaemon

(* Both generations of probe are messages to the daemon.                     *)
LEMMA ProbeMessages ==
    ASSUME NEW cmd \in Command, NEW fp \in Fingerprint, NEW files \in Tree, NEW bundle \in Tree
    PROVE  /\ Probe(cmd, fp, files, bundle) \in ToDaemon
           /\ PlainProbe(cmd, fp) \in ToDaemon
BY EmptyTyped DEF Probe, PlainProbe, ToDaemon

(* Closing a connection leaves every connection in one of its three states.  *)
LEMMA ShutTyped ==
    ASSUME NetTypeOK, NEW n
    PROVE  Shut(n) \in [Conn -> {"up", "shut", "lost"}]
BY DEF NetTypeOK, Shut

(* A CLI that is idle, or has just sent its probe, with connection n.        *)
LEMMA IdleTyped ==
    ASSUME NEW n \in Conn \cup {NoConn}
    PROVE  /\ Idle(n) \in CliRecord
           /\ Idle(n).pc = "idle"
           /\ [Idle(n) EXCEPT !.pc = "response"] \in CliRecord
           /\ [Idle(n) EXCEPT !.pc = "response"].conn = n
<1>1. Idle(n) \in CliRecord /\ Idle(n).pc = "idle" /\ Idle(n).conn = n
    BY EmptyTyped DEF Idle, CliRecord, CliStates
<1>2. ASSUME NEW r \in CliRecord
      PROVE  /\ [r EXCEPT !.pc = "response"] \in CliRecord
             /\ [r EXCEPT !.pc = "response"].conn = r.conn
    BY DEF CliRecord, CliStates
<1> QED BY <1>1, <1>2

-----------------------------------------------------------------------------
(* The CLI.                                                                  *)

CliInv == CliTypeOK /\ NetTypeOK /\ Connected

(* What SendProbe puts on a connection, and the CLI it leaves.               *)
LEMMA SendProbeTyped ==
    ASSUME CliInv, NEW c \in Client, NEW n \in Conn, SendProbe(c, n)
    PROVE  /\ CliTypeOK' /\ Connected'
           /\ toDaemon' \in [Conn -> Seq(ToDaemon)]
<1> USE DEF CliInv
<1>1. PICK cmd \in Command, hint \in Hint :
          toDaemon' = [toDaemon EXCEPT ![n] = Append(@,
              IF c \in LegacyClient THEN PlainProbe(cmd, cli[c].fp)
              ELSE Probe(cmd, cli[c].fp, cli[c].files,
                         Bundle(checkout[c], ChangedPaths(cli[c].files, hint))))]
    BY DEF SendProbe
<1>2. cli[c].fp \in Fingerprint /\ cli[c].files \in Tree /\ checkout[c] \in Checkout
    BY DEF CliTypeOK
<1>3. ChangedPaths(cli[c].files, hint) \in SUBSET Path
    BY DEF ChangedPaths, Files
<1>4. Bundle(checkout[c], ChangedPaths(cli[c].files, hint)) \in Tree
    BY <1>2, <1>3, WalksTyped
<1>5. toDaemon' \in [Conn -> Seq(ToDaemon)]
    <2> DEFINE m == IF c \in LegacyClient THEN PlainProbe(cmd, cli[c].fp)
                    ELSE Probe(cmd, cli[c].fp, cli[c].files,
                               Bundle(checkout[c], ChangedPaths(cli[c].files, hint)))
    <2>1. m \in ToDaemon
        BY <1>2, <1>4, ProbeMessages
    <2> HIDE DEF m
    <2>2. toDaemon \in [Conn -> Seq(ToDaemon)]
        BY DEF NetTypeOK
    <2>3. [toDaemon EXCEPT ![n] = Append(@, m)] \in [Conn -> Seq(ToDaemon)]
        BY <2>1, <2>2, CarryTyped
    <2> QED BY <1>1, <2>3 DEF m
<1>6. cli' = [cli EXCEPT ![c] = [Idle(n) EXCEPT !.pc = "response"]] /\ checkout' = checkout
    BY DEF SendProbe
<1> DEFINE asked == [Idle(n) EXCEPT !.pc = "response"]
<1>7. asked \in CliRecord /\ asked.conn = n
    BY IdleTyped
<1> HIDE DEF asked
<1>8. cli' = [cli EXCEPT ![c] = asked]
    BY <1>6 DEF asked
<1>9. CliTypeOK'
    BY <1>6, <1>7, <1>8 DEF CliTypeOK, CliRecord
<1>10. Connected'
    BY <1>7, <1>8 DEF CliTypeOK, Connected
<1> QED BY <1>5, <1>9, <1>10

(* A message was taken off the queue to the CLI.                             *)
LEMMA ReceiveTyped ==
    ASSUME CliInv, NEW c \in Client, NEW kind, Receive(c, kind), cli[c].conn \in Conn
    PROVE  /\ toClient' \in [Conn -> Seq(ToClient)]
           /\ Head(toClient[cli[c].conn]) \in ToClient
           /\ Head(toClient[cli[c].conn]).kind = kind
<1>1. toClient \in [Conn -> Seq(ToClient)] /\ toClient[cli[c].conn] # <<>>
    BY DEF CliInv, NetTypeOK, Receive, HasMail
<1> QED BY <1>1, TakenTyped DEF Receive

(* A message of the CLI was put on its connection.                           *)
LEMMA SendTyped ==
    ASSUME CliInv, NEW c \in Client, NEW m \in ToDaemon, Send(c, m), cli[c].conn \in Conn
    PROVE  toDaemon' \in [Conn -> Seq(ToDaemon)]
<1>1. toDaemon \in [Conn -> Seq(ToDaemon)]
    BY DEF CliInv, NetTypeOK
<1> QED BY <1>1, CarryTyped DEF Send

(* The run is over, and the connection closed or kept for the next one.      *)
LEMMA BackToIdle ==
    ASSUME CliInv, NEW c \in Client, NEW n \in Conn \cup {NoConn},
           cli' = [cli EXCEPT ![c] = Idle(n)], checkout' = checkout
    PROVE  CliTypeOK' /\ Connected'
<1>1. Idle(n) \in CliRecord /\ Idle(n).pc = "idle"
    BY IdleTyped
<1> QED BY <1>1 DEF CliInv, CliTypeOK, CliRecord, Connected

(* What a CLI knows is a record, whichever of it a step changes.             *)
LEMMA CliFieldTyped ==
    ASSUME NEW r \in CliRecord, NEW s \in CliStates
    PROVE  /\ [r EXCEPT !.pc = s] \in CliRecord
           /\ [r EXCEPT !.pc = s].pc = s /\ [r EXCEPT !.pc = s].conn = r.conn
           /\ \A t \in Tree : /\ [r EXCEPT !.pc = s, !.files = t] \in CliRecord
                             /\ [r EXCEPT !.pc = s, !.files = t].pc = s
           /\ \A f \in Fingerprint : /\ [r EXCEPT !.pc = s, !.fp = f] \in CliRecord
                                    /\ [r EXCEPT !.pc = s, !.fp = f].pc = s
           /\ \A d \in SUBSET Path :
                  /\ [r EXCEPT !.pc = s, !.todo = d] \in CliRecord
                  /\ [r EXCEPT !.pc = s, !.todo = d].conn = r.conn
                  /\ [r EXCEPT !.todo = d] \in CliRecord
                  /\ [r EXCEPT !.todo = d].conn = r.conn
BY DEF CliRecord

(* The CLI goes on, with a connection if it is to use one.                   *)
LEMMA CliAdvances ==
    ASSUME CliInv, NEW c \in Client, NEW r \in CliRecord, cli' = [cli EXCEPT ![c] = r],
           r.pc \in {"response", "needed", "stream", "ack", "output"} => r.conn \in Conn,
           UNCHANGED checkout
    PROVE  CliTypeOK' /\ Connected'
<1>1. cli \in [Client -> CliRecord] /\ checkout \in [Client -> Checkout]
    BY DEF CliInv, CliTypeOK, CliRecord
<1>2. cli' \in [Client -> CliRecord]
    BY <1>1
<1>3. CliTypeOK'
    BY <1>1, <1>2 DEF CliTypeOK, CliRecord
<1>4. \A d \in Client : cli'[d] = IF d = c THEN r ELSE cli[d]
    BY <1>1
<1>5. Connected'
    BY <1>4 DEF CliInv, Connected
<1> QED BY <1>3, <1>5

(* Every step of a CLI that does not open a connection.                      *)
LEMMA CliStepTyped ==
    ASSUME CliInv, NEW c \in Client,
           CliSteps(c) \/ ScanFiles(c) \/ GiveUp(c) \/ Vanish(c)
    PROVE  CliInv'
<1> USE DEF CliInv
<1>0. cli[c] \in CliRecord
    BY DEF CliTypeOK, CliRecord
<1>1. CASE ScanFiles(c)
    <2> DEFINE t == BuildManifest(checkout[c])
           r == [cli[c] EXCEPT !.pc = "scanned", !.files = t]
    <2>1. t \in Tree
        BY WalksTyped DEF CliTypeOK
    <2>2. r \in CliRecord /\ r.pc = "scanned"
        <3>1. "scanned" \in CliStates
            BY DEF CliStates
        <3> HIDE DEF t
        <3> QED BY <1>0, <2>1, <3>1, CliFieldTyped, Zenon
    <2>3. cli' = [cli EXCEPT ![c] = r] /\ UNCHANGED <<checkout, netVars>>
        BY <1>1 DEF ScanFiles
    <2> HIDE DEF r
    <2>4. CliTypeOK' /\ Connected'
        BY <2>2, <2>3, CliAdvances
    <2> QED BY <2>3, <2>4 DEF NetTypeOK, netVars
<1>2. CASE TakeFingerprint(c)
    <2> DEFINE t == FingerprintOf(checkout[c])
           r == [cli[c] EXCEPT !.pc = "stamped", !.fp = t]
    <2>1. t \in Fingerprint
        BY WalksTyped DEF CliTypeOK
    <2>2. r \in CliRecord /\ r.pc = "stamped"
        <3>1. "stamped" \in CliStates
            BY DEF CliStates
        <3> HIDE DEF t
        <3> QED BY <1>0, <2>1, <3>1, CliFieldTyped, Zenon
    <2>3. cli' = [cli EXCEPT ![c] = r] /\ UNCHANGED <<checkout, netVars>>
        BY <1>2 DEF TakeFingerprint
    <2> HIDE DEF r
    <2>4. CliTypeOK' /\ Connected'
        BY <2>2, <2>3, CliAdvances
    <2> QED BY <2>3, <2>4 DEF NetTypeOK, netVars
<1>3. CASE ProbeOnKept(c)
    <2>1. cli[c].conn \in Conn
        BY <1>3 DEF ProbeOnKept, CliTypeOK
    <2>2. CliTypeOK' /\ Connected' /\ toDaemon' \in [Conn -> Seq(ToDaemon)]
        BY <1>3, <2>1, SendProbeTyped DEF ProbeOnKept
    <2> QED BY <1>3, <2>2 DEF ProbeOnKept, NetTypeOK
<1>4. CASE CannotConnect(c)
    BY <1>4, BackToIdle DEF CannotConnect, NetTypeOK, netVars
<1>5. CASE SyncSettled(c)
    <2>1. cli[c].conn \in Conn
        BY <1>5 DEF SyncSettled, Connected
    <2>2. toClient' \in [Conn -> Seq(ToClient)]
        BY <1>5, <2>1, ReceiveTyped DEF SyncSettled
    <2> DEFINE r == [cli[c] EXCEPT !.pc = "output"]
    <2>3. r \in CliRecord /\ r.conn \in Conn
        <3>1. "output" \in CliStates
            BY DEF CliStates
        <3> QED BY <1>0, <2>1, <3>1, CliFieldTyped, Zenon
    <2>4. cli' = [cli EXCEPT ![c] = r] /\ UNCHANGED <<checkout, link, owner, toDaemon>>
        BY <1>5 DEF SyncSettled
    <2> HIDE DEF r
    <2>5. CliTypeOK' /\ Connected'
        BY <2>3, <2>4, CliAdvances
    <2> QED BY <2>2, <2>4, <2>5 DEF NetTypeOK
<1>6. CASE SendManifest(c)
    <2>1. cli[c].conn \in Conn
        BY <1>6 DEF SendManifest, Connected
    <2>2. toClient' \in [Conn -> Seq(ToClient)]
        BY <1>6, <2>1, ReceiveTyped DEF SendManifest
    <2>3. [kind |-> "Manifest", files |-> BuildManifest(checkout[c])] \in ToDaemon
        BY WalksTyped, PlainMessages DEF CliTypeOK
    <2>4. toDaemon' \in [Conn -> Seq(ToDaemon)]
        BY <1>6, <2>1, <2>3, SendTyped DEF SendManifest
    <2> DEFINE r == [cli[c] EXCEPT !.pc = "needed"]
    <2>5. r \in CliRecord /\ r.conn \in Conn
        <3>1. "needed" \in CliStates
            BY DEF CliStates
        <3> QED BY <1>0, <2>1, <3>1, CliFieldTyped, Zenon
    <2>6. cli' = [cli EXCEPT ![c] = r] /\ UNCHANGED <<checkout, link, owner>>
        BY <1>6 DEF SendManifest
    <2> HIDE DEF r
    <2>7. CliTypeOK' /\ Connected'
        BY <2>5, <2>6, CliAdvances
    <2> QED BY <2>2, <2>4, <2>6, <2>7 DEF NetTypeOK
<1>7. CASE LearnNeeded(c)
    <2>1. cli[c].conn \in Conn
        BY <1>7 DEF LearnNeeded, Connected
    <2>2. toClient' \in [Conn -> Seq(ToClient)]
        BY <1>7, <2>1, ReceiveTyped DEF LearnNeeded
    <2>3. Head(toClient[cli[c].conn]).paths \in SUBSET Path
        BY <1>7, <2>1, ReceiveTyped, NeedFields DEF LearnNeeded
    <2> DEFINE d == Head(toClient[cli[c].conn]).paths
           r == [cli[c] EXCEPT !.pc = "stream", !.todo = d]
    <2>4. r \in CliRecord /\ r.conn \in Conn
        <3>1. "stream" \in CliStates
            BY DEF CliStates
        <3>2. d \in SUBSET Path
            BY <2>3
        <3> HIDE DEF d
        <3>3. r \in CliRecord
            BY <1>0, <3>1, <3>2, CliFieldTyped, Zenon
        <3>4. r.conn = cli[c].conn
            BY <1>0 DEF CliRecord
        <3> QED BY <2>1, <3>3, <3>4
    <2>5. cli' = [cli EXCEPT ![c] = r] /\ UNCHANGED <<checkout, link, owner, toDaemon>>
        BY <1>7 DEF LearnNeeded
    <2> HIDE DEF r
    <2>6. CliTypeOK' /\ Connected'
        BY <2>4, <2>5, CliAdvances
    <2> QED BY <2>2, <2>5, <2>6 DEF NetTypeOK
<1>8. ASSUME NEW p \in Path, StreamFile(c, p) PROVE CliInv'
    <2>1. cli[c].conn \in Conn
        BY <1>8 DEF StreamFile, Connected
    <2>2. toDaemon' \in [Conn -> Seq(ToDaemon)]
        <3>1. CASE checkout[c][p] = Absent
            BY <1>8, <3>1 DEF StreamFile, NetTypeOK
        <3>2. CASE checkout[c][p] # Absent
            <4> DEFINE m == [kind |-> "FileData", path |-> p, contents |-> ContentOf[checkout[c][p]]]
            <4>1. ContentOf[checkout[c][p]] \in Content
                BY <3>2, SourceTreeAssumption DEF CliTypeOK, Checkout
            <4>2. m \in ToDaemon
                BY <4>1, PlainMessages
            <4>3. Send(c, m)
                BY <1>8, <3>2 DEF StreamFile
            <4> QED BY <2>1, <4>2, <4>3, SendTyped
        <3> QED BY <3>1, <3>2
    <2> DEFINE d == cli[c].todo \ {p}
           r == [cli[c] EXCEPT !.todo = d]
    <2>3. r \in CliRecord /\ r.conn \in Conn
        <3>1. d \in SUBSET Path
            BY <1>0 DEF CliRecord
        <3> HIDE DEF d
        <3>2. "stream" \in CliStates
            BY DEF CliStates
        <3> QED BY <1>0, <2>1, <3>1, <3>2, CliFieldTyped, Zenon
    <2>4. cli' = [cli EXCEPT ![c] = r] /\ UNCHANGED <<checkout, link, owner, toClient>>
        BY <1>8 DEF StreamFile
    <2> HIDE DEF r
    <2>5. CliTypeOK' /\ Connected'
        BY <2>3, <2>4, CliAdvances
    <2> QED BY <2>2, <2>4, <2>5 DEF NetTypeOK
<1>9. CASE SendSyncDone(c)
    <2>1. cli[c].conn \in Conn
        BY <1>9 DEF SendSyncDone, Connected
    <2>2. toDaemon' \in [Conn -> Seq(ToDaemon)]
        BY <1>9, <2>1, PlainMessages, SendTyped DEF SendSyncDone
    <2> DEFINE r == [cli[c] EXCEPT !.pc = "ack"]
    <2>3. r \in CliRecord /\ r.conn \in Conn
        <3>1. "ack" \in CliStates
            BY DEF CliStates
        <3> QED BY <1>0, <2>1, <3>1, CliFieldTyped, Zenon
    <2>4. cli' = [cli EXCEPT ![c] = r] /\ UNCHANGED <<checkout, link, owner, toClient>>
        BY <1>9 DEF SendSyncDone
    <2> HIDE DEF r
    <2>5. CliTypeOK' /\ Connected'
        BY <2>3, <2>4, CliAdvances
    <2> QED BY <2>2, <2>4, <2>5 DEF NetTypeOK
<1>10. CASE EndSession(c)
    <2>1. cli[c].conn \in Conn
        BY <1>10 DEF EndSession, Connected
    <2>2. toClient' \in [Conn -> Seq(ToClient)]
        BY <1>10, <2>1, ReceiveTyped DEF EndSession
    <2>3. CliTypeOK' /\ Connected'
        BY <1>10, <2>1, BackToIdle DEF EndSession
    <2>4. link' \in [Conn -> {"up", "shut", "lost"}]
        BY <1>10, ShutTyped DEF EndSession, NetTypeOK
    <2> QED BY <1>10, <2>2, <2>3, <2>4 DEF EndSession, NetTypeOK
<1>11. CASE GiveUp(c)
    <2>1. CliTypeOK' /\ Connected'
        BY <1>11, BackToIdle DEF GiveUp
    <2>2. link' \in [Conn -> {"up", "shut", "lost"}]
        BY <1>11, ShutTyped DEF GiveUp, NetTypeOK
    <2>3. toClient' \in [Conn -> Seq(ToClient)]
        <3>1. toClient \in [Conn -> Seq(ToClient)]
            BY DEF NetTypeOK
        <3>2. [toClient EXCEPT ![cli[c].conn] = <<>>] \in [Conn -> Seq(ToClient)]
            BY <3>1, EmptiedTyped
        <3> QED BY <1>11, <3>1, <3>2 DEF GiveUp
    <2> QED BY <1>11, <2>1, <2>2, <2>3 DEF GiveUp, NetTypeOK
<1>12. CASE Vanish(c)
    <2>1. CliTypeOK' /\ Connected'
        BY <1>12, BackToIdle DEF Vanish
    <2>2. toClient' \in [Conn -> Seq(ToClient)]
        BY <1>12, EmptiedTyped DEF Vanish, NetTypeOK
    <2> QED BY <1>12, <2>1, <2>2 DEF Vanish, NetTypeOK
<1> QED BY <1>1, <1>2, <1>3, <1>4, <1>5, <1>6, <1>7, <1>8, <1>9, <1>10, <1>11, <1>12 DEF CliSteps

(* A step of a CLI leaves whose thread serves it as it was.                  *)
LEMMA CliStepKeepsOwner ==
    ASSUME NEW c \in Client, CliSteps(c) \/ ScanFiles(c) \/ GiveUp(c) \/ Vanish(c)
    PROVE  owner' = owner
BY DEF CliSteps, ScanFiles, TakeFingerprint, ProbeOnKept, CannotConnect, SyncSettled, SendManifest,
       LearnNeeded, StreamFile, SendSyncDone, EndSession, GiveUp, Vanish, netVars

-----------------------------------------------------------------------------
(* The daemon's threads.                                                     *)

DaemonInv == SlotInv /\ NetTypeOK /\ DaemonTypeOK /\ Authenticated /\ HoldsItsSlot

(* Thread n has moved to the record r, and no other thread has moved.        *)
Moved(n, r) ==
    /\ thread' \in [Conn -> ThreadRecord]
    /\ thread'[n] = r
    /\ \A m \in Conn \ {n} : thread'[m] = thread[m]

(* A thread with nothing but a place in serve.                               *)
LEMMA AtTyped ==
    ASSUME NEW pc \in ThreadStates
    PROVE  At(pc) \in ThreadRecord /\ At(pc).pc = pc
BY EmptyTyped DEF At, ThreadRecord

(* Become moves one thread.                                                  *)
LEMMA BecomeMoves ==
    ASSUME DaemonTypeOK, NEW n \in Conn, NEW r \in ThreadRecord, Become(n, r)
    PROVE  Moved(n, r)
BY DEF DaemonTypeOK, ThreadRecord, Become, Moved

(* A thread that only changes its place.                                     *)
LEMMA AdvanceTyped ==
    ASSUME DaemonTypeOK, NEW n \in Conn, NEW pc \in ThreadStates
    PROVE  /\ [thread[n] EXCEPT !.pc = pc] \in ThreadRecord
           /\ [thread[n] EXCEPT !.pc = pc].pc = pc
BY DEF DaemonTypeOK, ThreadRecord

(* Goto moves one thread.                                                    *)
LEMMA GotoMoves ==
    ASSUME DaemonTypeOK, NEW n \in Conn, NEW pc \in ThreadStates, Goto(n, pc)
    PROVE  \E r \in ThreadRecord : Moved(n, r) /\ r.pc = pc
<1> DEFINE r == [thread[n] EXCEPT !.pc = pc]
<1>1. r \in ThreadRecord /\ r.pc = pc
    BY AdvanceTyped
<1>2. Become(n, r)
    BY DEF Goto
<1> HIDE DEF r
<1> QED BY <1>1, <1>2, BecomeMoves

(* send_msg(..)?: the thread goes on, or it unwinds.                         *)
LEMMA ReplyMoves ==
    ASSUME NetTypeOK, DaemonTypeOK, NEW n \in Conn, NEW m \in ToClient,
           NEW state \in ThreadRecord, Reply(n, m, state)
    PROVE  /\ toClient' \in [Conn -> Seq(ToClient)]
           /\ \E r \in ThreadRecord : Moved(n, r) /\ r.pc \in {state.pc, "unwind"}
<1>1. toClient \in [Conn -> Seq(ToClient)] /\ "unwind" \in ThreadStates
    BY DEF NetTypeOK, ThreadStates
<1>2. CASE toClient' = Carry(toClient, n, m) /\ Become(n, state)
    BY <1>1, <1>2, CarryTyped, BecomeMoves
<1>3. CASE Goto(n, "unwind") /\ UNCHANGED toClient
    BY <1>1, <1>3, GotoMoves
<1> QED BY <1>2, <1>3 DEF Reply

(* The message a thread reads was one.                                       *)
LEMMA ReadTyped ==
    ASSUME NetTypeOK, NEW n \in Conn, NEW kind, Read(n, kind)
    PROVE  /\ toDaemon' \in [Conn -> Seq(ToDaemon)]
           /\ Head(toDaemon[n]) \in ToDaemon
           /\ Head(toDaemon[n]).kind = kind
<1>1. toDaemon \in [Conn -> Seq(ToDaemon)] /\ toDaemon[n] # <<>>
    BY DEF NetTypeOK, Read, HasMail
<1> QED BY <1>1, TakenTyped DEF Read

(* A directory that was written to, if it is one, is a directory.            *)
LEMMA WriteTyped ==
    ASSUME DaemonTypeOK, NEW n \in Conn, NEW p \in Path, NEW x \in Content \cup {Torn},
           disk' = [disk EXCEPT ![Workspace(n)] = WriteFile(disk[Workspace(n)], p, x)]
    PROVE  disk' \in [Directory -> Disk]
<1>1. disk \in [Directory -> Disk]
    BY DEF DaemonTypeOK
<1>2. Workspace(n) \in Directory => WriteFile(disk[Workspace(n)], p, x) \in Disk
    BY <1>1, DiskTyped
<1> QED BY <1>1, <1>2

(* A thread that goes on, with its slot and its client, keeps the invariant. *)
LEMMA MoveKeepsHold ==
    ASSUME DaemonInv, NEW n \in Conn, NEW r \in ThreadRecord, Moved(n, r),
           guard' = guard, owner' = owner,
           thread[n].pc # "none",
           r.pc \in ThreadStates \ {"none", "idle", "unwind"} => guard[n] # NoSlot,
           r.pc \in {"none", "idle"} => guard[n] = NoSlot
    PROVE  Authenticated' /\ HoldsItsSlot'
BY DEF DaemonInv, Moved, Authenticated, HoldsItsSlot

(* Whatever a thread may do, with or without something failing.              *)
ThreadMoves(n) ==
    \/ ThreadSteps(n)
    \/ IoFails(n)
    \/ \E unread, stuck \in SUBSET Path : ReconcileOverlooking(n, unread, stuck)

(* The sync's comparison, whether or not it overlooks something.             *)
Reconciles(n) ==
    \E unread, stuck \in SUBSET Path :
        ReconcileBundled(n, unread, stuck) \/ ReconcileManifest(n, unread, stuck)

(* A thread's moves, action by action.                                       *)
LEMMA MovesOfThread ==
    ASSUME NEW n, ThreadMoves(n)
    PROVE  \/ ServeProbe(n) \/ RejectBusy(n) \/ SkipSync(n) \/ StartSync(n)
           \/ \E p \in Path : WriteBundled(n, p)
           \/ Reconciles(n) \/ ReceiveFile(n) \/ AckSync(n) \/ InsertFingerprint(n)
           \/ RunBuild(n) \/ Finish(n) \/ PeerGone(n) \/ Unwind(n) \/ IoFails(n)
<1>1. CASE \E unread, stuck \in SUBSET Path : ReconcileOverlooking(n, unread, stuck)
    BY <1>1 DEF ReconcileOverlooking, Reconciles
<1>2. CASE ReconcileBundled(n, {}, {}) \/ ReconcileManifest(n, {}, {})
    <2>1. {} \in SUBSET Path
        OBVIOUS
    <2> QED BY <1>2, <2>1 DEF Reconciles
<1> QED BY <1>1, <1>2 DEF ThreadMoves, ThreadSteps

(* What a thread does to the slot table is a step of Slots.                  *)
LEMMA ThreadStepsSlots ==
    ASSUME DaemonInv, NEW n \in Conn, ThreadMoves(n)
    PROVE  [SlotNext]_slotVars
<1>1. CASE ServeProbe(n)
    <2>1. owner[n] \in Client
        BY <1>1 DEF ServeProbe, DaemonInv, Authenticated
    <2>2. KeyOf[owner[n]] \in Key /\ SlotForUser[owner[n]] \in Index
        BY <2>1, DeploymentAssumption
    <2> QED BY <1>1, <2>2 DEF ServeProbe, SlotNext
<1>2. CASE Finish(n)
    BY <1>2 DEF Finish, SlotNext
<1>3. CASE Unwind(n)
    BY <1>3 DEF Unwind, SlotNext
<1>4. CASE ~ServeProbe(n) /\ ~Finish(n) /\ ~Unwind(n)
    <2>1. UNCHANGED slotVars
        BY <1>4, MovesOfThread DEF RejectBusy, SkipSync, StartSync, WriteBundled, Reconciles,
           ReconcileBundled, ReconcileManifest, ReceiveFile, AckSync, InsertFingerprint, RunBuild,
           IoFails, PeerGone
    <2> QED BY <2>1
<1> QED BY <1>1, <1>2, <1>3, <1>4

(* try_acquire: from the top of the loop, without a slot, to one of its own.*)
LEMMA ServeProbeTyped ==
    ASSUME DaemonInv, NEW n \in Conn, ServeProbe(n)
    PROVE  NetTypeOK' /\ DaemonTypeOK' /\ Authenticated' /\ HoldsItsSlot'
<1> USE DEF DaemonInv
<1> DEFINE probe == Head(toDaemon[n])
           r == [pc |-> "acquired", cmd |-> probe.cmd, fp |-> probe.fp,
                 speculative |-> probe.speculative, files |-> probe.files,
                 bundle |-> probe.bundle]
<1>1. probe \in ToDaemon /\ probe.kind = "Probe" /\ toDaemon' \in [Conn -> Seq(ToDaemon)]
    BY ReadTyped DEF ServeProbe
<1>2. r \in ThreadRecord /\ r.pc = "acquired"
    BY <1>1, ProbeFields DEF ThreadRecord, ThreadStates
<1>3. Become(n, r)
    BY DEF ServeProbe
<1> HIDE DEF r
<1>4. Moved(n, r)
    BY <1>2, <1>3, BecomeMoves
<1>5. SlotTypeOK'
    BY ThreadStepsSlots, SlotNextInv DEF ThreadMoves, ThreadSteps, SlotInv
<1>6. /\ guard'[n] # NoSlot
      /\ \A m \in Conn \ {n} : guard'[m] = guard[m]
    <2>1. PICK i \in Index : guard' = [guard EXCEPT ![n] = <<KeyOf[owner[n]], i>>]
        BY DEF ServeProbe, TryAcquire
    <2>2. KeyOf[owner[n]] \in Key
        BY DeploymentAssumption DEF ServeProbe, Authenticated
    <2>3. <<KeyOf[owner[n]], i>> # NoSlot
        BY <2>2, DeploymentAssumption DEF Slot
    <2> QED BY <2>1, <2>3 DEF SlotInv, SlotTypeOK
<1>7. Authenticated' /\ HoldsItsSlot'
    BY <1>2, <1>4, <1>6 DEF ServeProbe, Moved, Authenticated, HoldsItsSlot
<1>8. NetTypeOK'
    BY <1>1 DEF ServeProbe, NetTypeOK
<1>9. DaemonTypeOK'
    BY <1>4, <1>5 DEF ServeProbe, DaemonTypeOK, Moved, ThreadRecord
<1> QED BY <1>7, <1>8, <1>9
(* The fields of a thread's record that a sync changes.                      *)
LEMMA SyncFieldsTyped ==
    ASSUME DaemonTypeOK, NEW n \in Conn, NEW files \in Tree, NEW pc \in ThreadStates
    PROVE  /\ [thread[n] EXCEPT !.pc = pc, !.files = files] \in ThreadRecord
           /\ [thread[n] EXCEPT !.pc = pc, !.files = files].pc = pc
BY DEF DaemonTypeOK, ThreadRecord, Tree

(* A bundled file has been written and is dropped from the thread.           *)
LEMMA BundleFieldTyped ==
    ASSUME DaemonTypeOK, NEW n \in Conn, NEW p \in Path
    PROVE  /\ [thread[n] EXCEPT !.bundle[p] = Absent] \in ThreadRecord
           /\ [thread[n] EXCEPT !.bundle[p] = Absent].pc = thread[n].pc
BY DEF DaemonTypeOK, ThreadRecord, Tree

(* Reconcile: the answer, and where it leaves the thread.                    *)
LEMMA ReconcileTyped ==
    ASSUME DaemonInv, NEW n \in Conn, NEW files \in Tree, NEW ack, NEW unread, NEW stuck,
           Reconcile(n, files, ack, unread, stuck)
    PROVE  /\ toClient' \in [Conn -> Seq(ToClient)]
           /\ disk' \in [Directory -> Disk]
           /\ \E r \in ThreadRecord : Moved(n, r) /\ r.pc \in {"insert", "receive", "unwind"}
<1> USE DEF DaemonInv
<1> DEFINE d == disk[Workspace(n)]
           loc == LocalManifest(d, unread)
           needed == NeededFiles(files, loc)
           done == [thread[n] EXCEPT !.pc = "insert", !.files = files]
           wait == [thread[n] EXCEPT !.pc = "receive", !.files = files]
<1>1. disk' \in [Directory -> Disk]
    <2>1. disk' = [disk EXCEPT ![Workspace(n)] = DeleteStale(d, loc, files, stuck)]
        BY DEF Reconcile
    <2>2. disk \in [Directory -> Disk]
        BY DEF DaemonTypeOK
    <2>3. Workspace(n) \in Directory => DeleteStale(d, loc, files, stuck) \in Disk
        BY <2>2, DiskTyped
    <2> QED BY <2>1, <2>2, <2>3
<1>2. /\ done \in ThreadRecord /\ done.pc = "insert"
      /\ wait \in ThreadRecord /\ wait.pc = "receive"
    BY SyncFieldsTyped DEF ThreadStates
<1>3. needed \in SUBSET Path
    BY DEF NeededFiles, Files
<1>4. \/ Reply(n, [kind |-> "SyncAck"], done)
      \/ Reply(n, [kind |-> "NeedFiles", paths |-> needed], wait)
    BY DEF Reconcile
<1>5. [kind |-> "SyncAck"] \in ToClient /\ [kind |-> "NeedFiles", paths |-> needed] \in ToClient
    BY <1>3, PlainMessages
<1> HIDE DEF done, wait, needed
<1>6. /\ toClient' \in [Conn -> Seq(ToClient)]
      /\ \E r \in ThreadRecord : Moved(n, r) /\ r.pc \in {"insert", "receive", "unwind"}
    BY <1>2, <1>4, <1>5, ReplyMoves
<1> QED BY <1>1, <1>6

(* A step that leaves the slots and the owners alone, and moves one thread   *)
(* to where its slot still fits.                                             *)
LEMMA ThreadMoveTyped ==
    ASSUME DaemonInv, NEW n \in Conn, thread[n].pc # "none",
           \E r \in ThreadRecord :
              /\ Moved(n, r)
              /\ r.pc \in ThreadStates \ {"none", "idle", "unwind"} => guard[n] # NoSlot
              /\ r.pc \in {"none", "idle"} => guard[n] = NoSlot,
           UNCHANGED <<slotVars, link, owner>>,
           toDaemon' \in [Conn -> Seq(ToDaemon)], toClient' \in [Conn -> Seq(ToClient)],
           fingerprints' \in [Slot -> Fingerprint \cup {NoFingerprint}],
           disk' \in [Directory -> Disk]
    PROVE  NetTypeOK' /\ DaemonTypeOK' /\ Authenticated' /\ HoldsItsSlot'
<1>1. PICK r \in ThreadRecord :
              /\ Moved(n, r)
              /\ r.pc \in ThreadStates \ {"none", "idle", "unwind"} => guard[n] # NoSlot
              /\ r.pc \in {"none", "idle"} => guard[n] = NoSlot
    OBVIOUS
<1>2. Authenticated' /\ HoldsItsSlot'
    BY <1>1, MoveKeepsHold DEF slotVars
<1>3. NetTypeOK'
    BY DEF DaemonInv, NetTypeOK
<1>4. DaemonTypeOK'
    BY <1>1 DEF DaemonInv, DaemonTypeOK, SlotTypeOK, slotVars, Moved, ThreadRecord
<1> QED BY <1>2, <1>3, <1>4

(* The steps of a thread that holds its slot, or asks for one in vain.       *)
LEMMA SyncStepTyped ==
    ASSUME DaemonInv, NEW n \in Conn,
           \/ RejectBusy(n) \/ SkipSync(n) \/ StartSync(n)
           \/ \E p \in Path : WriteBundled(n, p)
           \/ Reconciles(n) \/ ReceiveFile(n)
           \/ AckSync(n) \/ InsertFingerprint(n) \/ RunBuild(n) \/ PeerGone(n) \/ IoFails(n)
    PROVE  NetTypeOK' /\ DaemonTypeOK' /\ Authenticated' /\ HoldsItsSlot'
<1> USE DEF DaemonInv
<1>0. /\ toDaemon \in [Conn -> Seq(ToDaemon)] /\ toClient \in [Conn -> Seq(ToClient)]
      /\ fingerprints \in [Slot -> Fingerprint \cup {NoFingerprint}]
      /\ disk \in [Directory -> Disk]
      /\ thread[n] \in ThreadRecord
      /\ thread[n].pc \in ThreadStates
    BY DEF NetTypeOK, DaemonTypeOK, ThreadRecord
<1>1. /\ thread[n].pc \in {"acquired", "bundle", "manifest", "receive", "insert", "build", "release"}
         => guard[n] # NoSlot
      /\ thread[n].pc = "idle" => guard[n] = NoSlot
    BY DEF HoldsItsSlot, ThreadStates
<1>2. CASE RejectBusy(n)
    <2>1. \E r \in ThreadRecord : Moved(n, r) /\ r.pc \in {"idle", "unwind"}
        BY <1>2, AtTyped, ReplyMoves, PlainMessages DEF RejectBusy, ThreadStates
    <2>2. toClient' \in [Conn -> Seq(ToClient)]
        BY <1>2, AtTyped, ReplyMoves, PlainMessages DEF RejectBusy, ThreadStates
    <2>3. toDaemon' \in [Conn -> Seq(ToDaemon)]
        BY <1>2, ReadTyped DEF RejectBusy
    <2> QED BY <1>0, <1>1, <1>2, <2>1, <2>2, <2>3, ThreadMoveTyped DEF RejectBusy
<1>3. CASE SkipSync(n)
    <2> DEFINE s == [thread[n] EXCEPT !.pc = "build"]
    <2>1. s \in ThreadRecord /\ s.pc = "build"
        BY AdvanceTyped DEF ThreadStates
    <2>2. Reply(n, [kind |-> "ProbeAccepted"], s)
        BY <1>3 DEF SkipSync
    <2> HIDE DEF s
    <2>3. /\ toClient' \in [Conn -> Seq(ToClient)]
          /\ \E r \in ThreadRecord : Moved(n, r) /\ r.pc \in {"build", "unwind"}
        BY <2>1, <2>2, ReplyMoves, PlainMessages
    <2> QED BY <1>0, <1>1, <1>3, <2>3, ThreadMoveTyped DEF SkipSync
<1>4. CASE StartSync(n)
    <2> DEFINE s == [thread[n] EXCEPT !.pc = "manifest"]
    <2>1. s \in ThreadRecord /\ s.pc = "manifest"
        BY AdvanceTyped DEF ThreadStates
    <2>2. \/ Goto(n, "bundle") /\ UNCHANGED toClient
          \/ Reply(n, [kind |-> "ProbeMiss"], s)
        BY <1>4 DEF StartSync
    <2> HIDE DEF s
    <2>3. /\ toClient' \in [Conn -> Seq(ToClient)]
          /\ \E r \in ThreadRecord : Moved(n, r) /\ r.pc \in {"bundle", "manifest", "unwind"}
        <3>1. CASE Goto(n, "bundle") /\ UNCHANGED toClient
            <4>1. "bundle" \in ThreadStates
                BY DEF ThreadStates
            <4>2. \E r \in ThreadRecord : Moved(n, r) /\ r.pc = "bundle"
                BY <1>0, <3>1, <4>1, GotoMoves
            <4> QED BY <1>0, <3>1, <4>2 DEF DaemonTypeOK, NetTypeOK
        <3>2. CASE Reply(n, [kind |-> "ProbeMiss"], s)
            BY <2>1, <3>2, ReplyMoves, PlainMessages
        <3> QED BY <2>2, <3>1, <3>2
    <2> QED BY <1>0, <1>1, <1>4, <2>3, ThreadMoveTyped DEF StartSync
<1>5. ASSUME NEW p \in Path, WriteBundled(n, p)
      PROVE  NetTypeOK' /\ DaemonTypeOK' /\ Authenticated' /\ HoldsItsSlot'
    <2> DEFINE s == [thread[n] EXCEPT !.bundle[p] = Absent]
    <2>1. s \in ThreadRecord /\ s.pc = "bundle"
        BY <1>5, BundleFieldTyped DEF WriteBundled
    <2>2. Become(n, s)
        BY <1>5 DEF WriteBundled
    <2> HIDE DEF s
    <2>3. Moved(n, s)
        BY <2>1, <2>2, BecomeMoves
    <2>4. thread[n].bundle[p] \in Content
        BY <1>0, <1>5 DEF WriteBundled, Files, ThreadRecord, Tree
    <2>5. disk' \in [Directory -> Disk]
        BY <1>5, <2>4, WriteTyped DEF WriteBundled
    <2> QED BY <1>0, <1>1, <1>5, <2>1, <2>3, <2>5, ThreadMoveTyped DEF WriteBundled, netVars
<1>6. ASSUME NEW unread, NEW stuck, ReconcileBundled(n, unread, stuck)
      PROVE  NetTypeOK' /\ DaemonTypeOK' /\ Authenticated' /\ HoldsItsSlot'
    <2>1. thread[n].files \in Tree
        BY <1>0 DEF ThreadRecord
    <2> QED BY <1>0, <1>1, <1>6, <2>1, ReconcileTyped, ThreadMoveTyped DEF ReconcileBundled
<1>7. ASSUME NEW unread, NEW stuck, ReconcileManifest(n, unread, stuck)
      PROVE  NetTypeOK' /\ DaemonTypeOK' /\ Authenticated' /\ HoldsItsSlot'
    <2>1. Head(toDaemon[n]).files \in Tree /\ toDaemon' \in [Conn -> Seq(ToDaemon)]
        BY <1>7, ReadTyped, ManifestFields DEF ReconcileManifest
    <2> QED BY <1>0, <1>1, <1>7, <2>1, ReconcileTyped, ThreadMoveTyped DEF ReconcileManifest
<1>8. CASE ReceiveFile(n)
    <2> DEFINE m == Head(toDaemon[n])
    <2>1. m.path \in Path /\ m.contents \in Content /\ toDaemon' \in [Conn -> Seq(ToDaemon)]
        BY <1>8, ReadTyped, FileFields DEF ReceiveFile
    <2>2. disk' = [disk EXCEPT ![Workspace(n)] = WriteFile(disk[Workspace(n)], m.path, m.contents)]
        BY <1>8 DEF ReceiveFile
    <2> HIDE DEF m
    <2>3. disk' \in [Directory -> Disk]
        BY <2>1, <2>2, WriteTyped
    <2>4. Moved(n, thread[n])
        BY <1>8 DEF ReceiveFile, Moved, DaemonTypeOK, ThreadRecord
    <2> QED BY <1>0, <1>1, <1>8, <2>1, <2>3, <2>4, ThreadMoveTyped DEF ReceiveFile
<1>9. CASE AckSync(n)
    <2> DEFINE s == [thread[n] EXCEPT !.pc = "insert"]
    <2>1. s \in ThreadRecord /\ s.pc = "insert"
        BY AdvanceTyped DEF ThreadStates
    <2>2. Reply(n, [kind |-> "SyncAck"], s)
        BY <1>9 DEF AckSync
    <2> HIDE DEF s
    <2>3. /\ toClient' \in [Conn -> Seq(ToClient)]
          /\ \E r \in ThreadRecord : Moved(n, r) /\ r.pc \in {"insert", "unwind"}
        BY <2>1, <2>2, ReplyMoves, PlainMessages
    <2>4. toDaemon' \in [Conn -> Seq(ToDaemon)]
        BY <1>9, ReadTyped DEF AckSync
    <2> QED BY <1>0, <1>1, <1>9, <2>3, <2>4, ThreadMoveTyped DEF AckSync
<1>10. CASE InsertFingerprint(n)
    <2>1. fingerprints' \in [Slot -> Fingerprint \cup {NoFingerprint}]
        BY <1>0, <1>10 DEF InsertFingerprint, ThreadRecord
    <2>2. \E r \in ThreadRecord : Moved(n, r) /\ r.pc = "build"
        BY <1>10, GotoMoves DEF InsertFingerprint, ThreadStates
    <2> QED BY <1>0, <1>1, <1>10, <2>1, <2>2, ThreadMoveTyped DEF InsertFingerprint, netVars
<1>11. CASE RunBuild(n)
    <2>1. disk' \in [Directory -> Disk]
        <3>1. ASSUME NEW left, Workspace(n) \in Directory
              PROVE  CleanTarget(disk[Workspace(n)], left) \in Disk
            BY <1>0, <3>1, DiskTyped
        <3> QED BY <1>0, <1>11, <3>1 DEF RunBuild
    <2>2. \E r \in ThreadRecord : Moved(n, r) /\ r.pc = "release"
        BY <1>11, AtTyped, BecomeMoves DEF RunBuild, ThreadStates
    <2>3. toClient' \in [Conn -> Seq(ToClient)]
        BY <1>0, <1>11, PlainMessages, CarryTyped DEF RunBuild
    <2> QED BY <1>0, <1>1, <1>11, <2>1, <2>2, <2>3, ThreadMoveTyped DEF RunBuild
<1>12. CASE PeerGone(n)
    <2>1. \E r \in ThreadRecord : Moved(n, r) /\ r.pc = "unwind"
        BY <1>12, GotoMoves DEF PeerGone, ThreadStates
    <2> QED BY <1>0, <1>1, <1>12, <2>1, ThreadMoveTyped DEF PeerGone, netVars
<1>13. CASE IoFails(n)
    <2>1. \E r \in ThreadRecord : Moved(n, r) /\ r.pc = "unwind"
        BY <1>13, GotoMoves DEF IoFails, ThreadStates
    <2>2. toDaemon' \in [Conn -> Seq(ToDaemon)]
        BY <1>0, <1>13, ReadTyped DEF IoFails
    <2>3. \A p \in Path : FailedWrite(n, p) => disk' \in [Directory -> Disk]
        BY <1>0, WriteTyped DEF FailedWrite
    <2>4. disk' \in [Directory -> Disk]
        BY <1>0, <1>13, <2>3 DEF IoFails
    <2>5. thread[n].pc \in {"acquired", "bundle", "receive"}
        BY <1>13 DEF IoFails, Writing
    <2> QED BY <1>0, <1>1, <1>13, <2>1, <2>2, <2>4, <2>5, ThreadMoveTyped DEF IoFails
<1> QED BY <1>2, <1>3, <1>4, <1>5, <1>6, <1>7, <1>8, <1>9, <1>10, <1>11, <1>12, <1>13 DEF Reconciles

(* serve_build is over, or serve: the slot goes back, the thread to the top  *)
(* of its loop or out of existence.                                          *)
LEMMA ReleaseTyped ==
    ASSUME DaemonInv, NEW n \in Conn, Finish(n) \/ Unwind(n)
    PROVE  NetTypeOK' /\ DaemonTypeOK' /\ Authenticated' /\ HoldsItsSlot'
<1> USE DEF DaemonInv
<1>1. SlotTypeOK'
    BY ThreadStepsSlots, SlotNextInv DEF ThreadMoves, ThreadSteps, SlotInv
<1>2. guard'[n] = NoSlot /\ \A m \in Conn \ {n} : guard'[m] = guard[m]
    BY DEF Finish, Unwind, DropGuard, SlotInv, SlotTypeOK, slotVars
<1>3. CASE Finish(n)
    <2>1. PICK r \in ThreadRecord : Moved(n, r) /\ r.pc = "idle"
        BY <1>3, AtTyped, BecomeMoves DEF Finish, ThreadStates
    <2>2. Authenticated' /\ HoldsItsSlot'
        BY <1>2, <1>3, <2>1 DEF Finish, netVars, Moved, Authenticated, HoldsItsSlot
    <2>3. NetTypeOK'
        BY <1>3 DEF Finish, netVars, NetTypeOK
    <2>4. DaemonTypeOK'
        BY <1>1, <1>3, <2>1 DEF Finish, DaemonTypeOK, Moved, ThreadRecord
    <2> QED BY <2>2, <2>3, <2>4
<1>4. CASE Unwind(n)
    <2>1. PICK r \in ThreadRecord : Moved(n, r) /\ r.pc = "none"
        BY <1>4, AtTyped, BecomeMoves DEF Unwind, ThreadStates
    <2>2. owner' = [owner EXCEPT ![n] = NoClient]
        BY <1>4 DEF Unwind
    <2>3. Authenticated' /\ HoldsItsSlot'
        BY <1>2, <2>1, <2>2 DEF NetTypeOK, Moved, Authenticated, HoldsItsSlot
    <2>4. /\ link' \in [Conn -> {"up", "shut", "lost"}]
          /\ toDaemon' \in [Conn -> Seq(ToDaemon)]
        BY <1>4, ShutTyped, EmptiedTyped DEF Unwind, NetTypeOK
    <2>5. NetTypeOK'
        BY <1>4, <2>2, <2>4 DEF Unwind, NetTypeOK
    <2>6. DaemonTypeOK'
        BY <1>1, <1>4, <2>1 DEF Unwind, DaemonTypeOK, Moved, ThreadRecord
    <2> QED BY <2>3, <2>5, <2>6
<1> QED BY <1>3, <1>4

(* After a restart nobody is served and nothing is lent.                     *)
LEMMA RestartTyped ==
    ASSUME DaemonInv, Restart
    PROVE  /\ NetTypeOK' /\ DaemonTypeOK' /\ Authenticated' /\ HoldsItsSlot'
           /\ [SlotNext]_slotVars
<1> USE DEF DaemonInv
<1>1. [SlotNext]_slotVars
    BY DEF Restart, SlotNext
<1>2. SlotTypeOK'
    BY <1>1, SlotNextInv DEF SlotInv
<1>3. At("none") \in ThreadRecord /\ At("none").pc = "none"
    BY AtTyped DEF ThreadStates
<1>4. thread' \in [Conn -> ThreadRecord] /\ \A n \in Conn : thread'[n].pc = "none"
    BY <1>3 DEF Restart
<1>5. disk' \in [Directory -> Disk]
    <2>1. disk \in [Directory -> Disk]
        BY DEF DaemonTypeOK
    <2>2. ASSUME NEW n \in Conn, NEW p \in Path, FailedWrite(n, p)
          PROVE  disk' \in [Directory -> Disk]
        BY <2>1, <2>2, WriteTyped DEF FailedWrite
    <2> QED BY <2>1, <2>2 DEF Restart
<1>6. Authenticated' /\ HoldsItsSlot'
    BY <1>4 DEF Restart, ForgetSlots, Authenticated, HoldsItsSlot, ThreadStates
<1>7. NetTypeOK'
    <2>1. <<>> \in Seq(ToDaemon)
        BY EmptySeq
    <2> QED BY <2>1 DEF Restart, NetTypeOK
<1>8. DaemonTypeOK'
    BY <1>2, <1>4, <1>5 DEF Restart, DaemonTypeOK, ThreadRecord
<1> QED BY <1>1, <1>6, <1>7, <1>8

(* A thread's step and a restart keep the invariant, and use the slot table  *)
(* as Slots has it.                                                          *)
LEMMA DaemonStepInv ==
    ASSUME DaemonInv, (\E n \in Conn : ThreadMoves(n)) \/ Restart
    PROVE  DaemonInv' /\ [SlotNext]_slotVars
<1>1. ASSUME NEW n \in Conn, ThreadMoves(n)
      PROVE  /\ NetTypeOK' /\ DaemonTypeOK' /\ Authenticated' /\ HoldsItsSlot'
             /\ [SlotNext]_slotVars
    <2>1. [SlotNext]_slotVars
        BY <1>1, ThreadStepsSlots
    <2>2. CASE ServeProbe(n)
        BY <2>1, <2>2, ServeProbeTyped
    <2>3. CASE Finish(n) \/ Unwind(n)
        BY <2>1, <2>3, ReleaseTyped
    <2>4. CASE ~ServeProbe(n) /\ ~Finish(n) /\ ~Unwind(n)
        BY <1>1, <2>1, <2>4, MovesOfThread, SyncStepTyped
    <2> QED BY <2>2, <2>3, <2>4
<1>2. /\ NetTypeOK' /\ DaemonTypeOK' /\ Authenticated' /\ HoldsItsSlot'
      /\ [SlotNext]_slotVars
    BY <1>1, RestartTyped
<1> QED BY <1>2, SlotNextInv DEF DaemonInv

-----------------------------------------------------------------------------
(* The service.                                                              *)

(* What the two sides keep, and the counters beside, is the invariant.       *)
LEMMA SidesMakeService ==
    /\ ServiceInv <=> CliInv /\ DaemonInv /\ BudgetTypeOK
    /\ ServiceInv => TypeOK
BY DEF ServiceInv, CliInv, DaemonInv, BudgetTypeOK, TypeOK

(* At the start nobody is connected and nothing is lent.                     *)
LEMMA InitInv == Init => ServiceInv
<1> SUFFICES ASSUME Init PROVE ServiceInv
    OBVIOUS
<1>1. SlotInv
    BY SlotInitInv DEF Init, DaemonInit
<1>2. CliTypeOK /\ Connected
    BY IdleTyped, CliAssumption DEF Init, CliInit, CliTypeOK, CliRecord, Connected
<1>3. NetTypeOK
    <2>1. <<>> \in Seq(ToDaemon) /\ <<>> \in Seq(ToClient)
        BY EmptySeq
    <2> QED BY <2>1 DEF Init, NetInit, NetTypeOK
<1>4. At("none") \in ThreadRecord /\ At("none").pc = "none"
    BY AtTyped DEF ThreadStates
<1>5. DaemonTypeOK
    BY <1>1, <1>4, EmptyTyped DEF Init, DaemonInit, DaemonTypeOK, SlotInv, ThreadRecord
<1>6. Authenticated /\ HoldsItsSlot
    BY <1>4 DEF Init, DaemonInit, SlotInit, Authenticated, HoldsItsSlot, ThreadStates
<1>7. BudgetTypeOK
    BY BudgetAssumption DEF Init, BudgetTypeOK
<1> QED BY <1>1, <1>2, <1>3, <1>5, <1>6, <1>7 DEF ServiceInv

(* A step of a CLI is none of the daemon's, who goes on serving the same     *)
(* client with the same slot.                                                *)
LEMMA ClientKeepsDaemon ==
    ASSUME DaemonInv, NetTypeOK', owner' = owner, UNCHANGED <<slotVars, daemonVars>>
    PROVE  DaemonInv'
<1>1. SlotInv'
    BY SlotNextInv DEF DaemonInv
<1>2. DaemonTypeOK'
    BY <1>1 DEF DaemonInv, DaemonTypeOK, SlotInv, daemonVars
<1>3. Authenticated' /\ HoldsItsSlot'
    BY DEF DaemonInv, Authenticated, HoldsItsSlot, slotVars, daemonVars
<1> QED BY <1>1, <1>2, <1>3 DEF DaemonInv

(* A fresh connection: its thread starts with a client and without a slot.   *)
LEMMA ProbeOnFreshInv ==
    ASSUME CliInv, DaemonInv, NEW c \in Client, NEW n \in Conn, ProbeOnFresh(c, n)
    PROVE  CliInv' /\ DaemonInv'
<1> USE DEF CliInv, DaemonInv
<1>1. CliTypeOK' /\ Connected' /\ toDaemon' \in [Conn -> Seq(ToDaemon)]
    BY SendProbeTyped DEF ProbeOnFresh
<1>2. NetTypeOK'
    BY <1>1, EmptiedTyped DEF ProbeOnFresh, NetTypeOK
<1>3. PICK r \in ThreadRecord : Moved(n, r) /\ r.pc = "idle"
    BY GotoMoves DEF ProbeOnFresh, ThreadStates
<1>4. SlotInv'
    BY SlotNextInv DEF ProbeOnFresh
<1>5. guard[n] = NoSlot
    BY DEF ProbeOnFresh, HoldsItsSlot
<1>6. Authenticated' /\ HoldsItsSlot'
    BY <1>3, <1>5 DEF ProbeOnFresh, NetTypeOK, slotVars, Moved, Authenticated, HoldsItsSlot
<1>7. DaemonTypeOK'
    BY <1>3, <1>4 DEF ProbeOnFresh, DaemonTypeOK, SlotInv, Moved, ThreadRecord
<1> QED BY <1>1, <1>2, <1>4, <1>6, <1>7

(* Every step keeps the invariant and is, for the slot table, one of Slots.  *)
LEMMA NextInv == ServiceInv /\ [Next]_vars => ServiceInv' /\ [SlotNext]_slotVars
<1> SUFFICES ASSUME ServiceInv, [Next]_vars PROVE ServiceInv' /\ [SlotNext]_slotVars
    OBVIOUS
<1>0. CliInv /\ DaemonInv /\ BudgetTypeOK
    BY SidesMakeService
<1> SUFFICES CliInv' /\ DaemonInv' /\ BudgetTypeOK' /\ [SlotNext]_slotVars
    BY DEF ServiceInv, CliInv, DaemonInv
<1>h. NoteHonesty => honest' \in [Slot -> BOOLEAN]
    <2>1. ASSUME NEW s \in Slot, NEW x, x = (IF \E n \in Conn : RecordedNow(s, n)
               THEN \E n \in Conn : RecordedNow(s, n) /\ drift[owner[n]] = {}
               ELSE honest[s] /\ ~SourcesTouched(s))
          PROVE x \in BOOLEAN
        BY <2>1, <1>0 DEF BudgetTypeOK
    <2> QED BY <2>1 DEF NoteHonesty
<1>1. ASSUME NEW c \in Client, BeginAttempt(c)
      PROVE  CliInv' /\ DaemonInv' /\ BudgetTypeOK' /\ [SlotNext]_slotVars
    <2>1. CliInv' /\ owner' = owner
        BY <1>0, <1>1, CliStepTyped, CliStepKeepsOwner DEF BeginAttempt
    <2>2. DaemonInv'
        BY <1>0, <1>1, <2>1, ClientKeepsDaemon DEF BeginAttempt, CliInv
    <2>3. BudgetTypeOK'
        BY <1>0, <1>1 DEF BeginAttempt, BudgetTypeOK, budgetVars
    <2> QED BY <1>1, <2>1, <2>2, <2>3 DEF BeginAttempt
<1>2. ASSUME NEW c \in Client, ClientStep(c) \/ NoticeShut(c)
      PROVE  CliInv' /\ DaemonInv' /\ BudgetTypeOK' /\ [SlotNext]_slotVars
    <2>1. BudgetTypeOK'
        BY <1>0, <1>2 DEF ClientStep, NoticeShut, BudgetTypeOK, budgetVars, historyVars
    <2>2. CASE (CliSteps(c) \/ GiveUp(c)) /\ UNCHANGED <<slotVars, daemonVars>>
        <3>1. CliInv' /\ owner' = owner
            BY <1>0, <2>2, CliStepTyped, CliStepKeepsOwner
        <3>2. DaemonInv'
            BY <1>0, <2>2, <3>1, ClientKeepsDaemon DEF CliInv
        <3> QED BY <2>1, <2>2, <3>1, <3>2
    <2>3. CASE \E n \in Conn : ProbeOnFresh(c, n)
        <3>1. CliInv' /\ DaemonInv'
            BY <1>0, <2>3, ProbeOnFreshInv
        <3> QED BY <2>1, <2>3, <3>1 DEF ProbeOnFresh
    <2> QED BY <1>2, <2>2, <2>3 DEF ClientStep, NoticeShut
<1>3. ASSUME UNCHANGED cliVars, (\E n \in Conn : ThreadMoves(n)) \/ Restart
      PROVE  CliInv' /\ DaemonInv' /\ [SlotNext]_slotVars
    <2>1. DaemonInv' /\ [SlotNext]_slotVars
        BY <1>0, <1>3, DaemonStepInv
    <2>2. CliInv'
        BY <1>0, <1>3, <2>1 DEF CliInv, DaemonInv, CliTypeOK, Connected, cliVars
    <2> QED BY <2>1, <2>2
<1>4. ASSUME NEW n \in Conn, DaemonStep(n)
      PROVE  CliInv' /\ DaemonInv' /\ BudgetTypeOK' /\ [SlotNext]_slotVars
    <2>1. BudgetTypeOK'
        BY <1>0, <1>h, <1>4 DEF DaemonStep, BudgetTypeOK, budgetVars
    <2> QED BY <1>3, <1>4, <2>1 DEF DaemonStep, BlockedFails, ThreadMoves
<1>5. CASE EditStep
    <2>1. PICK c \in Client, p \in Path, v \in Version \cup {Absent} :
              Edit(c, p, v) /\ drift' = [drift EXCEPT ![c] = @ \cup {p}]
        BY <1>5 DEF EditStep
    <2>2. CliInv' /\ owner' = owner
        BY <1>0, <2>1 DEF Edit, netVars, CliInv, CliTypeOK, Checkout, NetTypeOK, Connected
    <2>3. DaemonInv'
        BY <1>0, <1>5, <2>2, ClientKeepsDaemon DEF EditStep, CliInv
    <2>4. BudgetTypeOK'
        BY <1>0, <1>5, <2>1, BudgetAssumption DEF EditStep, BudgetTypeOK
    <2> QED BY <1>5, <2>2, <2>3, <2>4 DEF EditStep
<1>6. CASE BreakStep
    <2>1. CliInv' /\ owner' = owner
        BY <1>0, <1>6, CliStepTyped, CliStepKeepsOwner DEF BreakStep
    <2>2. DaemonInv'
        BY <1>0, <1>6, <2>1, ClientKeepsDaemon DEF BreakStep, CliInv
    <2>3. BudgetTypeOK'
        BY <1>0, <1>6, BudgetAssumption DEF BreakStep, BudgetTypeOK, historyVars
    <2> QED BY <1>6, <2>1, <2>2, <2>3 DEF BreakStep
<1>7. CASE FailStep
    <2>1. drift' \in [Client -> SUBSET Path]
        <3>1. \A n \in Conn : Overlook(n) => drift' \in [Client -> SUBSET Path]
            BY <1>0 DEF Overlook, BudgetTypeOK
        <3> QED BY <1>0, <1>7, <3>1 DEF FailStep, BudgetTypeOK
    <2>2. BudgetTypeOK'
        BY <1>0, <1>h, <1>7, <2>1, BudgetAssumption DEF FailStep, BudgetTypeOK
    <2>3. (\E n \in Conn : ThreadMoves(n)) \/ Restart
        BY <1>7 DEF FailStep, Overlook, ThreadMoves
    <2> QED BY <1>3, <1>7, <2>2, <2>3 DEF FailStep
<1>8. CASE UNCHANGED vars
    <2>1. UNCHANGED <<cliVars, slotVars, daemonVars, netVars, budgetVars, historyVars>>
        BY <1>8 DEF vars
    <2>2. CliInv' /\ owner' = owner
        BY <1>0, <2>1 DEF CliInv, CliTypeOK, NetTypeOK, Connected, cliVars, netVars
    <2>3. DaemonInv'
        BY <1>0, <2>1, <2>2, ClientKeepsDaemon DEF CliInv
    <2>4. BudgetTypeOK'
        BY <1>0, <2>1 DEF BudgetTypeOK, budgetVars, historyVars
    <2> QED BY <2>1, <2>2, <2>3, <2>4
<1> QED BY <1>1, <1>2, <1>4, <1>5, <1>6, <1>7, <1>8 DEF Next

(* The service keeps its invariant: the types, and what makes them last.     *)
THEOREM ServiceSafety == Spec => []ServiceInv
<1>1. Init => ServiceInv
    BY InitInv
<1>2. ServiceInv /\ [Next]_vars => ServiceInv'
    BY NextInv
<1> QED BY <1>1, <1>2, PTL DEF Spec

(* Every variable of the build service keeps its type, for every number of   *)
(* clients, connections, edits, breaks and failures.                         *)
THEOREM ServiceTypes == Spec => []TypeOK
<1>1. ServiceInv => TypeOK
    BY SidesMakeService
<1> QED BY <1>1, ServiceSafety, PTL

(* serve_build, its errors and the restart of the process use the slot table *)
(* in no other way than slots.rs allows: the service implements Slots.       *)
THEOREM ServiceImplementsSlots == Spec => SlotSpec
<1>1. Init => SlotInit
    BY DEF Init, DaemonInit
<1>2. ServiceInv /\ [Next]_vars => [SlotNext]_slotVars
    BY NextInv
<1> QED BY <1>1, <1>2, ServiceSafety, PTL DEF Spec, SlotSpec

(* However attempts, errors, vanished clients and restarts fall: no two      *)
(* threads hold one slot, and one is lent exactly while a thread holds it.   *)
THEOREM ServiceSlots == Spec => []SlotInv
BY ServiceImplementsSlots, SlotSafety, PTL

(* The service's slots are a lock each.                                      *)
THEOREM ServiceLocks == Spec => SlotsAreLocks
BY ServiceImplementsSlots, SlotsImplementLocks, PTL

(* Where no two slots have one directory, no two builds of the service run   *)
(* in one.                                                                   *)
THEOREM ServiceDirectories ==
    ASSUME WorkspacesDistinct
    PROVE  Spec => []DirectoryExclusive
BY ServiceImplementsSlots, DirectorySafety, PTL
=============================================================================
