-------------------------------- MODULE Cli ---------------------------------
(* cli/src/bin/abrasive.rs, attempt_build: one build attempt, from scanning  *)
(* the checkout to the daemon's last word.  The agent between CLI and daemon *)
(* shows here as a connection that outlives an attempt; AgentProxy models it. *)
EXTENDS Network

CONSTANTS
    LegacyClient,  \* clients from before speculative sync
    Checkouts,     \* the checkouts the workstations may start from
    Hint           \* what agent_get_last_sync may answer: sets of at most one tree

VARIABLES
    checkout,  \* client -> the files on its workstation
    cli        \* client -> the CLI's place in attempt_build and its locals

ASSUME CliAssumption ==
    /\ Checkouts \subseteq [Client -> Checkout]
    /\ \A h \in Hint : h \subseteq Tree
    /\ LegacyClient \subseteq Client

cliVars == <<checkout, cli>>

CliStates == {"idle", "scanned", "stamped", "response", "needed", "stream", "ack", "output"}

Idle(conn) == [pc |-> "idle", conn |-> conn, files |-> EmptyTree,
               fp |-> EmptyTree, todo |-> {}]

CliInit ==
    /\ checkout \in Checkouts
    /\ cli = [c \in Client |-> Idle(NoConn)]

CliTypeOK ==
    /\ checkout \in [Client -> Checkout]
    /\ cli \in [Client -> [pc : CliStates, conn : Conn \cup {NoConn}, files : Tree,
                           fp : Fingerprint, todo : SUBSET Path]]

Send(c, m) == toDaemon' = Carry(toDaemon, cli[c].conn, m)

(* recv_frame returned a message of this kind.                               *)
Receive(c, kind) ==
    LET n == cli[c].conn IN
    /\ HasMail(toClient, n)
    /\ Head(toClient[n]).kind = kind
    /\ toClient' = [toClient EXCEPT ![n] = Tail(@)]

(* build_manifest                                                            *)
ScanFiles(c) ==
    /\ cli[c].pc = "idle"
    /\ cli' = [cli EXCEPT ![c].pc = "scanned",
                          ![c].files = BuildManifest(checkout[c])]
    /\ UNCHANGED <<checkout, netVars>>

(* fingerprint: a second walk, after the one that built the manifest.        *)
TakeFingerprint(c) ==
    /\ cli[c].pc = "scanned"
    /\ cli' = [cli EXCEPT ![c].pc = "stamped",
                          ![c].fp = FingerprintOf(checkout[c])]
    /\ UNCHANGED <<checkout, netVars>>

(* agent_get_last_sync, build_speculative (a third look at the files), then  *)
(* the Probe on connection n.                                                *)
SendProbe(c, n) ==
    /\ \E cmd \in Command, hint \in Hint :
        LET bundle == Bundle(checkout[c], ChangedPaths(cli[c].files, hint)) IN
        toDaemon' = [toDaemon EXCEPT ![n] = Append(@,
            IF c \in LegacyClient THEN PlainProbe(cmd, cli[c].fp)
            ELSE Probe(cmd, cli[c].fp, cli[c].files, bundle))]
    /\ cli' = [cli EXCEPT ![c] = [Idle(n) EXCEPT !.pc = "response"]]
    /\ UNCHANGED checkout

(* open_connection finds an agent whose websocket is alive.                  *)
ProbeOnKept(c) ==
    /\ cli[c].pc = "stamped"
    /\ cli[c].conn # NoConn
    /\ link[cli[c].conn] = "up"
    /\ SendProbe(c, cli[c].conn)
    /\ UNCHANGED <<link, owner, toClient>>

(* open_connection fails, or the agent's websocket turns out to be dead and  *)
(* the agent drops it: the attempt ends with an error.                       *)
CannotConnect(c) ==
    /\ cli[c].pc = "stamped"
    /\ cli[c].conn # NoConn => link[cli[c].conn] # "up"
    /\ cli' = [cli EXCEPT ![c] = Idle(NoConn)]
    /\ UNCHANGED <<checkout, netVars>>

(* ProbeAccepted or SyncAck: the tree is in place, the build comes next.     *)
SyncSettled(c) ==
    /\ \/ /\ cli[c].pc = "response"
          /\ Receive(c, "ProbeAccepted") \/ Receive(c, "SyncAck")
       \/ cli[c].pc = "ack" /\ Receive(c, "SyncAck")
    /\ cli' = [cli EXCEPT ![c].pc = "output"]
    /\ UNCHANGED <<checkout, link, owner, toDaemon>>

(* ProbeMiss, legacy_sync: the manifest is built anew and sent.              *)
SendManifest(c) ==
    /\ cli[c].pc = "response"
    /\ Receive(c, "ProbeMiss")
    /\ Send(c, [kind |-> "Manifest", files |-> BuildManifest(checkout[c])])
    /\ cli' = [cli EXCEPT ![c].pc = "needed"]
    /\ UNCHANGED <<checkout, link, owner>>

LearnNeeded(c) ==
    /\ cli[c].pc \in {"response", "needed"}
    /\ Receive(c, "NeedFiles")
    /\ cli' = [cli EXCEPT ![c].pc = "stream",
                          ![c].todo = Head(toClient[cli[c].conn]).paths]
    /\ UNCHANGED <<checkout, link, owner, toDaemon>>

(* stream_files: read in parallel, so in no order; a file that cannot be     *)
(* read any more is skipped without a word.                                  *)
StreamFile(c, p) ==
    /\ cli[c].pc = "stream"
    /\ p \in cli[c].todo
    /\ IF checkout[c][p] = Absent THEN UNCHANGED toDaemon
       ELSE Send(c, [kind |-> "FileData", path |-> p, contents |-> ContentOf[checkout[c][p]]])
    /\ cli' = [cli EXCEPT ![c].todo = @ \ {p}]
    /\ UNCHANGED <<checkout, link, owner, toClient>>

SendSyncDone(c) ==
    /\ cli[c].pc = "stream"
    /\ cli[c].todo = {}
    /\ Send(c, [kind |-> "SyncDone"])
    /\ cli' = [cli EXCEPT ![c].pc = "ack"]
    /\ UNCHANGED <<checkout, link, owner, toClient>>

(* SlotsBusy or BuildFinished: the session is over.  With an agent the       *)
(* connection stays for the next one, without it closes.                     *)
EndSession(c) ==
    /\ \/ cli[c].pc = "response" /\ Receive(c, "SlotsBusy")
       \/ cli[c].pc = "output" /\ Receive(c, "BuildFinished")
    /\ \/ /\ cli' = [cli EXCEPT ![c] = Idle(cli[c].conn)]
          /\ UNCHANGED link
       \/ /\ cli' = [cli EXCEPT ![c] = Idle(NoConn)]
          /\ link' = Shut(cli[c].conn)
    /\ UNCHANGED <<checkout, owner, toDaemon>>

(* The CLI's end of the connection goes away in the middle of something:     *)
(* interrupt, error, the 300 s read timeout, or an agent told to shut down.  *)
(* What it sent may still arrive.                                            *)
GiveUp(c) ==
    /\ cli[c].pc # "idle" \/ cli[c].conn # NoConn
    /\ cli' = [cli EXCEPT ![c] = Idle(NoConn)]
    /\ IF cli[c].conn = NoConn THEN UNCHANGED <<link, toClient>>
       ELSE /\ link' = Shut(cli[c].conn)
            /\ toClient' = [toClient EXCEPT ![cli[c].conn] = <<>>]
    /\ UNCHANGED <<checkout, owner, toDaemon>>

(* The developer saves, adds or removes a file, at any moment.               *)
Edit(c, p, v) ==
    /\ v # checkout[c][p]
    /\ checkout' = [checkout EXCEPT ![c][p] = v]
    /\ WellFormed(checkout'[c])
    /\ UNCHANGED <<cli, netVars>>
=============================================================================
