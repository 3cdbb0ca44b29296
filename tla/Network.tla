------------------------------ MODULE Network -------------------------------
(* The websockets between workstations and daemon: per connection a FIFO     *)
(* queue each way.  A connection is shut when either end has closed it or    *)
(* TCP has reset it; bytes in flight may or may not be seen after that.  It  *)
(* is lost when the workstation fell silent without a FIN or an RST: neither *)
(* end is told.                                                              *)
EXTENDS Deployment, SourceTree, Protocol

CONSTANTS
    Command,  \* what clients ask for: "build" stands for all cargo commands
    NoClient

ASSUME NetworkAssumption ==
    /\ Command \subseteq {"build", "clean"}
    /\ NoClient \notin Client

VARIABLES
    link,      \* connection -> "up", "shut" or "lost"
    owner,     \* connection -> the client whose login its thread serves
    toDaemon,  \* connection -> messages on their way to the daemon
    toClient   \* connection -> messages on their way to the client

netVars == <<link, owner, toDaemon, toClient>>

Probe(cmd, fp, files, bundle) ==
    [kind |-> "Probe", cmd |-> cmd, fp |-> fp, speculative |-> TRUE,
     files |-> files, bundle |-> bundle]

(* What a client from before speculative sync sends.                         *)
PlainProbe(cmd, fp) ==
    [kind |-> "Probe", cmd |-> cmd, fp |-> fp, speculative |-> FALSE,
     files |-> EmptyTree, bundle |-> EmptyTree]

ToDaemon ==
    [kind : {"Probe"}, cmd : Command, fp : Fingerprint, speculative : BOOLEAN,
     files : Tree, bundle : Tree]
    \cup [kind : {"Manifest"}, files : Tree]
    \cup [kind : {"FileData"}, path : Path, contents : Content]
    \cup [kind : {"SyncDone"}]

ToClient ==
    [kind : {"ProbeAccepted", "ProbeMiss", "SyncAck", "SlotsBusy", "BuildFinished"}]
    \cup [kind : {"NeedFiles"}, paths : SUBSET Path]

NetInit ==
    /\ link = [n \in Conn |-> "shut"]
    /\ owner = [n \in Conn |-> NoClient]
    /\ toDaemon = [n \in Conn |-> <<>>]
    /\ toClient = [n \in Conn |-> <<>>]

NetTypeOK ==
    /\ link \in [Conn -> {"up", "shut", "lost"}]
    /\ owner \in [Conn -> Client \cup {NoClient}]
    /\ toDaemon \in [Conn -> Seq(ToDaemon)]
    /\ toClient \in [Conn -> Seq(ToClient)]

(* A send reaches the peer while the connection is up.  On one that is not,  *)
(* the bytes go nowhere, and the sender need not be told.                    *)
Carry(queue, n, m) == IF link[n] = "up" THEN [queue EXCEPT ![n] = Append(@, m)] ELSE queue

HasMail(queue, n) == queue[n] # <<>>

Shut(n) == IF link[n] = "up" THEN [link EXCEPT ![n] = "shut"] ELSE link
=============================================================================
