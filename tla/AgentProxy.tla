----------------------------- MODULE AgentProxy -----------------------------
(* cli/src/bin/abrasive-agent.rs and the CLI's side of it (cli/src/agent.rs, *)
(* attempt_build): one single-threaded agent lends its one websocket to one  *)
(* CLI run after another, telling from the messages alone whose turn it is   *)
(* and when a session is over.                                               *)
EXTENDS Protocol, Sequences, Naturals

CONSTANTS
    Client,      \* CLI runs, each made once
    Tasks,       \* what the runs may be: functions client -> "build", "tip" or "login"
    NoSocket,    \* the agent serves nobody
    Nobody,      \* nothing was recorded
    MaxCrashes,  \* bound: times the daemon drops the websocket
    MaxAborts,   \* bound: CLI runs interrupted
    MaxOutput    \* bound: BuildStdout messages of a build

(* A CLI run connects to the agent up to four times: to see whether there is *)
(* one (spawn_agent_for_next_time), then agent_get_last_sync (or login),     *)
(* open_connection, agent_set_last_sync.                                     *)
Socket == Client \X {"knock", "get", "proxy", "set"}

ASSUME AgentAssumption ==
    /\ Tasks \subseteq [Client -> {"build", "tip", "login"}]
    /\ NoSocket \notin Socket
    /\ Nobody \notin Client
    /\ MaxCrashes \in Nat /\ MaxAborts \in Nat /\ MaxOutput \in Nat

VARIABLES
    task,      \* client -> the command it was started with
    cli,       \* client -> where its run is
    backlog,   \* sockets connected and not yet accepted, first come first
    toAgent,   \* socket -> messages to the agent
    toCli,     \* socket -> messages to the CLI
    cliOpen,   \* sockets whose CLI end is open
    agentOpen, \* sockets whose agent end is open (or still in the backlog)
    agent,     \* [pc, sock, started]: main's accept loop and proxy
    ws,        \* the agent's websocket: "none", "up", or "dead" without its knowing
    wsUp,      \* messages on it to the daemon
    wsDown,    \* messages on it to the agent
    daemon,    \* [pc, of, lines]: the thread at the other end of it
    lastSync,  \* the agent's SyncCache entry: whose build recorded it
    crashes, aborts,          \* how much of the bounds is used
    asked, heard, told, got   \* history, per client: what the CLI sent, what
                              \* the daemon read of it, what the daemon sent
                              \* back, what the CLI read of that

socketVars == <<backlog, toAgent, toCli, cliOpen, agentOpen>>
wsVars == <<ws, wsUp, wsDown, daemon>>
boundVars == <<crashes, aborts>>
vars == <<task, cli, socketVars, agent, wsVars, lastSync, boundVars, asked, heard, told, got>>

Resting == [pc |-> "accept", sock |-> NoSocket, started |-> FALSE]
IdleThread == [pc |-> "idle", of |-> Nobody, lines |-> 0]

Init ==
    /\ task \in Tasks
    /\ cli = [c \in Client |-> "start"]
    /\ backlog = <<>>
    /\ toAgent = [k \in Socket |-> <<>>]
    /\ toCli = [k \in Socket |-> <<>>]
    /\ cliOpen = {}
    /\ agentOpen = {}
    /\ agent = Resting
    /\ ws \in {"none", "up"}
    /\ wsUp = <<>> /\ wsDown = <<>>
    /\ daemon = IdleThread
    /\ lastSync = Nobody
    /\ crashes = 0 /\ aborts = 0
    /\ asked = [c \in Client |-> <<>>]
    /\ heard = [c \in Client |-> <<>>]
    /\ told = [c \in Client |-> <<>>]
    /\ got = [c \in Client |-> <<>>]

Msg(kind, c) == [kind |-> kind, of |-> c]

Kinds(ms) == [i \in DOMAIN ms |-> ms[i].kind]

-----------------------------------------------------------------------------
(* The CLI.                                                                  *)

Running == agent.pc # "gone"

(* UnixStream::connect, then the first messages on the new socket.  A run's  *)
(* first connect comes right after the one of spawn_agent_for_next_time,     *)
(* which is dropped at once with nothing sent.                               *)
Connect(k, ms) ==
    LET c     == k[1]
        socks == IF cli[c] = "start" THEN << <<c, "knock">>, k >> ELSE <<k>>
    IN  /\ Running
        /\ backlog' = backlog \o socks
        /\ agentOpen' = agentOpen \cup {socks[i] : i \in DOMAIN socks}
        /\ cliOpen' = cliOpen \cup {k}
        /\ toAgent' = [toAgent EXCEPT ![k] = ms]
        /\ UNCHANGED toCli

(* More on a socket the CLI holds.  When the agent's end is closed the write *)
(* fails, and the next read says so (Failed).                                *)
CliSend(k, ms) ==
    toAgent' = IF k \in agentOpen THEN [toAgent EXCEPT ![k] = @ \o ms] ELSE toAgent

CliReads(c, k, kind) ==
    /\ toCli[k] # <<>>
    /\ Head(toCli[k]).kind = kind
    /\ toCli' = [toCli EXCEPT ![k] = Tail(@)]
    /\ got' = IF k[2] = "proxy" THEN [got EXCEPT ![c] = Append(@, kind)] ELSE got

Enter(c, pc) == cli' = [cli EXCEPT ![c] = pc]

CliFrame == UNCHANGED <<task, agent, wsVars, lastSync, boundVars, heard, told>>

AskLastSync(c) ==
    /\ cli[c] = "start" /\ task[c] = "build"
    /\ Connect(<<c, "get">>, <<Msg("GetLastSync", c)>>)
    /\ Enter(c, "asking")
    /\ UNCHANGED <<asked, got>> /\ CliFrame

(* The answer is only a hint; the run goes on without one if the agent went  *)
(* away.  Either way this socket is dropped before the next one is opened.   *)
HaveHint(c) ==
    LET k == <<c, "get">> IN
    /\ cli[c] = "asking"
    /\ \/ CliReads(c, k, "LastSync")
       \/ k \notin agentOpen /\ toCli[k] = <<>> /\ UNCHANGED <<toCli, got>>
    /\ cliOpen' = cliOpen \ {k}
    /\ Enter(c, "ready")
    /\ UNCHANGED <<backlog, toAgent, agentOpen, asked>> /\ CliFrame

(* open_connection: StartProxy, and the first daemon message behind it.      *)
OpenSession(c) ==
    LET k     == <<c, "proxy">>
        first == IF task[c] = "tip" THEN "TipRequest" ELSE "Probe"
    IN  /\ \/ cli[c] = "start" /\ task[c] = "tip"
           \/ cli[c] = "ready"
        /\ Connect(k, <<Msg("StartProxy", c), Msg(first, c)>>)
        /\ asked' = [asked EXCEPT ![c] = <<first>>]
        /\ Enter(c, "response")
        /\ UNCHANGED got /\ CliFrame

(* No agent: the CLI talks to the daemon itself, which is not seen here.     *)
GoDirect(c) ==
    /\ cli[c] \in {"start", "ready"}
    /\ ~Running
    /\ Enter(c, "ended")
    /\ UNCHANGED <<socketVars, asked, got>> /\ CliFrame

(* attempt_build and stream_build_output on the session's messages.          *)
SessionReads(c) ==
    LET k == <<c, "proxy">> IN
    /\ \/ /\ cli[c] = "response"
          /\ CliReads(c, k, "ProbeAccepted") \/ CliReads(c, k, "SyncAck")
          /\ Enter(c, "output")
          /\ UNCHANGED <<toAgent, asked>>
       \/ /\ cli[c] \in {"response", "needed"}
          /\ CliReads(c, k, "NeedFiles")
          /\ Enter(c, "stream")
          /\ UNCHANGED <<toAgent, asked>>
       \/ /\ cli[c] = "response"
          /\ CliReads(c, k, "ProbeMiss")
          /\ CliSend(k, <<Msg("Manifest", c)>>)
          /\ asked' = [asked EXCEPT ![c] = Append(@, "Manifest")]
          /\ Enter(c, "needed")
       \/ /\ cli[c] = "ack"
          /\ CliReads(c, k, "SyncAck")
          /\ Enter(c, "output")
          /\ UNCHANGED <<toAgent, asked>>
       \/ /\ cli[c] = "output"
          /\ CliReads(c, k, "BuildStdout")
          /\ UNCHANGED <<cli, toAgent, asked>>
       \/ /\ cli[c] = "output"
          /\ CliReads(c, k, "BuildFinished")
          /\ Enter(c, "record")
          /\ UNCHANGED <<toAgent, asked>>
    /\ UNCHANGED <<backlog, cliOpen, agentOpen>> /\ CliFrame

(* SlotsBusy or the tip: nothing to record, the socket is dropped.           *)
SessionEnds(c) ==
    LET k == <<c, "proxy">> IN
    /\ cli[c] = "response"
    /\ CliReads(c, k, "SlotsBusy") \/ CliReads(c, k, "Tip")
    /\ cliOpen' = cliOpen \ {k}
    /\ Enter(c, "ended")
    /\ UNCHANGED <<backlog, toAgent, agentOpen, asked>> /\ CliFrame

(* stream_files: a file or none, then SyncDone.                              *)
Stream(c) ==
    /\ cli[c] = "stream"
    /\ \E ks \in {<<"SyncDone">>, <<"FileData", "SyncDone">>} :
          /\ CliSend(<<c, "proxy">>, [i \in DOMAIN ks |-> Msg(ks[i], c)])
          /\ asked' = [asked EXCEPT ![c] = @ \o ks]
    /\ Enter(c, "ack")
    /\ UNCHANGED <<backlog, toCli, cliOpen, agentOpen, got>> /\ CliFrame

(* Variant: the sync is recorded as soon as it is acknowledged.              *)
RecordEarly(c) ==
    /\ cli[c] \in {"output", "record"}
    /\ Connect(<<c, "set">>, <<Msg("SetLastSync", c)>>)
    /\ Enter(c, "recording")
    /\ UNCHANGED <<asked, got>> /\ CliFrame

(* record_sync_state, while the session's own socket is still open.          *)
Record(c) ==
    /\ cli[c] = "record"
    /\ Connect(<<c, "set">>, <<Msg("SetLastSync", c)>>)
    /\ Enter(c, "recording")
    /\ UNCHANGED <<asked, got>> /\ CliFrame

Recorded(c) ==
    LET k == <<c, "set">> IN
    /\ \/ cli[c] = "record" /\ ~Running /\ UNCHANGED <<toCli, got>>
       \/ /\ cli[c] = "recording"
          /\ \/ CliReads(c, k, "Ok")
             \/ k \notin agentOpen /\ toCli[k] = <<>> /\ UNCHANGED <<toCli, got>>
    /\ cliOpen' = cliOpen \ ({c} \X {"get", "proxy", "set"})
    /\ Enter(c, "ended")
    /\ UNCHANGED <<backlog, toAgent, agentOpen, asked>> /\ CliFrame

(* login: tell the agent, which holds the old token, to exit.                *)
Login(c) ==
    /\ cli[c] = "start" /\ task[c] = "login"
    /\ Connect(<<c, "get">>, <<Msg("Shutdown", c)>>)
    /\ Enter(c, "leaving")
    /\ UNCHANGED <<asked, got>> /\ CliFrame

LoggedIn(c) ==
    LET k == <<c, "get">> IN
    /\ cli[c] = "leaving"
    /\ \/ CliReads(c, k, "Ok")
       \/ k \notin agentOpen /\ toCli[k] = <<>> /\ UNCHANGED <<toCli, got>>
    /\ cliOpen' = cliOpen \ {k}
    /\ Enter(c, "ended")
    /\ UNCHANGED <<backlog, toAgent, agentOpen, asked>> /\ CliFrame

HangUp(c) ==
    /\ cliOpen' = cliOpen \ ({c} \X {"get", "proxy", "set"})
    /\ Enter(c, "ended")
    /\ UNCHANGED <<backlog, toAgent, toCli, agentOpen, asked, got>>
    /\ UNCHANGED <<task, agent, wsVars, lastSync, heard, told>>

(* The agent closed the session's socket in the middle: the run fails.       *)
Failed(c) ==
    LET k == <<c, "proxy">> IN
    /\ cli[c] \in {"response", "needed", "stream", "ack", "output"}
    /\ k \notin agentOpen
    /\ toCli[k] = <<>>
    /\ HangUp(c)
    /\ UNCHANGED boundVars

(* Ctrl-C at any point, also between StartProxy and the first message.       *)
Abort(c) ==
    /\ cli[c] \notin {"start", "ended"}
    /\ aborts < MaxAborts
    /\ aborts' = aborts + 1
    /\ UNCHANGED crashes
    /\ \/ HangUp(c)
       \/ LET k == <<c, "proxy">> IN
          /\ cli[c] = "ready"
          /\ Running
          /\ backlog' = Append(backlog, k)
          /\ agentOpen' = agentOpen \cup {k}
          /\ toAgent' = [toAgent EXCEPT ![k] = <<Msg("StartProxy", c)>>]
          /\ Enter(c, "ended")
          /\ UNCHANGED <<cliOpen, toCli, asked, got, task, agent, wsVars, lastSync, heard, told>>

-----------------------------------------------------------------------------
(* The agent.                                                                *)

AgentFrame == UNCHANGED <<task, cli, cliOpen, crashes, aborts, asked, got>>

(* handle returned Ok: the client's socket is dropped, the websocket kept.   *)
ServeNext ==
    /\ agent' = Resting
    /\ agentOpen' = agentOpen \ {agent.sock}

(* Variant: the websocket is kept after an error, too.                       *)
KeepSession == ServeNext /\ UNCHANGED wsVars

(* handle returned Err: main sets ws = None.                                 *)
DropSession ==
    /\ ServeNext
    /\ ws' = "none" /\ wsUp' = <<>> /\ wsDown' = <<>>
    /\ daemon' = IdleThread

(* send_response and then Ok, or an error if the CLI has hung up.            *)
Respond(kind) ==
    IF agent.sock \in cliOpen
    THEN /\ toCli' = [toCli EXCEPT ![agent.sock] = Append(@, Msg(kind, agent.sock[1]))]
         /\ ServeNext
         /\ UNCHANGED wsVars
    ELSE DropSession /\ UNCHANGED toCli

TakeRequest(kind) ==
    /\ agent.pc = "request"
    /\ toAgent[agent.sock] # <<>>
    /\ Head(toAgent[agent.sock]).kind = kind
    /\ toAgent' = [toAgent EXCEPT ![agent.sock] = Tail(@)]

AtEof == toAgent[agent.sock] = <<>> /\ agent.sock \notin cliOpen

Accept ==
    /\ agent.pc = "accept"
    /\ backlog # <<>>
    /\ agent' = [Resting EXCEPT !.pc = "request", !.sock = Head(backlog)]
    /\ backlog' = Tail(backlog)
    /\ UNCHANGED <<toAgent, toCli, agentOpen, wsVars, lastSync, heard, told>> /\ AgentFrame

HandleGetLastSync ==
    /\ TakeRequest("GetLastSync")
    /\ Respond("LastSync")
    /\ UNCHANGED <<backlog, lastSync, heard, told>> /\ AgentFrame

(* Variant: the entry names the socket.                                      *)
RecordSocket ==
    /\ TakeRequest("SetLastSync")
    /\ lastSync' = agent.sock
    /\ Respond("Ok")
    /\ UNCHANGED <<backlog, heard, told>> /\ AgentFrame

HandleSetLastSync ==
    /\ TakeRequest("SetLastSync")
    /\ lastSync' = agent.sock[1]
    /\ Respond("Ok")
    /\ UNCHANGED <<backlog, heard, told>> /\ AgentFrame

(* Shutdown: answer and exit the process.                                    *)
HandleShutdown ==
    /\ TakeRequest("Shutdown")
    /\ toCli' = IF agent.sock \in cliOpen
                THEN [toCli EXCEPT ![agent.sock] = Append(@, Msg("Ok", agent.sock[1]))]
                ELSE toCli
    /\ agent' = [Resting EXCEPT !.pc = "gone"]
    /\ agentOpen' = {}
    /\ backlog' = <<>>
    /\ lastSync' = Nobody
    /\ ws' = "none" /\ wsUp' = <<>> /\ wsDown' = <<>> /\ daemon' = IdleThread
    /\ UNCHANGED <<heard, told>> /\ AgentFrame

(* handle_proxy: connect if there is no websocket, else trust the one kept.  *)
StartProxy ==
    /\ TakeRequest("StartProxy")
    /\ ws' = IF ws = "none" THEN "up" ELSE ws
    /\ agent' = [agent EXCEPT !.pc = "client"]
    /\ UNCHANGED <<backlog, toCli, agentOpen, wsUp, wsDown, daemon, lastSync, heard, told>>
    /\ AgentFrame

(* proxy, client to websocket.  On a dead websocket the send may still       *)
(* succeed, into nowhere.                                                    *)
ForwardUp ==
    LET m == Head(toAgent[agent.sock]) IN
    /\ agent.pc = "client"
    /\ toAgent[agent.sock] # <<>>
    /\ toAgent' = [toAgent EXCEPT ![agent.sock] = Tail(@)]
    /\ wsUp' = IF ws = "up" THEN Append(wsUp, m) ELSE wsUp
    /\ agent' = [agent EXCEPT !.started = TRUE,
                             !.pc = IF EndsClientTurn(m.kind) THEN "daemon" ELSE "client"]
    /\ UNCHANGED <<backlog, toCli, agentOpen, ws, wsDown, daemon, lastSync, heard, told>>
    /\ AgentFrame

(* A CLI that hangs up before it sent anything was only a probe.             *)
ProbeOnly ==
    /\ \/ agent.pc = "request"
       \/ agent.pc = "client" /\ ~agent.started
    /\ AtEof
    /\ ServeNext
    /\ UNCHANGED <<backlog, toAgent, toCli, wsVars, lastSync, heard, told>> /\ AgentFrame

(* proxy, websocket to client.                                               *)
ForwardDown ==
    LET m == Head(wsDown) IN
    /\ agent.pc = "daemon"
    /\ wsDown # <<>>
    /\ IF agent.sock \notin cliOpen
       THEN DropSession /\ UNCHANGED toCli
       ELSE /\ toCli' = [toCli EXCEPT ![agent.sock] = Append(@, m)]
            /\ wsDown' = Tail(wsDown)
            /\ IF EndsSession(m.kind) THEN ServeNext
               ELSE /\ agent' = [agent EXCEPT !.pc = IF YieldsToClient(m.kind)
                                                    THEN "client" ELSE "daemon"]
                    /\ UNCHANGED agentOpen
            /\ UNCHANGED <<ws, wsUp, daemon>>
    /\ UNCHANGED <<backlog, toAgent, lastSync, heard, told>> /\ AgentFrame

(* A session fails: the daemon cannot be reached, the CLI hung up in its     *)
(* middle, or the websocket turns out to be dead (a 300 s silence counts as  *)
(* that).                                                                    *)
SessionError ==
    /\ \/ /\ agent.pc = "request" /\ ws = "none"
          /\ toAgent[agent.sock] # <<>> /\ Head(toAgent[agent.sock]).kind = "StartProxy"
       \/ agent.pc = "client" /\ agent.started /\ AtEof
       \/ agent.pc \in {"client", "daemon"} /\ ws = "dead"
    /\ DropSession
    /\ UNCHANGED <<backlog, toAgent, toCli, lastSync, heard, told>> /\ AgentFrame

-----------------------------------------------------------------------------
(* The daemon's thread on the agent's websocket, seen from outside: what it  *)
(* reads and what it may answer (Daemon says why).                           *)

DaemonFrame == UNCHANGED <<task, cli, socketVars, agent, lastSync, ws, aborts, asked, got>>

DaemonReads(kind) ==
    /\ ws = "up"
    /\ wsUp # <<>>
    /\ Head(wsUp).kind = kind
    /\ wsUp' = Tail(wsUp)
    /\ heard' = [heard EXCEPT ![Head(wsUp).of] = Append(@, kind)]

DaemonSends(kind, c) ==
    /\ wsDown' = Append(wsDown, Msg(kind, c))
    /\ told' = [told EXCEPT ![c] = Append(@, kind)]

(* What each answer leaves the thread waiting for, or doing.                 *)
After(kind) ==
    CASE kind \in {"ProbeAccepted", "SyncAck"} -> "output"
      [] kind = "ProbeMiss" -> "manifest"
      [] kind = "NeedFiles" -> "receive"
      [] OTHER -> "idle"

Answers(state, kind) ==
    CASE kind = "Probe" /\ state = "idle" ->
             {"SlotsBusy", "ProbeAccepted", "SyncAck", "NeedFiles", "ProbeMiss"}
      [] kind = "TipRequest" /\ state = "idle" -> {"Tip"}
      [] kind = "Manifest" /\ state = "manifest" -> {"NeedFiles"}
      [] kind = "SyncDone" /\ state = "receive" -> {"SyncAck"}
      [] OTHER -> {}

DaemonAnswers ==
    /\ \E kind \in ClientKinds : \E answer \in Answers(daemon.pc, kind) :
          /\ DaemonReads(kind)
          /\ DaemonSends(answer, Head(wsUp).of)
          /\ daemon' = [IdleThread EXCEPT !.pc = After(answer), !.of = Head(wsUp).of]
    /\ UNCHANGED crashes /\ DaemonFrame

DaemonTakesFile ==
    /\ daemon.pc = "receive"
    /\ DaemonReads("FileData")
    /\ UNCHANGED <<daemon, wsDown, told, crashes>> /\ DaemonFrame

DaemonBuilds ==
    /\ ws = "up"
    /\ daemon.pc = "output"
    /\ \/ /\ daemon.lines < MaxOutput
          /\ DaemonSends("BuildStdout", daemon.of)
          /\ daemon' = [daemon EXCEPT !.lines = @ + 1]
       \/ /\ DaemonSends("BuildFinished", daemon.of)
          /\ daemon' = IdleThread
    /\ UNCHANGED <<wsUp, heard, crashes>> /\ DaemonFrame

(* The daemon restarts, or closes after an I/O error of its own.             *)
DaemonDrops ==
    /\ ws = "up"
    /\ crashes < MaxCrashes
    /\ crashes' = crashes + 1
    /\ ws' = "dead" /\ wsUp' = <<>>
    /\ daemon' = IdleThread
    /\ UNCHANGED <<task, cli, socketVars, agent, lastSync, wsDown, aborts, asked, heard, told, got>>

-----------------------------------------------------------------------------
CliStep(c) ==
    \/ AskLastSync(c) \/ HaveHint(c) \/ OpenSession(c) \/ GoDirect(c)
    \/ SessionReads(c) \/ SessionEnds(c) \/ Stream(c) \/ Record(c) \/ Recorded(c)
    \/ Login(c) \/ LoggedIn(c) \/ Failed(c)

AgentStep ==
    \/ Accept \/ HandleGetLastSync \/ HandleSetLastSync \/ HandleShutdown
    \/ StartProxy \/ ForwardUp \/ ProbeOnly \/ ForwardDown \/ SessionError

DaemonStep == DaemonAnswers \/ DaemonTakesFile \/ DaemonBuilds

Done == /\ \A c \in Client : cli[c] = "ended"
        /\ UNCHANGED vars

Next ==
    \/ \E c \in Client : CliStep(c) \/ Abort(c)
    \/ AgentStep
    \/ DaemonStep
    \/ DaemonDrops
    \/ Done

Spec == Init /\ [][Next]_vars

(* Every process that can run does; cargo ends.  No CLI run has to begin.    *)
Fairness ==
    /\ \A c \in Client : WF_vars(cli[c] # "start" /\ CliStep(c))
    /\ WF_vars(AgentStep)
    /\ WF_vars(DaemonStep)

FairSpec == Spec /\ Fairness

-----------------------------------------------------------------------------
TypeOK ==
    /\ cli \in [Client -> {"start", "asking", "ready", "response", "needed", "stream", "ack",
                          "output", "record", "recording", "leaving", "ended"}]
    /\ \A i \in DOMAIN backlog : backlog[i] \in Socket
    /\ cliOpen \subseteq Socket /\ agentOpen \subseteq Socket
    /\ agent \in [pc : {"accept", "request", "client", "daemon", "gone"},
                  sock : Socket \cup {NoSocket}, started : BOOLEAN]
    /\ ws \in {"none", "up", "dead"}
    /\ daemon \in [pc : {"idle", "manifest", "receive", "output"},
                   of : Client \cup {Nobody}, lines : 0 .. MaxOutput]
    /\ lastSync \in Client \cup {Nobody}
    /\ crashes \in 0 .. MaxCrashes /\ aborts \in 0 .. MaxAborts

Begins(s, t) == Len(s) <= Len(t) /\ SubSeq(t, 1, Len(s)) = s

(* The agent is a pipe: the daemon reads of each CLI run what that run sent, *)
(* in order, and each run reads what the daemon sent for it; nothing of one  *)
(* session reaches another, whoever was cut off before.                      *)
Transparent ==
    \A c \in Client : Begins(heard[c], asked[c]) /\ Begins(got[c], told[c])

(* A websocket kept for the next session carries nothing of the last one and *)
(* its thread is back at the top of its serve loop.  That it is kept at all  *)
(* is what handle does (ends_session is said to mean that the agent should   *)
(* close it, protocol/src/lib.rs:100).                                       *)
KeptIsClean ==
    agent.pc \in {"accept", "request"} /\ ws = "up" =>
        wsUp = <<>> /\ wsDown = <<>> /\ daemon.pc = "idle"

(* The daemon never meets a message its state has no case for.               *)
DaemonUnderstands ==
    ws = "up" /\ wsUp # <<>> =>
        \/ Answers(daemon.pc, Head(wsUp).kind) # {}
        \/ daemon.pc = "receive" /\ Head(wsUp).kind = "FileData"

(* What the agent remembers as the last sync is of a run whose build the     *)
(* daemon finished, so of a tree that was once in a workspace.               *)
HintIsOfABuild ==
    lastSync # Nobody =>
        got[lastSync] # <<>> /\ got[lastSync][Len(got[lastSync])] = "BuildFinished"

(* The run whose session the agent is in.                                    *)
Carried == IF agent.pc \in {"client", "daemon"} THEN agent.sock[1] ELSE Nobody

Relays == INSTANCE Relay WITH Run <- Client, NoRun <- Nobody, carried <- Carried

(* The agent with its sockets and its websocket does what Relay promises: it *)
(* carries one session at a time, of a run that has not been heard or told   *)
(* anything, and what each side reads next is what the other said next.      *)
AgentIsRelay == Relays!RelaySpec

(* Every CLI run that begins comes to an end, with the agent serving one at  *)
(* a time and both asking it for a hint and recording one queueing behind    *)
(* the sessions of others.                                                   *)
RunsEnd == \A c \in Client : cli[c] # "start" ~> cli[c] = "ended"
=============================================================================
