----------------------------- MODULE Workstation -----------------------------
(* One developer's machine: the CLI runs of cli/src/bin/abrasive.rs and the  *)
(* agents they start (main of abrasive-agent.rs), which share one socket     *)
(* file, one credentials file, one abrasive.toml and one executable under    *)
(* /tmp.  A session with the daemon is one step; AgentProxy says what is in  *)
(* it.                                                                       *)
EXTENDS Naturals, Sequences, Functions

CONSTANTS
    Run,        \* CLI runs, each made once; an agent goes by the run it is spawned by
    Tasks,      \* what the runs may be: functions run -> command
    NoFile,     \* no socket file
    Stale,      \* the socket file of a process long gone
    NoProgram, Empty, Mixture,
    MaxUpsets   \* bound: agents killed and runs interrupted

RemoteCommands == {"build", "run", "nop"}
OwnCommands    == {"setup", "auth", "help", "tip"}
LocalCommands  == {"update"}

NoToken == 0

ASSUME WorkstationAssumption ==
    /\ Tasks \subseteq [Run -> RemoteCommands \cup OwnCommands \cup LocalCommands]
    /\ NoFile \notin Run /\ Stale \notin Run
    /\ {NoProgram, Empty, Mixture} \cap Run = {}

VARIABLES
    task,       \* run -> its command
    cli,        \* run -> where it is
    agent,      \* run -> [pc, token, late] of the agent it spawned; late is history:
                \* the login that changed the token could not reach it, or was stopped
    backlog,    \* agent -> runs it has yet to serve
    name,       \* the agent whose socket the file is, Stale or NoFile
    saved,      \* the token in credentials.toml; a later one is greater
    issued,     \* tokens pasted so far
    config,     \* does the directory have an abrasive.toml?
    program,    \* what is in /tmp/abrasive-run-NAME
    ran,        \* run -> what it executed
    upsets,
    owed        \* history: an agent was started, and since then none was told to stop,
                \* was killed, could not be started or had no token

vars == <<task, cli, agent, backlog, name, saved, issued, config, program, ran, upsets, owed>>

agentVars == <<agent, backlog, name>>
fileVars  == <<saved, issued, config, program>>

NoAgent   == [pc |-> "none", token |-> NoToken, late |-> FALSE]
GoneAgent == [pc |-> "gone", token |-> NoToken, late |-> FALSE]

Init ==
    /\ task \in Tasks
    /\ cli = [c \in Run |-> "start"]
    /\ agent = [a \in Run |-> NoAgent]
    /\ backlog = [a \in Run |-> <<>>]
    /\ name \in {NoFile, Stale}
    /\ saved \in {NoToken, 1} /\ issued = 1
    /\ config \in BOOLEAN
    /\ program = NoProgram
    /\ ran = [c \in Run |-> NoProgram]
    /\ upsets = 0 /\ owed = FALSE

Listening(a) == agent[a].pc = "listening"

(* Would UnixStream::connect(socket_path()) succeed?                         *)
Reachable == name \in Run /\ Listening(name)

Enter(c, pc) == cli' = [cli EXCEPT ![c] = pc]

(* A step of the run c that touches neither agents nor files.                *)
OnlyRun == UNCHANGED <<task, agentVars, fileVars, ran, upsets, owed>>

-----------------------------------------------------------------------------
(* run: first of all, an agent for next time.                                *)
Knock(c) ==
    /\ cli[c] = "start"
    /\ Enter(c, IF Reachable THEN "dispatch" ELSE "spawn")
    /\ OnlyRun

(* Without a binary or a process there is just no agent.                     *)
SpawnAgent(c) ==
    /\ cli[c] = "spawn"
    /\ Enter(c, "dispatch")
    /\ \E started \in BOOLEAN :
          /\ agent' = [agent EXCEPT ![c] =
                IF started THEN [NoAgent EXCEPT !.pc = "reading"] ELSE GoneAgent]
          /\ owed' = started
    /\ UNCHANGED <<task, backlog, name, fileVars, ran, upsets>>

(* get_workspace: a directory without a name, or an abrasive.toml above it   *)
(* that cannot be read, is the end of any command.                           *)
NoWorkspace(c) ==
    /\ cli[c] = "dispatch"
    /\ Enter(c, "ended")
    /\ OnlyRun

(* dispatch_abrasive_command, for what only prints.  setup leaves a          *)
(* directory alone that has a configuration or is no cargo project, and      *)
(* exits with 0.                                                             *)
ShowInfo(c) ==
    /\ cli[c] = "dispatch"
    /\ task[c] \in {"help", "setup"}
    /\ Enter(c, "ended")
    /\ OnlyRun

(* remote_setup, then the nop command.                                       *)
Setup(c) ==
    /\ cli[c] = "dispatch"
    /\ task[c] = "setup"
    /\ ~config
    /\ config' = TRUE
    /\ Enter(c, "token")
    /\ UNCHANGED <<task, agentVars, saved, issued, program, ran, upsets, owed>>

(* forward_args_to_local: outside a workspace, or not on the list of remote  *)
(* commands.  The run is cargo from then on.                                 *)
ForwardToCargo(c) ==
    /\ cli[c] = "dispatch"
    /\ task[c] \in LocalCommands \/ (task[c] \in RemoteCommands /\ ~config)
    /\ Enter(c, "ended")
    /\ OnlyRun

GoRemote(c) ==
    /\ cli[c] = "dispatch"
    /\ task[c] = "tip" \/ (task[c] \in RemoteCommands /\ config)
    /\ Enter(c, "token")
    /\ OnlyRun

(* try_remote, print_tip: without a saved token there is no request.         *)
NeedToken(c) ==
    /\ cli[c] = "token"
    /\ Enter(c, IF saved = NoToken THEN "ended" ELSE "connect")
    /\ OnlyRun

(* open_connection: through the agent,                                       *)
ConnectToAgent(c) ==
    /\ cli[c] = "connect"
    /\ Reachable
    /\ backlog' = [backlog EXCEPT ![name] = Append(@, c)]
    /\ Enter(c, "waiting")
    /\ UNCHANGED <<task, agent, name, fileVars, ran, upsets, owed>>

(* What a session comes to: an answer, with an executable if it was a run    *)
(* and built; no slot, and the run polls; an error or a refused token.       *)
Outcomes(c) ==
    {"ended"}
        \cup (IF task[c] = "run" THEN {"write"} ELSE {})
        \cup (IF task[c] = "tip" THEN {} ELSE {"connect"})

(* or, if there is none, to the daemon itself.                               *)
GoDirect(c) ==
    /\ cli[c] = "connect"
    /\ ~Reachable
    /\ \E end \in Outcomes(c) : Enter(c, end)
    /\ OnlyRun

-----------------------------------------------------------------------------
(* paste_login: an empty line or something that is no token is an error;     *)
(* write_credentials empties the file before it fills it.                    *)
Paste(c) ==
    /\ cli[c] = "dispatch"
    /\ task[c] = "auth"
    /\ \/ Enter(c, "ended") /\ UNCHANGED saved
       \/ Enter(c, "saving") /\ saved' = NoToken
    /\ UNCHANGED <<task, agentVars, issued, config, program, ran, upsets, owed>>

Save(c) ==
    /\ cli[c] = "saving"
    /\ issued' = issued + 1
    /\ saved' = issued + 1
    /\ UNCHANGED <<task, agentVars, config, program, ran, upsets, owed>>

(* Variant: the agent is left as it is.                                      *)
WriteTokenOnly(c) == Save(c) /\ Enter(c, "ended")

WriteToken(c) == Save(c) /\ Enter(c, "look")

(* An agent with a token other than the one saved.                           *)
Outdated(a) == agent[a].token \notin {NoToken, saved}

(* Such an agent will not hear of a login that ends here.                    *)
MarkLate == agent' = [a \in Run |-> [agent[a] EXCEPT !.late = @ \/ Outdated(a)]]

(* The disk may be full, and the old token is gone.                          *)
CannotSave(c) ==
    /\ cli[c] = "saving"
    /\ Enter(c, "ended")
    /\ MarkLate
    /\ UNCHANGED <<task, backlog, name, fileVars, ran, upsets, owed>>

(* It has read its token and cannot be reached yet.                          *)
Starting(a) == agent[a].pc \in {"removing", "connecting"}

(* login: Shutdown to the agent, if one can be reached.                      *)
LookForAgent(c) ==
    /\ cli[c] = "look"
    /\ IF Reachable
       THEN backlog' = [backlog EXCEPT ![name] = Append(@, c)] /\ Enter(c, "leaving")
       ELSE UNCHANGED backlog /\ Enter(c, "ended")
    /\ agent' = [a \in Run |-> [agent[a] EXCEPT !.late = @ \/ (Starting(a) /\ Outdated(a))]]
    /\ UNCHANGED <<task, name, fileVars, ran, upsets, owed>>

LoggingIn == \E c \in Run : cli[c] \in {"saving", "look", "leaving"}

-----------------------------------------------------------------------------
(* exec_artifact_locally.  fs::write empties the file and fills it; Linux    *)
(* refuses to write to a file that is being executed and to execute one that *)
(* is open for writing.                                                      *)
Writers == {c \in Run : cli[c] = "writing"}
Executing == {c \in Run : cli[c] = "running"}

OpenExecutable(c) ==
    /\ cli[c] = "write"
    /\ IF Executing = {} THEN program' = Empty /\ Enter(c, "writing")
                         ELSE UNCHANGED program /\ Enter(c, "ended")
    /\ UNCHANGED <<task, agentVars, saved, issued, config, ran, upsets, owed>>

(* Over what another run has written since, the end of it may stay.          *)
WriteExecutable(c) ==
    /\ cli[c] = "writing"
    /\ program' \in {c} \cup (IF program = Empty THEN {} ELSE {Mixture})
    /\ Enter(c, "written")
    /\ UNCHANGED <<task, agentVars, saved, issued, config, ran, upsets, owed>>

Execute(c) ==
    /\ cli[c] = "written"
    /\ IF Writers = {} THEN ran' = [ran EXCEPT ![c] = program] /\ Enter(c, "running")
                       ELSE UNCHANGED ran /\ Enter(c, "ended")
    /\ UNCHANGED <<task, agentVars, fileVars, upsets, owed>>

ProgramExits(c) ==
    /\ cli[c] = "running"
    /\ Enter(c, "ended")
    /\ OnlyRun

(* Ctrl-C, also in the middle of a login.                                    *)
Abort(c) ==
    /\ cli[c] \notin {"start", "ended"}
    /\ upsets < MaxUpsets
    /\ upsets' = upsets + 1
    /\ Enter(c, "ended")
    /\ IF cli[c] \in {"saving", "look", "leaving"} THEN MarkLate ELSE UNCHANGED agent
    /\ UNCHANGED <<task, backlog, name, fileVars, ran, owed>>

-----------------------------------------------------------------------------
(* main of the agent.                                                        *)

AgentGoes(a, pc) ==
    agent' = [agent EXCEPT ![a] = IF pc = "gone" THEN GoneAgent ELSE [@ EXCEPT !.pc = pc]]

OnlyAgent == UNCHANGED <<task, cli, backlog, fileVars, ran, upsets>>

(* saved_token, read once in an agent's life.                                *)
ReadToken(a) ==
    /\ agent[a].pc = "reading"
    /\ agent' = [agent EXCEPT ![a] = IF saved = NoToken THEN GoneAgent
          ELSE [pc |-> "removing", token |-> saved, late |-> FALSE]]
    /\ owed' = (owed /\ saved # NoToken)
    /\ UNCHANGED name /\ OnlyAgent

(* Variant: whatever is there stays.                                         *)
KeepSocketFile(a) ==
    /\ agent[a].pc = "removing"
    /\ AgentGoes(a, "connecting")
    /\ UNCHANGED <<name, owed>> /\ OnlyAgent

(* fs::remove_file, whoever bound it.                                        *)
RemoveSocketFile(a) ==
    /\ agent[a].pc = "removing"
    /\ name' = NoFile
    /\ AgentGoes(a, "connecting")
    /\ UNCHANGED owed /\ OnlyAgent

(* After the daemon has been tried, for up to five seconds and successful or *)
(* not, UnixListener::bind; it panics if a file is there.                    *)
Bind(a) ==
    /\ agent[a].pc = "connecting"
    /\ IF name = NoFile THEN name' = a /\ AgentGoes(a, "listening")
                        ELSE UNCHANGED name /\ AgentGoes(a, "gone")
    /\ UNCHANGED owed /\ OnlyAgent

(* Those who wait for an agent that ends read an end of file, and end too.   *)
HangUp(a) ==
    cli' = [c \in Run |->
        IF cli[c] \in {"waiting", "leaving"} /\ c \in Range(backlog[a]) THEN "ended" ELSE cli[c]]

(* Variant: the connections stay open.                                       *)
AgentEndsQuietly(a) == AgentGoes(a, "gone") /\ UNCHANGED <<cli, backlog>>

(* The agent is gone and so are the connections it had; its file stays.      *)
AgentEnds(a) ==
    /\ AgentGoes(a, "gone")
    /\ backlog' = [backlog EXCEPT ![a] = <<>>]
    /\ HangUp(a)

(* handle: a session, or a run that went away before it asked for anything;  *)
(* a Shutdown once sent is obeyed even if the login has been interrupted.    *)
Serve(a) ==
    LET c == Head(backlog[a]) IN
    /\ Listening(a)
    /\ backlog[a] # <<>>
    /\ cli[c] # "leaving"
    /\ backlog' = [backlog EXCEPT ![a] = Tail(@)]
    /\ IF cli[c] = "waiting" THEN \E end \in Outcomes(c) : Enter(c, end) ELSE UNCHANGED cli
    /\ UNCHANGED <<task, agent, name, fileVars, ran, upsets, owed>>

Shutdown(a) ==
    LET c == Head(backlog[a]) IN
    /\ Listening(a)
    /\ backlog[a] # <<>>
    /\ task[c] = "auth"
    /\ AgentEnds(a)
    /\ owed' = FALSE
    /\ UNCHANGED <<task, name, fileVars, ran, upsets>>

Kill(a) ==
    /\ agent[a].pc \notin {"none", "gone"}
    /\ upsets < MaxUpsets
    /\ upsets' = upsets + 1
    /\ AgentEnds(a)
    /\ owed' = FALSE
    /\ UNCHANGED <<task, name, fileVars, ran>>

-----------------------------------------------------------------------------
CliStep(c) ==
    \/ Knock(c) \/ SpawnAgent(c) \/ NoWorkspace(c) \/ ShowInfo(c) \/ Setup(c)
    \/ ForwardToCargo(c) \/ GoRemote(c) \/ NeedToken(c) \/ ConnectToAgent(c) \/ GoDirect(c)
    \/ Paste(c) \/ WriteToken(c) \/ CannotSave(c) \/ LookForAgent(c)
    \/ OpenExecutable(c) \/ WriteExecutable(c) \/ Execute(c) \/ ProgramExits(c)

AgentStep(a) ==
    ReadToken(a) \/ RemoveSocketFile(a) \/ Bind(a) \/ Serve(a) \/ Shutdown(a)

Next ==
    \E c \in Run : CliStep(c) \/ Abort(c) \/ AgentStep(c) \/ Kill(c)

Spec == Init /\ [][Next]_vars

-----------------------------------------------------------------------------
TypeOK ==
    /\ cli \in [Run -> {"ended", "start", "spawn", "dispatch", "token", "connect", "waiting",
                   "saving", "look", "leaving", "write", "writing", "written", "running"}]
    /\ agent \in [Run -> [pc : {"none", "reading", "removing", "connecting", "listening", "gone"},
                          token : 0 .. issued, late : BOOLEAN]]
    /\ \A a \in Run : backlog[a] \in Seq(Run) /\ (backlog[a] # <<>> => Listening(a))
    /\ \A c \in Run : cli[c] \in {"waiting", "leaving"} => \E a \in Run : c \in Range(backlog[a])
    /\ name \in Run \cup {NoFile, Stale}
    /\ saved \in 0 .. issued

(* When no login is under way, the agent that requests go to holds the token *)
(* that is saved: an `abrasive auth` is not undone by an agent of before it, *)
(* whichever agents come and go meanwhile.  Excepted is an agent that had    *)
(* read its token and not yet bound its socket when the login looked, and    *)
(* those a login did not look for because it was interrupted or could not    *)
(* save the token.                                                           *)
AgentsCurrent ==
    Reachable /\ ~LoggingIn => agent[name].token = saved \/ agent[name].late

(* A run that found no agent leaves one for next time                        *)
(* (spawn_agent_for_next_time): with agents starting at once that remove     *)
(* each other's socket files, the file of a dead one in the way and logins   *)
(* that stop agents, one can be reached when none is starting any more.      *)
AgentForNextTime ==
    owed /\ (\A a \in Run : agent[a].pc \in {"none", "listening", "gone"}) => Reachable

(* "None of the regular Cargo commands are broken" (cli/README.md:5): a run  *)
(* executes what was built for it.                                           *)
RunsOwnProgram ==
    \A c \in Run : ran[c] \in {NoProgram, c}
=============================================================================
