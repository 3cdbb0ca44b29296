# Abrasive in TLA+

Abrasive sends a developer's cargo commands to a build host. The CLI compares the checkout with the host's
copy, sends what differs, and prints what cargo prints. This directory holds a specification of the parts where
concurrency, failure and ordering matter, the instances TLC checks, and the theorems TLAPS checks. All paths are
relative to the repository root.

- [Inventory](#inventory): the components, their state, how they interact, what makes each correct
- [Modules](#modules): which module stands for what, and what it abstracts from
- [Runs](#runs): what is checked, in which instances, why those are enough
- [Disagreements](#disagreements-with-the-code): where the code does not do what its comments say
- [Fairness](#fairness), [Proofs](#proofs), [Not modelled](#not-modelled), [Plan](#plan)

To check a run: `tlc -workers 2 -config Nested.cfg MCBuildService`; to check the proofs, `tlapm M_proofs.tla` for
each of `Slots`, `BuildService`, `Session`, `AgentProxy`, `TokenAuth`, `BuildOutput`, `Workstation` and `DropPoint`
(`Session_proofs` and `AgentProxy_proofs` take several minutes each). `PROJECT.json` maps every definition to the source lines it stands for.

## Inventory

| component | state | operations | what makes it correct |
|---|---|---|---|
| wire protocol (`protocol/src/lib.rs`) | none | message kinds, the predicates `ends_client_turn`, `yields_to_client`, `ends_session` | from the messages alone all three parties agree whose turn it is and when a session is over |
| daemon: slots (`daemon/src/slots.rs`) | `SlotTable` (lent or not), `FingerprintCache` (slot to last synced fingerprint); both die with the process | `try_acquire`, drop of a `SlotGuard`, `matches`, `insert` | a slot is lent to one thread at a time, is returned on every path, and its directory is its own |
| daemon: threads (`daemon/src/main.rs`) | per connection: place in `serve_build`; shared: the workspace directories | fast path, speculative and legacy sync, build, clean, errors | a build reads exactly the tree its client probed with |
| daemon: output (`daemon/src/main.rs`) | two pipes, two reader threads, a channel | forward output, parse artifacts, finish | every byte is forwarded before `BuildFinished`; only what was just built is sent |
| daemon: auth (`daemon/src/auth.rs`) | cache of validated tokens, five minutes | `validate` | a token is accepted only if its row was valid recently |
| CLI (`cli/src/bin/abrasive.rs`) | locals of one attempt; `credentials.toml`, `abrasive.toml`, an executable under `/tmp` | start an agent, dispatch, log in, set up; scan, probe, stream files, print output, run an executable | every attempt ends; output is whole; only a successful run's executable is run; a login takes effect |
| agent (`cli/src/bin/abrasive-agent.rs`, `cli/src/agent.rs`) | one websocket, the last-sync hints, the token read at the start; the socket file | start, bind, answer requests, proxy one session at a time, stop | sessions do not leak into each other; nobody waits for ever; an agent can be reached, and not one with an old token |
| drop-point (`drop-point/src`) | a directory of cache entries | read a rustc command line, compute its key; look up, extract, compile, publish | a hit gives what rustc would have given; entries are never replaced; one crate has one entry |
| dashboard (`wasteland/web_app/src`) | rows of `api_tokens` | create, delete, regenerate | what the user is told of old keys is so |

How they interact:

```
 developer --edits--> checkout <--reads three times-- CLI --unix socket--> agent --+
                                                       |                          | websocket
                                                       +------ or directly -------+----> daemon thread (one per connection)
 CLI runs --start, stop--> agents --remove, bind--> socket file;  login --> credentials.toml --read once--> agent
 dashboard --rows--> api_tokens <--query, cached-- auth::validate (handshake)              |
                                                                 slot table, fingerprint cache (shared, mutex)
                                                                 workspace directories  <--+--> cargo --> drop-point
```

What is hard here: several CLIs and edits race with one sync; a sync fails half-way, or passes over a file it cannot read or
remove, and leaves a directory and a cache entry that do not fit; the sides of a connection close, fall silent or crash at any point; an agent keeps
a connection whose last user was cut off; agents started at once remove each other's socket files, and a login
has to find the right one; rustc processes race for one cache entry while it is being expunged, and the key of
an entry has to be as fine as what rustc makes and no finer;
output of several threads must come before the exit code. `PROJECT.json` lists each hazard at its line, with the
property that covers it or the reason none does.

## Modules

`Deployment` holds the constants every module of the build service shares: clients, connections, keys, how many
slots a key has, and `WorkspaceOf`, the directory name of a slot. `{team}_{scope}` is modelled as a concatenation
of tokens, so that two keys may meet in one name.

`Slots` is `SlotTable` with its `SlotGuard`s: `TryAcquire`, `DropGuard`, and `ForgetSlots` for the process dying.
Each runs under one mutex in the code and is one action here. `SlotLock` is what `slots.rs` promises, a lock per
slot; `Slots!SlotsAreLocks` is the refinement, with the holder of a slot read off the guards.

`SourceTree` holds the sync's pure half: manifests, fingerprints, `needed_files`, `delete_stale`, writing a file. A tree maps
every path to contents or `Absent`. blake3 is taken to be injective, so a manifest is the tree of contents; a
fingerprint maps paths to (mtime, size). A directory on the host also has subdirectories, since a directory in
the place of a file makes a write fail. What the sync ignores is an argument of its steps: the files that could not be walked or
read (`unread`) and those that could not be removed (`stuck`); `handle_clean` may stop half-way too.

`Protocol` and `Network`: message kinds, and per connection a FIFO queue each way. A link is `up`, `shut` (closed
or reset: the peer learns it) or `lost` (the workstation fell silent: nobody learns it).

`Cli` is `attempt_build`, one action per look at the files and per message. `build_manifest`, `fingerprint` and
`build_speculative` are three walks, so an `Edit` may fall between any two of them. `Daemon` is a connection's
thread from the probe to `BuildFinished`, one action per file written and per message. Every `?` that leaves
`serve_build` leads to `unwind`, which drops the guard. All cargo commands are one command, `build`, which touches
nothing outside `target`; `clean` is the other.

`BuildService` composes them with edits, broken and silent connections, failed and torn writes, syncs that overlook files, and
`Restart`. Its two history variables guard no step: `drift` says which paths the developer has edited since the attempt
began, and which stale files its sync has overlooked; `honest` says that a slot's fingerprint was recorded by a sync no edit
overlapped and that overlooked nothing stale, and that no sync has touched the directory since.

`AgentProxy` is the agent's accept loop and `proxy`, with CLI runs at its socket and the daemon's thread behind its
websocket. The thread is seen from outside: what it may answer in which state, as `Daemon` has it. A CLI run opens
up to four sockets (the first only to see whether there is an agent), and the agent accepts one at a time. `Relay` is what the
agent promises, without sockets, queues and websocket: it carries the session of one run at a time (`carried`), begins none
with anything left of an earlier one, and lets each side read what the other said, one word after the other.
`AgentProxy!AgentIsRelay` is the refinement: `carried` is the run of the socket the agent serves while it is in `proxy`, and
what was said and read are the history variables `asked`, `heard`, `told` and `got`.

`BuildOutput` goes from cargo's pipes to the terminal, one item per byte (or per JSON line of a run): reader threads, the
channel, `BuildFinished`, and the CLI's line buffers. `runIt` says if the command was `run`.

`Workstation` is one machine from outside the sessions: CLI runs (`run`, `dispatch_abrasive_command`, `try_remote`,
`login`, `remote_setup`, `exec_artifact_locally`) and the agents they start (the `main` of `abrasive-agent.rs`), over
the four files they share: socket, `credentials.toml`, `abrasive.toml`, and the executable under `/tmp`. A session with
the daemon is one step with any outcome, and an agent's websocket is left out: `AgentProxy` has both. An
agent reads the token once, removes the socket file whoever bound it, and binds five seconds later at most; in
between any number of other things happen. `fs::write` and `write_credentials` empty a file before they fill it.
That Linux refuses to execute a file that is open for writing, and the reverse, is in `OpenExecutable` and `Execute`.
A `Shutdown` once sent is obeyed, even if the login that sent it has been interrupted. Exit codes are left out.
Two variables are history and guard no step. An agent is `late` if the login that changed the token had no way to
reach it or was stopped before it could. `owed` says that an agent was started, and that since then none has been told to
stop, was killed, failed to start or found no token.

`TokenAuth` is `auth::validate` with its cache against the rows the dashboard writes, in ticks of time.

`RustcArgs` is how drop-point reads a rustc command line: the table of flags, values joined or apart, which calls
can be cached, and `ParsedArguments`. `Digest` is `hash_rustc_args`: which arguments go into the key, in
which order and spelling. Words are sequences of tokens and paths a directory and a name, so that joined flags,
commas and `basename` are what they are in the code; blake3 is injective, so that a key is the text that is hashed. The
binary search in the table is its result. `Digest!ShouldHash` and the sorts are where a key is made too coarse or too fine.

`DropPoint` is `run` and `cache_path`: the plan of outputs (`discover_outputs`, `refine_outputs`), then
concurrent rustc calls over a directory of entries, with edits, killed calls, `clean --expunge` and power failures. What
rustc makes (`Product`) depends on the unit compiled, on the compiler that is called and its environment (`by`), for dep-info on
the target directory, and for a member of the workspace on the edits synced so far. The key knows of the command line only. A
relative name is that of a file in the out-dir: that is what joining it to the out-dir does to all planned names, the profile's
among them. Which files rustc makes for each `--emit` is an assumption about it (`RustcMakes`).

The `MC*` modules give constants their values. A definition whose comment begins with "Variant" is not part of
the system: it is an operator with a plausible mistake in it, which is put in place of the right one to see that
a property notices.

## Runs

| run | instance | shows |
|---|---|---|
| `build_service` | 2 clients, 2 connections, 1 slot, 2 files, 2 contents; any 2 of: an edit, a break, a failure | syncs are exact, builds read their own tree, both sides agree on whose turn it is, no unexpected message |
| `nested` | as above, with a directory where another checkout has a file, a `target` path, `clean`, one client that does not speculate; 1 upset | legacy sync, directories in the way, slots returned on every path, sources that stay as they are until the build ends, the whole service refines the locks |
| `liveness` | 2 clients (one legacy), 1 file, a break and a failure | every attempt ends, every slot comes back |
| `agent_proxy` | a build, and a build, tip or login; 1 interrupt, 1 dropped websocket | sessions are isolated, the agent refines `Relay`, hints are of finished builds, every run ends |
| `token_auth` | 2 tokens, 2 handshakes, TTL 2, queries up to 1 tick or failing, 5 ticks | staleness is bounded by TTL plus a query |
| `drop_point` | any 2 of 20 calls that differ in one respect (a feature, a dependency, a setting, `--emit`, a native library, a target, a profile by path or relative, the compiler, the workspace, the spelling, the order), and some 3; 1 edit, 1 expunge, 1 power failure, any call killed | outputs are right whatever the command lines differ in, plans are met, one crate has one entry, entries are never replaced |
| `output` | build and run, 2 bytes or artifacts per pipe, a process that outlives cargo | output is complete and ordered, exit code, artifact, termination |
| `workstation` | 3 runs, one of them a login, the others a second login and a build, a run and a build, a setup and a help, a tip and an update; with or without a token, an `abrasive.toml`, the file of a dead agent; 1 kill or interrupt | one agent can be reached when all have started, and it has the token of the last login |
| `interrupted`, `clash`, `swapped`, `shared_name` | the smallest instance of each | the disagreements below |

Why the bounds are enough. One slot is what `constants.rs` sets, and with two clients it is contended at every
point; that a choice among several is right is proved, for any number. Each client starts from its own tree: they share a path
with different contents, and one has a path the other lacks. So a sync has to add, replace and delete. Hints are
taken from all kinds: none, the empty tree, the right one, another checkout's. Attempts are not bounded: a client goes
round for ever. So an upset in one attempt is followed by any number of attempts, which is where a stale
fingerprint or a leaked slot would show. Two upsets let an edit fall into an attempt that is also broken off.
In `token_auth` five ticks are longer than two lives of a cache entry, so staleness that fed on itself would show. In
`workstation` three runs bring up three agents, which is one to lose the socket file, one to remove it and one to
bind it; the login can fall before, between and after them, and what a second login adds is in the first task. Twenty
calls in `drop_point` are one usual call and, for each class of argument the code treats in its own way, one that
differs in it alone; one more is the usual call to another compiler. In
`output` two bytes make each split of a line possible (a whole line, half of one, an empty one). The bounds are
the constants `MaxEdits`, `MaxBreaks`, `MaxFailures`, `MaxUpsets`, `MaxAborts`, `MaxCrashes`, `MaxOutput`, `MaxTime`,
`MaxFetch`, `MaxExpunges`, `MaxBytes`; in `Workstation`, `MaxUpsets` counts kills and interrupts. `MaxFailures` counts failed writes, syncs that overlook files, and restarts. `MaxFetch` is one the code does not have: a query may take arbitrarily long,
and `StalenessBounded` says staleness grows by just that.

`drop_point` and `workstation` are checked without deadlock detection, since each call and each run is made once and
then all is over.

Exceptions the properties make, since the code behaves so:

- `SyncExact` excepts paths edited during the attempt, and old files below a component named `target` at any depth:
  `walk_workspace` skips those (`daemon/src/main.rs:442`) and so never deletes them. It also excepts stale files that the
  daemon could not walk, read (`main.rs:440`, `452`, `459`) or remove (`main.rs:400`): they stay in the directory, and the sync is acknowledged
  all the same. A file of the client's tree has no such exception: overlooked, it is sent again.
- `BuildReadsOwnTree` excepts slots whose fingerprint is not `honest`; `interrupted` shows what happens there, and after a sync
  that overlooked a stale file the builds of that fingerprint read the file too.
- `SlotReturned` excepts a workstation that falls silent while the daemon waits for its files: the daemon's sockets
  have no timeout (`BUGS.md`).
- `OutputsAreOwn` excepts dep-info, which names the out-dir of whoever filled the cache. It leaves open which rustc, in which
  environment, made a file: `drop-point/src/lib.rs:62` drops the compiler from the arguments, and the key has neither (see below).
  A call of the run that comes from another compiler does get the files of the first. And it is about crates whose
  command line settles their sources: for a path dependency outside the workspace, for what a build script leaves in
  `OUT_DIR` and for the contents of a static library the key is too coarse (`drop-point/src/digest.rs:13`).
- `PlannedExists` excepts a `-C profile-use` with a relative path: `drop-point/src/lib.rs:222-227` joins it to the out-dir, where it is
  not, so that such a crate is never cached. A profile given by its path is planned where it is.
- `AgentsCurrent` excepts `late` agents: one that had read the old token and had not bound its socket when the
  login looked for it, and all those whose login was interrupted or could not write its file. An agent started
  in the wrong moment does serve requests with a revoked token.
- `AgentForNextTime` is about agents that were `owed`, and about moments when none is starting.

## Disagreements with the code

Each is a run that TLC must find violated.

- `interrupted`: the fingerprint on record stays while a later sync rewrites the directory. If that sync is broken off, a
  client whose checkout has the recorded fingerprint takes the fast path and builds a mixture. `slots.rs:19-23`
  says that a match means the tree is up to date: `CachedMeansUpToDate` compares the directory with the checkout of
  the client that probes.
- `clash`: `(a_b, c)` and `(a, b_c)` have two slots and one directory, against `constants.rs:3-5`.
- `swapped`: where one checkout has a file `a` and the other `a/b`, the write fails, since stale files are deleted after
  the bundle is written and their directories never; `main.rs:198-201` promises a sync that finishes.
- `shared_name`: two remote runs of programs of one name write one file under `/tmp` and execute it in a later step, so
  one may execute the other's. `cli/README.md:6-7` says that no regular cargo command is broken.

Seen, and without a run of their own:

- The manifest and the fingerprint are two walks. A save between them makes the daemon record the new fingerprint
  for the old tree, and the next build of the unchanged checkout skips the sync. `interrupted` with `MaxEdits = 1` and
  without `MaxBreaks` shows it.
- The fingerprint has whole seconds and sizes (`cli/src/bin/abrasive.rs:216`). Two workstations whose files of one path have one
  size and were saved within one second have one fingerprint, and the second one's build reads the first one's tree.
  `interrupted` with `Path = {a}`, one `Stat` for both versions, and nothing broken off shows it.
- A stale file that cannot be read or removed stays, while the fingerprint of the tree without it is recorded (`daemon/src/main.rs:193`).
  From then on a probe with that fingerprint takes the fast path, and nothing tries to remove the file again until another tree is
  synced. Overlooked files violate `CachedMeansUpToDate` just as interrupted syncs do: `interrupted` shows it with
  `MaxBreaks = 0`, `MaxFailures = 1` and only `Overlook` left in `FailStep`.
- `drop-point/src/digest.rs:8` says that everything that affects the rlib's bytes is in the key. The compiler and the environment are not, and
  `TODO.md:10` lists rustc version and environment hash as work to do. Between releases of rustc cargo's own `-C metadata`, which is in the key, makes up for it; for
  environment variables that a crate reads with `env!` nothing does.
- A crate with a relative `-C profile-use` has a key and is never in the cache (above).
- `protocol/src/lib.rs:100-101` says of a message that ends the session that the agent should close the WebSocket. The agent returns from
  `proxy` and keeps it (`cli/src/bin/abrasive-agent.rs:141-143`), which is what it is for; `KeptIsClean` is about the kept one.
- `wasteland/web_app/src/pages/Tokens.tsx:110` tells the user that a regenerated key's predecessor stops working
  immediately; `auth.rs` caches it for five minutes, as its own header says.
- `SLOTS.md` speaks of four slots; `constants.rs:8` has one.
- `cli/src/bin/abrasive.rs:332-333` names `clean` among the commands that fall through to local cargo;
  `REMOTE_COMMANDS` has it.
- `drop-point/README.md:12-17` says that binaries, incremental builds and proc macros are cached;
  `rustc_args.rs:1053` and its neighbours refuse them. The README is a plan.

## Fairness

`BuildService!Fairness` is weak fairness of each daemon thread and of each CLI once its attempt has begun: the operating
system runs threads that can run, cargo terminates, and a closed connection is reported to the other end. Nothing
makes a client start, the developer edit, or a connection break; a `lost` link is never reported. Retrying every two
seconds (`poll_for_build`) is a new attempt, and no fairness between clients is assumed: one may be refused for ever.
`AgentProxy!Fairness` is the same for the agent and its peers. `Workstation` and `DropPoint` state no fairness and no liveness.
`BuildOutput!FairSpec` gives the reader threads, the
forwarding thread, the CLI and cargo's exit weak fairness, and none to a process that cargo leaves behind.

## Proofs

All theorems hold for every value of the constants: any number of clients, connections, keys, slots per key, paths,
contents, tokens, runs, rustc calls and upsets. They assume what the modules' `ASSUME`s say of the constants
(`DeploymentAssumption`, `SourceTreeAssumption`, `NetworkAssumption`, `CliAssumption`, `DaemonAssumption`, `BudgetAssumption`,
`AgentAssumption`, `TokenAssumption`, `OutputAssumption`, `WorkstationAssumption`, `DropPointAssumption`), which TLC evaluates in
the runs. Besides these, a few theorems name a hypothesis, and only those need it:

| hypothesis | what it says | where it holds |
|---|---|---|
| `WorkspacesDistinct` | no two slots have one directory | not of all keys: run `clash` is where it fails. Of the keys in `build_service`, `nested` and `liveness` |
| `StatDistinguishes` | mtime and size tell contents apart | not of two saves of one size in one second (see above). Only `BuildsReadTheTree` names it. In the runs `MCStatOf` gives each version its own |
| `KeysSound` | commands with one key are of one unit, read the same, plan the same, and plan no less than each of them makes, dep-info aside; none is a member's | of the commands in `drop_point`, where a key too coarse or a plan too short breaks `OutputsAreOwn`; not of crates whose sources the command line does not settle (`drop-point/src/digest.rs:13`). The compiler and the environment are not in it, as they are not in the key |
| `UnitsKeyed` | calls that make the same have one key, if they have any | two calls one after the other would break `OneEntryPerUnit` in `drop_point` if it failed |

`KeysSound` and `UnitsKeyed` are about command lines only: what `RustcArgs` and `Digest` compute from the words of the calls, before
anything runs. `KeysSound` is about the list of commands; `UnitsKeyed` is assumed of the initial state, and stays, since calls keep their
command lines (`ArgvStays`). `RustcMakes`, in `DropPointAssumption`, is about rustc and not about drop-point: with `link` it makes the files it prints, with
`metadata` the `.rmeta` files, with `dep-info` the `.d` file; and a profile given by its path exists.

`Slots_proofs`, about the slot table alone:

- `SlotSafety`: `SlotInv`. That no slot is held twice (`SlotExclusive`) is not inductive: a table that has forgotten a
  holder would lend its slot again. `SlotAccounted` (a slot is marked lent exactly while a guard holds it) is the
  missing half, and the two with the types are inductive.
- `DirectorySafety`: `DirectoryExclusive`, where `WorkspacesDistinct` holds. It does not hold of all keys, as run `clash`
  shows.
- `SlotsImplementLocks`: `SlotSpec` implements `SlotLock`. The holder of a slot is a `CHOOSE` over the guards
  (`HolderIsTheGuard` says that `SlotExclusive` makes it the one guard); `StepIsLockStep` maps acquire, drop and the
  process's death to steps of the lock.

`BuildService_proofs`, about the service as a whole:

- `ServiceSafety`: `ServiceInv`, the inductive invariant. The types are not inductive alone: what a CLI takes off a queue
  is typed only if its connection is one (`Connected`), and `try_acquire` gets a key and an index only if the thread
  serves a client (`Authenticated`). That a thread has a slot exactly between `try_acquire` and the end of `serve_build`
  (`HoldsItsSlot`) is what the directory and the cache entry a step works on rest on. There is a lemma for each side (`CliStepTyped`,
  `ServeProbeTyped`, `SyncStepTyped`, `ReleaseTyped`, `RestartTyped`), with a case per action, and `NextInv` puts them
  together. `ServiceTypes` is its corollary for `TypeOK`.
- `ServiceImplementsSlots`: every step of the service is a step of `SlotSpec` or leaves the table alone. So what is proved
  of the table holds of the service with all its errors and restarts: `ServiceSlots` (`SlotInv`), `ServiceLocks`
  (`SlotsAreLocks`), `ServiceDirectories` (`DirectoryExclusive`, where
  `WorkspacesDistinct`).

`Session_proofs` continues with what the two ends of a connection say to each other, in three layers:

- `SessionSafety`: `SessionInv`, the conversation. For each place a thread can be in, what may wait in its queue (`MailFits`); and for
  the client it serves, which places go together with which messages under way. The queues come in few shapes: empty,
  one message (`One`), one and the daemon's last word (`Two`), a stream of files with at most one `SyncDone`, at its end
  (`FileStream`). Neither `NoUnexpectedMessage` nor `TurnsAgree` is inductive, each looks at one end; both are
  corollaries (`SessionMessages`, `SessionTurns`).
- `SyncSafety`: `SyncInv`, where `WorkspacesDistinct`. It says what messages and variables mean. Each path the client has not edited
  since its attempt began, and that is not a stale file its sync has overlooked, is, while the daemon receives files, in place in the directory, on its way in a `FileData`, or
  outstanding (the client has yet to send it); when the last file is written, all are in place (`TreeTrue`). That manifests, probes and the
  thread's lists are of the client's tree (`MailTrue`, `ThreadTrue`, `CliTrue`) is what carries it. `SyncIsExact` (`SyncExact`) is a corollary.
  `WorkspacesDistinct` is needed: with it, no other thread writes where this one does.
- `TreesAreSteady` (`TreeSteady`), where `WorkspacesDistinct`: what a thread looks at when it decides to skip a sync is what its
  build reads. Every write of a file is by a thread, to the directory of the slot it holds (`ThreadTouches`, `RestartTouches`), and the
  thread itself writes no source file in these places (`OwnSourcesStay`). `ServiceInv` is enough.
- `RecordsSafety`: `RecordsInv`, where `WorkspacesDistinct`. The recorded fingerprint describes the directory as long as the slot's
  history is honest, and a build's fingerprint is the recorded one. So a skipped sync is as good as one that is done, which is
  `BuildsReadOwnTree` (`BuildReadsOwnTree`). That a fingerprint `Describes` a tree means that each file is some version of
  its mtime and size, so the theorem says what a build reads however little these tell. `BuildsReadTheTree` adds that
  where `StatDistinguishes` holds there is one such tree: the client's (`Determines`).

`AgentProxy_proofs`: `ProxySafety`, with `ProxyTypes`, `ProxyKeepsClean`, `ProxyUnderstood`, `ProxyTransparent` and `ProxyHint` as
corollaries. `KeptIsClean` is about the agent at rest, and what makes it true is what happens during a session: the messages on the websocket are of
the run being served, the one that ends the session is the last on its way down and the thread is idle behind it, and a
message that gives the turn away is the last in its direction (`WireOK`). `Transparent` is about what has been read; the invariant accounts
for everything said (`ServedOK`): what the CLI asked is what the thread heard, then what is on the websocket, then what is in the socket; and
the same the other way. That at most one side has anything unread (`DialogueOK`) makes the two fit. A run
that waits has asked for a proxy first, is in the backlog once, and has heard nothing (`WaitingOK`, `QueueOK`).

`ProxyRelays` is the second refinement that is proved, by the side that moves: a run's step is its turn (`RunTurns`: it reads the
next word or none, and only adds to what it has said), the daemon's is the daemon's (`DaemonTurns`: the thread serves the run that is
carried), and the agent's own steps begin a session, end one, or are not seen (`AgentRelays`). That the word read is the *next* one
follows from `Transparent` after the step: what is read stays a beginning of what is said, and grew by one. That a session
is begun on nothing is `WaitingOK`.

`TokenAuth_proofs`: `AuthSafety`, with `AuthTypes`, `StalenessTheorem` and `CacheTheorem` as corollaries. `StalenessBounded`
is not inductive: what a query brings back is as old as the query, and what the cache says is as old as the
query before it. `QueryOK` (a row that has not expired was valid when its query began, or later) and `CacheOK` (an answer
is good until its lifetime and one query after its row was last valid, at most) carry that from step to step.

`BuildOutput_proofs`: `OutputSafety`, with `CodeTheorem` and `RunTheorem`. What the CLI does last rests on what the daemon's thread
saw: a reader that has ended means that nobody holds the pipes and nothing is left in them (`ReadersOK`), and the parser
remembers the last line it took, wherever it is in the pipe (`ParserOK`). So every message that is on its
way is true and stays so (`MessageOK`, `Built`). `FlowSafety` adds where the bytes are: at any moment, what was
written of a stream is the whole lines shown, the CLI's buffer, the websocket, the channel and the pipe, one after the other, and
`BuildFinished` comes behind all of it (`FlowInv`). `OutputTypes` and `CompleteTheorem` (`OutputComplete`) are corollaries. `Tagged` folds over the bytes, and what it does to
two pieces joined, of any length, needs an induction; here it is over the length, by the first length at which the
claim fails (`Least`, from `WFMin`), since the provers cannot use the library's induction rules, which take an
operator.

`Workstation_proofs`: `AgentSafety`, with `WorkstationTypes`, `CurrentTheorem` and `NextTimeTheorem`. The two properties are about the agent
that can be reached now. The invariant is about those that may yet be: an agent that `Matters` (it has read its
token and may bind its socket, or has) holds the saved token, or is `Excused`: a login is on its way, waits in
its backlog, or missed it (`CurrentOK`). And the agent owed can be reached or will find no file in its way (`OwedOK`): it is
the last one to remove the file that counts, whichever that is. Both need that who waits is in
one backlog, once (`BacklogsOK`): else an agent that ends would release a login that waits for another.

`DropPoint_proofs` divides the work between the tools. What a key must
tell apart is a question of words and flags; TLC computes it for the calls of the run. What
concurrent calls, half-done extractions, expunges and power failures make of the store is proved for any commands.

- `OriginSafety` has no hypothesis: each file of a call, and each member of an entry, was made by rustc for a call with the same
  key, or is one of that call's inputs; and an entry has all of its members (`OriginInv`). That a file is there or not is
  not inductive, since a call that has extracted half a hit goes on to compile. That it has an `Origin` is. With it come `StoreTypes` (where
  `KeysSound`: else a call's input could be overwritten by what another makes), `PlannedTheorem` (`PlannedExists`: what a plan names is made, a file of rustc's for each `--emit`, or is read, as `PlansAreMade` derives
  from the code of the plan and `RustcMakes`; a relative profile is neither) and
  `OneEntryTheorem` (`OneEntryPerUnit`, where `UnitsKeyed`).
- `OutputsTheorem`: `OutputsAreOwn`, where `KeysSound`. An entry is right for every call of its key (`EntriesOK`), what a call has
  extracted so far is right (`ExtractOK`), and what it saves is what it made (`Saving`).
- `PublishedTheorem`: `PublishedOnce`, an action property.

`DropPointAssumption` says that commands are a list, what rustc makes (`RustcMakes`), that it leaves alone what it reads, and that no file it
makes or reads is `Absent`, the value for no file.

Out of the prover's reach and left to TLC: liveness under fairness (`AttemptEnds`, `SlotReturned`, `RunsEnd`,
`BuildEnds`), and whether the hypotheses about command lines hold, which is about what recursive functions make of lists of
words. Every
invariant and every action property of the passing runs is a theorem, and so are both refinements. The runs marked as violations
are TLC's alone.

## Not modelled

- TLS and the websocket handshake, argument rewriting (`--color`, the platform flag), exit codes, wording: none of them
  decides what another part does.
- Workspace discovery and the parsing of `abrasive.toml` are what they decide (a name or none, an error).
- What a target directory is like after a power failure.
- In `BuildOutput`: a reader that ends on a read error (`daemon/src/main.rs:710`), and an artifact parser that ends at a line which is not
  UTF-8 (`main.rs:649`).
- In `DropPoint`: what earlier or killed calls have left in an out-dir, which `save_outputs` would take for its own
  (`drop-point/src/lib.rs:194-197`): an out-dir starts empty and is one call's. The order in which files are extracted.
- In `AgentProxy`: the files of a sync are one word of the CLI, which `Cli` sends one by one.
- In `Workstation`: an agent that fails to remove the old socket file (`cli/src/bin/abrasive-agent.rs:27`) then fails to bind as it does
  where another file has come in its way; the removal itself always succeeds.
- In `RustcArgs`: a staticlib that is not also an rlib, checked with `--emit=metadata` only; words that differ in bytes
  a token does not show.
- The web site, the dashboard's pages, build, release and deployment, except that systemd restarts the daemon:
  they are rendering and configuration.

## Plan

Done: the slot table and its locks; the build service; the agent and the relay it implements; output; tokens; drop-point from
the command line to the store; the workstation with its agents and logins; the proofs above.

What is left, in this order:

1. `KeysSound` from conditions on single arguments: that `ShouldHash` drops only what does not change the product, and which
   command lines `join` (`drop-point/src/digest.rs:69`), which puts nothing between arguments, cannot confuse.
2. The clients' side of the service as a refinement: an abstract session (ask, sync or not, build, answer) that `BuildService`
   implements, as `AgentProxy` implements `Relay`.
3. `UnitsKeyed` from the normal form of arguments (`Normalize`, the sorts in `Digest`).
