---------------------------- MODULE BuildOutput -----------------------------
(* From cargo's pipes to the developer's terminal: daemon/src/main.rs,       *)
(* forward_build_output and forward_run_output with their reader threads,    *)
(* the websocket, and stream_build_output and try_remote in the CLI.         *)
EXTENDS Naturals, FiniteSets, SequencesExt

CONSTANTS
    Letter,     \* bytes other than the line feed
    LineFeed,
    Tag,        \* the "[remote]" the CLI prints before a line
    Executable, \* files cargo may report as bin artifacts, each by one line
    NoExecutable,
    Running,    \* cargo has not exited
    Signal,     \* cargo was killed by a signal: it has no exit code
    MaxBytes    \* bound: bytes, or artifact lines, written to a pipe

ASSUME OutputAssumption ==
    /\ NoExecutable \notin Executable
    /\ Running \notin {0, 101, Signal} /\ Signal \notin {0, 101}

Stream == {"stdout", "stderr"}

VARIABLES
    runIt,    \* `run`, rewritten to `build` with JSON messages on stdout
    writers,  \* who holds the pipes: cargo, and a process it left behind
    exit,     \* cargo's exit status, once it has one
    pipe,     \* stream -> bytes in the pipe
    written,  \* history: stream -> everything written to it
    reader,   \* stream -> is its thread still reading?
    last,     \* spawn_artifact_parser: the last executable reported
    chan,     \* the mpsc channel between the threads
    main,     \* the connection's thread in forward_*_output
    peer,     \* is the client's end of the websocket there?
    wire,     \* messages on it
    buf,      \* CLI: stream -> bytes of an unfinished line
    shown,    \* CLI: stream -> what was printed
    cli       \* CLI: [pc, code, artifact]

(* In a run, stdout carries one JSON line per artifact; a line is one item.  *)
Item(s) == IF runIt /\ s = "stdout" THEN Executable ELSE Letter \cup {LineFeed}

(* A reader thread or the artifact parser feeds what it read to this.        *)
Forwarded == IF runIt THEN {"stderr"} ELSE Stream

hostVars == <<writers, exit, pipe, written>>
daemonVars == <<reader, last, chan, main>>
cliVars == <<buf, shown, cli>>
vars == <<runIt, hostVars, daemonVars, peer, wire, cliVars>>

Init ==
    /\ runIt \in BOOLEAN
    /\ writers = {"cargo"}
    /\ exit = Running
    /\ pipe = [s \in Stream |-> <<>>]
    /\ written = [s \in Stream |-> <<>>]
    /\ reader = [s \in Stream |-> TRUE]
    /\ last = NoExecutable
    /\ chan = <<>>
    /\ main = "forward"
    /\ peer = TRUE
    /\ wire = <<>>
    /\ buf = [s \in Stream |-> <<>>]
    /\ shown = [s \in Stream |-> <<>>]
    /\ cli = [pc |-> "streaming", code |-> 0, artifact |-> NoExecutable]

-----------------------------------------------------------------------------
(* cargo and what it starts.                                                 *)

Write(s, c) ==
    /\ writers # {}
    /\ Len(written[s]) < MaxBytes
    /\ pipe' = [pipe EXCEPT ![s] = Append(@, c)]
    /\ written' = [written EXCEPT ![s] = Append(@, c)]
    /\ UNCHANGED <<runIt, writers, exit, daemonVars, peer, wire, cliVars>>

(* A test or build script leaves a process behind, with the pipes inherited. *)
LeaveChild ==
    /\ "cargo" \in writers
    /\ writers' = writers \cup {"child"}
    /\ UNCHANGED <<runIt, exit, pipe, written, daemonVars, peer, wire, cliVars>>

CargoExits(status) ==
    /\ "cargo" \in writers
    /\ writers' = writers \ {"cargo"}
    /\ exit' = status
    /\ UNCHANGED <<runIt, pipe, written, daemonVars, peer, wire, cliVars>>

ChildExits ==
    /\ "child" \in writers
    /\ writers' = writers \ {"child"}
    /\ UNCHANGED <<runIt, exit, pipe, written, daemonVars, peer, wire, cliVars>>

-----------------------------------------------------------------------------
(* The daemon.                                                               *)

(* spawn_pipe_reader: whatever a read returns becomes one message.           *)
ReadPipe(s) ==
    /\ s \in Forwarded
    /\ reader[s]
    /\ \E n \in 1 .. Len(pipe[s]) :
          /\ chan' = Append(chan, [kind |-> s, bytes |-> SubSeq(pipe[s], 1, n)])
          /\ pipe' = [pipe EXCEPT ![s] = SubSeq(@, n + 1, Len(@))]
    /\ UNCHANGED <<runIt, writers, exit, written, reader, last, main, peer, wire, cliVars>>

(* Variant: the first executable reported counts.                            *)
ParseFirstArtifact ==
    /\ "stdout" \notin Forwarded
    /\ pipe["stdout"] # <<>>
    /\ last' = IF last = NoExecutable THEN Head(pipe["stdout"]) ELSE last
    /\ pipe' = [pipe EXCEPT !["stdout"] = Tail(@)]
    /\ UNCHANGED <<runIt, writers, exit, written, reader, chan, main, peer, wire, cliVars>>

(* spawn_artifact_parser, one line.                                          *)
ParseArtifact ==
    /\ "stdout" \notin Forwarded
    /\ pipe["stdout"] # <<>>
    /\ last' = Head(pipe["stdout"])
    /\ pipe' = [pipe EXCEPT !["stdout"] = Tail(@)]
    /\ UNCHANGED <<runIt, writers, exit, written, reader, chan, main, peer, wire, cliVars>>

(* Variant: only the threads that hold a sender see the end.                 *)
EndOfForwarded(s) ==
    /\ s \in Forwarded
    /\ reader[s]
    /\ pipe[s] = <<>>
    /\ writers = {}
    /\ reader' = [reader EXCEPT ![s] = FALSE]
    /\ UNCHANGED <<runIt, hostVars, last, chan, main, peer, wire, cliVars>>

(* read returns 0: nobody holds the pipe's other end any more.  The thread   *)
(* ends, and with it its sender.                                             *)
EndOfPipe(s) ==
    /\ reader[s]
    /\ pipe[s] = <<>>
    /\ writers = {}
    /\ reader' = [reader EXCEPT ![s] = FALSE]
    /\ UNCHANGED <<runIt, hostVars, last, chan, main, peer, wire, cliVars>>

(* send_msg, its result ignored: without a peer it goes nowhere.             *)
SendMsgs(ms) == wire' = IF peer THEN wire \o ms ELSE wire

(* `for msg in rx`                                                           *)
Forward ==
    /\ main = "forward"
    /\ chan # <<>>
    /\ SendMsgs(<<Head(chan)>>)
    /\ chan' = Tail(chan)
    /\ UNCHANGED <<runIt, hostVars, reader, last, main, peer, cliVars>>

(* Variant: an empty channel is taken for a closed one.                      *)
ChannelEmpty ==
    /\ main = "forward"
    /\ chan = <<>>
    /\ main' = "wait"
    /\ UNCHANGED <<runIt, hostVars, reader, last, chan, peer, wire, cliVars>>

(* rx is empty and every sender is gone.                                     *)
ChannelCloses ==
    /\ main = "forward"
    /\ chan = <<>>
    /\ \A s \in Forwarded : ~reader[s]
    /\ main' = "wait"
    /\ UNCHANGED <<runIt, hostVars, reader, last, chan, peer, wire, cliVars>>

(* Variant: no exit code is no error.                                        *)
CodeOrZero(status) == IF status = Signal THEN 0 ELSE status

CodeOf(status) == IF status = Signal THEN 1 ELSE status

Finished == [kind |-> "BuildFinished", code |-> CodeOf(exit)]

(* child.wait; in a run parser.join, and the artifact of a build that        *)
(* succeeded, unless it cannot be read any more.  Then BuildFinished.        *)
Finish ==
    /\ main = "wait"
    /\ exit # Running
    /\ runIt => ~reader["stdout"]
    /\ \/ SendMsgs(<<Finished>>)
       \/ /\ runIt /\ CodeOf(exit) = 0 /\ last # NoExecutable
          /\ SendMsgs(<<[kind |-> "Executable", file |-> last], Finished>>)
    /\ main' = "done"
    /\ UNCHANGED <<runIt, hostVars, reader, last, chan, peer, cliVars>>

-----------------------------------------------------------------------------
(* The CLI.                                                                  *)

LastFeed(b) == Max({0} \cup {i \in DOMAIN b : b[i] = LineFeed})

(* Every line of b, whole ones only, behind a tag.                           *)
Tagged(b) ==
    FoldLeft(LAMBDA acc, c : acc \o (IF acc = <<>> \/ Last(acc) = LineFeed
                                     THEN <<Tag, c>> ELSE <<c>>), <<>>, b)

(* Variant: the rest of the bytes is buffered as it would be printed.        *)
ShowTaggedBuffer ==
    LET s   == Head(wire).kind
        b   == buf[s] \o Head(wire).bytes
        cut == LastFeed(b)
    IN  /\ cli.pc = "streaming" /\ peer
        /\ wire # <<>>
        /\ s \in Stream
        /\ shown' = [shown EXCEPT ![s] = @ \o Tagged(SubSeq(b, 1, cut))]
        /\ buf' = [buf EXCEPT ![s] = Tagged(SubSeq(b, cut + 1, Len(b)))]
        /\ wire' = Tail(wire)
        /\ UNCHANGED <<runIt, hostVars, daemonVars, peer, cli>>

(* flush_complete_lines                                                      *)
ShowOutput ==
    LET s   == Head(wire).kind
        b   == buf[s] \o Head(wire).bytes
        cut == LastFeed(b)
    IN  /\ cli.pc = "streaming" /\ peer
        /\ wire # <<>>
        /\ s \in Stream
        /\ shown' = [shown EXCEPT ![s] = @ \o Tagged(SubSeq(b, 1, cut))]
        /\ buf' = [buf EXCEPT ![s] = SubSeq(b, cut + 1, Len(b))]
        /\ wire' = Tail(wire)
        /\ UNCHANGED <<runIt, hostVars, daemonVars, peer, cli>>

TakeExecutable ==
    /\ cli.pc = "streaming" /\ peer
    /\ wire # <<>>
    /\ Head(wire).kind = "Executable"
    /\ cli' = [cli EXCEPT !.artifact = Head(wire).file]
    /\ wire' = Tail(wire)
    /\ UNCHANGED <<runIt, hostVars, daemonVars, peer, buf, shown>>

(* flush_trailing: an unfinished line is finished; an empty one is nothing.  *)
Trailing(b) == IF b = <<>> THEN <<>> ELSE <<Tag>> \o b \o <<LineFeed>>

(* BuildFinished; try_remote then runs the artifact or returns the code.     *)
FinishOutput ==
    /\ cli.pc = "streaming" /\ peer
    /\ wire # <<>>
    /\ Head(wire).kind = "BuildFinished"
    /\ shown' = [s \in Stream |-> shown[s] \o Trailing(buf[s])]
    /\ buf' = [s \in Stream |-> <<>>]
    /\ cli' = [cli EXCEPT !.code = Head(wire).code,
          !.pc = IF Head(wire).code = 0 /\ cli.artifact # NoExecutable
                 THEN "executing" ELSE "returned"]
    /\ wire' = Tail(wire)
    /\ UNCHANGED <<runIt, hostVars, daemonVars, peer>>

(* The CLI is interrupted; the build goes on.                                *)
HangUp ==
    /\ peer /\ cli.pc = "streaming"
    /\ peer' = FALSE
    /\ wire' = <<>>
    /\ cli' = [cli EXCEPT !.pc = "interrupted"]
    /\ UNCHANGED <<runIt, hostVars, daemonVars, buf, shown>>

-----------------------------------------------------------------------------
CargoSteps ==
    \/ \E s \in Stream : \E c \in Item(s) : Write(s, c)
    \/ LeaveChild
    \/ ChildExits

DaemonSteps ==
    \/ \E s \in Stream : ReadPipe(s) \/ EndOfPipe(s)
    \/ ParseArtifact
    \/ Forward
    \/ ChannelCloses
    \/ Finish

CliSteps == ShowOutput \/ TakeExecutable \/ FinishOutput

CargoEnds == \E status \in {0, 101, Signal} : CargoExits(status)

Settled == main = "done" /\ wire = <<>> /\ writers = {} /\ UNCHANGED vars

Next == CargoSteps \/ CargoEnds \/ DaemonSteps \/ CliSteps \/ HangUp \/ Settled

Spec == Init /\ [][Next]_vars

(* Threads that can run do, and cargo ends; a process it left need not.      *)
FairSpec ==
    /\ Spec
    /\ \A s \in Stream : WF_vars(ReadPipe(s) \/ EndOfPipe(s))
    /\ WF_vars(ParseArtifact)
    /\ WF_vars(Forward \/ ChannelCloses \/ Finish)
    /\ WF_vars(CliSteps)
    /\ WF_vars(CargoEnds)

-----------------------------------------------------------------------------
TypeOK ==
    /\ runIt \in BOOLEAN
    /\ writers \subseteq {"cargo", "child"}
    /\ exit \in {Running, 0, 101, Signal}
    /\ \A s \in Stream : pipe[s] \in Seq(Item(s)) /\ buf[s] \in Seq(Item(s))
    /\ reader \in [Stream -> BOOLEAN]
    /\ last \in Executable \cup {NoExecutable}
    /\ main \in {"forward", "wait", "done"}
    /\ peer \in BOOLEAN
    /\ cli.pc \in {"streaming", "executing", "returned", "interrupted"}

(* What the developer has seen of a stream, tags aside, is a beginning of    *)
(* what was written to it, in whole lines, and once the CLI returns it is    *)
(* all of it: nothing that cargo or a process it left wrote is dropped or    *)
(* overtaken by BuildFinished, however reads, threads and lines fall.        *)
OutputComplete ==
    \A s \in Forwarded :
        LET whole == Tagged(written[s])
            all   == IF whole = <<>> \/ Last(whole) = LineFeed THEN whole
                     ELSE Append(whole, LineFeed)
        IN  /\ cli.pc = "streaming" =>
                  /\ IsPrefix(shown[s], whole)
                  /\ shown[s] = <<>> \/ Last(shown[s]) = LineFeed
            /\ cli.pc \in {"executing", "returned"} => shown[s] = all

(* A program is run on the workstation only when cargo succeeded, and it is  *)
(* the last one cargo reported; a failed build never runs an older one.      *)
RunsWhatWasBuilt ==
    cli.pc = "executing" =>
        /\ runIt /\ exit = 0
        /\ cli.artifact = Last(written["stdout"])

(* The code the CLI returns is cargo's, and a build killed by a signal does  *)
(* not look like one that succeeded.                                         *)
CodeIsCargos ==
    cli.pc \in {"executing", "returned"} => (cli.code = 0 <=> exit = 0)

(* Once nobody holds cargo's pipes any more the build ends for the daemon,   *)
(* and for the CLI unless it hung up.  Until then it does not: a process     *)
(* that outlives cargo keeps the session, and the slot, open.                *)
BuildEnds ==
    writers = {} ~> main = "done" /\ cli.pc # "streaming"
=============================================================================
