-------------------------- MODULE BuildOutput_proofs --------------------------
(* That all output arrives, the exit code and the executable, for any output *)
(* of any length.                                                            *)
EXTENDS BuildOutput, SequenceTheorems, WellFoundedInduction, TLAPS

Bytes == Seq(Letter \cup {LineFeed})

Message ==
    [kind : Stream, bytes : Bytes]
        \cup [kind : {"Executable"}, file : Executable]
        \cup [kind : {"BuildFinished"}, code : {0, 1, 101}]

Shape ==
    /\ runIt \in BOOLEAN
    /\ writers \subseteq {"cargo", "child"}
    /\ exit \in {Running, 0, 101, Signal}
    /\ (exit = Running) <=> ("cargo" \in writers)
    /\ written = [s \in Stream |-> written[s]] /\ pipe = [s \in Stream |-> pipe[s]]
    /\ \A s \in Stream : written[s] \in Seq(Item(s)) /\ pipe[s] \in Seq(Item(s))
    /\ reader \in [Stream -> BOOLEAN]
    /\ last \in Executable \cup {NoExecutable}
    /\ chan \in Seq([kind : Stream, bytes : Bytes])
    /\ wire \in Seq(Message)
    /\ cli = [pc |-> cli.pc, code |-> cli.code, artifact |-> cli.artifact]

(* A reader thread ends when nothing can come any more.                      *)
ReadersOK == \A s \in Stream : ~reader[s] => writers = {} /\ pipe[s] = <<>>

(* How many artifact lines the parser has taken from the pipe; the last of   *)
(* them is the one it remembers.                                             *)
Parsed == Len(written["stdout"]) - Len(pipe["stdout"])

ParserOK ==
    runIt =>
        /\ Parsed \in Nat
        /\ \A i \in 1 .. Len(pipe["stdout"]) : pipe["stdout"][i] = written["stdout"][Parsed + i]
        /\ last = IF Parsed = 0 THEN NoExecutable ELSE written["stdout"][Parsed]

(* What may be said of an executable that is on its way, or has come.        *)
Built(file) ==
    /\ runIt /\ exit = 0 /\ ~reader["stdout"]
    /\ file = Last(written["stdout"])

(* What the connection's thread has sent after the output.                   *)
MessageOK(m) ==
    /\ m.kind = "BuildFinished" => exit # Running /\ m.code = CodeOf(exit)
    /\ m.kind = "Executable" => Built(m.file)

SentOK == \A i \in 1 .. Len(wire) : MessageOK(wire[i])

CliOK ==
    /\ cli.artifact # NoExecutable => Built(cli.artifact)
    /\ cli.pc \in {"executing", "returned"} => exit # Running /\ cli.code = CodeOf(exit)
    /\ cli.pc = "executing" => cli.artifact # NoExecutable

OutputInv == Shape /\ ReadersOK /\ ParserOK /\ SentOK /\ CliOK

-----------------------------------------------------------------------------
(* Before cargo has written anything.                                        *)
LEMMA InitInv == Init => OutputInv
<1> SUFFICES ASSUME Init PROVE OutputInv
    OBVIOUS
<1> USE DEF Init
<1>1. Shape
    BY OutputAssumption DEF Shape, Stream
<1>2. ReadersOK /\ ParserOK
    BY DEF ReadersOK, ParserOK, Parsed, Stream
<1>3. SentOK /\ CliOK
    BY DEF SentOK, CliOK
<1> QED BY <1>1, <1>2, <1>3 DEF OutputInv

-----------------------------------------------------------------------------
(* What has been said stays true as long as cargo's exit and the output do.  *)
LEMMA Stays ==
    ASSUME SentOK, CliOK, UNCHANGED <<wire, cli>>,
           exit # Running => exit' = exit,
           \A file : Built(file) => Built(file)'
    PROVE  SentOK' /\ CliOK'
<1>1. \A i \in 1 .. Len(wire) : MessageOK(wire[i])'
    BY DEF SentOK, MessageOK, CodeOf
<1>2. SentOK'
    BY <1>1 DEF SentOK, MessageOK
<1>3. CliOK'
    BY DEF CliOK, CodeOf
<1> QED BY <1>2, <1>3

(* While somebody holds the pipes nothing has been said of an executable.    *)
LEMMA NothingBuilt ==
    ASSUME Shape, ReadersOK, writers # {}
    PROVE  \A file : ~Built(file)
BY DEF Shape, ReadersOK, Built, Stream

(* Something is written.                                                     *)
LEMMA WriteInv ==
    ASSUME OutputInv, NEW s \in Stream, NEW c \in Item(s), Write(s, c)
    PROVE  OutputInv'
<1> USE DEF OutputInv
<1>1. /\ writers # {}
      /\ pipe' = [pipe EXCEPT ![s] = Append(@, c)]
      /\ written' = [written EXCEPT ![s] = Append(@, c)]
      /\ UNCHANGED <<runIt, writers, exit, reader, last, chan, wire, cli>>
    BY DEF Write, daemonVars, cliVars
<1>2. /\ written[s] \in Seq(Item(s)) /\ pipe[s] \in Seq(Item(s))
      /\ written = [t \in Stream |-> written[t]] /\ pipe = [t \in Stream |-> pipe[t]]
    BY DEF Shape
<1>3. /\ written'[s] = Append(written[s], c) /\ pipe'[s] = Append(pipe[s], c)
      /\ written' = [t \in Stream |-> written'[t]] /\ pipe' = [t \in Stream |-> pipe'[t]]
      /\ \A t \in Stream \ {s} : written'[t] = written[t] /\ pipe'[t] = pipe[t]
    BY <1>1, <1>2
<1>4. \A t \in Stream : Item(t)' = Item(t)
    BY <1>1 DEF Item
<1>5. Shape'
    <2>1. \A t \in Stream : written'[t] \in Seq(Item(t)) /\ pipe'[t] \in Seq(Item(t))
        <3>1. Append(written[s], c) \in Seq(Item(s)) /\ Append(pipe[s], c) \in Seq(Item(s))
            BY <1>2
        <3> QED BY <1>3, <3>1 DEF Shape
    <2> QED BY <1>1, <1>3, <1>4, <2>1 DEF Shape
<1>6. ReadersOK'
    BY <1>1 DEF ReadersOK, Shape
<1>7. ParserOK'
    <2>1. CASE s = "stdout"
        <3>1. /\ Len(written'[s]) = Len(written[s]) + 1 /\ Len(pipe'[s]) = Len(pipe[s]) + 1
              /\ Len(written[s]) \in Nat /\ Len(pipe[s]) \in Nat
            BY <1>2, <1>3
        <3>2. Parsed' = Parsed
            BY <2>1, <3>1 DEF Parsed
        <3>3. /\ \A i \in 1 .. Len(written[s]) : written'[s][i] = written[s][i]
              /\ \A i \in 1 .. Len(pipe[s]) : pipe'[s][i] = pipe[s][i]
              /\ written'[s][Len(written[s]) + 1] = c /\ pipe'[s][Len(pipe[s]) + 1] = c
            BY <1>2, <1>3
        <3> SUFFICES ASSUME runIt PROVE ParserOK'
            BY <1>1 DEF ParserOK
        <3>4. /\ Parsed \in Nat
              /\ \A i \in 1 .. Len(pipe[s]) : pipe[s][i] = written[s][Parsed + i]
              /\ last = IF Parsed = 0 THEN NoExecutable ELSE written[s][Parsed]
              /\ Parsed + Len(pipe[s]) = Len(written[s])
            <4>1. Parsed = Len(written[s]) - Len(pipe[s])
                BY <2>1 DEF Parsed
            <4>2. Parsed + Len(pipe[s]) = Len(written[s])
                BY <3>1, <4>1
            <4> QED BY <2>1, <4>2 DEF ParserOK
        <3>5. ASSUME NEW i \in 1 .. Len(pipe'[s])
              PROVE  pipe'[s][i] = written'[s][Parsed + i]
            <4>1. CASE i \in 1 .. Len(pipe[s])
                <5>1. Parsed + i \in 1 .. Len(written[s])
                    BY <3>1, <3>4, <4>1
                <5> QED BY <3>3, <3>4, <4>1, <5>1
            <4>2. CASE i = Len(pipe[s]) + 1
                <5>1. Parsed + i = Len(written[s]) + 1
                    <6>1. Parsed + (Len(pipe[s]) + 1) = Len(written[s]) + 1
                        <7>1. Parsed \in Nat /\ Len(pipe[s]) \in Nat /\ Len(written[s]) \in Nat
                            BY <3>1, <3>4
                        <7>2. Parsed + Len(pipe[s]) = Len(written[s])
                            BY <3>4
                        <7> QED BY <7>1, <7>2, SMT
                    <6> QED BY <4>2, <6>1
                <5> QED BY <3>3, <4>2, <5>1
            <4> QED BY <3>1, <3>5, <4>1, <4>2
        <3>6. last = IF Parsed = 0 THEN NoExecutable ELSE written'[s][Parsed]
            <4>1. Parsed # 0 => Parsed \in 1 .. Len(written[s])
                BY <3>1, <3>4
            <4> QED BY <3>3, <3>4, <4>1
        <3> QED BY <1>1, <2>1, <3>2, <3>4, <3>5, <3>6 DEF ParserOK
    <2>2. CASE s # "stdout"
        BY <1>1, <1>3, <2>2 DEF ParserOK, Parsed, Stream
    <2> QED BY <2>1, <2>2
<1>8. SentOK' /\ CliOK'
    BY <1>1, NothingBuilt, Stays
<1> QED BY <1>5, <1>6, <1>7, <1>8

(* Processes end, or leave others behind.                                    *)
LEMMA ProcessesInv ==
    ASSUME OutputInv, LeaveChild \/ ChildExits \/ CargoEnds
    PROVE  OutputInv'
<1> USE DEF OutputInv
<1>1. /\ writers # {}
      /\ UNCHANGED <<runIt, pipe, written, reader, last, chan, wire, cli>>
    BY DEF LeaveChild, ChildExits, CargoEnds, CargoExits, daemonVars, cliVars
<1>2. /\ writers' \subseteq {"cargo", "child"} /\ exit' \in {Running, 0, 101, Signal}
      /\ (exit' = Running) <=> ("cargo" \in writers')
      /\ exit # Running => exit' = exit
    BY OutputAssumption DEF LeaveChild, ChildExits, CargoEnds, CargoExits, Shape
<1>3. Shape'
    BY <1>1, <1>2 DEF Shape, Item
<1>4. ReadersOK' /\ ParserOK'
    BY <1>1 DEF ReadersOK, ParserOK, Parsed
<1>5. SentOK' /\ CliOK'
    BY <1>1, <1>2, NothingBuilt, Stays
<1> QED BY <1>3, <1>4, <1>5

-----------------------------------------------------------------------------
(* A reader thread takes what is there, or sees the end of it.               *)
LEMMA ReadInv ==
    ASSUME OutputInv, NEW s \in Stream, ReadPipe(s) \/ EndOfPipe(s)
    PROVE  OutputInv'
<1> USE DEF OutputInv
<1>1. UNCHANGED <<runIt, writers, exit, written, last, wire, cli>>
    BY DEF ReadPipe, EndOfPipe, hostVars, cliVars
<1>2. CASE EndOfPipe(s)
    <2>1. /\ pipe[s] = <<>> /\ writers = {} /\ UNCHANGED <<pipe, chan>>
          /\ reader' = [reader EXCEPT ![s] = FALSE]
        BY <1>2 DEF EndOfPipe, hostVars
    <2>2. Shape' /\ ReadersOK' /\ ParserOK'
        BY <1>1, <2>1 DEF Shape, ReadersOK, ParserOK, Parsed, Item
    <2>3. \A file : Built(file) => Built(file)'
        BY <1>1, <2>1 DEF Built, Shape, Stream
    <2> QED BY <1>1, <2>2, <2>3, Stays
<1>3. CASE ReadPipe(s)
    <2>1. /\ s \in Forwarded /\ UNCHANGED reader
        BY <1>3 DEF ReadPipe
    <2>2. PICK n \in 1 .. Len(pipe[s]) :
              /\ chan' = Append(chan, [kind |-> s, bytes |-> SubSeq(pipe[s], 1, n)])
              /\ pipe' = [pipe EXCEPT ![s] = SubSeq(@, n + 1, Len(@))]
        BY <1>3 DEF ReadPipe
    <2>3. pipe[s] \in Seq(Item(s)) /\ Len(pipe[s]) \in Nat /\ Item(s) = Letter \cup {LineFeed}
        BY <2>1 DEF Shape, Item, Forwarded, Stream
    <2>4. /\ SubSeq(pipe[s], 1, n) \in Bytes
          /\ SubSeq(pipe[s], n + 1, Len(pipe[s])) \in Seq(Item(s))
        BY <2>3 DEF Bytes
    <2>5. chan' \in Seq([kind : Stream, bytes : Bytes])
        BY <2>2, <2>4 DEF Shape
    <2>6. /\ pipe' = [t \in Stream |-> pipe'[t]]
          /\ \A t \in Stream : pipe'[t] \in Seq(Item(t))
          /\ \A t \in Stream \ {s} : pipe'[t] = pipe[t]
        BY <2>2, <2>4 DEF Shape
    <2>7. Shape'
        BY <1>1, <2>1, <2>5, <2>6 DEF Shape, Item
    <2>8. ReadersOK'
        BY <1>1, <1>3, <2>1, <2>6 DEF ReadersOK, ReadPipe
    <2>9. ParserOK'
        <3>1. runIt => pipe'["stdout"] = pipe["stdout"]
            BY <2>1, <2>6 DEF Forwarded, Stream
        <3> QED BY <1>1, <3>1 DEF ParserOK, Parsed
    <2>10. \A file : Built(file) => Built(file)'
        BY <1>1, <2>1 DEF Built
    <2> QED BY <1>1, <2>7, <2>8, <2>9, <2>10, Stays
<1> QED BY <1>2, <1>3

(* The parser takes a line.                                                  *)
LEMMA ParseArtifactInv ==
    ASSUME OutputInv, ParseArtifact
    PROVE  OutputInv'
<1> USE DEF OutputInv
<1> DEFINE p == pipe["stdout"]
           w == written["stdout"]
<1>1. /\ runIt /\ p # <<>> /\ last' = Head(p)
      /\ pipe' = [pipe EXCEPT !["stdout"] = Tail(@)]
      /\ UNCHANGED <<runIt, writers, exit, written, reader, chan, wire, cli>>
    BY DEF ParseArtifact, Forwarded, Stream, cliVars
<1>2. /\ p \in Seq(Executable) /\ w \in Seq(Executable)
      /\ pipe = [t \in Stream |-> pipe[t]]
    BY <1>1 DEF Shape, Item, Stream
<1>3. /\ Tail(p) \in Seq(Executable) /\ Head(p) = p[1] /\ Head(p) \in Executable
      /\ Len(p) \in Nat /\ Len(p) >= 1 /\ Len(Tail(p)) = Len(p) - 1 /\ Len(w) \in Nat
      /\ \A i \in 1 .. Len(p) - 1 : Tail(p)[i] = p[i + 1]
    BY <1>1, <1>2
<1>4. /\ pipe'["stdout"] = Tail(p) /\ pipe'["stderr"] = pipe["stderr"]
      /\ pipe' = [t \in Stream |-> pipe'[t]]
    BY <1>1, <1>2 DEF Stream
<1>5. Shape'
    <2>1. Item("stdout") = Executable
        BY <1>1 DEF Item
    <2>2. \A t \in Stream : pipe'[t] \in Seq(Item(t))
        BY <1>3, <1>4, <2>1 DEF Shape, Stream
    <2> QED BY <1>1, <1>3, <1>4, <2>2 DEF Shape, Item
<1>6. ReadersOK'
    BY <1>1, <1>4 DEF ReadersOK, Stream
<1>7. ParserOK'
    <2>1. /\ Parsed \in Nat /\ Parsed + Len(p) = Len(w)
          /\ \A i \in 1 .. Len(p) : p[i] = w[Parsed + i]
        <3>1. Parsed = Len(w) - Len(p)
            BY DEF Parsed
        <3>2. Parsed + Len(p) = Len(w)
            BY <1>3, <3>1
        <3> QED BY <1>1, <3>2 DEF ParserOK
    <2>2. Parsed' = Parsed + 1
        <3>1. Parsed = Len(w) - Len(p) /\ Parsed' = Len(w) - Len(Tail(p))
            BY <1>1, <1>4 DEF Parsed
        <3>2. Len(w) \in Nat /\ Len(p) \in Nat /\ Len(Tail(p)) = Len(p) - 1
            BY <1>3
        <3>3. \A m, n \in Nat : m - (n - 1) = (m - n) + 1
            OBVIOUS
        <3>4. Len(w) - (Len(p) - 1) = (Len(w) - Len(p)) + 1
            BY <3>2, <3>3
        <3> QED BY <3>1, <3>2, <3>4
    <2>3. ASSUME NEW i \in 1 .. Len(p) - 1 PROVE Tail(p)[i] = w[Parsed + 1 + i]
        <3>1. i + 1 \in 1 .. Len(p) /\ Parsed + (i + 1) = Parsed + 1 + i
            BY <1>3, <2>1, <2>3
        <3> QED BY <1>3, <2>1, <2>3, <3>1
    <2>4. last' = w[Parsed + 1]
        BY <1>1, <1>3, <2>1
    <2>5. Len(pipe'["stdout"]) = Len(p) - 1 /\ written' = written
        BY <1>1, <1>3, <1>4
    <2>6. /\ Parsed' \in Nat /\ Parsed' # 0
          /\ \A i \in 1 .. Len(pipe'["stdout"]) : pipe'["stdout"][i] = written'["stdout"][Parsed' + i]
          /\ last' = written'["stdout"][Parsed']
        BY <1>4, <2>1, <2>2, <2>3, <2>4, <2>5
    <2> QED BY <2>6 DEF ParserOK
<1>8. SentOK' /\ CliOK'
    BY <1>1, Stays DEF Built
<1> QED BY <1>5, <1>6, <1>7, <1>8

-----------------------------------------------------------------------------
(* Cargo and the readers stand still.                                        *)
Quiet == UNCHANGED <<runIt, writers, exit, pipe, written, reader, last>>

(* Then what may be said does not change.                                    *)
LEMMA QuietKeeps ==
    ASSUME OutputInv, Quiet
    PROVE  /\ ReadersOK' /\ ParserOK'
           /\ \A m : MessageOK(m) => MessageOK(m)'
           /\ \A file : Built(file) => Built(file)'
           /\ chan' \in Seq([kind : Stream, bytes : Bytes]) /\ wire' \in Seq(Message)
                  /\ cli' = [pc |-> cli.pc, code |-> cli.code, artifact |-> cli.artifact]' => Shape'
<1> USE DEF OutputInv, Quiet
<1>1. ReadersOK' /\ ParserOK'
    BY DEF ReadersOK, ParserOK, Parsed
<1>2. /\ \A file : Built(file) => Built(file)'
      /\ \A m : MessageOK(m) => MessageOK(m)'
    BY DEF Built, MessageOK, CodeOf
<1>3. chan' \in Seq([kind : Stream, bytes : Bytes]) /\ wire' \in Seq(Message)
          /\ cli' = [pc |-> cli.pc, code |-> cli.code, artifact |-> cli.artifact]' => Shape'
    BY DEF Shape, Item
<1> QED BY <1>1, <1>2, <1>3

(* A queue without its first element, and a single message.                  *)
LEMMA HeadTail ==
    ASSUME NEW S, NEW q \in Seq(S), q # <<>>
    PROVE  Head(q) \in S /\ Tail(q) \in Seq(S)
OBVIOUS

LEMMA Single ==
    ASSUME NEW S, NEW x \in S
    PROVE  <<x>> \in Seq(S) /\ \A i \in 1 .. Len(<<x>>) : <<x>>[i] = x
OBVIOUS

(* Messages go out.                                                          *)
LEMMA SendInv ==
    ASSUME OutputInv, Quiet, UNCHANGED cli, NEW ms \in Seq(Message), SendMsgs(ms),
           \A i \in 1 .. Len(ms) : MessageOK(ms[i]),
           chan' \in Seq([kind : Stream, bytes : Bytes])
    PROVE  OutputInv'
<1> USE DEF OutputInv
<1>1. wire \in Seq(Message) /\ SentOK /\ CliOK
    BY DEF Shape
<1>2. /\ wire \o ms \in Seq(Message)
      /\ \A i \in 1 .. Len(wire \o ms) : MessageOK((wire \o ms)[i])
    <2>1. /\ wire \o ms \in Seq(Message)
          /\ Len(wire) \in Nat /\ Len(ms) \in Nat /\ Len(wire \o ms) = Len(wire) + Len(ms)
          /\ \A i \in 1 .. Len(wire) + Len(ms) :
                (wire \o ms)[i] = IF i <= Len(wire) THEN wire[i] ELSE ms[i - Len(wire)]
        BY <1>1
    <2>2. ASSUME NEW i \in 1 .. Len(wire) + Len(ms) PROVE MessageOK((wire \o ms)[i])
        <3>1. CASE i <= Len(wire)
            <4>1. i \in 1 .. Len(wire) /\ (wire \o ms)[i] = wire[i]
                BY <2>1, <3>1
            <4> QED BY <1>1, <4>1 DEF SentOK
        <3>2. CASE ~(i <= Len(wire))
            <4>1. i - Len(wire) \in 1 .. Len(ms) /\ (wire \o ms)[i] = ms[i - Len(wire)]
                BY <2>1, <3>2
            <4> QED BY <4>1
        <3> QED BY <3>1, <3>2
    <2> QED BY <2>1, <2>2
<1>3. wire' \in Seq(Message) /\ \A i \in 1 .. Len(wire') : MessageOK(wire'[i])
    BY <1>1, <1>2 DEF SendMsgs, SentOK
<1>4. SentOK'
    BY <1>3, QuietKeeps DEF SentOK
<1>5. CliOK'
    BY <1>1, QuietKeeps DEF CliOK, Quiet, CodeOf
<1>6. cli' = [pc |-> cli.pc, code |-> cli.code, artifact |-> cli.artifact]'
    BY DEF Shape
<1> QED BY <1>3, <1>4, <1>5, <1>6, QuietKeeps

(* The connection's thread.                                                  *)
LEMMA MainInv ==
    ASSUME OutputInv, Forward \/ ChannelCloses \/ Finish
    PROVE  OutputInv'
<1> USE DEF OutputInv
<1>1. Quiet /\ UNCHANGED cli
    BY DEF Forward, ChannelCloses, Finish, Quiet, hostVars, cliVars
<1>2. CASE Forward
    <2> DEFINE m == Head(chan)
    <2>1. /\ chan # <<>> /\ SendMsgs(<<m>>) /\ chan' = Tail(chan)
          /\ chan \in Seq([kind : Stream, bytes : Bytes])
        BY <1>2 DEF Forward, Shape
    <2>2. /\ chan' \in Seq([kind : Stream, bytes : Bytes])
          /\ m \in [kind : Stream, bytes : Bytes]
        BY <2>1, HeadTail
    <2> HIDE DEF m
    <2>3. m \in Message /\ MessageOK(m)
        BY <2>2 DEF Message, MessageOK, Stream
    <2>4. <<m>> \in Seq(Message) /\ \A i \in 1 .. Len(<<m>>) : MessageOK(<<m>>[i])
        BY <2>3, Single
    <2> QED BY <1>1, <2>1, <2>2, <2>3, <2>4, SendInv
<1>3. CASE ChannelCloses
    <2>1. UNCHANGED <<chan, wire>> /\ chan \in Seq([kind : Stream, bytes : Bytes])
        BY <1>3 DEF ChannelCloses, Shape
    <2>2. SentOK' /\ CliOK'
        BY <1>1, <2>1, QuietKeeps DEF SentOK, CliOK, Quiet, CodeOf
    <2> QED BY <1>1, <2>1, <2>2, QuietKeeps DEF Shape
<1>4. CASE Finish
    <2> DEFINE e == [kind |-> "Executable", file |-> last]
    <2>1. /\ exit # Running /\ (runIt => ~reader["stdout"])
          /\ chan' \in Seq([kind : Stream, bytes : Bytes])
        BY <1>4 DEF Finish, Shape
    <2>2. Finished \in Message /\ MessageOK(Finished)
        BY <2>1, OutputAssumption DEF Finished, Message, MessageOK, CodeOf, Shape
    <2>3. CASE SendMsgs(<<Finished>>)
        <3>1. <<Finished>> \in Seq(Message) /\ \A i \in 1 .. Len(<<Finished>>) : MessageOK(<<Finished>>[i])
            BY <2>2, Single
        <3> QED BY <1>1, <2>1, <2>2, <2>3, <3>1, SendInv
    <2>4. CASE runIt /\ CodeOf(exit) = 0 /\ last # NoExecutable /\ SendMsgs(<<e, Finished>>)
        <3>1. exit = 0
            BY <2>1, <2>4 DEF CodeOf
        <3>2. last = Last(written["stdout"])
            <4>1. pipe["stdout"] = <<>>
                BY <2>1, <2>4 DEF ReadersOK, Stream
            <4>2. Len(written["stdout"]) \in Nat
                BY DEF Shape, Stream
            <4>3. Parsed = Len(written["stdout"])
                BY <4>1, <4>2 DEF Parsed
            <4> QED BY <2>4, <4>3 DEF ParserOK, Last
        <3>3. MessageOK(e)
            BY <2>1, <2>4, <3>1, <3>2 DEF MessageOK, Built
        <3>4. e \in Message
            BY <2>4 DEF Message, Shape
        <3>5. /\ <<e, Finished>> \in Seq(Message) /\ Len(<<e, Finished>>) = 2
              /\ <<e, Finished>>[1] = e /\ <<e, Finished>>[2] = Finished
            BY <2>2, <3>4
        <3>6. \A i \in 1 .. 2 : MessageOK(<<e, Finished>>[i])
            BY <2>2, <3>3, <3>5
        <3> QED BY <1>1, <2>1, <2>4, <3>5, <3>6, SendInv
    <2> QED BY <1>4, <2>3, <2>4 DEF Finish
<1> QED BY <1>2, <1>3, <1>4

(* The CLI takes a message, or hangs up.                                     *)
LEMMA CliInv ==
    ASSUME OutputInv, CliSteps \/ HangUp
    PROVE  OutputInv'
<1> USE DEF OutputInv
<1>1. Quiet /\ UNCHANGED chan
    BY DEF CliSteps, ShowOutput, TakeExecutable, FinishOutput, HangUp, Quiet, hostVars, daemonVars
<1>2. /\ wire \in Seq(Message) /\ chan \in Seq([kind : Stream, bytes : Bytes])
      /\ cli = [pc |-> cli.pc, code |-> cli.code, artifact |-> cli.artifact]
    BY DEF Shape
<1>3. ASSUME wire # <<>>
      PROVE  /\ Tail(wire) \in Seq(Message)
             /\ \A i \in 1 .. Len(Tail(wire)) : MessageOK(Tail(wire)[i])
             /\ MessageOK(Head(wire))
    <2>1. /\ Tail(wire) \in Seq(Message) /\ Len(wire) \in Nat /\ Len(wire) >= 1
          /\ Len(Tail(wire)) = Len(wire) - 1 /\ Head(wire) = wire[1]
          /\ \A i \in 1 .. Len(wire) - 1 : Tail(wire)[i] = wire[i + 1]
        BY <1>2, <1>3
    <2> QED BY <2>1 DEF SentOK
<1>4. CASE ShowOutput
    <2>1. wire # <<>> /\ wire' = Tail(wire) /\ UNCHANGED cli
        BY <1>4 DEF ShowOutput
    <2>2. SentOK' /\ CliOK'
        BY <1>1, <1>3, <2>1, QuietKeeps DEF SentOK, CliOK, Quiet, CodeOf
    <2> QED BY <1>1, <1>2, <1>3, <2>1, <2>2, QuietKeeps
<1>5. CASE TakeExecutable
    <2>1. /\ wire # <<>> /\ wire' = Tail(wire) /\ cli.pc = "streaming"
          /\ Head(wire).kind = "Executable"
          /\ cli' = [pc |-> "streaming", code |-> cli.code, artifact |-> Head(wire).file]
        BY <1>2, <1>5 DEF TakeExecutable
    <2>2. Built(Head(wire).file)
        BY <1>3, <2>1 DEF MessageOK
    <2>3. SentOK'
        BY <1>1, <1>3, <2>1, QuietKeeps DEF SentOK
    <2>4. CliOK'
        BY <1>1, <2>1, <2>2, QuietKeeps DEF CliOK
    <2> QED BY <1>1, <1>2, <1>3, <2>1, <2>3, <2>4, QuietKeeps
<1>6. CASE FinishOutput
    <2>1. PICK pc \in {"executing", "returned"} :
              /\ wire # <<>> /\ wire' = Tail(wire)
              /\ Head(wire).kind = "BuildFinished"
              /\ cli' = [pc |-> pc, code |-> Head(wire).code, artifact |-> cli.artifact]
              /\ pc = "executing" => cli.artifact # NoExecutable
        BY <1>2, <1>6 DEF FinishOutput
    <2>2. exit # Running /\ Head(wire).code = CodeOf(exit)
        BY <1>3, <2>1 DEF MessageOK
    <2>3. SentOK'
        BY <1>1, <1>3, <2>1, QuietKeeps DEF SentOK
    <2>4. CliOK'
        BY <1>1, <2>1, <2>2, QuietKeeps DEF CliOK, Quiet, CodeOf
    <2> QED BY <1>1, <1>2, <1>3, <2>1, <2>3, <2>4, QuietKeeps
<1>7. CASE HangUp
    <2>1. /\ wire' = <<>>
          /\ cli' = [pc |-> "interrupted", code |-> cli.code, artifact |-> cli.artifact]
        BY <1>2, <1>7 DEF HangUp
    <2>2. wire' \in Seq(Message) /\ SentOK'
        BY <2>1 DEF SentOK
    <2>3. CliOK'
        BY <1>1, <2>1, QuietKeeps DEF CliOK
    <2> QED BY <1>1, <1>2, <2>1, <2>2, <2>3, QuietKeeps
<1> QED BY <1>4, <1>5, <1>6, <1>7 DEF CliSteps

-----------------------------------------------------------------------------
(* Every step keeps the invariant.                                           *)
LEMMA StepInv == OutputInv /\ [Next]_vars => OutputInv'
<1> SUFFICES ASSUME OutputInv, [Next]_vars PROVE OutputInv'
    OBVIOUS
<1>1. CASE UNCHANGED vars
    <2>1. Quiet /\ UNCHANGED <<chan, wire, cli>>
        BY <1>1 DEF vars, hostVars, daemonVars, cliVars, Quiet
    <2>2. SentOK' /\ CliOK'
        BY <2>1, QuietKeeps DEF SentOK, CliOK, OutputInv, Quiet, CodeOf
    <2> QED BY <2>1, <2>2, QuietKeeps DEF OutputInv, Shape
<1>2. CASE CargoSteps \/ CargoEnds
    BY <1>2, WriteInv, ProcessesInv DEF CargoSteps
<1>3. CASE DaemonSteps
    BY <1>3, ReadInv, ParseArtifactInv, MainInv DEF DaemonSteps
<1>4. CASE CliSteps \/ HangUp
    BY <1>4, CliInv
<1>5. CASE Settled
    BY <1>1, <1>5 DEF Settled
<1> QED BY <1>1, <1>2, <1>3, <1>4, <1>5 DEF Next

(* The invariant of what is said of a build.                                 *)
THEOREM OutputSafety == Spec => []OutputInv
BY InitInv, StepInv, PTL DEF Spec

(* The code the CLI returns is cargo's, whatever the build wrote and however *)
(* it was read, and a build that was killed is no success.                   *)
THEOREM CodeTheorem == Spec => []CodeIsCargos
<1>1. OutputInv => CodeIsCargos
    BY OutputAssumption DEF OutputInv, Shape, CliOK, CodeOf, CodeIsCargos
<1> QED BY <1>1, OutputSafety, PTL

(* What is run on the workstation is the last executable cargo reported, of  *)
(* a build that succeeded.                                                   *)
THEOREM RunTheorem == Spec => []RunsWhatWasBuilt
<1>1. OutputInv => RunsWhatWasBuilt
    BY DEF OutputInv, CliOK, Built, RunsWhatWasBuilt
<1> QED BY <1>1, OutputSafety, PTL

-----------------------------------------------------------------------------
(* Induction: a set of natural numbers that is not empty has a least member, *)
(* so that a claim that fails for some number fails for a first one.         *)
LEMMA Least ==
    ASSUME NEW T, T \subseteq Nat, T # {}
    PROVE  \E m \in T : \A k \in T : m <= k
<1> DEFINE less == OpToRel(<, Nat)
<1>1. IsWellFoundedOn(less, Nat)
    BY NatLessThanWellFounded
<1>2. \A x, y \in Nat : x < y => <<x, y>> \in less
    BY DEF OpToRel
<1> HIDE DEF less
<1>3. PICK m \in T : \A y \in T : ~(<<y, m>> \in less)
    BY <1>1, WFMin
<1>4. ASSUME NEW k \in T PROVE m <= k
    <2>1. ~(k < m)
        BY <1>2, <1>3
    <2> QED BY <2>1
<1> QED BY <1>4

LEMMA Greatest ==
    ASSUME NEW n \in Nat, NEW T, T \subseteq 0 .. n, T # {}
    PROVE  Max(T) \in T /\ \A k \in T : k <= Max(T)
<1> DEFINE below == {n - k : k \in T}
<1>1. below \subseteq Nat /\ below # {}
    OBVIOUS
<1>2. PICK m \in below : \A k \in below : m <= k
    BY <1>1, Least
<1>3. PICK t \in T : m = n - t
    OBVIOUS
<1>4. ASSUME NEW k \in T PROVE t >= k
    <2>1. n - k \in below /\ k \in 0 .. n /\ t \in 0 .. n
        OBVIOUS
    <2>2. m <= n - k
        BY <1>2, <2>1
    <2> QED BY <1>3, <2>1, <2>2
<1>5. Max(T) \in T /\ \A k \in T : Max(T) >= k
    BY <1>4 DEF Max
<1>6. ASSUME NEW k \in T PROVE k <= Max(T)
    <2>1. k \in 0 .. n /\ Max(T) \in 0 .. n /\ Max(T) >= k
        BY <1>5
    <2> QED BY <2>1
<1> QED BY <1>5, <1>6

LEMMA GreatestUpTo ==
    ASSUME NEW n \in Nat, n # 0
    PROVE  Max(1 .. n) = n /\ (1 .. n) \ {n} = 1 .. n - 1 /\ 1 .. n # {}
<1>1. 1 .. n \subseteq 0 .. n /\ n \in 1 .. n
    OBVIOUS
<1>2. Max(1 .. n) \in 1 .. n /\ n <= Max(1 .. n)
    BY <1>1, Greatest
<1> QED BY <1>1, <1>2

-----------------------------------------------------------------------------
(* What Tagged computes.  One more byte comes behind what is there:          *)
Join(acc, c) == acc \o (IF acc = <<>> \/ Last(acc) = LineFeed THEN <<Tag, c>> ELSE <<c>>)

(* the fold goes over the sets of places in b.                               *)
FoldsTo(b, n, g) ==
    g = [s \in SUBSET (1 .. n) |->
            IF s = {} THEN <<>> ELSE Join(g[s \ {Max(s)}], b[Max(s)])]

LEMMA FoldGrows ==
    ASSUME NEW b, NEW n \in Nat, NEW g, FoldsTo(b, n, g)
    PROVE  \E h : FoldsTo(b, n + 1, h)
<1> DEFINE m == n + 1
           h == [s \in SUBSET (1 .. m) |->
                    IF m \in s THEN Join(g[s \ {m}], b[m]) ELSE g[s]]
<1>1. ASSUME NEW s \in SUBSET (1 .. m), m \in s
      PROVE  Max(s) = m /\ s \ {m} \in SUBSET (1 .. n) /\ s # {} /\ m \notin s \ {m}
             /\ s \ {m} \in SUBSET (1 .. m)
    <2>1. m \in Nat /\ s \subseteq 0 .. m /\ \A k \in s \ {m} : k \in 1 .. n
        BY <1>1
    <2>2. Max(s) \in s /\ m <= Max(s)
        BY <1>1, <2>1, Greatest
    <2> HIDE DEF m, h
    <2>3. Max(s) \in 1 .. m
        BY <2>2
    <2>4. Max(s) = m
        BY <2>1, <2>2, <2>3
    <2> QED BY <1>1, <2>1, <2>4
<1>2. ASSUME NEW s \in SUBSET (1 .. m), m \notin s
      PROVE  s \in SUBSET (1 .. n)
    BY <1>2
<1>3. ASSUME NEW s \in SUBSET (1 .. n), s # {}
      PROVE  Max(s) \in s /\ s \ {Max(s)} \in SUBSET (1 .. n)
    <2>1. s \subseteq 0 .. n
        OBVIOUS
    <2> QED BY <1>3, <2>1, Greatest
<1>4. ASSUME NEW s \in SUBSET (1 .. m)
      PROVE  h[s] = IF s = {} THEN <<>> ELSE Join(h[s \ {Max(s)}], b[Max(s)])
    <2>1. CASE m \in s
        <3>1. h[s] = Join(g[s \ {m}], b[m]) /\ h[s \ {m}] = g[s \ {m}]
            BY <1>1, <2>1
        <3> QED BY <1>1, <2>1, <3>1
    <2>2. CASE m \notin s
        <3>1. s \in SUBSET (1 .. n) /\ h[s] = g[s]
            BY <1>2, <2>2
        <3>2. g[s] = IF s = {} THEN <<>> ELSE Join(g[s \ {Max(s)}], b[Max(s)])
            BY <3>1 DEF FoldsTo
        <3>3. ASSUME s # {} PROVE h[s \ {Max(s)}] = g[s \ {Max(s)}]
            <4>1. s \ {Max(s)} \in SUBSET (1 .. m) /\ m \notin s \ {Max(s)}
                BY <2>2, <3>1
            <4> QED BY <4>1
        <3> QED BY <3>1, <3>2, <3>3
    <2> QED BY <2>1, <2>2
<1>5. FoldsTo(b, m, h)
    <2> HIDE DEF m
    <2>1. h = [s \in SUBSET (1 .. m) |-> h[s]]
        OBVIOUS
    <2> HIDE DEF h
    <2> QED BY <1>4, <2>1 DEF FoldsTo
<1> QED BY <1>5

LEMMA FoldExists ==
    ASSUME NEW b, NEW n \in Nat
    PROVE  \E g : FoldsTo(b, n, g)
<1> DEFINE bad == {m \in Nat : ~\E g : FoldsTo(b, m, g)}
<1>1. SUFFICES ASSUME bad # {} PROVE FALSE
    OBVIOUS
<1>2. PICK m \in bad : \A k \in bad : m <= k
    BY <1>1, Least
<1>3. CASE m = 0
    <2> DEFINE g == [s \in SUBSET (1 .. 0) |-> <<>>]
    <2>1. \A s \in SUBSET (1 .. 0) : s = {}
        OBVIOUS
    <2>2. FoldsTo(b, 0, g)
        BY <2>1 DEF FoldsTo
    <2> QED BY <1>3, <2>2
<1>4. CASE m # 0
    <2>1. m - 1 \in Nat /\ ~(m <= m - 1) /\ (m - 1) + 1 = m
        BY <1>4
    <2>2. m - 1 \notin bad
        BY <1>2, <2>1
    <2>3. PICK g : FoldsTo(b, m - 1, g)
        BY <2>1, <2>2
    <2>4. \E h : FoldsTo(b, (m - 1) + 1, h)
        BY <2>1, <2>3, FoldGrows
    <2> QED BY <2>1, <2>4
<1> QED BY <1>3, <1>4

(* Tagged, byte by byte.                                                     *)
Fold(b) == CHOOSE g : FoldsTo(b, Len(b), g)

LEMMA TaggedFold ==
    ASSUME NEW S, NEW b \in Seq(S)
    PROVE  /\ Tagged(b) = Fold(b)[1 .. Len(b)]
           /\ Fold(b)[1 .. 0] = <<>>
           /\ \A n \in 1 .. Len(b) : Fold(b)[1 .. n] = Join(Fold(b)[1 .. n - 1], b[n])
<1>1. DOMAIN b = 1 .. Len(b) /\ Len(b) \in Nat
    OBVIOUS
<1>2. FoldsTo(b, Len(b), Fold(b))
    BY <1>1, FoldExists DEF Fold
<1>3. Tagged(b) = Fold(b)[1 .. Len(b)]
    <2>1. Tagged(b) = (CHOOSE g : g = [s \in SUBSET DOMAIN b |->
              IF s = {} THEN <<>> ELSE Join(g[s \ {Max(s)}], b[Max(s)])])[DOMAIN b]
        BY Zenon DEF Tagged, FoldLeft, MapThenFoldSet, Join
    <2>2. Tagged(b) = (CHOOSE g : g = [s \in SUBSET (1 .. Len(b)) |->
              IF s = {} THEN <<>> ELSE Join(g[s \ {Max(s)}], b[Max(s)])])[1 .. Len(b)]
        BY <1>1, <2>1, Zenon
    <2> QED BY <2>2, Zenon DEF Fold, FoldsTo
<1>4. Fold(b)[1 .. 0] = <<>>
    <2>1. 1 .. 0 = {} /\ 1 .. 0 \in SUBSET (1 .. Len(b))
        OBVIOUS
    <2> QED BY <1>2, <2>1 DEF FoldsTo
<1>5. ASSUME NEW n \in 1 .. Len(b)
      PROVE  Fold(b)[1 .. n] = Join(Fold(b)[1 .. n - 1], b[n])
    <2>1. 1 .. n \in SUBSET (1 .. Len(b)) /\ n \in Nat /\ n # 0
        BY <1>1
    <2>2. Max(1 .. n) = n /\ (1 .. n) \ {n} = 1 .. n - 1 /\ 1 .. n # {}
        BY <2>1, GreatestUpTo
    <2>3. Fold(b)[1 .. n] = IF 1 .. n = {} THEN <<>>
              ELSE Join(Fold(b)[(1 .. n) \ {Max(1 .. n)}], b[Max(1 .. n)])
        BY <1>2, <2>1 DEF FoldsTo
    <2> QED BY <2>2, <2>3
<1> QED BY <1>3, <1>4, <1>5

LEMMA TaggedEmpty == Tagged(<<>>) = <<>>
<1>1. <<>> \in Seq({}) /\ Len(<<>>) = 0
    OBVIOUS
<1> QED BY <1>1, TaggedFold

LEMMA TaggedAppend ==
    ASSUME NEW S, NEW b \in Seq(S), NEW c \in S
    PROVE  Tagged(Append(b, c)) = Join(Tagged(b), c)
<1> DEFINE a == Append(b, c)
<1>1. /\ a \in Seq(S) /\ Len(b) \in Nat /\ Len(a) = Len(b) + 1
      /\ a[Len(b) + 1] = c
      /\ \A n \in 1 .. Len(b) : a[n] = b[n]
    OBVIOUS
<1> HIDE DEF a
<1>2. ASSUME NEW n \in Nat PROVE n <= Len(b) => Fold(a)[1 .. n] = Fold(b)[1 .. n]
    <2> DEFINE bad == {m \in Nat : m <= Len(b) /\ Fold(a)[1 .. m] # Fold(b)[1 .. m]}
    <2>1. SUFFICES ASSUME bad # {} PROVE FALSE
        OBVIOUS
    <2>2. PICK m \in bad : \A k \in bad : m <= k
        BY <2>1, Least
    <2>3. CASE m = 0
        <3>1. Fold(a)[1 .. 0] = <<>> /\ Fold(b)[1 .. 0] = <<>>
            BY <1>1, TaggedFold
        <3> QED BY <2>3, <3>1
    <2>4. CASE m # 0
        <3>1. m - 1 \in Nat /\ ~(m <= m - 1) /\ m - 1 <= Len(b) /\ m \in 1 .. Len(b) /\ m \in 1 .. Len(a)
            BY <1>1, <2>4
        <3>2. Fold(a)[1 .. m - 1] = Fold(b)[1 .. m - 1]
            BY <2>2, <3>1
        <3>3. /\ Fold(a)[1 .. m] = Join(Fold(a)[1 .. m - 1], a[m])
              /\ Fold(b)[1 .. m] = Join(Fold(b)[1 .. m - 1], b[m])
            BY <1>1, <3>1, TaggedFold
        <3>4. a[m] = b[m]
            BY <1>1, <3>1
        <3>5. Fold(a)[1 .. m] = Fold(b)[1 .. m]
            BY <3>2, <3>3, <3>4
        <3> QED BY <3>5
    <2> QED BY <2>3, <2>4
<1>3. Tagged(a) = Join(Fold(a)[1 .. Len(b)], c)
    <2>1. Len(b) + 1 \in 1 .. Len(a) /\ (Len(b) + 1) - 1 = Len(b)
        BY <1>1
    <2>2. /\ Tagged(a) = Fold(a)[1 .. Len(a)]
          /\ \A n \in 1 .. Len(a) : Fold(a)[1 .. n] = Join(Fold(a)[1 .. n - 1], a[n])
        BY <1>1, TaggedFold
    <2>3. Fold(a)[1 .. Len(b) + 1] = Join(Fold(a)[1 .. (Len(b) + 1) - 1], a[Len(b) + 1])
        BY <2>1, <2>2
    <2> QED BY <1>1, <2>1, <2>2, <2>3
<1>4. Fold(a)[1 .. Len(b)] = Tagged(b)
    <2>1. Tagged(b) = Fold(b)[1 .. Len(b)]
        BY TaggedFold
    <2> QED BY <1>1, <1>2, <2>1
<1> QED BY <1>3, <1>4 DEF a

(* A sequence is empty, or has a last element.                               *)
LEMMA Unappend ==
    ASSUME NEW S, NEW b \in Seq(S), b # <<>>
    PROVE  \E a \in Seq(S) : \E c \in S :
               b = Append(a, c) /\ Len(a) = Len(b) - 1 /\ c = b[Len(b)] /\ c = Last(b)
<1>1. PICK a \in Seq(S), c \in S : b = Append(a, c)
    BY SequenceEmptyOrAppend
<1>2. Len(b) = Len(a) + 1 /\ Len(a) \in Nat /\ b[Len(b)] = c
    BY <1>1, AppendProperties
<1>3. Len(a) = Len(b) - 1
    BY <1>2
<1> QED BY <1>1, <1>2, <1>3 DEF Last

LEMMA ConcatAppend ==
    ASSUME NEW S, NEW a \in Seq(S), NEW b \in Seq(S), NEW c \in S
    PROVE  a \o Append(b, c) = Append(a \o b, c)
<1>1. /\ a \o Append(b, c) \in Seq(S) /\ Append(a \o b, c) \in Seq(S)
      /\ Len(a \o Append(b, c)) = Len(a) + Len(b) + 1
      /\ Len(Append(a \o b, c)) = Len(a) + Len(b) + 1
    OBVIOUS
<1>2. \A i \in 1 .. Len(a) + Len(b) + 1 : (a \o Append(b, c))[i] = Append(a \o b, c)[i]
    OBVIOUS
<1> QED BY <1>1, <1>2, SeqEqual

LEMMA Assoc ==
    ASSUME NEW S, NEW a \in Seq(S), NEW b \in Seq(S), NEW c \in Seq(S)
    PROVE  (a \o b) \o c = a \o (b \o c)
<1>1. /\ (a \o b) \o c \in Seq(S) /\ a \o (b \o c) \in Seq(S)
      /\ Len((a \o b) \o c) = Len(a) + Len(b) + Len(c)
      /\ Len(a \o (b \o c)) = Len(a) + Len(b) + Len(c)
    OBVIOUS
<1>2. \A i \in 1 .. Len(a) + Len(b) + Len(c) : ((a \o b) \o c)[i] = (a \o (b \o c))[i]
    OBVIOUS
<1> QED BY <1>1, <1>2, SeqEqual

(* The end of a concatenation.                                               *)
LEMMA LastOfConcat ==
    ASSUME NEW S, NEW a \in Seq(S), NEW b \in Seq(S), b # <<>>
    PROVE  Last(a \o b) = Last(b) /\ a \o b # <<>>
BY DEF Last

LEMMA LastOfAppend ==
    ASSUME NEW S, NEW a \in Seq(S), NEW c \in S
    PROVE  Last(Append(a, c)) = c /\ Append(a, c) # <<>>
BY DEF Last

LEMMA EmptyConcat ==
    ASSUME NEW S, NEW a \in Seq(S)
    PROVE  a \o <<>> = a /\ <<>> \o a = a
OBVIOUS

-----------------------------------------------------------------------------
(* What Tagged does to lines.  It adds nothing but tags,                     *)
LEMMA JoinTyped ==
    ASSUME NEW S, NEW a \in Seq(S \cup {Tag}), NEW c \in S
    PROVE  Join(a, c) \in Seq(S \cup {Tag}) /\ Join(a, c) # <<>> /\ Last(Join(a, c)) = c
<1>1. PICK e \in Seq(S \cup {Tag}) : e # <<>> /\ Last(e) = c /\ Join(a, c) = a \o e
    <2>1. /\ <<Tag, c>> \in Seq(S \cup {Tag}) /\ <<Tag, c>> # <<>> /\ Last(<<Tag, c>>) = c
          /\ <<c>> \in Seq(S \cup {Tag}) /\ <<c>> # <<>> /\ Last(<<c>>) = c
        BY DEF Last
    <2> QED BY <2>1 DEF Join
<1> QED BY <1>1, LastOfConcat

LEMMA TaggedTyped ==
    ASSUME NEW S, NEW b \in Seq(S)
    PROVE  /\ Tagged(b) \in Seq(S \cup {Tag})
           /\ b # <<>> => Tagged(b) # <<>> /\ Last(Tagged(b)) = Last(b)
<1> DEFINE bad == {n \in Nat : \E a \in Seq(S) : Len(a) = n /\ Tagged(a) \notin Seq(S \cup {Tag})}
<1>1. Tagged(b) \in Seq(S \cup {Tag}) /\ \A a \in Seq(S) : Tagged(a) \in Seq(S \cup {Tag})
    <2>1. SUFFICES ASSUME bad # {} PROVE FALSE
        OBVIOUS
    <2>2. PICK n \in bad : \A k \in bad : n <= k
        BY <2>1, Least
    <2>3. PICK a \in Seq(S) : Len(a) = n /\ Tagged(a) \notin Seq(S \cup {Tag})
        OBVIOUS
    <2>4. CASE a = <<>>
        BY <2>3, <2>4, TaggedEmpty
    <2>5. CASE a # <<>>
        <3>1. PICK d \in Seq(S), c \in S : a = Append(d, c) /\ Len(d) = Len(a) - 1
            BY <2>5, Unappend
        <3>2. Len(d) \notin bad /\ Len(d) \in Nat
            <4>1. Len(d) \in Nat /\ n \in Nat /\ ~(n <= Len(d))
                BY <2>3, <3>1
            <4> QED BY <2>2, <4>1
        <3>3. Tagged(d) \in Seq(S \cup {Tag})
            BY <3>2
        <3>4. Tagged(a) \in Seq(S \cup {Tag})
            BY <3>1, <3>3, TaggedAppend, JoinTyped
        <3> QED BY <2>3, <3>4
    <2> QED BY <2>4, <2>5
<1>2. ASSUME b # <<>> PROVE Tagged(b) # <<>> /\ Last(Tagged(b)) = Last(b)
    <2>1. PICK d \in Seq(S), c \in S : b = Append(d, c) /\ c = Last(b)
        BY <1>2, Unappend
    <2>2. Tagged(b) = Join(Tagged(d), c)
        BY <2>1, TaggedAppend
    <2> QED BY <1>1, <2>1, <2>2, JoinTyped
<1> QED BY <1>1, <1>2

(* behind whole lines it starts afresh,                                      *)
WholeLines(d) == d = <<>> \/ Last(d) = LineFeed

LEMMA TaggedStep ==
    ASSUME NEW S, NEW d \in Seq(S), NEW a \in Seq(S), NEW c \in S, WholeLines(d),
           Tagged(d \o a) = Tagged(d) \o Tagged(a)
    PROVE  Tagged(d \o Append(a, c)) = Tagged(d) \o Tagged(Append(a, c))
<1> DEFINE D == Tagged(d)
           A == Tagged(a)
           e == IF A = <<>> \/ Last(A) = LineFeed THEN <<Tag, c>> ELSE <<c>>
<1>1. D \in Seq(S \cup {Tag}) /\ A \in Seq(S \cup {Tag})
    BY TaggedTyped
<1>2. e \in Seq(S \cup {Tag})
    <2>1. <<Tag, c>> \in Seq(S \cup {Tag}) /\ <<c>> \in Seq(S \cup {Tag})
        OBVIOUS
    <2> QED BY <2>1
<1>3. Tagged(Append(a, c)) = A \o e
    BY TaggedAppend DEF Join
<1>4. Tagged(d \o Append(a, c)) = Join(D \o A, c)
    <2>1. d \o Append(a, c) = Append(d \o a, c) /\ d \o a \in Seq(S)
        BY ConcatAppend
    <2>2. Tagged(Append(d \o a, c)) = Join(Tagged(d \o a), c)
        BY <2>1, TaggedAppend
    <2> QED BY <2>1, <2>2
<1>5. (D \o A = <<>> \/ Last(D \o A) = LineFeed) <=> (A = <<>> \/ Last(A) = LineFeed)
    <2>1. CASE A = <<>>
        <3>1. D \o A = D
            BY <1>1, <2>1, EmptyConcat
        <3>2. D = <<>> \/ Last(D) = LineFeed
            BY TaggedEmpty, TaggedTyped DEF WholeLines
        <3> QED BY <2>1, <3>1, <3>2
    <2>2. CASE A # <<>>
        BY <1>1, <2>2, LastOfConcat
    <2> QED BY <2>1, <2>2
<1>6. Join(D \o A, c) = (D \o A) \o e
    BY <1>5 DEF Join
<1> HIDE DEF D, A, e
<1>7. (D \o A) \o e = D \o (A \o e)
    BY <1>1, <1>2, Assoc, SMTT(30)
<1> QED BY <1>3, <1>4, <1>6, <1>7 DEF D

LEMMA TaggedConcat ==
    ASSUME NEW S, NEW d \in Seq(S), WholeLines(d), NEW b \in Seq(S)
    PROVE  Tagged(d \o b) = Tagged(d) \o Tagged(b)
<1> DEFINE bad == {n \in Nat : \E a \in Seq(S) :
                      Len(a) = n /\ Tagged(d \o a) # Tagged(d) \o Tagged(a)}
<1>1. SUFFICES ASSUME bad # {} PROVE FALSE
    OBVIOUS
<1>2. PICK n \in bad : \A k \in bad : n <= k
    BY <1>1, Least
<1>3. PICK a \in Seq(S) : Len(a) = n /\ Tagged(d \o a) # Tagged(d) \o Tagged(a)
    OBVIOUS
<1>4. CASE a = <<>>
    <2>1. d \o a = d /\ Tagged(a) = <<>>
        BY <1>4, EmptyConcat, TaggedEmpty
    <2>2. Tagged(d) \in Seq(S \cup {Tag})
        BY TaggedTyped
    <2>3. Tagged(d) \o <<>> = Tagged(d)
        BY <2>2, EmptyConcat
    <2> QED BY <1>3, <2>1, <2>3
<1>5. CASE a # <<>>
    <2>1. PICK e \in Seq(S), c \in S : a = Append(e, c) /\ Len(e) = Len(a) - 1
        BY <1>5, Unappend
    <2>2. Len(e) \in Nat /\ n \in Nat /\ ~(n <= Len(e))
        BY <1>3, <2>1
    <2>3. Tagged(d \o e) = Tagged(d) \o Tagged(e)
        BY <1>2, <2>2
    <2>4. Tagged(d \o a) = Tagged(d) \o Tagged(a)
        BY <2>1, <2>3, TaggedStep
    <2> QED BY <1>3, <2>4
<1> QED BY <1>4, <1>5

(* and an unfinished line it gives one tag.                                  *)
LEMMA TaggedLine ==
    ASSUME NEW S, NEW b \in Seq(S), b # <<>>, \A i \in 1 .. Len(b) : b[i] # LineFeed
    PROVE  Tagged(b) = <<Tag>> \o b
<1> DEFINE Line(a) == a # <<>> /\ \A i \in 1 .. Len(a) : a[i] # LineFeed
           bad == {n \in Nat : \E a \in Seq(S) : Len(a) = n /\ Line(a) /\ Tagged(a) # <<Tag>> \o a}
<1>1. SUFFICES ASSUME bad # {} PROVE FALSE
    OBVIOUS
<1>2. PICK n \in bad : \A k \in bad : n <= k
    BY <1>1, Least
<1>3. PICK a \in Seq(S) : Len(a) = n /\ Line(a) /\ Tagged(a) # <<Tag>> \o a
    OBVIOUS
<1>4. PICK e \in Seq(S), c \in S : a = Append(e, c) /\ Len(e) = Len(a) - 1
    <2>1. a # <<>>
        BY <1>3
    <2> QED BY <2>1, Unappend, ZenonT(40)
<1>5. Tagged(a) = Join(Tagged(e), c)
    BY <1>4, TaggedAppend
<1>6. CASE e = <<>>
    <2>1. Tagged(a) = <<>> \o <<Tag, c>>
        BY <1>5, <1>6, TaggedEmpty DEF Join
    <2>2. <<>> \o <<Tag, c>> = <<Tag>> \o <<c>> /\ Append(<<>>, c) = <<c>>
        OBVIOUS
    <2> QED BY <1>3, <1>4, <1>6, <2>1, <2>2
<1>7. CASE e # <<>>
    <2>1. Line(e)
        <3>1. \A i \in 1 .. Len(e) : i \in 1 .. Len(a) /\ e[i] = a[i]
            BY <1>4
        <3> QED BY <1>3, <1>7, <3>1
    <2>2. Len(e) \in Nat /\ n \in Nat /\ ~(n <= Len(e))
        BY <1>3, <1>4
    <2>3. Tagged(e) = <<Tag>> \o e
        BY <1>2, <2>1, <2>2
    <2>4. Last(e) # LineFeed
        BY <1>7, <2>1 DEF Last
    <2>5. Tagged(e) # <<>> /\ Last(Tagged(e)) # LineFeed
        BY <1>7, <2>4, TaggedTyped
    <2>6. Tagged(a) = (<<Tag>> \o e) \o <<c>>
        BY <1>5, <2>3, <2>5 DEF Join
    <2>7. (<<Tag>> \o e) \o <<c>> = <<Tag>> \o Append(e, c)
        <3>1. <<Tag>> \in Seq(S \cup {Tag}) /\ e \in Seq(S \cup {Tag}) /\ <<c>> \in Seq(S \cup {Tag})
            OBVIOUS
        <3>2. (<<Tag>> \o e) \o <<c>> = <<Tag>> \o (e \o <<c>>)
            BY <3>1, Assoc
        <3>3. e \o <<c>> = Append(e, c)
            OBVIOUS
        <3> QED BY <3>2, <3>3
    <2> QED BY <1>3, <1>4, <2>6, <2>7
<1> QED BY <1>6, <1>7

-----------------------------------------------------------------------------
(* The bytes of one stream in a queue of messages.                           *)
Part(s, m) == IF m.kind = s THEN m.bytes ELSE <<>>

GathersTo(s, q, n, f) ==
    f = [m \in 0 .. n |-> IF m = 0 THEN <<>> ELSE f[m - 1] \o Part(s, q[m])]

Gather(s, q) == CHOOSE f : GathersTo(s, q, Len(q), f)

Content(s, q) == Gather(s, q)[Len(q)]

LEMMA GatherExists ==
    ASSUME NEW s, NEW q, NEW n \in Nat
    PROVE  \E f : GathersTo(s, q, n, f)
<1> DEFINE bad == {m \in Nat : ~\E f : GathersTo(s, q, m, f)}
<1>1. SUFFICES ASSUME bad # {} PROVE FALSE
    OBVIOUS
<1>2. PICK m \in bad : \A k \in bad : m <= k
    BY <1>1, Least
<1>3. CASE m = 0
    <2> DEFINE f == [k \in 0 .. 0 |-> <<>>]
    <2>1. \A k \in 0 .. 0 : k = 0
        OBVIOUS
    <2>2. GathersTo(s, q, 0, f)
        BY <2>1 DEF GathersTo
    <2> QED BY <1>3, <2>2
<1>4. CASE m # 0
    <2>1. m - 1 \in Nat /\ ~(m <= m - 1) /\ m \in Nat
        BY <1>4
    <2>2. PICK f : GathersTo(s, q, m - 1, f)
        BY <1>2, <2>1
    <2> DEFINE g == [k \in 0 .. m |-> IF k = m THEN f[m - 1] \o Part(s, q[m]) ELSE f[k]]
    <2>3. ASSUME NEW k \in 0 .. m
          PROVE  g[k] = IF k = 0 THEN <<>> ELSE g[k - 1] \o Part(s, q[k])
        <3>1. CASE k = m
            <4>1. m - 1 \in 0 .. m /\ m - 1 # m /\ g[m - 1] = f[m - 1]
                BY <2>1
            <4> QED BY <1>4, <3>1, <4>1
        <3>2. CASE k # m
            <4>1. k \in 0 .. m - 1 /\ g[k] = f[k]
                BY <2>1, <3>2
            <4>2. f[k] = IF k = 0 THEN <<>> ELSE f[k - 1] \o Part(s, q[k])
                BY <2>2, <4>1 DEF GathersTo
            <4>3. k # 0 => k - 1 \in 0 .. m /\ k - 1 # m
                BY <2>1, <4>1
            <4>4. k # 0 => g[k - 1] = f[k - 1]
                BY <4>3
            <4> QED BY <4>1, <4>2, <4>4
        <3> QED BY <3>1, <3>2
    <2>4. g = [k \in 0 .. m |-> g[k]]
        OBVIOUS
    <2> HIDE DEF g
    <2>5. GathersTo(s, q, m, g)
        BY <2>3, <2>4 DEF GathersTo
    <2> QED BY <2>5
<1> QED BY <1>3, <1>4

LEMMA GatherSteps ==
    ASSUME NEW s, NEW S, NEW q \in Seq(S)
    PROVE  /\ Gather(s, q)[0] = <<>>
           /\ \A n \in 1 .. Len(q) : Gather(s, q)[n] = Gather(s, q)[n - 1] \o Part(s, q[n])
<1>1. Len(q) \in Nat
    OBVIOUS
<1>2. GathersTo(s, q, Len(q), Gather(s, q))
    BY <1>1, GatherExists DEF Gather
<1>3. 0 \in 0 .. Len(q) /\ \A n \in 1 .. Len(q) : n \in 0 .. Len(q) /\ n # 0
    BY <1>1
<1> HIDE DEF Gather
<1> QED BY <1>2, <1>3 DEF GathersTo

LEMMA ContentEmpty == ASSUME NEW s PROVE Content(s, <<>>) = <<>>
<1>1. <<>> \in Seq({}) /\ Len(<<>>) = 0
    OBVIOUS
<1> QED BY <1>1, GatherSteps DEF Content

LEMMA ContentAppend ==
    ASSUME NEW s, NEW S, NEW q \in Seq(S), NEW m \in S
    PROVE  Content(s, Append(q, m)) = Content(s, q) \o Part(s, m)
<1> DEFINE a == Append(q, m)
<1>1. /\ a \in Seq(S) /\ Len(q) \in Nat /\ Len(a) = Len(q) + 1
      /\ a[Len(q) + 1] = m
      /\ \A n \in 1 .. Len(q) : a[n] = q[n]
    OBVIOUS
<1> HIDE DEF a
<1>2. ASSUME NEW n \in Nat PROVE n <= Len(q) => Gather(s, a)[n] = Gather(s, q)[n]
    <2> DEFINE bad == {k \in Nat : k <= Len(q) /\ Gather(s, a)[k] # Gather(s, q)[k]}
    <2>1. SUFFICES ASSUME bad # {} PROVE FALSE
        OBVIOUS
    <2>2. PICK k \in bad : \A j \in bad : k <= j
        BY <2>1, Least
    <2>3. CASE k = 0
        BY <1>1, <2>3, GatherSteps
    <2>4. CASE k # 0
        <3>1. k - 1 \in Nat /\ ~(k <= k - 1) /\ k - 1 <= Len(q) /\ k \in 1 .. Len(q) /\ k \in 1 .. Len(a)
            BY <1>1, <2>4
        <3>2. Gather(s, a)[k - 1] = Gather(s, q)[k - 1]
            BY <2>2, <3>1
        <3>3. /\ Gather(s, a)[k] = Gather(s, a)[k - 1] \o Part(s, a[k])
              /\ Gather(s, q)[k] = Gather(s, q)[k - 1] \o Part(s, q[k])
            BY <1>1, <3>1, GatherSteps
        <3>4. a[k] = q[k]
            BY <1>1, <3>1
        <3>5. Gather(s, a)[k] = Gather(s, q)[k]
            BY <3>2, <3>3, <3>4
        <3> QED BY <3>5
    <2> QED BY <2>3, <2>4
<1>3. Gather(s, a)[Len(q) + 1] = Gather(s, a)[Len(q)] \o Part(s, m)
    <2>1. Len(q) + 1 \in 1 .. Len(a) /\ (Len(q) + 1) - 1 = Len(q)
        BY <1>1
    <2>2. Gather(s, a)[Len(q) + 1] = Gather(s, a)[(Len(q) + 1) - 1] \o Part(s, a[Len(q) + 1])
        BY <1>1, <2>1, GatherSteps, ZenonT(40)
    <2> QED BY <1>1, <2>1, <2>2
<1>4. Gather(s, a)[Len(q)] = Gather(s, q)[Len(q)]
    BY <1>1, <1>2
<1> QED BY <1>1, <1>3, <1>4 DEF Content, a

(* Bytes behind bytes.                                                       *)
LEMMA BytesConcat ==
    ASSUME NEW a \in Bytes, NEW b \in Bytes
    PROVE  a \o b \in Bytes
BY ConcatProperties DEF Bytes

LEMMA BytesAssoc ==
    ASSUME NEW a \in Bytes, NEW b \in Bytes, NEW c \in Bytes
    PROVE  (a \o b) \o c = a \o (b \o c)
BY Assoc DEF Bytes

LEMMA BytesAppend ==
    ASSUME NEW a \in Bytes, NEW b \in Bytes, NEW c \in Letter \cup {LineFeed}
    PROVE  a \o Append(b, c) = Append(a \o b, c)
BY ConcatAppend DEF Bytes

LEMMA BytesEmpty ==
    ASSUME NEW a \in Bytes
    PROVE  <<>> \in Bytes /\ a \o <<>> = a /\ <<>> \o a = a
BY EmptyConcat DEF Bytes

(* For messages these are bytes.                                             *)
LEMMA PartTyped ==
    ASSUME NEW s \in Stream, NEW m \in Message
    PROVE  Part(s, m) \in Bytes
<1>1. <<>> \in Bytes
    BY DEF Bytes
<1>2. m.kind = s => m.bytes \in Bytes
    BY DEF Message, Stream
<1> QED BY <1>1, <1>2 DEF Part

LEMMA ContentTyped ==
    ASSUME NEW s \in Stream, NEW q \in Seq(Message)
    PROVE  Content(s, q) \in Bytes
<1> DEFINE bad == {n \in Nat : \E a \in Seq(Message) : Len(a) = n /\ Content(s, a) \notin Bytes}
<1>1. SUFFICES ASSUME bad # {} PROVE FALSE
    OBVIOUS
<1>2. PICK n \in bad : \A k \in bad : n <= k
    BY <1>1, Least
<1>3. PICK a \in Seq(Message) : Len(a) = n /\ Content(s, a) \notin Bytes
    OBVIOUS
<1>4. CASE a = <<>>
    BY <1>3, <1>4, ContentEmpty DEF Bytes
<1>5. CASE a # <<>>
    <2>1. PICK d \in Seq(Message), m \in Message : a = Append(d, m) /\ Len(d) = Len(a) - 1
        BY <1>5, Unappend
    <2>2. Len(d) \in Nat /\ n \in Nat /\ ~(n <= Len(d))
        BY <1>3, <2>1
    <2>3. Content(s, d) \in Bytes /\ Part(s, m) \in Bytes
        BY <1>2, <2>2, PartTyped
    <2>4. Content(s, a) \in Bytes
        <3>1. Content(s, a) = Content(s, d) \o Part(s, m)
            BY <2>1, ContentAppend
        <3> QED BY <2>3, <3>1, BytesConcat
    <2> QED BY <1>3, <2>4
<1> QED BY <1>4, <1>5

LEMMA ContentFirst ==
    ASSUME NEW s \in Stream, NEW m \in Message, NEW q \in Seq(Message)
    PROVE  Content(s, <<m>> \o q) = Part(s, m) \o Content(s, q)
<1> DEFINE bad == {n \in Nat : \E a \in Seq(Message) :
                      Len(a) = n /\ Content(s, <<m>> \o a) # Part(s, m) \o Content(s, a)}
<1>1. SUFFICES ASSUME bad # {} PROVE FALSE
    OBVIOUS
<1>2. PICK n \in bad : \A k \in bad : n <= k
    BY <1>1, Least
<1>3. PICK a \in Seq(Message) : Len(a) = n /\ Content(s, <<m>> \o a) # Part(s, m) \o Content(s, a)
    OBVIOUS
<1>4. Part(s, m) \in Bytes /\ <<m>> \in Seq(Message) /\ <<>> \in Seq(Message)
    BY PartTyped
<1>5. CASE a = <<>>
    <2>1. <<m>> \o a = Append(<<>>, m)
        BY <1>5
    <2>2. Content(s, <<m>> \o a) = <<>> \o Part(s, m)
        BY <1>4, <2>1, ContentEmpty, ContentAppend, ZenonT(40)
    <2>3. <<>> \o Part(s, m) = Part(s, m) /\ Part(s, m) \o <<>> = Part(s, m)
        BY <1>4, EmptyConcat DEF Bytes
    <2> QED BY <1>3, <1>5, <2>2, <2>3, ContentEmpty
<1>6. CASE a # <<>>
    <2>1. PICK d \in Seq(Message), l \in Message : a = Append(d, l) /\ Len(d) = Len(a) - 1
        BY <1>6, Unappend
    <2>2. Len(d) \in Nat /\ n \in Nat /\ ~(n <= Len(d))
        BY <1>3, <2>1
    <2>3. Content(s, <<m>> \o d) = Part(s, m) \o Content(s, d)
        BY <1>2, <2>2
    <2>4. <<m>> \o a = Append(<<m>> \o d, l) /\ <<m>> \o d \in Seq(Message)
        BY <1>4, <2>1, ConcatAppend
    <2>5. Content(s, <<m>> \o a) = (Part(s, m) \o Content(s, d)) \o Part(s, l)
        BY <2>3, <2>4, ContentAppend
    <2>6. Content(s, a) = Content(s, d) \o Part(s, l)
        BY <2>1, ContentAppend
    <2>7. Content(s, d) \in Bytes /\ Part(s, l) \in Bytes
        BY ContentTyped, PartTyped
    <2>8. (Part(s, m) \o Content(s, d)) \o Part(s, l) = Part(s, m) \o (Content(s, d) \o Part(s, l))
        BY <1>4, <2>7, BytesAssoc
    <2> QED BY <1>3, <2>5, <2>6, <2>8
<1> QED BY <1>5, <1>6

LEMMA ContentTail ==
    ASSUME NEW s \in Stream, NEW q \in Seq(Message), q # <<>>
    PROVE  Content(s, q) = Part(s, Head(q)) \o Content(s, Tail(q))
<1>1. Head(q) \in Message /\ Tail(q) \in Seq(Message)
    BY HeadTail
<1>2. q = <<Head(q)>> \o Tail(q)
    <2> DEFINE t == Tail(q)
               h == <<Head(q)>>
    <2>1. /\ h \in Seq(Message) /\ t \in Seq(Message) /\ Len(h) = 1 /\ h[1] = q[1]
          /\ Len(q) \in Nat /\ Len(q) >= 1 /\ Len(t) = Len(q) - 1
          /\ \A i \in 1 .. Len(q) - 1 : t[i] = q[i + 1]
        BY <1>1
    <2> HIDE DEF t, h
    <2>2. /\ h \o t \in Seq(Message) /\ Len(h \o t) = Len(q)
          /\ \A i \in 1 .. Len(q) : (h \o t)[i] = IF i <= 1 THEN h[i] ELSE t[i - 1]
        <3>1. /\ h \o t \in Seq(Message) /\ Len(h \o t) = Len(h) + Len(t)
              /\ \A i \in 1 .. Len(h) + Len(t) :
                    (h \o t)[i] = IF i <= Len(h) THEN h[i] ELSE t[i - Len(h)]
            <4>1. h \in Seq(Message) /\ t \in Seq(Message)
                BY <2>1
            <4> QED BY <4>1, ConcatProperties, Zenon
        <3>2. Len(h) + Len(t) = Len(q)
            BY <2>1
        <3> QED BY <2>1, <3>1, <3>2
    <2>3. ASSUME NEW i \in 1 .. Len(q) PROVE q[i] = (h \o t)[i]
        <3>1. CASE i <= 1
            BY <2>1, <2>2, <3>1
        <3>2. CASE ~(i <= 1)
            <4>1. i - 1 \in 1 .. Len(q) - 1 /\ (i - 1) + 1 = i
                BY <2>1, <3>2
            <4>2. t[i - 1] = q[(i - 1) + 1]
                BY <2>1, <4>1
            <4> QED BY <2>2, <3>2, <4>1, <4>2
        <3> QED BY <3>1, <3>2
    <2>4. q = h \o t
        BY <2>2, <2>3, SeqEqual
    <2> QED BY <2>4 DEF h, t
<1> QED BY <1>1, <1>2, ContentFirst

-----------------------------------------------------------------------------
(* flush_complete_lines cuts behind the last line feed.                      *)
LineFree(b) == \A i \in 1 .. Len(b) : b[i] # LineFeed

LEMMA LastFeedIs ==
    ASSUME NEW b \in Bytes
    PROVE  /\ LastFeed(b) \in 0 .. Len(b)
           /\ LastFeed(b) # 0 => b[LastFeed(b)] = LineFeed
           /\ \A i \in 1 .. Len(b) : i > LastFeed(b) => b[i] # LineFeed
<1> DEFINE T == {0} \cup {i \in DOMAIN b : b[i] = LineFeed}
<1>1. DOMAIN b = 1 .. Len(b) /\ Len(b) \in Nat
    BY DEF Bytes
<1>2. T \subseteq 0 .. Len(b) /\ T # {}
    BY <1>1
<1>3. LastFeed(b) = Max(T)
    BY DEF LastFeed
<1>4. Max(T) \in T /\ \A k \in T : k <= Max(T)
    BY <1>1, <1>2, Greatest
<1>5. LastFeed(b) \in T /\ LastFeed(b) \in 0 .. Len(b)
    BY <1>2, <1>3, <1>4
<1>6. LastFeed(b) # 0 => b[LastFeed(b)] = LineFeed
    BY <1>5
<1>7. ASSUME NEW i \in 1 .. Len(b), i > LastFeed(b) PROVE b[i] # LineFeed
    <2>1. SUFFICES ASSUME i \in T PROVE FALSE
        BY <1>1
    <2>2. i <= LastFeed(b)
        BY <1>3, <1>4, <2>1
    <2>3. LastFeed(b) \in Nat /\ i \in Nat
        BY <1>1, <1>5
    <2> HIDE DEF T
    <2> QED BY <1>7, <2>2, <2>3
<1> QED BY <1>5, <1>6, <1>7

LEMMA Cut ==
    ASSUME NEW b \in Bytes, NEW cut, cut = LastFeed(b)
    PROVE  /\ SubSeq(b, 1, cut) \in Bytes /\ WholeLines(SubSeq(b, 1, cut))
           /\ SubSeq(b, cut + 1, Len(b)) \in Bytes /\ LineFree(SubSeq(b, cut + 1, Len(b)))
           /\ SubSeq(b, 1, cut) \o SubSeq(b, cut + 1, Len(b)) = b
<1>1. /\ cut \in 0 .. Len(b) /\ Len(b) \in Nat /\ cut \in Nat
      /\ cut # 0 => b[cut] = LineFeed
      /\ \A i \in 1 .. Len(b) : i > cut => b[i] # LineFeed
    <2>1. Len(b) \in Nat
        BY DEF Bytes
    <2> QED BY <2>1, LastFeedIs
<1>2. b \in Seq(Letter \cup {LineFeed})
    BY DEF Bytes
<1> DEFINE u == SubSeq(b, 1, cut)
           v == SubSeq(b, cut + 1, Len(b))
<1>3. /\ u \in Seq(Letter \cup {LineFeed}) /\ Len(u) = cut
      /\ \A i \in 1 .. cut : u[i] = b[i]
    <2>1. \A i \in 1 .. cut : b[i] \in Letter \cup {LineFeed}
        BY <1>1, <1>2
    <2>2. /\ u \in Seq(Letter \cup {LineFeed})
          /\ Len(u) = IF 1 <= cut THEN cut - 1 + 1 ELSE 0
          /\ \A i \in 1 .. cut - 1 + 1 : u[i] = b[1 + i - 1]
        BY <1>1, <2>1, SubSeqProperties
    <2>3. \A i \in 1 .. cut : 1 + i - 1 = i /\ i \in 1 .. cut - 1 + 1
        BY <1>1
    <2> HIDE DEF u
    <2> QED BY <1>1, <2>2, <2>3
<1>4. /\ v \in Seq(Letter \cup {LineFeed}) /\ Len(v) = Len(b) - cut
      /\ \A i \in 1 .. Len(b) - cut : v[i] = b[cut + i]
    <2>1. \A i \in cut + 1 .. Len(b) : b[i] \in Letter \cup {LineFeed}
        BY <1>1, <1>2
    <2>2. /\ v \in Seq(Letter \cup {LineFeed})
          /\ Len(v) = IF cut + 1 <= Len(b) THEN Len(b) - (cut + 1) + 1 ELSE 0
          /\ \A i \in 1 .. Len(b) - (cut + 1) + 1 : v[i] = b[(cut + 1) + i - 1]
        BY <1>1, <2>1, SubSeqProperties
    <2>3. \A i \in 1 .. Len(b) - cut : (cut + 1) + i - 1 = cut + i /\ i \in 1 .. Len(b) - (cut + 1) + 1
        BY <1>1
    <2> HIDE DEF v
    <2> QED BY <1>1, <2>2, <2>3
<1>5. u \o v = b
    <2>1. CASE cut = 0
        <3>1. u = <<>> /\ v = b
            <4>1. Len(u) = 0
                BY <1>3, <2>1
            <4>2. v = b
                BY <1>1, <1>2, <2>1, SubSeqFull
            <4> QED BY <1>3, <4>1, <4>2, EmptySeq
        <3> QED BY <1>2, <3>1, EmptyConcat
    <2>2. CASE cut # 0
        <3>1. 1 \in 1 .. Len(b) + 1 /\ cut \in 1 - 1 .. Len(b) /\ Len(b) \in cut .. Len(b)
            BY <1>1
        <3>2. u \o v = SubSeq(b, 1, Len(b))
            BY <1>2, <3>1, ConcatAdjacentSubSeq
        <3> QED BY <1>2, <3>2, SubSeqFull
    <2> QED BY <2>1, <2>2
<1>6. WholeLines(u)
    <2> HIDE DEF u
    <2>1. CASE cut = 0
        BY <1>3, <2>1, EmptySeq DEF WholeLines
    <2>2. CASE cut # 0
        <3>1. cut \in 1 .. cut
            BY <1>1, <2>2
        <3> QED BY <1>1, <1>3, <2>2, <3>1 DEF WholeLines, Last
    <2> QED BY <2>1, <2>2
<1>7. LineFree(v)
    <2> HIDE DEF v
    <2>1. ASSUME NEW i \in 1 .. Len(b) - cut PROVE v[i] # LineFeed
        <3>1. cut + i \in 1 .. Len(b) /\ cut + i > cut
            BY <1>1
        <3> QED BY <1>1, <1>4, <3>1
    <2> QED BY <1>4, <2>1 DEF LineFree
<1> QED BY <1>3, <1>4, <1>5, <1>6, <1>7 DEF Bytes

-----------------------------------------------------------------------------
(* What is on its way from cargo to the CLI of a stream, in its order.       *)
Way(s) == Content(s, wire) \o (Content(s, chan) \o pipe[s])

(* All of w as the CLI prints it.                                            *)
Printed(w) ==
    IF Tagged(w) = <<>> \/ Last(Tagged(w)) = LineFeed THEN Tagged(w)
    ELSE Append(Tagged(w), LineFeed)

(* Of the stream s: shown are the whole lines of what was written, as far as *)
(* it has come; behind them comes what is buffered, then what is on its way. *)
Streamed(s, pc, sh, b, w, way) ==
    /\ b \in Bytes /\ LineFree(b)
    /\ s \notin Forwarded => b = <<>>
    /\ s \in Forwarded =>
          /\ pc = "streaming" =>
                \E d \in Bytes : WholeLines(d) /\ sh = Tagged(d) /\ w = d \o (b \o way)
          /\ pc \in {"executing", "returned"} => sh = Printed(w)

StreamOK(s) == Streamed(s, cli.pc, shown[s], buf[s], written[s], Way(s))

(* Nothing comes behind BuildFinished, and it comes when all is forwarded.   *)
Sent(q) ==
    \A i \in 1 .. Len(q) :
        /\ q[i].kind = "BuildFinished" => i = Len(q) /\ main = "done"
        /\ q[i].kind \in Stream => q[i].kind \in Forwarded

ClientOK ==
    /\ cli.pc \in {"streaming", "executing", "returned", "interrupted"}
    /\ main \in {"forward", "wait", "done"}
    /\ peer \in BOOLEAN
    /\ peer <=> cli.pc # "interrupted"
    /\ main # "forward" => chan = <<>> /\ \A s \in Forwarded : ~reader[s]
    /\ Sent(wire)
    /\ \A i \in 1 .. Len(chan) : chan[i].kind \in Forwarded
    /\ cli.pc \in {"executing", "returned"} => main = "done" /\ wire = <<>>
    /\ shown = [s \in Stream |-> shown[s]] /\ buf = [s \in Stream |-> buf[s]]

FlowInv == OutputInv /\ ClientOK /\ \A s \in Stream : StreamOK(s)

(* Both queues hold messages, and forwarded streams bytes.                   *)
LEMMA Queues ==
    ASSUME OutputInv
    PROVE  /\ wire \in Seq(Message) /\ chan \in Seq(Message)
           /\ chan \in Seq([kind : Stream, bytes : Bytes])
           /\ Forwarded \subseteq Stream
           /\ \A s \in Forwarded : written[s] \in Bytes /\ pipe[s] \in Bytes
<1>1. wire \in Seq(Message) /\ chan \in Seq([kind : Stream, bytes : Bytes])
    BY DEF OutputInv, Shape
<1>2. [kind : Stream, bytes : Bytes] \subseteq Message
    BY DEF Message
<1>3. chan \in Seq(Message)
    BY <1>1, <1>2, SeqMonotonic
<1>4. Forwarded \subseteq Stream
    BY DEF Forwarded, Stream
<1>5. ASSUME NEW s \in Forwarded PROVE written[s] \in Bytes /\ pipe[s] \in Bytes
    <2>1. Item(s) = Letter \cup {LineFeed}
        BY DEF Item, Forwarded
    <2> QED BY <1>4, <2>1 DEF OutputInv, Shape, Bytes
<1> QED BY <1>1, <1>3, <1>4, <1>5

LEMMA WayTyped ==
    ASSUME OutputInv, NEW s \in Forwarded
    PROVE  Content(s, wire) \in Bytes /\ Content(s, chan) \in Bytes /\ Way(s) \in Bytes
<1>1. s \in Stream /\ Content(s, wire) \in Bytes /\ Content(s, chan) \in Bytes /\ pipe[s] \in Bytes
    BY Queues, ContentTyped
<1> QED BY <1>1, BytesConcat DEF Way

(* Before cargo has written anything.                                        *)
LEMMA FlowInit == Init => FlowInv
<1> SUFFICES ASSUME Init PROVE FlowInv
    OBVIOUS
<1>1. OutputInv
    BY InitInv
<1>2. ClientOK
    BY DEF Init, ClientOK, Sent
<1>3. <<>> \in Bytes /\ LineFree(<<>>) /\ WholeLines(<<>>)
    BY DEF Bytes, LineFree, WholeLines
<1>4. ASSUME NEW s \in Stream PROVE StreamOK(s)
    <2>1. /\ buf[s] = <<>> /\ shown[s] = <<>> /\ written[s] = <<>> /\ pipe[s] = <<>>
          /\ wire = <<>> /\ chan = <<>> /\ cli.pc = "streaming"
        BY DEF Init
    <2>2. Way(s) = <<>>
        BY <1>3, <2>1, ContentEmpty, BytesEmpty DEF Way
    <2>3. written[s] = <<>> \o (<<>> \o Way(s)) /\ shown[s] = Tagged(<<>>)
        BY <1>3, <2>1, <2>2, BytesEmpty, TaggedEmpty
    <2> QED BY <1>3, <2>1, <2>3 DEF StreamOK, Streamed
<1> QED BY <1>1, <1>2, <1>4 DEF FlowInv

(* Nothing changes of a stream but who has it.                               *)
LEMMA StreamKept ==
    ASSUME NEW s \in Stream, StreamOK(s), UNCHANGED runIt,
           shown'[s] = shown[s], buf'[s] = buf[s], written'[s] = written[s],
           cli'.pc = cli.pc,
           s \in Forwarded /\ cli.pc = "streaming" => Way(s)' = Way(s)
    PROVE  StreamOK(s)'
<1>1. Forwarded' = Forwarded
    BY DEF Forwarded
<1> QED BY <1>1 DEF StreamOK, Streamed

(* cargo, or what it left, writes.                                           *)
LEMMA WriteFlow ==
    ASSUME FlowInv, NEW t \in Stream, NEW c \in Item(t), Write(t, c)
    PROVE  ClientOK' /\ \A s \in Stream : StreamOK(s)'
<1> USE DEF FlowInv
<1>1. /\ writers # {}
      /\ pipe' = [pipe EXCEPT ![t] = Append(@, c)]
      /\ written' = [written EXCEPT ![t] = Append(@, c)]
      /\ UNCHANGED <<runIt, writers, exit, reader, last, chan, main, peer, wire, buf, shown, cli>>
    BY DEF Write, daemonVars, cliVars
<1>2. ClientOK'
    BY <1>1 DEF ClientOK, Sent, Forwarded
<1>3. ASSUME NEW s \in Stream PROVE StreamOK(s)'
    <2>1. StreamOK(s) /\ written = [u \in Stream |-> written[u]] /\ pipe = [u \in Stream |-> pipe[u]]
        BY DEF OutputInv, Shape
    <2>2. CASE s # t
        <3>1. written'[s] = written[s] /\ Way(s)' = Way(s)
            BY <1>1, <2>1, <2>2 DEF Way, Content, Gather, GathersTo, Part
        <3> QED BY <1>1, <2>1, <3>1, StreamKept
    <2>3. CASE s = t /\ s \notin Forwarded
        BY <1>1, <2>1, <2>3 DEF StreamOK, Streamed, Forwarded
    <2>4. CASE s = t /\ s \in Forwarded
        <3>1. /\ written'[s] = Append(written[s], c) /\ pipe'[s] = Append(pipe[s], c)
              /\ c \in Letter \cup {LineFeed}
            BY <1>1, <2>1, <2>4 DEF Item, Forwarded
        <3>2. /\ Content(s, wire) \in Bytes /\ Content(s, chan) \in Bytes /\ Way(s) \in Bytes
              /\ pipe[s] \in Bytes /\ buf[s] \in Bytes
            BY <2>1, <2>4, WayTyped, Queues DEF StreamOK, Streamed
        <3>3. Way(s)' = Append(Way(s), c)
            <4>1. Way(s)' = Content(s, wire) \o (Content(s, chan) \o Append(pipe[s], c))
                BY <1>1, <3>1 DEF Way, Content, Gather, GathersTo, Part
            <4>2. Content(s, chan) \o Append(pipe[s], c) = Append(Content(s, chan) \o pipe[s], c)
                BY <3>1, <3>2, BytesAppend
            <4>3. Content(s, chan) \o pipe[s] \in Bytes
                BY <3>2, BytesConcat
            <4>4. Content(s, wire) \o Append(Content(s, chan) \o pipe[s], c)
                      = Append(Content(s, wire) \o (Content(s, chan) \o pipe[s]), c)
                BY <3>1, <3>2, <4>3, BytesAppend
            <4> QED BY <4>1, <4>2, <4>4 DEF Way
        <3>4. cli.pc \notin {"executing", "returned"}
            <4>1. main = "done" => writers = {}
                BY <2>4 DEF ClientOK, OutputInv, ReadersOK, Forwarded, Stream
            <4> QED BY <1>1, <4>1 DEF ClientOK
        <3>5. ASSUME cli.pc = "streaming"
              PROVE  \E d \in Bytes : WholeLines(d) /\ shown[s] = Tagged(d)
                                      /\ written'[s] = d \o (buf[s] \o Way(s)')
            <4>1. PICK d \in Bytes : WholeLines(d) /\ shown[s] = Tagged(d) /\ written[s] = d \o (buf[s] \o Way(s))
                BY <2>1, <2>4, <3>5 DEF StreamOK, Streamed
            <4>2. buf[s] \o Append(Way(s), c) = Append(buf[s] \o Way(s), c) /\ buf[s] \o Way(s) \in Bytes
                BY <3>1, <3>2, BytesAppend, BytesConcat
            <4>3. d \o Append(buf[s] \o Way(s), c) = Append(d \o (buf[s] \o Way(s)), c)
                BY <3>1, <4>2, BytesAppend
            <4> QED BY <3>1, <3>3, <4>1, <4>2, <4>3
        <3> QED BY <1>1, <2>1, <2>4, <3>4, <3>5 DEF StreamOK, Streamed, Forwarded
    <2> QED BY <2>2, <2>3, <2>4
<1> QED BY <1>2, <1>3

(* Processes come and go, the parser takes a line, a reader ends.            *)
LEMMA QuietFlow ==
    ASSUME FlowInv,
           \/ LeaveChild \/ ChildExits \/ CargoEnds \/ ParseArtifact \/ UNCHANGED vars
           \/ \E s \in Stream : EndOfPipe(s)
    PROVE  ClientOK' /\ \A s \in Stream : StreamOK(s)'
<1> USE DEF FlowInv
<1>1. /\ UNCHANGED <<runIt, written, chan, main, peer, wire, buf, shown, cli>>
      /\ \A s \in Forwarded : pipe'[s] = pipe[s] /\ (reader'[s] => reader[s])
    <2>1. CASE LeaveChild \/ ChildExits \/ CargoEnds
        BY <2>1 DEF LeaveChild, ChildExits, CargoEnds, CargoExits, daemonVars, cliVars
    <2>2. CASE ParseArtifact
        <3>1. pipe = [s \in Stream |-> pipe[s]]
            BY DEF OutputInv, Shape
        <3> QED BY <2>2, <3>1 DEF ParseArtifact, cliVars, Forwarded, Stream
    <2>3. CASE \E s \in Stream : EndOfPipe(s)
        <3>1. reader \in [Stream -> BOOLEAN] /\ Forwarded \subseteq Stream
            BY Queues DEF OutputInv, Shape
        <3> QED BY <2>3, <3>1 DEF EndOfPipe, hostVars, cliVars
    <2>4. CASE UNCHANGED vars
        BY <2>4 DEF vars, hostVars, daemonVars, cliVars
    <2> QED BY <2>1, <2>2, <2>3, <2>4
<1>2. ClientOK'
    BY <1>1 DEF ClientOK, Sent, Forwarded
<1>3. ASSUME NEW s \in Stream PROVE StreamOK(s)'
    <2>1. s \in Forwarded => Way(s)' = Way(s)
        BY <1>1 DEF Way, Content, Gather, GathersTo, Part
    <2> QED BY <1>1, <2>1, StreamKept
<1> QED BY <1>2, <1>3

(* A reader thread takes bytes from its pipe into the channel.               *)
LEMMA ReadFlow ==
    ASSUME FlowInv, NEW t \in Stream, ReadPipe(t)
    PROVE  ClientOK' /\ \A s \in Stream : StreamOK(s)'
<1> USE DEF FlowInv
<1>1. /\ t \in Forwarded /\ reader[t]
      /\ UNCHANGED <<runIt, written, reader, main, peer, wire, buf, shown, cli>>
    BY DEF ReadPipe, cliVars
<1>2. PICK n \in 1 .. Len(pipe[t]) :
          /\ chan' = Append(chan, [kind |-> t, bytes |-> SubSeq(pipe[t], 1, n)])
          /\ pipe' = [pipe EXCEPT ![t] = SubSeq(@, n + 1, Len(@))]
    BY DEF ReadPipe
<1> DEFINE u == SubSeq(pipe[t], 1, n)
           v == SubSeq(pipe[t], n + 1, Len(pipe[t]))
           m == [kind |-> t, bytes |-> u]
<1>3. pipe[t] \in Seq(Letter \cup {LineFeed}) /\ Len(pipe[t]) \in Nat /\ n \in Nat
    BY <1>1, Queues DEF Bytes
<1>4. u \in Bytes /\ v \in Bytes /\ u \o v = pipe[t]
    <2>1. 1 \in 1 .. Len(pipe[t]) + 1 /\ n \in 1 - 1 .. Len(pipe[t]) /\ Len(pipe[t]) \in n .. Len(pipe[t])
        BY <1>3
    <2>2. u \o v = SubSeq(pipe[t], 1, Len(pipe[t]))
        BY <1>3, <2>1, ConcatAdjacentSubSeq
    <2>3. u \o v = pipe[t]
        BY <1>3, <2>2, SubSeqFull
    <2>4. u \in Bytes /\ v \in Bytes
        BY <1>3 DEF Bytes
    <2> QED BY <2>3, <2>4
<1>5. /\ pipe'[t] = v /\ \A s \in Stream : s # t => pipe'[s] = pipe[s]
      /\ chan' = Append(chan, m)
    BY <1>2 DEF OutputInv, Shape
<1>6. m \in Message /\ m.kind = t /\ m.bytes = u
    BY <1>4 DEF Message
<1> HIDE DEF u, v, m
<1>7. chan \in Seq(Message) /\ wire' = wire
    BY <1>1, Queues
<1>8. ClientOK'
    <2>1. main = "forward"
        BY <1>1 DEF ClientOK
    <2>2. \A i \in 1 .. Len(chan') : chan'[i] = m \/ (i \in 1 .. Len(chan) /\ chan'[i] = chan[i])
        BY <1>5, <1>6, <1>7, AppendProperties
    <2>3. \A i \in 1 .. Len(chan') : chan'[i].kind \in Forwarded
        BY <1>1, <1>6, <2>2 DEF ClientOK
    <2> QED BY <1>1, <2>1, <2>3 DEF ClientOK, Sent, Forwarded
<1>9. ASSUME NEW s \in Stream, s \in Forwarded PROVE Way(s)' = Way(s)
    <2>1. Content(s, chan) \in Bytes /\ Content(s, wire) \in Bytes
        BY <1>9, WayTyped
    <2>2. Content(s, chan)' = Content(s, chan) \o Part(s, m)
        <3>1. Content(s, chan') = Content(s, chan) \o Part(s, m)
            BY <1>5, <1>6, <1>7, ContentAppend
        <3> QED BY <3>1 DEF Content, Gather, GathersTo, Part
    <2>3. Content(s, wire)' = Content(s, wire)
        BY <1>7 DEF Content, Gather, GathersTo, Part
    <2>4. Part(s, m) \o pipe'[s] = pipe[s] /\ Part(s, m) \in Bytes /\ pipe'[s] \in Bytes
        <3>1. CASE s = t
            BY <1>4, <1>5, <1>6, <3>1 DEF Part
        <3>2. CASE s # t
            <4>1. pipe[s] \in Bytes /\ pipe'[s] = pipe[s] /\ Part(s, m) = <<>>
                BY <1>5, <1>6, <1>9, <3>2, Queues DEF Part
            <4> QED BY <4>1, BytesEmpty
        <3> QED BY <3>1, <3>2
    <2>5. (Content(s, chan) \o Part(s, m)) \o pipe'[s] = Content(s, chan) \o pipe[s]
        <3>1. \A x \in Bytes : (Content(s, chan) \o Part(s, m)) \o x = Content(s, chan) \o (Part(s, m) \o x)
            BY <2>1, <2>4, BytesAssoc
        <3> QED BY <2>4, <3>1, Zenon
    <2> QED BY <2>2, <2>3, <2>5 DEF Way
<1> QED BY <1>1, <1>8, <1>9, StreamKept

(* A message leaves the channel for the websocket.                           *)
LEMMA Passed ==
    ASSUME FlowInv, NEW s \in Forwarded, NEW p \in Bytes, NEW c \in Bytes,
           Content(s, wire)' = Content(s, wire) \o p,
           Content(s, chan) = p \o c, Content(s, chan)' = c,
           pipe'[s] = pipe[s]
    PROVE  Way(s)' = Way(s)
<1>1. Content(s, wire) \in Bytes /\ pipe[s] \in Bytes
    BY WayTyped, Queues DEF FlowInv
<1>2. Way(s)' = (Content(s, wire) \o p) \o (c \o pipe[s])
    BY DEF Way
<1>3. (Content(s, wire) \o p) \o (c \o pipe[s]) = Content(s, wire) \o (p \o (c \o pipe[s]))
    <2>1. c \o pipe[s] \in Bytes
        BY <1>1, BytesConcat
    <2>2. Content(s, wire) \in Bytes
        BY <1>1
    <2> QED BY <2>1, <2>2, BytesAssoc, Zenon
<1>4. p \o (c \o pipe[s]) = (p \o c) \o pipe[s]
    BY <1>1, BytesAssoc
<1> QED BY <1>2, <1>3, <1>4 DEF Way

LEMMA ForwardFlow ==
    ASSUME FlowInv, Forward
    PROVE  ClientOK' /\ \A s \in Stream : StreamOK(s)'
<1> USE DEF FlowInv
<1> DEFINE m == Head(chan)
<1>1. /\ main = "forward" /\ chan # <<>> /\ SendMsgs(<<m>>) /\ chan' = Tail(chan)
      /\ UNCHANGED <<runIt, written, pipe, reader, main, peer, buf, shown, cli>>
    BY DEF Forward, hostVars, cliVars
<1>2. /\ wire \in Seq(Message) /\ chan \in Seq(Message) /\ chan' \in Seq(Message)
      /\ chan \in Seq([kind : Stream, bytes : Bytes])
      /\ m \in Message /\ m = chan[1] /\ 1 \in 1 .. Len(chan)
      /\ \A i \in 1 .. Len(chan') : i + 1 \in 1 .. Len(chan) /\ chan'[i] = chan[i + 1]
    <2>1. wire \in Seq(Message) /\ chan \in Seq(Message) /\ chan \in Seq([kind : Stream, bytes : Bytes])
        BY Queues
    <2>2. /\ chan' \in Seq(Message) /\ m \in Message /\ m = chan[1]
          /\ Len(chan) \in Nat /\ Len(chan) >= 1 /\ Len(chan') = Len(chan) - 1
          /\ \A i \in 1 .. Len(chan) - 1 : chan'[i] = chan[i + 1]
        BY <1>1, <2>1
    <2> HIDE DEF m
    <2> QED BY <2>1, <2>2
<1>3. m.kind \in Forwarded
    BY <1>2 DEF ClientOK
<1>4. \A s \in Forwarded : Content(s, chan) = Part(s, m) \o Content(s, chan') /\ Part(s, m) \in Bytes
                           /\ Content(s, chan') \in Bytes
    BY <1>1, <1>2, ContentTail, PartTyped, ContentTyped, Queues
<1> HIDE DEF m
<1>5. wire' = IF peer THEN Append(wire, m) ELSE wire
    <2>1. wire \o <<m>> = Append(wire, m)
        BY <1>2, AppendIsConcat
    <2> QED BY <1>1, <2>1 DEF SendMsgs
<1>6. Sent(wire')
    <2>1. \A i \in 1 .. Len(wire) : wire[i].kind # "BuildFinished"
        BY <1>1 DEF ClientOK, Sent
    <2>2. \A i \in 1 .. Len(wire') : (i \in 1 .. Len(wire) /\ wire'[i] = wire[i]) \/ wire'[i] = m
        BY <1>2, <1>5, AppendProperties
    <2>3. m.kind # "BuildFinished"
        BY <1>3 DEF Forwarded, Stream
    <2> QED BY <1>3, <2>1, <2>2, <2>3 DEF ClientOK, Sent
<1>7. ClientOK'
    <2>1. Sent(wire)'
        BY <1>1, <1>6 DEF Sent, Forwarded
    <2>2. \A i \in 1 .. Len(chan') : chan'[i].kind \in Forwarded
        BY <1>2 DEF ClientOK
    <2> QED BY <1>1, <2>1, <2>2 DEF ClientOK, Forwarded
<1>8. ASSUME NEW s \in Stream, s \in Forwarded, cli.pc = "streaming" PROVE Way(s)' = Way(s)
    <2>1. Content(s, wire') = Content(s, wire) \o Part(s, m)
        <3>1. wire' = Append(wire, m)
            BY <1>5, <1>8 DEF ClientOK
        <3> QED BY <1>2, <3>1, ContentAppend
    <2>2. /\ Content(s, wire)' = Content(s, wire) \o Part(s, m)
          /\ Content(s, chan)' = Content(s, chan')
        BY <2>1 DEF Content, Gather, GathersTo, Part
    <2> QED BY <1>1, <1>4, <1>8, <2>2, Passed
<1> QED BY <1>1, <1>7, <1>8, StreamKept

(* The channel closes: every sender is gone.  Then BuildFinished goes out.   *)
LEMMA EndFlow ==
    ASSUME FlowInv, ChannelCloses \/ Finish
    PROVE  ClientOK' /\ \A s \in Stream : StreamOK(s)'
<1> USE DEF FlowInv
<1>1. UNCHANGED <<runIt, written, pipe, reader, chan, peer, buf, shown, cli>>
    BY DEF ChannelCloses, Finish, hostVars, cliVars
<1>2. CASE ChannelCloses
    <2>1. UNCHANGED wire /\ main = "forward" /\ main' = "wait" /\ chan = <<>> /\ \A s \in Forwarded : ~reader[s]
        BY <1>2 DEF ChannelCloses
    <2>2. ClientOK'
        BY <1>1, <2>1 DEF ClientOK, Sent, Forwarded
    <2>3. \A s \in Stream : Way(s)' = Way(s)
        BY <1>1, <2>1 DEF Way, Content, Gather, GathersTo, Part
    <2> QED BY <1>1, <2>2, <2>3, StreamKept
<1>3. CASE Finish
    <2> DEFINE e == [kind |-> "Executable", file |-> last]
    <2>1. /\ main = "wait" /\ main' = "done" /\ exit # Running
          /\ \/ SendMsgs(<<Finished>>)
             \/ last # NoExecutable /\ SendMsgs(<<e, Finished>>)
        BY <1>3 DEF Finish
    <2>2. Finished \in Message /\ Finished.kind = "BuildFinished"
        BY <2>1, OutputAssumption DEF Finished, Message, CodeOf, OutputInv, Shape
    <2>3. last # NoExecutable => e \in Message /\ e.kind = "Executable"
        BY DEF Message, OutputInv, Shape
    <2>4. wire \in Seq(Message) /\ Len(wire) \in Nat
        BY Queues
    <2>5. \A s \in Stream : Part(s, Finished) = <<>> /\ Part(s, e) = <<>>
        BY <2>2 DEF Part, Stream
    <2> HIDE DEF e
    <2>6. CASE ~peer
        <3>1. wire' = wire /\ cli.pc = "interrupted"
            BY <2>1, <2>6 DEF SendMsgs, ClientOK
        <3>2. ClientOK'
            BY <1>1, <2>1, <3>1 DEF ClientOK, Sent, Forwarded
        <3> QED BY <1>1, <3>1, <3>2, StreamKept
    <2>7. CASE peer
        <3>1. PICK w \in Seq(Message) :
                  /\ wire' = Append(w, Finished)
                  /\ w = wire \/ (last # NoExecutable /\ w = Append(wire, e))
            <4>1. CASE SendMsgs(<<Finished>>)
                <5>1. wire' = Append(wire, Finished)
                    BY <2>2, <2>4, <2>7, <4>1, AppendIsConcat DEF SendMsgs
                <5> QED BY <2>4, <5>1
            <4>2. CASE last # NoExecutable /\ SendMsgs(<<e, Finished>>)
                <5>1. wire' = wire \o Append(<<e>>, Finished)
                    BY <2>7, <4>2, SMTT(30) DEF SendMsgs
                <5>2. <<e>> \in Seq(Message) /\ Append(wire, e) \in Seq(Message)
                    BY <2>3, <2>4, <4>2
                <5>3. wire \o Append(<<e>>, Finished) = Append(wire \o <<e>>, Finished)
                    BY <2>2, <2>4, <5>2, ConcatAppend
                <5>4. wire \o <<e>> = Append(wire, e)
                    BY <2>3, <2>4, <4>2, AppendIsConcat
                <5> QED BY <4>2, <5>1, <5>2, <5>3, <5>4
            <4> QED BY <2>1, <4>1, <4>2
        <3>2. \A i \in 1 .. Len(w) :
                  w[i].kind # "BuildFinished" /\ (w[i].kind \in Stream => w[i].kind \in Forwarded)
            <4>1. \A i \in 1 .. Len(wire) :
                      wire[i].kind # "BuildFinished" /\ (wire[i].kind \in Stream => wire[i].kind \in Forwarded)
                BY <2>1 DEF ClientOK, Sent
            <4>2. CASE w = wire
                BY <4>1, <4>2
            <4>3. CASE last # NoExecutable /\ w = Append(wire, e)
                <5>1. \A i \in 1 .. Len(w) : (i \in 1 .. Len(wire) /\ w[i] = wire[i]) \/ w[i] = e
                    BY <2>3, <2>4, <4>3, AppendProperties
                <5> QED BY <2>3, <4>1, <4>3, <5>1 DEF Stream
            <4> QED BY <3>1, <4>2, <4>3
        <3>3. \A i \in 1 .. Len(wire') :
                  (i \in 1 .. Len(w) /\ wire'[i] = w[i]) \/ (i = Len(wire') /\ wire'[i] = Finished)
            BY <2>2, <3>1, AppendProperties
        <3>4. Sent(wire)'
            <4>1. Forwarded' = Forwarded
                BY <1>1 DEF Forwarded
            <4> QED BY <2>1, <2>2, <3>2, <3>3, <4>1 DEF Sent, Stream
        <3>5. cli.pc \notin {"executing", "returned"}
            BY <2>1 DEF ClientOK
        <3>6. ClientOK'
            BY <1>1, <2>1, <3>4, <3>5 DEF ClientOK, Forwarded
        <3>7. ASSUME NEW s \in Stream, s \in Forwarded PROVE Way(s)' = Way(s)
            <4>1. Content(s, wire) \in Bytes
                BY <3>7, WayTyped
            <4>2. Content(s, w) = Content(s, wire)
                <5>1. last # NoExecutable => Content(s, Append(wire, e)) = Content(s, wire) \o Part(s, e)
                    BY <2>3, <2>4, ContentAppend
                <5> QED BY <2>5, <3>1, <4>1, <5>1, BytesEmpty
            <4>3. Content(s, wire') = Content(s, w) \o Part(s, Finished)
                BY <2>2, <3>1, ContentAppend
            <4>4. Content(s, wire') = Content(s, wire)
                BY <2>5, <4>1, <4>2, <4>3, BytesEmpty
            <4>5. Content(s, wire)' = Content(s, wire) /\ Content(s, chan)' = Content(s, chan)
                BY <1>1, <4>4 DEF Content, Gather, GathersTo, Part
            <4> QED BY <1>1, <4>5 DEF Way
        <3> QED BY <1>1, <3>6, <3>7, StreamKept
    <2> QED BY <2>6, <2>7 DEF ClientOK
<1> QED BY <1>2, <1>3

(* The CLI takes a message that is not output.                               *)
LEMMA TakenFlow ==
    ASSUME FlowInv, wire # <<>>, wire' = Tail(wire), UNCHANGED <<runIt, chan, pipe>>,
           NEW s \in Forwarded
    PROVE  /\ Way(s) = Part(s, Head(wire)) \o Way(s)' /\ Way(s)' \in Bytes
           /\ Part(s, Head(wire)) \in Bytes
<1> USE DEF FlowInv
<1>1. wire \in Seq(Message) /\ s \in Stream /\ pipe[s] \in Bytes /\ Content(s, chan) \in Bytes
    BY Queues, WayTyped
<1>2. Head(wire) \in Message /\ Tail(wire) \in Seq(Message)
    BY <1>1, HeadTail
<1>3. /\ Content(s, wire) = Part(s, Head(wire)) \o Content(s, Tail(wire))
      /\ Part(s, Head(wire)) \in Bytes /\ Content(s, Tail(wire)) \in Bytes
    BY <1>1, <1>2, ContentTail, PartTyped, ContentTyped
<1>4. Content(s, wire') = Content(s, Tail(wire))
    OBVIOUS
<1>5. Way(s)' = Content(s, Tail(wire)) \o (Content(s, chan) \o pipe[s])
    BY <1>4 DEF Way, Content, Gather, GathersTo, Part
<1>6. Content(s, chan) \o pipe[s] \in Bytes
    BY <1>1, BytesConcat
<1>7. (Part(s, Head(wire)) \o Content(s, Tail(wire))) \o (Content(s, chan) \o pipe[s])
          = Part(s, Head(wire)) \o (Content(s, Tail(wire)) \o (Content(s, chan) \o pipe[s]))
    BY <1>3, <1>6, BytesAssoc
<1>8. Content(s, Tail(wire)) \o (Content(s, chan) \o pipe[s]) \in Bytes
    BY <1>3, <1>6, BytesConcat
<1> QED BY <1>3, <1>5, <1>7, <1>8 DEF Way

LEMMA SentTail ==
    ASSUME FlowInv, wire # <<>>, wire' = Tail(wire), UNCHANGED <<runIt, main>>
    PROVE  /\ Sent(wire)' /\ Head(wire) = wire[1] /\ 1 \in 1 .. Len(wire)
           /\ Head(wire) \in Message
           /\ Len(wire) = 1 => Tail(wire) = <<>>
           /\ Head(wire).kind \in Stream => Head(wire).kind \in Forwarded
<1> USE DEF FlowInv
<1>1. wire \in Seq(Message)
    BY Queues
<1>2. /\ Len(wire) \in Nat /\ Len(wire) >= 1 /\ Head(wire) = wire[1] /\ Head(wire) \in Message
      /\ Len(Tail(wire)) = Len(wire) - 1 /\ Tail(wire) \in Seq(Message)
      /\ \A i \in 1 .. Len(wire) - 1 : Tail(wire)[i] = wire[i + 1]
    BY <1>1
<1>3. \A i \in 1 .. Len(wire') :
          /\ i + 1 \in 1 .. Len(wire) /\ wire'[i] = wire[i + 1]
          /\ i + 1 = Len(wire) => i = Len(wire')
    <2>1. Len(wire') = Len(wire) - 1 /\ \A i \in 1 .. Len(wire) - 1 : wire'[i] = wire[i + 1]
        BY <1>2
    <2>2. \A i \in 1 .. Len(wire) - 1 :
              i + 1 \in 1 .. Len(wire) /\ (i + 1 = Len(wire) => i = Len(wire) - 1)
        <3> DEFINE n == Len(wire)
        <3>1. n \in Nat
            BY <1>2
        <3> HIDE DEF n
        <3>2. \A i \in 1 .. n - 1 : i + 1 \in 1 .. n /\ (i + 1 = n => i = n - 1)
            BY <3>1
        <3> QED BY <3>2 DEF n
    <2> QED BY <2>1, <2>2
<1>4. Sent(wire)'
    BY <1>3 DEF ClientOK, Sent, Forwarded
<1>5. Len(wire) = 1 => Tail(wire) = <<>>
    BY <1>2, EmptySeq
<1>6. 1 \in 1 .. Len(wire)
    BY <1>2
<1> QED BY <1>2, <1>4, <1>5, <1>6 DEF ClientOK, Sent

LEMMA TakeFlow ==
    ASSUME FlowInv, TakeExecutable
    PROVE  ClientOK' /\ \A s \in Stream : StreamOK(s)'
<1> USE DEF FlowInv
<1>1. /\ wire # <<>> /\ wire' = Tail(wire) /\ Head(wire).kind = "Executable" /\ cli.pc = "streaming"
      /\ cli'.pc = cli.pc
      /\ UNCHANGED <<runIt, written, pipe, reader, chan, main, peer, buf, shown>>
    BY DEF TakeExecutable, hostVars, daemonVars, OutputInv, Shape
<1>2. ClientOK'
    BY <1>1, SentTail DEF ClientOK, Forwarded
<1>3. ASSUME NEW s \in Stream, s \in Forwarded PROVE Way(s)' = Way(s)
    <2>1. Part(s, Head(wire)) = <<>>
        BY <1>1 DEF Part, Stream
    <2>2. Way(s) = <<>> \o Way(s)' /\ Way(s)' \in Bytes
        BY <1>1, <1>3, <2>1, TakenFlow
    <2>3. \A x \in Bytes : <<>> \o x = x
        BY BytesEmpty
    <2> QED BY <2>2, <2>3, Zenon
<1> QED BY <1>1, <1>2, <1>3, StreamKept

(* The CLI hangs up, and shows no more.                                      *)
LEMMA HangUpFlow ==
    ASSUME FlowInv, HangUp
    PROVE  ClientOK' /\ \A s \in Stream : StreamOK(s)'
<1> USE DEF FlowInv
<1>1. /\ peer' = FALSE /\ wire' = <<>> /\ cli'.pc = "interrupted"
      /\ UNCHANGED <<runIt, written, pipe, reader, chan, main, buf, shown>>
    BY DEF HangUp, hostVars, daemonVars, OutputInv, Shape
<1>2. ClientOK'
    <2>1. Sent(wire)'
        BY <1>1 DEF Sent
    <2>2. Forwarded' = Forwarded
        BY <1>1 DEF Forwarded
    <2> QED BY <1>1, <2>1, <2>2 DEF ClientOK
<1>3. \A s \in Stream : StreamOK(s)'
    BY <1>1 DEF StreamOK, Streamed, Forwarded
<1> QED BY <1>2, <1>3

(* flush_complete_lines shows the lines that are whole.                      *)
LEMMA ShowFlow ==
    ASSUME FlowInv, ShowOutput
    PROVE  ClientOK' /\ \A s \in Stream : StreamOK(s)'
<1> USE DEF FlowInv
<1> DEFINE m == Head(wire)
<1>1. /\ wire # <<>> /\ wire' = Tail(wire) /\ cli.pc = "streaming" /\ m.kind \in Stream
      /\ UNCHANGED <<runIt, written, pipe, reader, chan, main, peer, cli>>
    BY DEF ShowOutput, hostVars, daemonVars
<1>2. PICK t \in Stream : t = m.kind
    BY <1>1
<1> DEFINE b == buf[t] \o m.bytes
           cut == LastFeed(b)
           u == SubSeq(b, 1, cut)
           v == SubSeq(b, cut + 1, Len(b))
<1>3. shown' = [shown EXCEPT ![t] = @ \o Tagged(u)] /\ buf' = [buf EXCEPT ![t] = v]
    BY <1>2 DEF ShowOutput
<1>4. t \in Forwarded /\ Sent(wire)' /\ m \in Message /\ m.kind = t
    BY <1>1, <1>2, SentTail
<1>5. buf[t] \in Bytes /\ m.bytes \in Bytes /\ Part(t, m) = m.bytes
    BY <1>4, PartTyped DEF StreamOK, Streamed, Part
<1>6. b \in Bytes
    BY <1>5, BytesConcat
<1>7. /\ u \in Bytes /\ WholeLines(u) /\ v \in Bytes /\ LineFree(v) /\ u \o v = b
    BY <1>6, Cut
<1>8. /\ shown'[t] = shown[t] \o Tagged(u) /\ buf'[t] = v
      /\ \A s \in Stream : s # t => shown'[s] = shown[s] /\ buf'[s] = buf[s]
      /\ shown' = [s \in Stream |-> shown'[s]] /\ buf' = [s \in Stream |-> buf'[s]]
    BY <1>3, <1>4 DEF ClientOK
<1>9. ClientOK'
    BY <1>1, <1>4, <1>8 DEF ClientOK, Forwarded
<1> HIDE DEF u, v, b, cut
<1>10. ASSUME NEW s \in Stream, s # t PROVE StreamOK(s)'
    <2>1. ASSUME s \in Forwarded PROVE Way(s)' = Way(s)
        <3>1. Part(s, m) = <<>>
            BY <1>4, <1>10 DEF Part
        <3>2. Way(s) = <<>> \o Way(s)' /\ Way(s)' \in Bytes
            BY <1>1, <2>1, <3>1, TakenFlow
        <3>3. \A x \in Bytes : <<>> \o x = x
            BY BytesEmpty
        <3> QED BY <3>2, <3>3, Zenon
    <2> QED BY <1>1, <1>8, <1>10, <2>1, StreamKept
<1>11. StreamOK(t)'
    <2> DEFINE way == Way(t)'
    <2>1. Way(t) = m.bytes \o way /\ way \in Bytes
        BY <1>1, <1>4, <1>5, TakenFlow
    <2>2. PICK d \in Bytes :
              WholeLines(d) /\ shown[t] = Tagged(d) /\ written[t] = d \o (buf[t] \o Way(t))
        BY <1>1, <1>4 DEF StreamOK, Streamed
    <2> DEFINE c == d \o u
    <2>3. c \in Bytes
        BY <1>7, BytesConcat
    <2>4. WholeLines(c)
        <3>1. CASE u = <<>>
            BY <2>2, <3>1, BytesEmpty
        <3>2. CASE u # <<>>
            <4>1. Last(c) = Last(u)
                BY <1>7, <3>2, LastOfConcat DEF Bytes
            <4> QED BY <1>7, <3>2, <4>1 DEF WholeLines
        <3> QED BY <3>1, <3>2
    <2>5. Tagged(c) = shown'[t]
        <3>1. Tagged(c) = Tagged(d) \o Tagged(u)
            BY <1>7, <2>2, TaggedConcat DEF Bytes
        <3> QED BY <1>8, <2>2, <3>1
    <2>6. written'[t] = c \o (v \o way)
        <3> HIDE DEF way
        <3>1. buf[t] \o (m.bytes \o way) = b \o way
            BY <1>5, <2>1, BytesAssoc DEF b
        <3>2. (u \o v) \o way = u \o (v \o way) /\ v \o way \in Bytes
            <4>1. u \in Bytes /\ v \in Bytes /\ way \in Bytes
                BY <1>7, <2>1
            <4>2. v \o way \in Bytes
                BY <4>1, BytesConcat, Zenon
            <4>3. (u \o v) \o way = u \o (v \o way)
                BY <4>1, BytesAssoc, ZenonT(40)
            <4> QED BY <4>2, <4>3
        <3>3. d \o (u \o (v \o way)) = (d \o u) \o (v \o way)
            BY <1>7, <3>2, BytesAssoc
        <3> QED BY <1>1, <1>7, <2>1, <2>2, <3>1, <3>2, <3>3
    <2> HIDE DEF c
    <2>7. Streamed(t, "streaming", shown'[t], v, written'[t], way)
        BY <1>4, <1>7, <2>3, <2>4, <2>5, <2>6 DEF Streamed
    <2> QED BY <1>1, <1>8, <2>7 DEF StreamOK, Streamed, Forwarded
<1> QED BY <1>9, <1>10, <1>11

(* BuildFinished: all that was written has come, and what is left of the     *)
(* last line is shown.                                                       *)
LEMMA TrailingIs ==
    ASSUME NEW d \in Bytes, WholeLines(d), NEW b \in Bytes, LineFree(b)
    PROVE  Tagged(d) \o Trailing(b) = Printed(d \o b)
<1> DEFINE A == Letter \cup {LineFeed} \cup {Tag}
<1>1. Tagged(d) \in Seq(A) /\ Tagged(d \o b) = Tagged(d) \o Tagged(b) /\ Tagged(b) \in Seq(A)
    BY TaggedTyped, TaggedConcat DEF Bytes
<1>2. CASE b = <<>>
    <2>1. d \o b = d /\ Trailing(b) = <<>> /\ Tagged(d) \o <<>> = Tagged(d)
        BY <1>1, <1>2, BytesEmpty, EmptyConcat DEF Trailing
    <2>2. Tagged(d) = <<>> \/ Last(Tagged(d)) = LineFeed
        BY TaggedEmpty, TaggedTyped DEF WholeLines, Bytes
    <2> QED BY <2>1, <2>2 DEF Printed
<1>3. CASE b # <<>>
    <2>1. Tagged(b) = <<Tag>> \o b
        BY <1>3, TaggedLine DEF LineFree, Bytes
    <2>2. Tagged(b) # <<>> /\ Last(Tagged(b)) = Last(b)
        BY <1>3, TaggedTyped DEF Bytes
    <2>3. Last(b) # LineFeed
        <3>1. Len(b) \in 1 .. Len(b)
            BY <1>3 DEF Bytes
        <3> QED BY <3>1 DEF LineFree, Last
    <2>4. Tagged(d \o b) # <<>> /\ Last(Tagged(d \o b)) # LineFeed
        BY <1>1, <2>2, <2>3, LastOfConcat
    <2>5. Printed(d \o b) = Append(Tagged(d) \o Tagged(b), LineFeed)
        BY <1>1, <2>4 DEF Printed
    <2>6. Trailing(b) = Append(Tagged(b), LineFeed)
        <3>1. Trailing(b) = (<<Tag>> \o b) \o <<LineFeed>>
            <4>1. b \in Seq(A) /\ <<Tag>> \in Seq(A) /\ <<LineFeed>> \in Seq(A)
                BY DEF Bytes
            <4> QED BY <1>3 DEF Trailing
        <3>2. LineFeed \in A
            OBVIOUS
        <3> HIDE DEF A
        <3>3. Tagged(b) \o <<LineFeed>> = Append(Tagged(b), LineFeed)
            BY <1>1, <3>2, AppendIsConcat
        <3> QED BY <2>1, <3>1, <3>3
    <2>7. Tagged(d) \o Append(Tagged(b), LineFeed) = Append(Tagged(d) \o Tagged(b), LineFeed)
        <3>1. LineFeed \in A
            OBVIOUS
        <3> HIDE DEF A
        <3> QED BY <1>1, <3>1, ConcatAppend
    <2> QED BY <2>5, <2>6, <2>7
<1> QED BY <1>2, <1>3

LEMMA FinishFlow ==
    ASSUME FlowInv, FinishOutput
    PROVE  ClientOK' /\ \A s \in Stream : StreamOK(s)'
<1> USE DEF FlowInv
<1>1. /\ wire # <<>> /\ wire' = Tail(wire) /\ Head(wire).kind = "BuildFinished" /\ cli.pc = "streaming"
      /\ UNCHANGED <<runIt, written, pipe, reader, chan, main, peer>>
      /\ shown' = [s \in Stream |-> shown[s] \o Trailing(buf[s])]
      /\ buf' = [s \in Stream |-> <<>>]
      /\ cli'.pc \in {"executing", "returned"}
    BY DEF FinishOutput, hostVars, daemonVars, OutputInv, Shape
<1>2. Sent(wire)' /\ main = "done" /\ wire' = <<>> /\ Head(wire) \in Message
    <2>1. /\ Sent(wire)' /\ Head(wire) = wire[1] /\ 1 \in 1 .. Len(wire) /\ Head(wire) \in Message
          /\ Len(wire) = 1 => Tail(wire) = <<>>
        BY <1>1, SentTail
    <2>2. Len(wire) = 1 /\ main = "done"
        BY <1>1, <2>1 DEF ClientOK, Sent
    <2> QED BY <1>1, <2>1, <2>2
<1>3. ClientOK'
    BY <1>1, <1>2 DEF ClientOK, Forwarded
<1>4. ASSUME NEW s \in Stream PROVE StreamOK(s)'
    <2>1. buf'[s] = <<>> /\ <<>> \in Bytes /\ LineFree(<<>>)
        BY <1>1 DEF Bytes, LineFree
    <2>2. ASSUME s \in Forwarded PROVE shown'[s] = Printed(written[s])
        <3>1. chan = <<>> /\ pipe[s] = <<>> /\ buf[s] \in Bytes /\ LineFree(buf[s])
            BY <1>2, <2>2 DEF ClientOK, OutputInv, ReadersOK, StreamOK, Streamed
        <3>2. Way(s)' = <<>>
            <4>1. wire' = <<>> /\ chan' = <<>> /\ pipe'[s] = <<>>
                BY <1>1, <1>2, <3>1
            <4>2. Content(s, wire') = <<>> /\ Content(s, chan') = <<>>
                BY <4>1, ContentEmpty
            <4>3. Content(s, wire)' = <<>> /\ Content(s, chan)' = <<>>
                BY <4>2 DEF Content, Gather, GathersTo, Part
            <4> QED BY <2>1, <4>1, <4>3, BytesEmpty DEF Way
        <3>3. Way(s) = <<>>
            <4>1. Part(s, Head(wire)) = <<>>
                BY <1>1 DEF Part, Stream
            <4>2. Way(s) = <<>> \o <<>>
                BY <1>1, <2>2, <3>2, <4>1, TakenFlow
            <4> QED BY <2>1, <4>2, BytesEmpty
        <3>4. PICK d \in Bytes :
                  WholeLines(d) /\ shown[s] = Tagged(d) /\ written[s] = d \o (buf[s] \o Way(s))
            BY <1>1, <2>2 DEF StreamOK, Streamed
        <3>5. written[s] = d \o buf[s]
            BY <3>1, <3>3, <3>4, BytesEmpty
        <3>6. Tagged(d) \o Trailing(buf[s]) = Printed(d \o buf[s])
            BY <3>1, <3>4, TrailingIs
        <3> QED BY <1>1, <3>4, <3>5, <3>6
    <2>3. s \in Forwarded => shown'[s] = Printed(written'[s])
        BY <1>1, <2>2
    <2> QED BY <1>1, <2>1, <2>3 DEF StreamOK, Streamed, Forwarded, Printed
<1> QED BY <1>3, <1>4

LEMMA FlowStep == FlowInv /\ [Next]_vars => FlowInv'
<1> SUFFICES ASSUME FlowInv, [Next]_vars PROVE FlowInv'
    OBVIOUS
<1>1. OutputInv'
    BY StepInv DEF FlowInv
<1>2. ClientOK' /\ \A s \in Stream : StreamOK(s)'
    <2>1. CASE UNCHANGED vars \/ Settled
        BY <2>1, QuietFlow DEF Settled
    <2>2. CASE CargoSteps \/ CargoEnds
        BY <2>2, WriteFlow, QuietFlow DEF CargoSteps
    <2>3. CASE DaemonSteps
        BY <2>3, ReadFlow, QuietFlow, ForwardFlow, EndFlow DEF DaemonSteps
    <2>4. CASE CliSteps \/ HangUp
        BY <2>4, ShowFlow, TakeFlow, FinishFlow, HangUpFlow DEF CliSteps
    <2> QED BY <2>1, <2>2, <2>3, <2>4 DEF Next
<1> QED BY <1>1, <1>2 DEF FlowInv, Stream

(* What was written of a stream is what was shown of it, in whole lines,     *)
(* then what the CLI buffers, then what is on the websocket, in the channel  *)
(* and in the pipe; and BuildFinished comes behind all of it.                *)
THEOREM FlowSafety == Spec => []FlowInv
BY FlowInit, FlowStep, PTL DEF Spec

(* The variables keep their types, however many bytes are written.           *)
THEOREM OutputTypes == Spec => []TypeOK
<1>1. FlowInv => TypeOK
    <2> SUFFICES ASSUME FlowInv PROVE TypeOK
        OBVIOUS
    <2>1. Shape /\ ClientOK
        BY DEF FlowInv, OutputInv
    <2>2. ASSUME NEW s \in Stream PROVE buf[s] \in Seq(Item(s))
        <3>1. CASE s \in Forwarded
            <4>1. Item(s) = Letter \cup {LineFeed}
                BY <3>1 DEF Item, Forwarded
            <4> QED BY <4>1 DEF FlowInv, StreamOK, Streamed, Bytes
        <3>2. CASE s \notin Forwarded
            <4>1. buf[s] = <<>>
                BY <3>2 DEF FlowInv, StreamOK, Streamed
            <4> QED BY <4>1
        <3> QED BY <3>1, <3>2
    <2> QED BY <2>1, <2>2 DEF TypeOK, Shape, ClientOK
<1> QED BY <1>1, FlowSafety, PTL

(* What the developer sees is a beginning of what was written, in whole      *)
(* lines, each with one tag, and all of it once the CLI returns: for output  *)
(* of any length, in whatever pieces the threads read and the websocket      *)
(* carries it, and whoever holds the pipes after cargo.                      *)
THEOREM CompleteTheorem == Spec => []OutputComplete
<1>1. FlowInv => OutputComplete
    <2> SUFFICES ASSUME FlowInv, NEW s \in Forwarded
                 PROVE  /\ cli.pc = "streaming" =>
                              /\ IsPrefix(shown[s], Tagged(written[s]))
                              /\ shown[s] = <<>> \/ Last(shown[s]) = LineFeed
                        /\ cli.pc \in {"executing", "returned"} => shown[s] = Printed(written[s])
        BY DEF OutputComplete, Printed
    <2>1. /\ StreamOK(s) /\ written[s] \in Bytes /\ pipe[s] \in Bytes /\ buf[s] \in Bytes
          /\ Way(s) \in Bytes
        BY Queues, WayTyped DEF FlowInv, StreamOK, Streamed
    <2>2. ASSUME cli.pc = "streaming"
          PROVE  IsPrefix(shown[s], Tagged(written[s])) /\ (shown[s] = <<>> \/ Last(shown[s]) = LineFeed)
        <3>1. PICK d \in Bytes :
                  WholeLines(d) /\ shown[s] = Tagged(d) /\ written[s] = d \o (buf[s] \o Way(s))
            BY <2>1, <2>2 DEF StreamOK, Streamed
        <3> DEFINE rest == buf[s] \o Way(s)
                   A == Letter \cup {LineFeed} \cup {Tag}
        <3>2. rest \in Bytes
            BY <2>1, BytesConcat
        <3>3. /\ Tagged(written[s]) = Tagged(d) \o Tagged(rest)
              /\ Tagged(d) \in Seq(A) /\ Tagged(rest) \in Seq(A)
            BY <3>1, <3>2, TaggedConcat, TaggedTyped DEF Bytes
        <3>4. IsPrefix(Tagged(d), Tagged(d) \o Tagged(rest))
            <4> DEFINE x == Tagged(d)
                       y == Tagged(rest)
            <4>1. x \in Seq(A) /\ y \in Seq(A)
                BY <3>3
            <4> HIDE DEF x, y, A
            <4>2. Len(x) <= Len(x \o y) /\ Len(x) \in Nat
                BY <4>1
            <4>3. SubSeq(x, 1, Len(x)) = SubSeq(x \o y, 1, Len(x))
                <5>1. CASE x = <<>>
                    BY <4>1, <5>1, SubSeqEmpty
                <5>2. CASE x # <<>>
                    <6>1. 1 \in 1 .. Len(x) /\ Len(x) \in 1 .. Len(x)
                        BY <4>1, <5>2
                    <6> QED BY <4>1, <6>1, SubSeqOfConcat1
                <5> QED BY <5>1, <5>2
            <4> QED BY <4>2, <4>3 DEF IsPrefix, x, y
        <3>5. Tagged(d) = <<>> \/ Last(Tagged(d)) = LineFeed
            BY <3>1, TaggedEmpty, TaggedTyped DEF WholeLines, Bytes
        <3> QED BY <3>1, <3>3, <3>4, <3>5
    <2> QED BY <2>1, <2>2 DEF StreamOK, Streamed
<1> QED BY <1>1, FlowSafety, PTL
=============================================================================
