-------------------------- MODULE AgentProxy_proofs --------------------------
(* That an agent lending one websocket to one run after another keeps their  *)
(* sessions apart, for any number of runs, interruptions and restarts.       *)
EXTENDS AgentProxy, SequenceTheorems, TLAPS

(* What a socket or the websocket may carry.                                 *)
Word == ClientKinds \cup DaemonKinds
            \cup {"GetLastSync", "SetLastSync", "Shutdown", "StartProxy", "LastSync", "Ok"}
Message == [kind : Word, of : Client]

CliPc == {"start", "asking", "ready", "response", "needed", "stream", "ack",
          "output", "record", "recording", "leaving", "ended"}

AgentRecord == [pc : {"accept", "request", "client", "daemon", "gone"},
                sock : Socket \cup {NoSocket}, started : BOOLEAN]

DaemonRecord == [pc : {"idle", "manifest", "receive", "output"},
                 of : Client \cup {Nobody}, lines : 0 .. MaxOutput]

CliTypes == cli \in [Client -> CliPc]

SocketTypes ==
    /\ backlog \in Seq(Socket)
    /\ toAgent \in [Socket -> Seq(Message)]
    /\ toCli \in [Socket -> Seq(Message)]
    /\ cliOpen \subseteq Socket /\ agentOpen \subseteq Socket

AgentTypes ==
    /\ agent \in AgentRecord
    /\ agent.pc \in {"request", "client", "daemon"} <=> agent.sock # NoSocket

WireTypes ==
    /\ ws \in {"none", "up", "dead"}
    /\ wsUp \in Seq(Message) /\ wsDown \in Seq(Message)
    /\ daemon \in DaemonRecord
    /\ daemon.pc # "idle" => daemon.of \in Client

HistoryTypes ==
    /\ lastSync \in Client \cup {Nobody}
    /\ crashes \in 0 .. MaxCrashes /\ aborts \in 0 .. MaxAborts
    /\ asked \in [Client -> Seq(Word)] /\ heard \in [Client -> Seq(Word)]
    /\ told \in [Client -> Seq(Word)] /\ got \in [Client -> Seq(Word)]

Types == CliTypes /\ SocketTypes /\ AgentTypes /\ WireTypes /\ HistoryTypes

(* The run's build has finished and the CLI has read so.                     *)
Built(c) == got[c] # <<>> /\ got[c][Len(got[c])] = "BuildFinished"

(* A run that records, has a build to record.                                *)
Recording(c) == cli[c] \in {"record", "recording"} => Built(c)

(* What is recorded is of a run that reads no session any more.              *)
Records(c) == cli[c] \in {"recording", "ended"} /\ Built(c)

(* What a run asks the agent to record, and what the agent has recorded.     *)
HintOK ==
    /\ \A c \in Client : Recording(c)
    /\ \A k \in Socket : \A i \in 1 .. Len(toAgent[k]) :
           toAgent[k][i].kind = "SetLastSync" => Records(k[1])
    /\ lastSync # Nobody => Records(lastSync)

(* A message on a socket is of the run that opened it, and asks to begin a   *)
(* session only on its proxy socket.                                         *)
MailOK ==
    \A k \in Socket : \A i \in 1 .. Len(toAgent[k]) :
        /\ toAgent[k][i].of = k[1]
        /\ toAgent[k][i].kind = "StartProxy" => k[2] = "proxy"

(* The websocket.                                                            *)
Clean == wsUp = <<>> /\ wsDown = <<>> /\ daemon.pc = "idle"

Speaks == agent.pc \in {"client", "daemon"} /\ agent.started

WireOK ==
    /\ ws # "up" => wsUp = <<>> /\ daemon.pc = "idle"
    /\ ws = "none" => wsDown = <<>> /\ agent.pc \notin {"client", "daemon"}
    /\ ~Speaks => Clean
    /\ agent.pc = "daemon" => agent.started
    /\ agent.pc = "client" => /\ wsDown = <<>> /\ daemon.pc # "output"
                              /\ \A i \in 1 .. Len(wsUp) : ~EndsClientTurn(wsUp[i].kind)
    /\ \A i \in 1 .. Len(wsUp) :
          /\ wsUp[i].of = agent.sock[1]
          /\ EndsClientTurn(wsUp[i].kind) => i = Len(wsUp)
    /\ \A i \in 1 .. Len(wsDown) :
          EndsSession(wsDown[i].kind) \/ YieldsToClient(wsDown[i].kind) =>
              i = Len(wsDown) /\ daemon.pc # "output"
    /\ \A i \in 1 .. Len(wsDown) : EndsSession(wsDown[i].kind) => daemon.pc = "idle"
    /\ wsDown # <<>> \/ daemon.pc = "output" => wsUp = <<>>
    /\ daemon.pc # "idle" => daemon.of = agent.sock[1]
    /\ agent.pc \in {"client", "daemon"} => agent.sock[2] = "proxy"

(* Where a run's session is.                                                 *)
Proxy(c) == <<c, "proxy">>

Queued(k) == \E i \in 1 .. Len(backlog) : backlog[i] = k

Once(c) ==
    \A i, j \in 1 .. Len(backlog) : backlog[i] = Proxy(c) /\ backlog[j] = Proxy(c) => i = j

QueueOK(c) ==
    /\ Once(c)
    /\ agent.sock = Proxy(c) => ~Queued(Proxy(c))
    /\ agent.sock = Proxy(c) \/ Queued(Proxy(c)) => Proxy(c) \in agentOpen

(* Nothing has been said in a session that has not begun.                    *)
Unheard(c) == heard[c] = <<>> /\ told[c] = <<>> /\ got[c] = <<>> /\ toCli[Proxy(c)] = <<>>

FreshOK(c) ==
    cli[c] \in {"start", "asking", "ready"} =>
        /\ asked[c] = <<>> /\ Unheard(c)
        /\ ~Queued(Proxy(c)) /\ agent.sock # Proxy(c)

(* What a daemon's thread at pc can make sense of.                           *)
Understood(pc, q) ==
    \/ q = <<>>
    \/ pc = "idle" /\ Len(q) = 1 /\ q[1].kind \in {"Probe", "TipRequest"}
    \/ pc = "manifest" /\ Len(q) = 1 /\ q[1].kind = "Manifest"
    \/ pc = "receive" /\ \A i \in 1 .. Len(q) :
            q[i].kind = "FileData" \/ (q[i].kind = "SyncDone" /\ i = Len(q))

Waits(c) == Queued(Proxy(c)) \/ (agent.pc = "request" /\ agent.sock = Proxy(c))

WaitingOK(c) ==
    Waits(c) =>
        LET q == toAgent[Proxy(c)] IN
        /\ Unheard(c) /\ cli[c] \in {"response", "ended"}
        /\ q # <<>> /\ Head(q).kind = "StartProxy"
        /\ asked[c] = Kinds(Tail(q))
        /\ Understood("idle", Tail(q))

(* What the agent has passed on to the run, read by it or not.               *)
Arrived(c) == got[c] \o Kinds(toCli[Proxy(c)])

FlowOK(c) == Begins(heard[c], asked[c]) /\ Begins(Arrived(c), told[c])

(* The session the agent is in the middle of.                                *)
Serves(c) == agent.pc \in {"client", "daemon"} /\ agent.sock = Proxy(c)

Unread(c) == wsUp \o toAgent[Proxy(c)]

Quiet(c) == toCli[Proxy(c)] = <<>> /\ wsDown = <<>>

(* The thread has asked the CLI for something, and that is all there is.     *)
Awaits(c, kind) ==
    /\ Unread(c) = <<>>
    /\ Len(toCli[Proxy(c)]) + Len(wsDown) = 1
    /\ daemon.pc = After(kind)

DialogueOK(c) ==
    /\ Understood(daemon.pc, Unread(c))
    /\ Unread(c) # <<>> => Quiet(c)
    /\ \A i \in 1 .. Len(toCli[Proxy(c)]) :
          YieldsToClient(toCli[Proxy(c)][i].kind) => Awaits(c, toCli[Proxy(c)][i].kind)
    /\ \A i \in 1 .. Len(wsDown) :
          YieldsToClient(wsDown[i].kind) => Awaits(c, wsDown[i].kind)
    /\ cli[c] = "stream" => Unread(c) = <<>> /\ Quiet(c) /\ daemon.pc = "receive"

ServedOK(c) ==
    Serves(c) =>
        /\ told[c] = Arrived(c) \o Kinds(wsDown)
        /\ ws = "up" => asked[c] = heard[c] \o Kinds(Unread(c)) /\ DialogueOK(c)

SessionOK(c) == QueueOK(c) /\ FreshOK(c) /\ WaitingOK(c) /\ FlowOK(c) /\ ServedOK(c)

ProxyInv ==
    /\ Types /\ HintOK /\ MailOK /\ WireOK
    /\ \A c \in Client : SessionOK(c)

-----------------------------------------------------------------------------
(* Sequences.                                                                *)

LEMMA KindsSeq ==
    ASSUME NEW q \in Seq(Message)
    PROVE  /\ Kinds(q) \in Seq(Word) /\ Len(Kinds(q)) = Len(q)
           /\ \A i \in 1 .. Len(q) : Kinds(q)[i] = q[i].kind
<1>1. DOMAIN q = 1 .. Len(q) /\ Len(q) \in Nat /\ \A i \in 1 .. Len(q) : q[i] \in Message
    BY LenProperties, ElementOfSeq
<1>2. \A i \in 1 .. Len(q) : q[i].kind \in Word
    BY <1>1 DEF Message
<1>3. Kinds(q) = [i \in 1 .. Len(q) |-> q[i].kind]
    BY <1>1 DEF Kinds
<1> QED BY <1>1, <1>2, <1>3

LEMMA KindsOfNone == Kinds(<< >>) = << >>
BY DEF Kinds

(* A message taken from one buffer and put into the next.                    *)
LEMMA PassAlong ==
    ASSUME NEW q \in Seq(Message), NEW t \in Seq(Message), t # << >>
    PROVE  Append(q, Head(t)) \o Tail(t) = q \o t
<1>1. Head(t) \in Message /\ Tail(t) \in Seq(Message) /\ Len(Tail(t)) = Len(t) - 1
      /\ Head(t) = t[1] /\ \A i \in 1 .. Len(Tail(t)) : Tail(t)[i] = t[i + 1]
    BY HeadTailProperties
<1>2. Append(q, Head(t)) \in Seq(Message) /\ Len(Append(q, Head(t))) = Len(q) + 1
      /\ Append(q, Head(t))[Len(q) + 1] = Head(t)
      /\ \A i \in 1 .. Len(q) : Append(q, Head(t))[i] = q[i]
    BY <1>1, AppendProperties
<1>3. Len(q) \in Nat /\ Len(t) \in Nat \ {0}
    BY EmptySeq, LenProperties
<1>4. Append(q, Head(t)) \o Tail(t) \in Seq(Message) /\ q \o t \in Seq(Message)
      /\ Len(Append(q, Head(t)) \o Tail(t)) = Len(q \o t)
    BY <1>1, <1>2, <1>3, ConcatProperties
<1>5. ASSUME NEW i \in 1 .. Len(q \o t) 
      PROVE  (Append(q, Head(t)) \o Tail(t))[i] = (q \o t)[i]
    <2>1. (q \o t)[i] = IF i <= Len(q) THEN q[i] ELSE t[i - Len(q)]
        BY ConcatProperties
    <2>2. (Append(q, Head(t)) \o Tail(t))[i] =
              IF i <= Len(q) + 1 THEN Append(q, Head(t))[i] ELSE Tail(t)[i - (Len(q) + 1)]
        BY <1>1, <1>2, <1>4, ConcatProperties
    <2>3. CASE i <= Len(q)
        BY <1>2, <1>3, <2>1, <2>2, <2>3
    <2>4. CASE i = Len(q) + 1
        BY <1>1, <1>2, <1>3, <2>1, <2>2, <2>4
    <2>5. CASE i > Len(q) + 1
        <3>1. Len(q \o t) = Len(q) + Len(t) /\ i - (Len(q) + 1) \in 1 .. Len(Tail(t))
            BY <1>1, <1>3, <2>5, ConcatProperties
        <3> QED BY <1>1, <1>3, <2>1, <2>2, <2>5, <3>1
    <2> QED BY <1>3, <2>3, <2>4, <2>5
<1> QED BY <1>4, <1>5, SeqEqual

LEMMA KindsConcat ==
    ASSUME NEW q \in Seq(Message), NEW t \in Seq(Message)
    PROVE  Kinds(q \o t) = Kinds(q) \o Kinds(t)
<1>1. q \o t \in Seq(Message) /\ Len(q \o t) = Len(q) + Len(t)
      /\ \A i \in 1 .. Len(q) + Len(t) : (q \o t)[i] = IF i <= Len(q) THEN q[i] ELSE t[i - Len(q)]
    BY ConcatProperties
<1>2. /\ Kinds(q) \in Seq(Word) /\ Len(Kinds(q)) = Len(q)
      /\ Kinds(t) \in Seq(Word) /\ Len(Kinds(t)) = Len(t)
      /\ Kinds(q \o t) \in Seq(Word) /\ Len(Kinds(q \o t)) = Len(q) + Len(t)
      /\ Len(q) \in Nat /\ Len(t) \in Nat
    BY <1>1, KindsSeq, LenProperties
<1>3. Kinds(q) \o Kinds(t) \in Seq(Word) /\ Len(Kinds(q) \o Kinds(t)) = Len(q) + Len(t)
      /\ \A i \in 1 .. Len(q) + Len(t) : (Kinds(q) \o Kinds(t))[i] =
             IF i <= Len(q) THEN Kinds(q)[i] ELSE Kinds(t)[i - Len(q)]
    <2>1. /\ Kinds(q) \o Kinds(t) \in Seq(Word)
          /\ Len(Kinds(q) \o Kinds(t)) = Len(Kinds(q)) + Len(Kinds(t))
          /\ \A i \in 1 .. Len(Kinds(q)) + Len(Kinds(t)) : (Kinds(q) \o Kinds(t))[i] =
                 IF i <= Len(Kinds(q)) THEN Kinds(q)[i] ELSE Kinds(t)[i - Len(Kinds(q))]
        <3>1. Kinds(q) \in Seq(Word) /\ Kinds(t) \in Seq(Word)
            BY <1>2
        <3> QED BY <3>1, ConcatProperties, Zenon
    <2> QED BY <1>2, <2>1
<1>4. ASSUME NEW i \in 1 .. Len(q) + Len(t)
      PROVE  Kinds(q \o t)[i] = (Kinds(q) \o Kinds(t))[i]
    <2>1. Kinds(q \o t)[i] = (q \o t)[i].kind
        BY <1>1, KindsSeq
    <2>2. CASE i <= Len(q)
        <3>1. Kinds(q)[i] = q[i].kind
            BY <1>2, <2>2, KindsSeq
        <3> QED BY <1>1, <1>3, <2>1, <2>2, <3>1
    <2>3. CASE ~(i <= Len(q))
        <3>1. i - Len(q) \in 1 .. Len(t)
            BY <1>2, <2>3
        <3>2. Kinds(t)[i - Len(q)] = t[i - Len(q)].kind
            BY <3>1, KindsSeq
        <3> QED BY <1>1, <1>3, <2>1, <2>3, <3>2
    <2> QED BY <2>2, <2>3
<1> QED BY <1>2, <1>3, <1>4, SeqEqual

LEMMA KindsOfOne ==
    ASSUME NEW m \in Message
    PROVE  Kinds(<<m>>) = <<m.kind>>
BY DEF Kinds

LEMMA KindsAppend ==
    ASSUME NEW q \in Seq(Message), NEW m \in Message
    PROVE  Kinds(Append(q, m)) = Append(Kinds(q), m.kind)
<1>1. Append(q, m) = q \o <<m>> /\ <<m>> \in Seq(Message)
    BY AppendIsConcat
<1>2. Kinds(q) \in Seq(Word) /\ m.kind \in Word
    BY KindsSeq DEF Message
<1>3. Append(Kinds(q), m.kind) = Kinds(q) \o <<m.kind>>
    BY <1>2, AppendIsConcat
<1> QED BY <1>1, <1>3, KindsConcat, KindsOfOne

LEMMA WordsAssociate ==
    \A s, t, u \in Seq(Word) : (s \o t) \o u = s \o (t \o u)
<1> SUFFICES ASSUME NEW s \in Seq(Word), NEW t \in Seq(Word), NEW u \in Seq(Word)
             PROVE  (s \o t) \o u = s \o (t \o u)
    OBVIOUS
<1> QED BY SMTT(30)

(* What has been said and is on its way, when the first of it arrives.       *)
LEMMA TakeHead ==
    ASSUME NEW h \in Seq(Word), NEW q \in Seq(Message), q # << >>
    PROVE  Append(h, Head(q).kind) \o Kinds(Tail(q)) = h \o Kinds(q)
<1>1. Head(q) \in Message /\ Tail(q) \in Seq(Message)
    BY HeadTailProperties
<1>9. Head(q).kind \in Word
    BY <1>1 DEF Message
<1>2. <<Head(q)>> \in Seq(Message) /\ <<Head(q).kind>> \in Seq(Word)
    BY <1>1, <1>9
<1>3. q = <<Head(q)>> \o Tail(q)
    <2>1. Append(<< >>, Head(q)) \o Tail(q) = << >> \o q
        BY PassAlong, EmptySeq
    <2>2. Append(<< >>, Head(q)) = <<Head(q)>>
        BY <1>1
    <2> QED BY <2>1, <2>2, ConcatEmptySeq
<1>4. Kinds(q) = <<Head(q).kind>> \o Kinds(Tail(q))
    BY <1>1, <1>2, <1>3, KindsConcat, KindsOfOne
<1>5. Append(h, Head(q).kind) = h \o <<Head(q).kind>>
    BY <1>9, AppendIsConcat
<1>6. Kinds(Tail(q)) \in Seq(Word)
    BY <1>1, KindsSeq
<1>7. (h \o <<Head(q).kind>>) \o Kinds(Tail(q)) = h \o (<<Head(q).kind>> \o Kinds(Tail(q)))
    BY <1>2, <1>6, WordsAssociate, Zenon
<1> QED BY <1>4, <1>5, <1>7, Zenon

(* And when more is said.                                                    *)
LEMMA AddLast ==
    ASSUME NEW h \in Seq(Word), NEW q \in Seq(Message), NEW m \in Message
    PROVE  h \o Kinds(Append(q, m)) = Append(h \o Kinds(q), m.kind)
<1>1. Kinds(q) \in Seq(Word) /\ m.kind \in Word /\ h \o Kinds(q) \in Seq(Word)
    BY KindsSeq, ConcatProperties DEF Message
<1>2. Kinds(Append(q, m)) = Kinds(q) \o <<m.kind>>
    BY <1>1, KindsAppend, AppendIsConcat
<1>3. <<m.kind>> \in Seq(Word)
    BY <1>1
<1>4. Append(h \o Kinds(q), m.kind) = (h \o Kinds(q)) \o <<m.kind>>
    BY <1>1, AppendIsConcat
<1>5. (h \o Kinds(q)) \o <<m.kind>> = h \o (Kinds(q) \o <<m.kind>>)
    BY <1>1, <1>3, WordsAssociate, Zenon
<1> QED BY <1>2, <1>4, <1>5, Zenon

LEMMA AddMany ==
    ASSUME NEW h \in Seq(Word), NEW q \in Seq(Message), NEW ms \in Seq(Message)
    PROVE  h \o Kinds(q \o ms) = (h \o Kinds(q)) \o Kinds(ms)
<1>1. Kinds(q) \in Seq(Word) /\ Kinds(ms) \in Seq(Word)
    BY KindsSeq
<1>2. Kinds(q \o ms) = Kinds(q) \o Kinds(ms)
    BY KindsConcat
<1>3. (h \o Kinds(q)) \o Kinds(ms) = h \o (Kinds(q) \o Kinds(ms))
    BY <1>1, WordsAssociate, Zenon
<1> QED BY <1>2, <1>3, Zenon

LEMMA BeginsConcat ==
    ASSUME NEW s \in Seq(Word), NEW t \in Seq(Word)
    PROVE  Begins(s, s \o t)
<1>1. Len(s) \in Nat /\ Len(t) \in Nat /\ s \o t \in Seq(Word) /\ Len(s \o t) = Len(s) + Len(t)
    BY LenProperties, ConcatProperties
<1>2. SubSeq(s \o t, 1, Len(s)) = s
    <2>1. CASE s = << >>
        <3>1. SubSeq(s \o t, 1, 0) = << >>
            BY SubSeqEmpty
        <3> QED BY <2>1, <3>1, EmptySeq
    <2>2. CASE s # << >>
        <3>1. Len(s) # 0
            BY <2>2, EmptySeq
        <3>2. Len(s) \in 1 .. Len(s) /\ 1 \in 1 .. Len(s)
            <4>1. \A n \in Nat : n # 0 => n \in 1 .. n /\ 1 \in 1 .. n
                OBVIOUS
            <4> QED BY <1>1, <3>1, <4>1, Zenon
        <3> QED BY <3>2, SubSeqOfConcat1, SubSeqFull
    <2> QED BY <2>1, <2>2
<1> QED BY <1>1, <1>2 DEF Begins

(* A beginning is what the whole can be cut after.                           *)
LEMMA BeginsSplit ==
    ASSUME NEW s \in Seq(Word), NEW t \in Seq(Word), Begins(s, t)
    PROVE  \E u \in Seq(Word) : t = s \o u
<1>1. Len(s) \in Nat /\ Len(t) \in Nat /\ Len(s) <= Len(t) /\ SubSeq(t, 1, Len(s)) = s
    BY LenProperties DEF Begins
<1>2. SubSeq(t, Len(s) + 1, Len(t)) \in Seq(Word)
    BY <1>1, SubSeqProperties
<1>3. SubSeq(t, 1, Len(s)) \o SubSeq(t, Len(s) + 1, Len(t)) = SubSeq(t, 1, Len(t))
    <2>1. 1 \in 1 .. Len(t) + 1 /\ Len(s) \in 1 - 1 .. Len(t) /\ Len(t) \in Len(s) .. Len(t)
        BY <1>1
    <2> QED BY <2>1, ConcatAdjacentSubSeq
<1>4. SubSeq(t, 1, Len(t)) = t
    BY SubSeqFull
<1> QED BY <1>1, <1>2, <1>3, <1>4

LEMMA BeginsMore ==
    ASSUME NEW s \in Seq(Word), NEW t \in Seq(Word), NEW u \in Seq(Word), Begins(s, t)
    PROVE  Begins(s, t \o u)
<1>1. PICK v \in Seq(Word) : t = s \o v
    BY BeginsSplit
<1>2. t \o u = s \o (v \o u) /\ v \o u \in Seq(Word)
    BY <1>1, WordsAssociate, ConcatProperties
<1> QED BY <1>2, BeginsConcat

LEMMA BeginsAppend ==
    ASSUME NEW s \in Seq(Word), NEW t \in Seq(Word), NEW w \in Word, Begins(s, t)
    PROVE  Begins(s, Append(t, w))
<1>1. Append(t, w) = t \o <<w>> /\ <<w>> \in Seq(Word)
    BY AppendIsConcat
<1> QED BY <1>1, BeginsMore

LEMMA BeginsEmpty ==
    ASSUME NEW t \in Seq(Word)
    PROVE  Begins(<< >>, t)
<1>1. << >> \in Seq(Word) /\ << >> \o t = t
    BY EmptySeq, ConcatEmptySeq
<1> QED BY <1>1, BeginsConcat, Zenon

-----------------------------------------------------------------------------
(* Types.                                                                    *)

LEMMA SocketOf ==
    /\ \A c \in Client : /\ <<c, "knock">> \in Socket /\ <<c, "get">> \in Socket
                         /\ <<c, "proxy">> \in Socket /\ <<c, "set">> \in Socket
    /\ \A k \in Socket : k[1] \in Client /\ k = <<k[1], k[2]>> /\ k # NoSocket
BY AgentAssumption DEF Socket

LEMMA MsgType ==
    ASSUME NEW c \in Client, NEW kind \in Word
    PROVE  Msg(kind, c) \in Message /\ <<Msg(kind, c)>> \in Seq(Message)
<1>1. Msg(kind, c) \in Message
    BY DEF Msg, Message
<1> QED BY <1>1

LEMMA ConnectTypes ==
    ASSUME Types, NEW k \in Socket, NEW ms \in Seq(Message), Connect(k, ms)
    PROVE  SocketTypes'
<1>1. <<k[1], "knock">> \in Socket
    BY SocketOf
<1>2. PICK socks \in Seq(Socket) :
          /\ backlog' = backlog \o socks
          /\ agentOpen' = agentOpen \cup {socks[i] : i \in DOMAIN socks}
    <2>1. CASE cli[k[1]] = "start"
        <3>1. << <<k[1], "knock">>, k >> \in Seq(Socket)
            BY <1>1
        <3> QED BY <2>1, <3>1 DEF Connect
    <2>2. CASE cli[k[1]] # "start"
        <3>1. <<k>> \in Seq(Socket)
            OBVIOUS
        <3> QED BY <2>2, <3>1 DEF Connect
    <2> QED BY <2>1, <2>2
<1>3. backlog' \in Seq(Socket)
    BY <1>2, ConcatProperties DEF Types, SocketTypes
<1>4. \A i \in DOMAIN socks : socks[i] \in Socket
    BY LenProperties, ElementOfSeq
<1>5. toAgent' \in [Socket -> Seq(Message)] /\ toCli' = toCli /\ cliOpen' = cliOpen \cup {k}
    BY DEF Connect, Types, SocketTypes
<1> QED BY <1>2, <1>3, <1>4, <1>5 DEF Types, SocketTypes

LEMMA SendTypes ==
    ASSUME Types, NEW k \in Socket, NEW ms \in Seq(Message), CliSend(k, ms)
    PROVE  toAgent' \in [Socket -> Seq(Message)]
<1>1. toAgent[k] \o ms \in Seq(Message)
    BY ConcatProperties DEF Types, SocketTypes
<1> QED BY <1>1 DEF CliSend, Types, SocketTypes

LEMMA ReadTypes ==
    ASSUME Types, NEW c \in Client, NEW k \in Socket, NEW kind \in Word, CliReads(c, k, kind)
    PROVE  toCli' \in [Socket -> Seq(Message)] /\ got' \in [Client -> Seq(Word)]
<1>1. toCli[k] \in Seq(Message) /\ got[c] \in Seq(Word)
    BY DEF Types, SocketTypes, HistoryTypes
<1>2. Tail(toCli[k]) \in Seq(Message)
    BY <1>1, HeadTailProperties DEF CliReads
<1>3. Append(got[c], kind) \in Seq(Word)
    BY <1>1
<1> QED BY <1>2, <1>3 DEF CliReads, Types, SocketTypes, HistoryTypes

LEMMA WordsKnown ==
    /\ {"GetLastSync", "SetLastSync", "Shutdown", "StartProxy", "LastSync", "Ok"} \subseteq Word
    /\ ClientKinds \subseteq Word /\ DaemonKinds \subseteq Word
    /\ {"Probe", "Manifest", "FileData", "SyncDone", "TipRequest"} \subseteq Word
    /\ {"ProbeAccepted", "ProbeMiss", "NeedFiles", "SyncAck", "SlotsBusy", "BuildStdout",
        "BuildStderr", "Executable", "BuildFinished", "Tip"} \subseteq Word
BY DEF Word, ClientKinds, DaemonKinds

(* What stream_files writes.                                                 *)
LEMMA StreamMail ==
    ASSUME NEW c \in Client, NEW ks \in {<<"SyncDone">>, <<"FileData", "SyncDone">>}
    PROVE  /\ ks \in Seq(Word)
           /\ [i \in DOMAIN ks |-> Msg(ks[i], c)] \in Seq(Message)
           /\ Len([i \in DOMAIN ks |-> Msg(ks[i], c)]) = Len(ks)
           /\ \A j \in 1 .. Len(ks) : [i \in DOMAIN ks |-> Msg(ks[i], c)][j] = Msg(ks[j], c)
           /\ Kinds([i \in DOMAIN ks |-> Msg(ks[i], c)]) = ks
<1> DEFINE ms == [i \in DOMAIN ks |-> Msg(ks[i], c)]
<1>1. ks \in Seq(Word)
    <2>1. <<"SyncDone">> \in Seq(Word) /\ <<"FileData", "SyncDone">> \in Seq(Word)
        BY WordsKnown
    <2> QED BY <2>1
<1>2. DOMAIN ks = 1 .. Len(ks) /\ Len(ks) \in Nat
    BY <1>1, LenProperties
<1>3. ms = [i \in 1 .. Len(ks) |-> Msg(ks[i], c)]
    BY <1>2
<1>4. \A i \in 1 .. Len(ks) : Msg(ks[i], c) \in Message
    BY <1>1, MsgType, ElementOfSeq
<1>5. ms \in Seq(Message) /\ Len(ms) = Len(ks)
    BY <1>2, <1>3, <1>4
<1>6. \A j \in 1 .. Len(ks) : ms[j] = Msg(ks[j], c)
    BY <1>3
<1>7. Kinds(ms) = ks
    <2>1. /\ Kinds(ms) \in Seq(Word) /\ Len(Kinds(ms)) = Len(ms)
          /\ \A i \in 1 .. Len(ms) : Kinds(ms)[i] = ms[i].kind
        BY <1>5, KindsSeq
    <2>2. \A i \in 1 .. Len(ks) : Kinds(ms)[i] = ks[i]
        <3>1. \A i \in 1 .. Len(ks) : Msg(ks[i], c).kind = ks[i]
            BY DEF Msg
        <3> HIDE DEF ms
        <3> QED BY <1>5, <1>6, <2>1, <3>1
    <2> HIDE DEF ms
    <2> QED BY <1>1, <1>5, <2>1, <2>2, SeqEqual
<1> QED BY <1>1, <1>5, <1>6, <1>7

LEMMA HangUpTypes ==
    ASSUME Types, NEW c \in Client, HangUp(c)
    PROVE  CliTypes' /\ SocketTypes' /\ AgentTypes' /\ WireTypes' /\ lastSync' = lastSync
           /\ UNCHANGED <<asked, heard, told, got>>
<1>1. CliTypes'
    BY DEF HangUp, Enter, CliTypes, CliPc, Types
<1>2. SocketTypes'
    BY DEF HangUp, SocketTypes, Types
<1>3. AgentTypes' /\ WireTypes'
    BY DEF HangUp, AgentTypes, WireTypes, wsVars, Types
<1> QED BY <1>1, <1>2, <1>3 DEF HangUp

LEMMA CliStepTypes ==
    ASSUME Types, NEW c \in Client, CliStep(c)
    PROVE  Types'
<1> USE SocketOf, WordsKnown
<1> DEFINE P == <<c, "proxy">>
<1>1. SUFFICES ASSUME ~Failed(c) PROVE Types'
    <2>1. CASE Failed(c)
        <3>1. HangUp(c) /\ UNCHANGED boundVars
            BY <2>1 DEF Failed
        <3> QED BY <3>1, HangUpTypes DEF Types, HistoryTypes, boundVars
    <2> QED BY <2>1
<1>2. AgentTypes' /\ WireTypes'
    <2>1. CliFrame
        BY <1>1 DEF CliStep, AskLastSync, HaveHint, OpenSession, GoDirect, SessionReads,
                    SessionEnds, Stream, Record, Recorded, Login, LoggedIn
    <2> QED BY <2>1 DEF CliFrame, wsVars, Types, AgentTypes, WireTypes
<1>3. CliTypes'
    BY <1>1 DEF CliStep, AskLastSync, HaveHint, OpenSession, GoDirect, SessionReads, SessionEnds,
                Stream, Record, Recorded, Login, LoggedIn, Enter, Types, CliTypes, CliPc
<1>4. SocketTypes' /\ asked' \in [Client -> Seq(Word)] /\ got' \in [Client -> Seq(Word)]
    <2>1. CASE AskLastSync(c)
        <3>1. <<Msg("GetLastSync", c)>> \in Seq(Message)
            BY MsgType
        <3> QED BY <2>1, <3>1, ConnectTypes DEF AskLastSync, Types, HistoryTypes
    <2>2. CASE HaveHint(c)
        BY <2>2, ReadTypes DEF HaveHint, Types, SocketTypes, HistoryTypes
    <2>3. CASE OpenSession(c)
        <3>1. PICK first \in {"TipRequest", "Probe"} :
                  /\ Connect(P, <<Msg("StartProxy", c), Msg(first, c)>>)
                  /\ asked' = [asked EXCEPT ![c] = <<first>>]
                  /\ UNCHANGED got
            BY <2>3 DEF OpenSession
        <3>2. Msg("StartProxy", c) \in Message /\ Msg(first, c) \in Message
            BY MsgType
        <3>3. <<Msg("StartProxy", c), Msg(first, c)>> \in Seq(Message) /\ <<first>> \in Seq(Word)
            BY <3>2
        <3>4. SocketTypes'
            BY <3>1, <3>3, ConnectTypes
        <3> QED BY <3>1, <3>3, <3>4 DEF Types, HistoryTypes
    <2>4. CASE GoDirect(c)
        BY <2>4 DEF GoDirect, socketVars, Types, SocketTypes, HistoryTypes
    <2>5. CASE SessionReads(c)
        <3>1. /\ UNCHANGED <<backlog, cliOpen, agentOpen>>
              /\ \E kind \in DaemonKinds : CliReads(c, P, kind)
            BY <2>5 DEF SessionReads, DaemonKinds
        <3>2. toCli' \in [Socket -> Seq(Message)] /\ got' \in [Client -> Seq(Word)]
            BY <3>1, ReadTypes
        <3>3. toAgent' \in [Socket -> Seq(Message)] /\ asked' \in [Client -> Seq(Word)]
            <4>1. CASE UNCHANGED <<toAgent, asked>>
                BY <4>1 DEF Types, SocketTypes, HistoryTypes
            <4>2. CASE /\ CliSend(P, <<Msg("Manifest", c)>>)
                       /\ asked' = [asked EXCEPT ![c] = Append(@, "Manifest")]
                <5>1. <<Msg("Manifest", c)>> \in Seq(Message)
                    BY MsgType
                <5>2. asked[c] \in Seq(Word)
                    BY DEF Types, HistoryTypes
                <5>3. Append(asked[c], "Manifest") \in Seq(Word)
                    BY <5>2
                <5> QED BY <4>2, <5>1, <5>3, SendTypes DEF Types, HistoryTypes
            <4> QED BY <2>5, <4>1, <4>2 DEF SessionReads
        <3> QED BY <3>1, <3>2, <3>3 DEF Types, SocketTypes
    <2>6. CASE SessionEnds(c)
        BY <2>6, ReadTypes DEF SessionEnds, Types, SocketTypes, HistoryTypes
    <2>7. CASE Stream(c)
        <3>1. PICK ks \in {<<"SyncDone">>, <<"FileData", "SyncDone">>} :
                  /\ CliSend(P, [i \in DOMAIN ks |-> Msg(ks[i], c)])
                  /\ asked' = [asked EXCEPT ![c] = @ \o ks]
            BY <2>7 DEF Stream
        <3>3. ks \in Seq(Word) /\ [i \in DOMAIN ks |-> Msg(ks[i], c)] \in Seq(Message)
            BY StreamMail
        <3>4. toAgent' \in [Socket -> Seq(Message)]
            BY <3>1, <3>3, SendTypes
        <3>5. asked[c] \in Seq(Word)
            BY DEF Types, HistoryTypes
        <3>6. asked[c] \o ks \in Seq(Word)
            BY <3>3, <3>5, ConcatProperties
        <3> QED BY <2>7, <3>1, <3>4, <3>6 DEF Stream, Types, SocketTypes, HistoryTypes
    <2>8. CASE Record(c)
        <3>1. <<Msg("SetLastSync", c)>> \in Seq(Message)
            BY MsgType
        <3> QED BY <2>8, <3>1, ConnectTypes DEF Record, Types, HistoryTypes
    <2>9. CASE Recorded(c)
        BY <2>9, ReadTypes DEF Recorded, Types, SocketTypes, HistoryTypes
    <2>10. CASE Login(c)
        <3>1. <<Msg("Shutdown", c)>> \in Seq(Message)
            BY MsgType
        <3> QED BY <2>10, <3>1, ConnectTypes DEF Login, Types, HistoryTypes
    <2>11. CASE LoggedIn(c)
        BY <2>11, ReadTypes DEF LoggedIn, Types, SocketTypes, HistoryTypes
    <2> QED BY <1>1, <2>1, <2>2, <2>3, <2>4, <2>5, <2>6, <2>7, <2>8, <2>9, <2>10, <2>11 DEF CliStep
<1>5. HistoryTypes'
    <2>1. CliFrame
        BY <1>1 DEF CliStep, AskLastSync, HaveHint, OpenSession, GoDirect, SessionReads,
                    SessionEnds, Stream, Record, Recorded, Login, LoggedIn
    <2> QED BY <1>4, <2>1 DEF CliFrame, boundVars, Types, HistoryTypes
<1> QED BY <1>2, <1>3, <1>4, <1>5 DEF Types

LEMMA AbortTypes ==
    ASSUME Types, NEW c \in Client, Abort(c)
    PROVE  Types'
<1>1. crashes' \in 0 .. MaxCrashes /\ aborts' \in 0 .. MaxAborts
    BY AgentAssumption DEF Abort, Types, HistoryTypes
<1>2. CASE HangUp(c)
    BY <1>1, <1>2, HangUpTypes DEF Types, HistoryTypes
<1>3. CASE ~HangUp(c)
    <2>1. /\ backlog' = Append(backlog, <<c, "proxy">>)
          /\ agentOpen' = agentOpen \cup {<<c, "proxy">>}
          /\ toAgent' = [toAgent EXCEPT ![<<c, "proxy">>] = <<Msg("StartProxy", c)>>]
          /\ Enter(c, "ended")
          /\ UNCHANGED <<cliOpen, toCli, asked, got, task, agent, wsVars, lastSync, heard, told>>
        BY <1>3 DEF Abort
    <2>2. <<Msg("StartProxy", c)>> \in Seq(Message) /\ <<c, "proxy">> \in Socket
        BY MsgType, SocketOf, WordsKnown
    <2>3. SocketTypes'
        <3>1. backlog' \in Seq(Socket)
            BY <2>1, <2>2 DEF Types, SocketTypes
        <3>2. toAgent' \in [Socket -> Seq(Message)]
            BY <2>1, <2>2 DEF Types, SocketTypes
        <3> QED BY <2>1, <2>2, <3>1, <3>2 DEF Types, SocketTypes
    <2>4. CliTypes' /\ AgentTypes' /\ WireTypes' /\ HistoryTypes'
        BY <1>1, <2>1 DEF Types, CliTypes, CliPc, Enter, AgentTypes, WireTypes, HistoryTypes, wsVars
    <2> QED BY <2>3, <2>4 DEF Types
<1> QED BY <1>2, <1>3

LEMMA AgentHas ==
    ASSUME Types, agent.pc \in {"request", "client", "daemon"}
    PROVE  /\ agent.sock \in Socket /\ agent.sock[1] \in Client
           /\ toAgent[agent.sock] \in Seq(Message) /\ toCli[agent.sock] \in Seq(Message)
BY SocketOf DEF Types, AgentTypes, AgentRecord, SocketTypes

LEMMA RestTypes == Types => [Resting EXCEPT !.pc = "gone"] \in AgentRecord /\ Resting \in AgentRecord
                            /\ IdleThread \in DaemonRecord
<1>1. 0 \in 0 .. MaxOutput
    BY AgentAssumption
<1>2. IdleThread \in DaemonRecord
    BY <1>1 DEF IdleThread, DaemonRecord
<1>3. Resting \in AgentRecord
    BY DEF Resting, AgentRecord
<1>5. [Resting EXCEPT !.pc = "gone"] \in AgentRecord
    BY <1>3 DEF AgentRecord
<1> QED BY <1>2, <1>3, <1>5

LEMMA TailTypes ==
    ASSUME Types, NEW k \in Socket, toAgent[k] # << >>,
           toAgent' = [toAgent EXCEPT ![k] = Tail(@)]
    PROVE  toAgent' \in [Socket -> Seq(Message)]
<1>1. toAgent[k] \in Seq(Message)
    BY DEF Types, SocketTypes
<1>2. Tail(toAgent[k]) \in Seq(Message)
    BY <1>1, HeadTailProperties
<1> QED BY <1>2 DEF Types, SocketTypes

LEMMA GiveTypes ==
    ASSUME Types, NEW k \in Socket, NEW m \in Message,
           toCli' = [toCli EXCEPT ![k] = Append(@, m)]
    PROVE  toCli' \in [Socket -> Seq(Message)]
<1>1. toCli[k] \in Seq(Message)
    BY DEF Types, SocketTypes
<1>2. Append(toCli[k], m) \in Seq(Message)
    BY <1>1
<1> QED BY <1>2 DEF Types, SocketTypes

LEMMA RestingTypes ==
    ASSUME Types, ServeNext
    PROVE  AgentTypes' /\ agentOpen' \subseteq Socket
<1>1. AgentTypes'
    BY RestTypes DEF ServeNext, AgentTypes, Resting
<1> QED BY <1>1 DEF ServeNext, Types, SocketTypes

LEMMA DropTypes ==
    ASSUME Types, DropSession
    PROVE  AgentTypes' /\ WireTypes' /\ agentOpen' \subseteq Socket
<1>1. WireTypes'
    BY RestTypes DEF DropSession, WireTypes, IdleThread
<1> QED BY <1>1, RestingTypes DEF DropSession

LEMMA RespondTypes ==
    ASSUME Types, agent.pc = "request", NEW kind \in Word, Respond(kind)
    PROVE  AgentTypes' /\ WireTypes' /\ agentOpen' \subseteq Socket
           /\ toCli' \in [Socket -> Seq(Message)]
<1>1. agent.sock \in Socket /\ Msg(kind, agent.sock[1]) \in Message
    BY AgentHas, MsgType
<1>2. CASE agent.sock \in cliOpen
    BY <1>1, <1>2, GiveTypes, RestingTypes DEF Respond, wsVars, Types, WireTypes
<1>3. CASE agent.sock \notin cliOpen
    BY <1>3, DropTypes DEF Respond, Types, SocketTypes
<1> QED BY <1>2, <1>3

LEMMA AgentFrameTypes ==
    ASSUME Types, AgentFrame
    PROVE  CliTypes' /\ cliOpen' \subseteq Socket
           /\ asked' \in [Client -> Seq(Word)] /\ got' \in [Client -> Seq(Word)]
           /\ crashes' \in 0 .. MaxCrashes /\ aborts' \in 0 .. MaxAborts
BY DEF AgentFrame, Types, CliTypes, SocketTypes, HistoryTypes

LEMMA TakeRequestTypes ==
    ASSUME Types, NEW kind, TakeRequest(kind)
    PROVE  agent.pc = "request" /\ agent.sock \in Socket /\ agent.sock[1] \in Client
           /\ toAgent' \in [Socket -> Seq(Message)]
BY AgentHas, TailTypes DEF TakeRequest

LEMMA AgentStepTypes ==
    ASSUME Types, AgentStep
    PROVE  Types'
<1> USE WordsKnown
<1>1. /\ AgentFrame /\ UNCHANGED <<heard, told>>
      /\ CliTypes' /\ cliOpen' \subseteq Socket
    BY AgentFrameTypes DEF AgentStep, Accept, HandleGetLastSync, HandleSetLastSync, HandleShutdown,
                       StartProxy, ForwardUp, ProbeOnly, ForwardDown, SessionError
<1>2. lastSync' \in Client \cup {Nobody} => HistoryTypes'
    BY <1>1, AgentFrameTypes DEF Types, HistoryTypes
<1>3. CASE Accept
    <2>1. Head(backlog) \in Socket /\ Tail(backlog) \in Seq(Socket)
        BY <1>3, HeadTailProperties DEF Accept, Types, SocketTypes
    <2>2. AgentTypes'
        BY <1>3, <2>1, SocketOf DEF Accept, Resting, AgentTypes, AgentRecord
    <2>3. SocketTypes' /\ WireTypes'
        BY <1>1, <1>3, <2>1 DEF Accept, Types, SocketTypes, WireTypes, wsVars
    <2> QED BY <1>1, <1>2, <1>3, <2>2, <2>3 DEF Accept, Types, HistoryTypes
<1>4. CASE HandleGetLastSync
    <2>1. TakeRequest("GetLastSync") /\ Respond("LastSync") /\ UNCHANGED <<backlog, lastSync>>
        BY <1>4 DEF HandleGetLastSync
    <2>2. agent.pc = "request" /\ toAgent' \in [Socket -> Seq(Message)]
        BY <2>1, TakeRequestTypes
    <2> QED BY <1>1, <1>2, <2>1, <2>2, RespondTypes DEF Types, SocketTypes, HistoryTypes
<1>5. CASE HandleSetLastSync
    <2>1. TakeRequest("SetLastSync") /\ Respond("Ok") /\ UNCHANGED backlog
          /\ lastSync' = agent.sock[1]
        BY <1>5 DEF HandleSetLastSync
    <2>2. agent.pc = "request" /\ toAgent' \in [Socket -> Seq(Message)] /\ agent.sock[1] \in Client
        BY <2>1, TakeRequestTypes
    <2> QED BY <1>1, <1>2, <2>1, <2>2, RespondTypes DEF Types, SocketTypes
<1>6. CASE HandleShutdown
    <2>1. /\ agent.sock \in Socket /\ agent.sock[1] \in Client
          /\ toAgent' \in [Socket -> Seq(Message)]
        BY <1>6, TakeRequestTypes DEF HandleShutdown
    <2>2. toCli' \in [Socket -> Seq(Message)]
        <3>1. Msg("Ok", agent.sock[1]) \in Message
            BY <2>1, MsgType
        <3> QED BY <1>6, <2>1, <3>1, GiveTypes DEF HandleShutdown, Types, SocketTypes
    <2>3. AgentTypes' /\ WireTypes'
        BY <1>6, RestTypes, AgentAssumption
           DEF HandleShutdown, AgentTypes, WireTypes, Resting, IdleThread
    <2> QED BY <1>1, <1>2, <1>6, <2>1, <2>2, <2>3 DEF HandleShutdown, Types, SocketTypes
<1>7. CASE StartProxy
    <2>1. /\ agent.pc = "request" /\ agent.sock \in Socket
          /\ toAgent' \in [Socket -> Seq(Message)]
        BY <1>7, TakeRequestTypes DEF StartProxy
    <2>2. AgentTypes' /\ WireTypes'
        BY <1>7, <2>1, SocketOf DEF StartProxy, Types, AgentTypes, AgentRecord, WireTypes
    <2> QED BY <1>1, <1>2, <1>7, <2>1, <2>2 DEF StartProxy, Types, SocketTypes, HistoryTypes
<1>8. CASE ForwardUp
    <2>1. /\ agent.pc = "client" /\ toAgent[agent.sock] # << >>
          /\ toAgent' = [toAgent EXCEPT ![agent.sock] = Tail(@)]
          /\ UNCHANGED <<backlog, toCli, agentOpen, ws, wsDown, daemon, lastSync>>
        BY <1>8 DEF ForwardUp
    <2>2. /\ agent.sock \in Socket /\ toAgent' \in [Socket -> Seq(Message)]
          /\ Head(toAgent[agent.sock]) \in Message
        BY <2>1, AgentHas, TailTypes, HeadTailProperties
    <2>3. AgentTypes'
        BY <1>8, <2>1, <2>2, SocketOf DEF ForwardUp, Types, AgentTypes, AgentRecord
    <2>4. wsUp' \in Seq(Message)
        BY <1>8, <2>2 DEF ForwardUp, Types, WireTypes
    <2> QED BY <1>1, <1>2, <2>1, <2>2, <2>3, <2>4 DEF Types, SocketTypes, WireTypes, HistoryTypes
<1>9. CASE ProbeOnly
    BY <1>1, <1>2, <1>9, RestingTypes
       DEF ProbeOnly, Types, SocketTypes, WireTypes, wsVars, HistoryTypes
<1>10. CASE ForwardDown
    <2>1. /\ agent.pc = "daemon" /\ wsDown # << >> /\ UNCHANGED <<backlog, toAgent, lastSync>>
          /\ agent.sock \in Socket
        BY <1>10, AgentHas DEF ForwardDown
    <2>2. CASE agent.sock \notin cliOpen
        <3>1. DropSession /\ UNCHANGED toCli
            BY <1>10, <2>2 DEF ForwardDown
        <3> QED BY <1>1, <1>2, <2>1, <3>1, DropTypes DEF Types, SocketTypes, HistoryTypes
    <2>3. CASE agent.sock \in cliOpen
        <3>1. Head(wsDown) \in Message /\ Tail(wsDown) \in Seq(Message)
            BY <2>1, HeadTailProperties DEF Types, WireTypes
        <3>2. toCli' \in [Socket -> Seq(Message)]
            BY <1>10, <2>1, <2>3, <3>1, GiveTypes DEF ForwardDown
        <3>3. WireTypes'
            BY <1>10, <2>3, <3>1 DEF ForwardDown, Types, WireTypes
        <3>4. CASE ServeNext
            BY <1>1, <1>2, <2>1, <3>2, <3>3, <3>4, RestingTypes DEF Types, SocketTypes, HistoryTypes
        <3>5. CASE ~ServeNext
            <4>1. /\ agent' = [agent EXCEPT !.pc = IF YieldsToClient(Head(wsDown).kind)
                                                   THEN "client" ELSE "daemon"]
                  /\ UNCHANGED agentOpen
                BY <1>10, <2>3, <3>5 DEF ForwardDown
            <4>2. AgentTypes'
                BY <2>1, <4>1, SocketOf DEF Types, AgentTypes, AgentRecord
            <4> QED BY <1>1, <1>2, <2>1, <3>2, <3>3, <4>1, <4>2 DEF Types, SocketTypes, HistoryTypes
        <3> QED BY <3>4, <3>5
    <2> QED BY <2>2, <2>3
<1>11. CASE SessionError
    BY <1>1, <1>2, <1>11, DropTypes DEF SessionError, Types, SocketTypes, HistoryTypes
<1> QED BY <1>3, <1>4, <1>5, <1>6, <1>7, <1>8, <1>9, <1>10, <1>11 DEF AgentStep

LEMMA AnswersKnown ==
    /\ \A state, kind : Answers(state, kind) \subseteq DaemonKinds
    /\ \A kind \in DaemonKinds : After(kind) \in {"idle", "manifest", "receive", "output"}
BY DEF Answers, After, DaemonKinds

LEMMA DaemonReadsTypes ==
    ASSUME Types, NEW kind \in Word, DaemonReads(kind)
    PROVE  /\ Head(wsUp) \in Message /\ Head(wsUp).of \in Client
           /\ wsUp' \in Seq(Message) /\ heard' \in [Client -> Seq(Word)]
<1>1. Head(wsUp) \in Message /\ wsUp' \in Seq(Message)
    BY HeadTailProperties DEF DaemonReads, Types, WireTypes
<1>2. Head(wsUp).of \in Client
    BY <1>1 DEF Message
<1>3. Append(heard[Head(wsUp).of], kind) \in Seq(Word)
    BY <1>2 DEF Types, HistoryTypes
<1> QED BY <1>1, <1>2, <1>3 DEF DaemonReads, Types, HistoryTypes

LEMMA DaemonSendsTypes ==
    ASSUME Types, NEW kind \in Word, NEW c \in Client, DaemonSends(kind, c)
    PROVE  wsDown' \in Seq(Message) /\ told' \in [Client -> Seq(Word)]
<1>1. wsDown' \in Seq(Message)
    BY MsgType DEF DaemonSends, Types, WireTypes
<1>2. Append(told[c], kind) \in Seq(Word)
    BY DEF Types, HistoryTypes
<1> QED BY <1>1, <1>2 DEF DaemonSends, Types, HistoryTypes

LEMMA DaemonStepTypes ==
    ASSUME Types, DaemonStep \/ DaemonDrops
    PROVE  Types'
<1> USE WordsKnown
<1>1. CASE DaemonDrops
    <2>1. UNCHANGED <<task, cli, socketVars, agent, lastSync, wsDown, aborts, asked, heard, told, got>>
        BY <1>1 DEF DaemonDrops
    <2>2. CliTypes' /\ SocketTypes' /\ AgentTypes'
        BY <2>1 DEF Types, CliTypes, SocketTypes, socketVars, AgentTypes
    <2>3. WireTypes'
        BY <1>1, RestTypes DEF DaemonDrops, Types, WireTypes, IdleThread
    <2>4. HistoryTypes'
        BY <1>1, <2>1, AgentAssumption DEF DaemonDrops, Types, HistoryTypes
    <2> QED BY <2>2, <2>3, <2>4 DEF Types
<1>2. CASE DaemonStep
    <2>1. DaemonFrame /\ UNCHANGED crashes
        BY <1>2 DEF DaemonStep, DaemonAnswers, DaemonTakesFile, DaemonBuilds
    <2>2. CliTypes' /\ SocketTypes' /\ AgentTypes'
        BY <2>1 DEF DaemonFrame, Types, CliTypes, SocketTypes, socketVars, AgentTypes
    <2>3. WireTypes' /\ heard' \in [Client -> Seq(Word)] /\ told' \in [Client -> Seq(Word)]
        <3>1. CASE DaemonAnswers
            <4>1. PICK kind \in ClientKinds : \E answer \in Answers(daemon.pc, kind) :
                      /\ DaemonReads(kind)
                      /\ DaemonSends(answer, Head(wsUp).of)
                      /\ daemon' = [IdleThread EXCEPT !.pc = After(answer), !.of = Head(wsUp).of]
                BY <3>1 DEF DaemonAnswers
            <4>2. PICK answer \in Answers(daemon.pc, kind) :
                      /\ DaemonReads(kind)
                      /\ DaemonSends(answer, Head(wsUp).of)
                      /\ daemon' = [IdleThread EXCEPT !.pc = After(answer), !.of = Head(wsUp).of]
                BY <4>1
            <4>3. answer \in DaemonKinds
                BY AnswersKnown
            <4>4. /\ Head(wsUp).of \in Client /\ wsUp' \in Seq(Message)
                  /\ heard' \in [Client -> Seq(Word)]
                BY <4>2, DaemonReadsTypes
            <4>5. wsDown' \in Seq(Message) /\ told' \in [Client -> Seq(Word)]
                BY <4>2, <4>3, <4>4, DaemonSendsTypes
            <4>6. daemon' \in DaemonRecord /\ daemon'.of \in Client
                <5>1. daemon' = [pc |-> After(answer), of |-> Head(wsUp).of, lines |-> 0]
                    BY <4>2 DEF IdleThread
                <5>2. After(answer) \in {"idle", "manifest", "receive", "output"}
                    BY <4>3, AnswersKnown
                <5>3. 0 \in 0 .. MaxOutput
                    BY AgentAssumption
                <5> QED BY <4>4, <5>1, <5>2, <5>3 DEF DaemonRecord
            <4> QED BY <2>1, <4>4, <4>5, <4>6 DEF DaemonFrame, Types, WireTypes
        <3>2. CASE DaemonTakesFile
            BY <2>1, <3>2, DaemonReadsTypes
               DEF DaemonTakesFile, DaemonFrame, Types, WireTypes, HistoryTypes
        <3>3. CASE DaemonBuilds
            <4>1. daemon.of \in Client /\ daemon \in DaemonRecord
                BY <3>3 DEF DaemonBuilds, Types, WireTypes
            <4>2. wsDown' \in Seq(Message) /\ told' \in [Client -> Seq(Word)]
                BY <3>3, <4>1, DaemonSendsTypes DEF DaemonBuilds
            <4>3. daemon' \in DaemonRecord /\ (daemon'.pc # "idle" => daemon'.of \in Client)
                BY <3>3, <4>1, RestTypes, AgentAssumption DEF DaemonBuilds, IdleThread, DaemonRecord
            <4> QED BY <2>1, <3>3, <4>2, <4>3
                    DEF DaemonBuilds, DaemonFrame, Types, WireTypes, HistoryTypes
        <3> QED BY <1>2, <3>1, <3>2, <3>3 DEF DaemonStep
    <2>4. HistoryTypes'
        BY <2>1, <2>3 DEF DaemonFrame, Types, HistoryTypes
    <2> QED BY <2>2, <2>3, <2>4 DEF Types
<1> QED BY <1>1, <1>2

LEMMA NextTypes ==
    ASSUME Types, [Next]_vars
    PROVE  Types'
<1>1. CASE UNCHANGED vars
    BY <1>1 DEF vars, socketVars, wsVars, boundVars, Types, CliTypes, SocketTypes, AgentTypes,
                WireTypes, HistoryTypes
<1>2. CASE Next
    BY <1>1, <1>2, CliStepTypes, AbortTypes, AgentStepTypes, DaemonStepTypes DEF Next, Done
<1> QED BY <1>1, <1>2

LEMMA InitTypes == Init => Types
<1> SUFFICES ASSUME Init PROVE Types
    OBVIOUS
<1> USE DEF Init
<1>1. CliTypes /\ SocketTypes
    BY DEF CliTypes, CliPc, SocketTypes
<1>2. AgentTypes /\ WireTypes
    BY AgentAssumption DEF AgentTypes, AgentRecord, Resting, WireTypes, DaemonRecord, IdleThread
<1>3. HistoryTypes
    BY AgentAssumption DEF HistoryTypes
<1> QED BY <1>1, <1>2, <1>3 DEF Types

-----------------------------------------------------------------------------
(* The websocket.  Between two sessions nothing is on it.                    *)

LEMMA RestingWire ==
    ASSUME Clean', agent'.pc \notin {"client", "daemon"}, ws' = "none" => wsDown' = << >>
    PROVE  WireOK'
<1>1. wsUp' = << >> /\ wsDown' = << >> /\ daemon'.pc = "idle" /\ 1 .. Len(wsUp') = {}
      /\ 1 .. Len(wsDown') = {}
    BY DEF Clean
<1> QED BY <1>1 DEF WireOK, Clean, Speaks

LEMMA DropWire ==
    ASSUME DropSession
    PROVE  WireOK'
BY RestingWire DEF DropSession, ServeNext, Resting, Clean, IdleThread

LEMMA ServeNextWire ==
    ASSUME Clean, ServeNext, UNCHANGED wsVars
    PROVE  WireOK'
BY RestingWire DEF ServeNext, Resting, Clean, wsVars

LEMMA AgentStepWire ==
    ASSUME Types, MailOK, WireOK, AgentStep
    PROVE  WireOK'
<1>1. agent.pc \in {"accept", "request"} => Clean
    BY DEF WireOK, Speaks
<1>2. CASE Accept
    BY <1>1, <1>2, RestingWire DEF Accept, Resting, Clean, wsVars
<1>3. ASSUME NEW kind, TakeRequest(kind), NEW answer, Respond(answer)
      PROVE  WireOK'
    BY <1>1, <1>3, DropWire, ServeNextWire DEF TakeRequest, Respond
<1>4. CASE HandleShutdown
    BY <1>4, RestingWire DEF HandleShutdown, Resting, IdleThread, Clean
<1>5. CASE StartProxy
    <2>1. /\ agent.pc = "request" /\ agent.sock \in Socket /\ agent'.pc = "client"
          /\ agent'.sock = agent.sock /\ agent'.started = agent.started
          /\ ws' # "none" /\ UNCHANGED <<wsUp, wsDown, daemon>>
          /\ toAgent[agent.sock] # << >> /\ Head(toAgent[agent.sock]).kind = "StartProxy"
        BY <1>5, AgentHas DEF StartProxy, TakeRequest, Types, AgentTypes, AgentRecord
    <2>2. agent.sock[2] = "proxy"
        <3>1. toAgent[agent.sock] \in Seq(Message)
            BY <2>1, AgentHas
        <3>2. 1 \in 1 .. Len(toAgent[agent.sock])
              /\ Head(toAgent[agent.sock]) = toAgent[agent.sock][1]
            BY <2>1, <3>1, EmptySeq
        <3> QED BY <2>1, <3>2 DEF MailOK
    <2>3. wsUp = << >> /\ wsDown = << >> /\ daemon.pc = "idle" /\ 1 .. Len(wsUp) = {}
          /\ 1 .. Len(wsDown) = {}
        BY <1>1, <2>1 DEF Clean
    <2> QED BY <2>1, <2>2, <2>3 DEF WireOK, Clean, Speaks
<1>6. CASE ForwardUp
    <2> DEFINE m == Head(toAgent[agent.sock])
    <2>1. /\ agent.pc = "client" /\ toAgent[agent.sock] # << >>
          /\ wsUp' = IF ws = "up" THEN Append(wsUp, m) ELSE wsUp
          /\ UNCHANGED <<ws, wsDown, daemon>>
          /\ agent'.started = TRUE /\ agent'.sock = agent.sock
          /\ agent'.pc = IF EndsClientTurn(m.kind) THEN "daemon" ELSE "client"
        BY <1>6 DEF ForwardUp, Types, AgentTypes, AgentRecord
    <2>2. agent.sock \in Socket /\ m \in Message /\ m.of = agent.sock[1]
        <3>1. agent.sock \in Socket /\ toAgent[agent.sock] \in Seq(Message)
            BY <2>1, AgentHas
        <3>2. /\ 1 \in 1 .. Len(toAgent[agent.sock]) /\ m = toAgent[agent.sock][1]
              /\ m \in Message
            BY <2>1, <3>1, EmptySeq, HeadTailProperties
        <3> QED BY <3>1, <3>2 DEF MailOK
    <2>3. /\ wsDown = << >> /\ daemon.pc # "output" /\ agent.sock[2] = "proxy"
          /\ 1 .. Len(wsDown) = {}
          /\ \A i \in 1 .. Len(wsUp) : ~EndsClientTurn(wsUp[i].kind) /\ wsUp[i].of = agent.sock[1]
          /\ ws # "none" /\ (ws # "up" => wsUp = << >> /\ daemon.pc = "idle")
          /\ daemon.pc # "idle" => daemon.of = agent.sock[1]
        BY <2>1 DEF WireOK
    <2>4. \A i \in 1 .. Len(wsUp') : /\ wsUp'[i].of = agent.sock[1]
                                     /\ EndsClientTurn(wsUp'[i].kind) => i = Len(wsUp')
                                     /\ ~EndsClientTurn(m.kind) => ~EndsClientTurn(wsUp'[i].kind)
        <3>1. CASE ws = "up"
            <4>1. wsUp \in Seq(Message)
                BY DEF Types, WireTypes
            <4>2. /\ Len(wsUp') = Len(wsUp) + 1 /\ wsUp'[Len(wsUp) + 1] = m /\ Len(wsUp) \in Nat
                  /\ \A i \in 1 .. Len(wsUp) : wsUp'[i] = wsUp[i]
                BY <2>1, <2>2, <3>1, <4>1, AppendProperties, LenProperties
            <4>3. \A i \in 1 .. Len(wsUp') : i \in 1 .. Len(wsUp) \/ i = Len(wsUp')
                BY <4>2
            <4> QED BY <2>2, <2>3, <4>2, <4>3
        <3>2. CASE ws # "up"
            BY <2>1, <2>3, <3>2
        <3> QED BY <3>1, <3>2
    <2> QED BY <2>1, <2>3, <2>4 DEF WireOK, Speaks
<1>7. CASE ProbeOnly
    <2>1. ~Speaks
        BY <1>7 DEF ProbeOnly, Speaks
    <2> QED BY <1>7, <2>1, ServeNextWire DEF ProbeOnly, WireOK
<1>8. CASE ForwardDown
    <2> DEFINE m == Head(wsDown)
    <2>1. CASE agent.sock \notin cliOpen
        BY <1>8, <2>1, DropWire DEF ForwardDown
    <2>2. CASE agent.sock \in cliOpen
        <3>1. /\ agent.pc = "daemon" /\ wsDown # << >> /\ wsDown' = Tail(wsDown)
              /\ UNCHANGED <<ws, wsUp, daemon>>
              /\ IF EndsSession(m.kind) THEN ServeNext
                 ELSE /\ agent'.started = agent.started /\ agent'.sock = agent.sock
                      /\ agent'.pc = IF YieldsToClient(m.kind) THEN "client" ELSE "daemon"
            BY <1>8, <2>2 DEF ForwardDown, Types, AgentTypes, AgentRecord
        <3>2. /\ wsUp = << >> /\ 1 .. Len(wsUp) = {} /\ agent.started
              /\ ws # "none" /\ (ws # "up" => daemon.pc = "idle")
              /\ daemon.pc # "idle" => daemon.of = agent.sock[1]
              /\ agent.sock[2] = "proxy"
              /\ \A i \in 1 .. Len(wsDown) :
                    /\ EndsSession(wsDown[i].kind) \/ YieldsToClient(wsDown[i].kind) =>
                           i = Len(wsDown) /\ daemon.pc # "output"
                    /\ EndsSession(wsDown[i].kind) => daemon.pc = "idle"
            BY <3>1 DEF WireOK
        <3>3. /\ wsDown' \in Seq(Message) /\ Len(wsDown') = Len(wsDown) - 1
              /\ m = wsDown[1] /\ 1 \in 1 .. Len(wsDown) /\ Len(wsDown) \in Nat
              /\ \A i \in 1 .. Len(wsDown') : wsDown'[i] = wsDown[i + 1]
            BY <3>1, HeadTailProperties, EmptySeq DEF Types, WireTypes
        <3>4. EndsSession(m.kind) \/ YieldsToClient(m.kind) =>
                  wsDown' = << >> /\ daemon.pc # "output"
            BY <3>2, <3>3, EmptySeq
        <3>5. CASE EndsSession(m.kind)
            <4>1. daemon.pc = "idle" /\ wsDown' = << >>
                BY <3>2, <3>3, <3>4, <3>5
            <4>2. agent' = Resting
                BY <3>1, <3>5 DEF ServeNext
            <4>3. Clean' /\ agent'.pc = "accept"
                BY <3>1, <3>2, <4>1, <4>2 DEF Clean, Resting
            <4> QED BY <3>1, <3>2, <4>3, RestingWire
        <3>6. CASE ~EndsSession(m.kind)
            <4>1. \A i \in 1 .. Len(wsDown') :
                    /\ EndsSession(wsDown'[i].kind) \/ YieldsToClient(wsDown'[i].kind) =>
                           i = Len(wsDown') /\ daemon.pc # "output"
                    /\ EndsSession(wsDown'[i].kind) => daemon.pc = "idle"
                <5>1. \A i \in 1 .. Len(wsDown') : i + 1 \in 1 .. Len(wsDown)
                          /\ (i + 1 = Len(wsDown) => i = Len(wsDown'))
                    BY <3>3
                <5> QED BY <3>2, <3>3, <5>1
            <4> QED BY <3>1, <3>2, <3>4, <3>6, <4>1 DEF WireOK, Speaks
        <3> QED BY <3>5, <3>6
    <2> QED BY <2>1, <2>2
<1>9. CASE SessionError
    BY <1>9, DropWire DEF SessionError
<1> QED BY <1>2, <1>3, <1>4, <1>5, <1>6, <1>7, <1>8, <1>9
        DEF AgentStep, HandleGetLastSync, HandleSetLastSync

LEMMA DaemonStepWire ==
    ASSUME Types, WireOK, DaemonStep \/ DaemonDrops
    PROVE  WireOK'
<1>0. /\ wsUp \in Seq(Message) /\ wsDown \in Seq(Message)
      /\ Len(wsUp) \in Nat /\ Len(wsDown) \in Nat
    BY LenProperties DEF Types, WireTypes
<1>1. CASE DaemonDrops
    <2>1. /\ ws' = "dead" /\ wsUp' = << >> /\ daemon' = IdleThread /\ ws = "up"
          /\ UNCHANGED <<agent, wsDown>> /\ 1 .. Len(wsUp') = {}
        BY <1>1 DEF DaemonDrops
    <2>2. daemon'.pc = "idle"
        BY <2>1 DEF IdleThread
    <2> QED BY <2>1, <2>2 DEF WireOK, Clean, Speaks
<1>2. CASE DaemonTakesFile
    <2>1. /\ daemon.pc = "receive" /\ wsUp # << >> /\ wsUp' = Tail(wsUp)
          /\ UNCHANGED <<ws, agent, wsDown, daemon>>
        BY <1>2 DEF DaemonTakesFile, DaemonReads, DaemonFrame
    <2>2. /\ Len(wsUp') = Len(wsUp) - 1
          /\ \A i \in 1 .. Len(wsUp') : wsUp'[i] = wsUp[i + 1]
        BY <1>0, <2>1, HeadTailProperties
    <2>3. \A i \in 1 .. Len(wsUp') : i + 1 \in 1 .. Len(wsUp) /\ (i + 1 = Len(wsUp) => i = Len(wsUp'))
        BY <1>0, <2>2
    <2>4. Speaks /\ wsDown = << >>
        BY <2>1 DEF WireOK, Clean
    <2>5. \A i \in 1 .. Len(wsUp') :
              /\ wsUp'[i].of = agent.sock[1]
              /\ EndsClientTurn(wsUp'[i].kind) => i = Len(wsUp')
              /\ agent.pc = "client" => ~EndsClientTurn(wsUp'[i].kind)
        BY <2>2, <2>3 DEF WireOK
    <2>6. Speaks'
        BY <2>1, <2>4 DEF Speaks
    <2> QED BY <2>1, <2>4, <2>5, <2>6 DEF WireOK
<1>3. CASE DaemonAnswers
    <2>1. PICK kind \in ClientKinds : \E answer \in Answers(daemon.pc, kind) :
              /\ DaemonReads(kind)
              /\ DaemonSends(answer, Head(wsUp).of)
              /\ daemon' = [IdleThread EXCEPT !.pc = After(answer), !.of = Head(wsUp).of]
        BY <1>3 DEF DaemonAnswers
    <2>2. PICK answer \in Answers(daemon.pc, kind) :
              /\ DaemonReads(kind)
              /\ DaemonSends(answer, Head(wsUp).of)
              /\ daemon' = [IdleThread EXCEPT !.pc = After(answer), !.of = Head(wsUp).of]
        BY <2>1
    <2>3. /\ ws = "up" /\ wsUp # << >> /\ Head(wsUp).kind = kind /\ wsUp' = Tail(wsUp)
          /\ wsDown' = Append(wsDown, Msg(answer, Head(wsUp).of))
          /\ UNCHANGED <<ws, agent>>
          /\ daemon'.pc = After(answer) /\ daemon'.of = Head(wsUp).of
        BY <1>3, <2>2 DEF DaemonReads, DaemonSends, DaemonAnswers, DaemonFrame, IdleThread
    <2>4. EndsClientTurn(kind)
        BY <2>2 DEF Answers, EndsClientTurn
    <2>5. /\ 1 \in 1 .. Len(wsUp) /\ Head(wsUp) = wsUp[1] /\ Len(wsUp') = Len(wsUp) - 1
          /\ wsUp' \in Seq(Message)
        BY <1>0, <2>3, EmptySeq, HeadTailProperties
    <2>6. /\ Len(wsUp) = 1 /\ agent.pc # "client" /\ wsDown = << >> /\ Speaks
          /\ Head(wsUp).of = agent.sock[1]
        BY <2>3, <2>4, <2>5 DEF WireOK, Clean
    <2>7. wsUp' = << >> /\ 1 .. Len(wsUp') = {}
        BY <2>5, <2>6, EmptySeq
    <2>8. wsDown' = <<Msg(answer, Head(wsUp).of)>>
        BY <2>3, <2>6
    <2>9. Len(wsDown') = 1 /\ wsDown'[1].kind = answer
        BY <2>8 DEF Msg
    <2>10. /\ EndsSession(answer) => After(answer) = "idle"
           /\ YieldsToClient(answer) => After(answer) # "output"
        BY DEF EndsSession, YieldsToClient, After
    <2>11. \A i \in 1 .. Len(wsDown') :
              /\ EndsSession(wsDown'[i].kind) \/ YieldsToClient(wsDown'[i].kind) =>
                     i = Len(wsDown') /\ daemon'.pc # "output"
              /\ EndsSession(wsDown'[i].kind) => daemon'.pc = "idle"
        BY <2>3, <2>9, <2>10
    <2>12. Speaks'
        BY <2>3, <2>6 DEF Speaks
    <2> QED BY <2>3, <2>6, <2>7, <2>11, <2>12 DEF WireOK
<1>4. CASE DaemonBuilds
    <2>1. PICK kind \in {"BuildStdout", "BuildFinished"} :
              /\ wsDown' = Append(wsDown, Msg(kind, daemon.of))
              /\ daemon'.of = daemon.of \/ daemon'.pc = "idle"
              /\ daemon'.pc = IF kind = "BuildFinished" THEN "idle" ELSE "output"
        BY <1>4 DEF DaemonBuilds, DaemonSends, Types, WireTypes, DaemonRecord, IdleThread
    <2>2. ws = "up" /\ daemon.pc = "output" /\ UNCHANGED <<ws, wsUp, agent>>
        BY <1>4 DEF DaemonBuilds, DaemonFrame
    <2>3. /\ Speaks /\ wsUp = << >> /\ 1 .. Len(wsUp) = {} /\ daemon.of = agent.sock[1]
          /\ agent.pc # "client"
          /\ \A i \in 1 .. Len(wsDown) :
                 ~EndsSession(wsDown[i].kind) /\ ~YieldsToClient(wsDown[i].kind)
        BY <2>2 DEF WireOK, Clean
    <2>4. Msg(kind, daemon.of) \in Message
        BY <2>2, MsgType, WordsKnown DEF Types, WireTypes
    <2>5. /\ Len(wsDown') = Len(wsDown) + 1 /\ wsDown'[Len(wsDown) + 1].kind = kind
          /\ \A i \in 1 .. Len(wsDown) : wsDown'[i] = wsDown[i]
        BY <1>0, <2>1, <2>4, AppendProperties DEF Msg
    <2>6. \A i \in 1 .. Len(wsDown') : i \in 1 .. Len(wsDown) \/ i = Len(wsDown')
        BY <1>0, <2>5
    <2>7. ~YieldsToClient(kind) /\ (EndsSession(kind) => daemon'.pc = "idle")
        BY <2>1 DEF YieldsToClient, EndsSession
    <2>8. \A i \in 1 .. Len(wsDown') :
              /\ EndsSession(wsDown'[i].kind) \/ YieldsToClient(wsDown'[i].kind) =>
                     i = Len(wsDown') /\ daemon'.pc # "output"
              /\ EndsSession(wsDown'[i].kind) => daemon'.pc = "idle"
        BY <2>3, <2>5, <2>6, <2>7
    <2>9. Speaks'
        BY <2>2, <2>3 DEF Speaks
    <2> QED BY <2>1, <2>2, <2>3, <2>8, <2>9 DEF WireOK
<1> QED BY <1>1, <1>2, <1>3, <1>4 DEF DaemonStep

(* A CLI run touches neither the agent nor its websocket.                    *)
LEMMA CliFrames ==
    ASSUME NEW c \in Client, CliStep(c) \/ Abort(c)
    PROVE  UNCHANGED <<task, agent, ws, wsUp, wsDown, daemon, lastSync, heard, told>>
BY DEF CliStep, Abort, AskLastSync, HaveHint, OpenSession, GoDirect, SessionReads, SessionEnds,
       Stream, Record, Recorded, Login, LoggedIn, Failed, HangUp, CliFrame, wsVars

LEMMA NextWire ==
    ASSUME Types, MailOK, WireOK, [Next]_vars
    PROVE  WireOK'
<1>1. CASE UNCHANGED vars
    BY <1>1 DEF vars, wsVars, WireOK, Clean, Speaks
<1>2. ASSUME NEW c \in Client, CliStep(c) \/ Abort(c)
      PROVE  WireOK'
    BY <1>2, CliFrames DEF WireOK, Clean, Speaks
<1> QED BY <1>1, <1>2, AgentStepWire, DaemonStepWire DEF Next, Done

LEMMA InitWire == Init => WireOK
BY DEF Init, WireOK, Clean, Speaks, Resting, IdleThread

-----------------------------------------------------------------------------
(* What the sockets to the agent carry.                                      *)

LEMMA Mails ==
    ASSUME Types, NEW c \in Client, NEW k \in Socket, k[1] = c, NEW ms \in Seq(Message),
           Connect(k, ms) \/ CliSend(k, ms)
    PROVE  \A j \in Socket : \A i \in 1 .. Len(toAgent'[j]) :
               \/ i \in 1 .. Len(toAgent[j]) /\ toAgent'[j][i] = toAgent[j][i]
               \/ j = k /\ \E n \in 1 .. Len(ms) : toAgent'[j][i] = ms[n]
<1> TAKE j \in Socket
<1> TAKE i \in 1 .. Len(toAgent'[j])
<1>0. toAgent \in [Socket -> Seq(Message)] /\ toAgent[k] \in Seq(Message)
    BY DEF Types, SocketTypes
<1>1. CASE j # k \/ (CliSend(k, ms) /\ k \notin agentOpen)
    <2>1. toAgent'[j] = toAgent[j]
        BY <1>0, <1>1 DEF Connect, CliSend
    <2> QED BY <2>1
<1>2. CASE j = k /\ Connect(k, ms)
    <2>1. toAgent'[j] = ms
        BY <1>0, <1>2 DEF Connect
    <2> QED BY <1>2, <2>1
<1>3. CASE j = k /\ CliSend(k, ms) /\ k \in agentOpen
    <2>1. toAgent'[j] = toAgent[j] \o ms
        BY <1>0, <1>3 DEF CliSend
    <2>2. /\ Len(toAgent[j] \o ms) = Len(toAgent[j]) + Len(ms)
          /\ Len(toAgent[j]) \in Nat /\ Len(ms) \in Nat
          /\ \A n \in 1 .. Len(toAgent[j]) + Len(ms) : (toAgent[j] \o ms)[n] =
                 IF n <= Len(toAgent[j]) THEN toAgent[j][n] ELSE ms[n - Len(toAgent[j])]
        BY <1>0, <1>3, ConcatProperties, LenProperties
    <2>3. CASE i <= Len(toAgent[j])
        BY <2>1, <2>2, <2>3
    <2>4. CASE ~(i <= Len(toAgent[j]))
        <3>1. i - Len(toAgent[j]) \in 1 .. Len(ms)
            BY <2>1, <2>2, <2>4
        <3> QED BY <1>3, <2>1, <2>2, <2>4, <3>1
    <2> QED BY <2>3, <2>4
<1> QED BY <1>1, <1>2, <1>3

(* A message a run adds is its own; a session is begun on its proxy socket,  *)
(* and a record follows a build.                                             *)
LEMMA CliMail ==
    ASSUME Types, NEW c \in Client, CliStep(c) \/ Abort(c)
    PROVE  \A j \in Socket : \A i \in 1 .. Len(toAgent'[j]) :
               \/ i \in 1 .. Len(toAgent[j]) /\ toAgent'[j][i] = toAgent[j][i]
               \/ /\ j[1] = c /\ toAgent'[j][i].of = c
                  /\ toAgent'[j][i].kind = "StartProxy" => j[2] = "proxy"
                  /\ toAgent'[j][i].kind = "SetLastSync" => Record(c)
<1> USE SocketOf, WordsKnown
<1> DEFINE Goal == \A j \in Socket : \A i \in 1 .. Len(toAgent'[j]) :
               \/ i \in 1 .. Len(toAgent[j]) /\ toAgent'[j][i] = toAgent[j][i]
               \/ /\ j[1] = c /\ toAgent'[j][i].of = c
                  /\ toAgent'[j][i].kind = "StartProxy" => j[2] = "proxy"
                  /\ toAgent'[j][i].kind = "SetLastSync" => Record(c)
<1> SUFFICES Goal
    OBVIOUS
<1> HIDE DEF Goal
<1>1. ASSUME UNCHANGED toAgent PROVE Goal
    BY <1>1 DEF Goal
<1>2. ASSUME NEW k \in Socket, k[1] = c, NEW ms \in Seq(Message),
             Connect(k, ms) \/ CliSend(k, ms),
             \A n \in 1 .. Len(ms) : /\ ms[n].of = c
                                     /\ ms[n].kind = "StartProxy" => k[2] = "proxy"
                                     /\ ms[n].kind = "SetLastSync" => Record(c)
      PROVE  Goal
    BY <1>2, Mails DEF Goal
<1>3. ASSUME NEW kind \in Word
      PROVE  /\ <<Msg(kind, c)>> \in Seq(Message)
             /\ \A n \in 1 .. Len(<<Msg(kind, c)>>) : /\ <<Msg(kind, c)>>[n].of = c
                                                      /\ <<Msg(kind, c)>>[n].kind = kind
    <2>1. <<Msg(kind, c)>> \in Seq(Message)
        BY MsgType
    <2>2. Msg(kind, c).of = c /\ Msg(kind, c).kind = kind
        BY DEF Msg
    <2> QED BY <2>1, <2>2
<1>12. ASSUME NEW k \in Socket, k[1] = c, NEW kind \in Word \ {"StartProxy"},
              kind = "SetLastSync" => Record(c),
              Connect(k, <<Msg(kind, c)>>) \/ CliSend(k, <<Msg(kind, c)>>)
       PROVE  Goal
    <2> DEFINE ms == <<Msg(kind, c)>>
    <2>1. ms \in Seq(Message) /\ \A n \in 1 .. Len(ms) : ms[n].of = c /\ ms[n].kind = kind
        BY <1>3
    <2> HIDE DEF ms
    <2>2. Connect(k, ms) \/ CliSend(k, ms)
        BY <1>12 DEF ms
    <2> QED BY <1>2, <1>12, <2>1, <2>2
<1>4. CASE AskLastSync(c)
    <2>1. Connect(<<c, "get">>, <<Msg("GetLastSync", c)>>)
        BY <1>4 DEF AskLastSync
    <2>2. /\ <<c, "get">> \in Socket /\ <<c, "get">>[1] = c
          /\ "GetLastSync" \in Word \ {"StartProxy"}
        OBVIOUS
    <2> QED BY <1>12, <2>1, <2>2
<1>5. CASE OpenSession(c)
    <2>1. PICK first \in {"TipRequest", "Probe"} :
              Connect(<<c, "proxy">>, <<Msg("StartProxy", c), Msg(first, c)>>)
        BY <1>5 DEF OpenSession
    <2>2. Msg("StartProxy", c) \in Message /\ Msg(first, c) \in Message
        BY MsgType
    <2>3. <<Msg("StartProxy", c), Msg(first, c)>> \in Seq(Message)
        BY <2>2
    <2>4. \A n \in 1 .. Len(<<Msg("StartProxy", c), Msg(first, c)>>) :
              /\ <<Msg("StartProxy", c), Msg(first, c)>>[n].of = c
              /\ <<Msg("StartProxy", c), Msg(first, c)>>[n].kind # "SetLastSync"
        BY DEF Msg
    <2> DEFINE ms == <<Msg("StartProxy", c), Msg(first, c)>>
    <2>5. <<c, "proxy">> \in Socket /\ <<c, "proxy">>[1] = c /\ <<c, "proxy">>[2] = "proxy"
        OBVIOUS
    <2>6. /\ ms \in Seq(Message) /\ Connect(<<c, "proxy">>, ms)
          /\ \A n \in 1 .. Len(ms) : ms[n].of = c /\ ms[n].kind # "SetLastSync"
        BY <2>1, <2>3, <2>4
    <2> HIDE DEF ms
    <2> QED BY <1>2, <2>5, <2>6
<1>6. CASE SessionReads(c)
    <2>1. UNCHANGED toAgent \/ CliSend(<<c, "proxy">>, <<Msg("Manifest", c)>>)
        BY <1>6 DEF SessionReads
    <2>2. /\ <<c, "proxy">> \in Socket /\ <<c, "proxy">>[1] = c
          /\ "Manifest" \in Word \ {"StartProxy"}
        OBVIOUS
    <2> QED BY <1>1, <1>12, <2>1, <2>2
<1>7. CASE Stream(c)
    <2>1. PICK ks \in {<<"SyncDone">>, <<"FileData", "SyncDone">>} :
              CliSend(<<c, "proxy">>, [i \in DOMAIN ks |-> Msg(ks[i], c)])
        BY <1>7 DEF Stream
    <2> DEFINE ms == [i \in DOMAIN ks |-> Msg(ks[i], c)]
    <2>2. /\ ms \in Seq(Message) /\ Len(ms) = Len(ks)
          /\ \A n \in 1 .. Len(ks) : ms[n] = Msg(ks[n], c)
        BY StreamMail
    <2>3. \A n \in 1 .. Len(ks) : ks[n] \in {"SyncDone", "FileData"}
        OBVIOUS
    <2>4. \A n \in 1 .. Len(ks) : Msg(ks[n], c).of = c /\ Msg(ks[n], c).kind = ks[n]
        BY DEF Msg
    <2> HIDE DEF ms
    <2>5. \A n \in 1 .. Len(ms) : ms[n].of = c /\ ms[n].kind \in {"SyncDone", "FileData"}
        BY <2>2, <2>3, <2>4
    <2>6. CliSend(<<c, "proxy">>, ms)
        BY <2>1 DEF ms
    <2> QED BY <1>2, <2>2, <2>5, <2>6
<1>8. CASE Record(c)
    <2>1. Connect(<<c, "set">>, <<Msg("SetLastSync", c)>>)
        BY <1>8 DEF Record
    <2>2. /\ <<c, "set">> \in Socket /\ <<c, "set">>[1] = c
          /\ "SetLastSync" \in Word \ {"StartProxy"}
        OBVIOUS
    <2> QED BY <1>8, <1>12, <2>1, <2>2
<1>9. CASE Login(c)
    <2>1. Connect(<<c, "get">>, <<Msg("Shutdown", c)>>)
        BY <1>9 DEF Login
    <2>2. /\ <<c, "get">> \in Socket /\ <<c, "get">>[1] = c
          /\ "Shutdown" \in Word \ {"StartProxy"}
        OBVIOUS
    <2> QED BY <1>12, <2>1, <2>2
<1>10. CASE Abort(c) /\ ~UNCHANGED toAgent
    <2>1. toAgent' = [toAgent EXCEPT ![<<c, "proxy">>] = <<Msg("StartProxy", c)>>]
        BY <1>10 DEF Abort, HangUp
    <2>2. \A j \in Socket : toAgent'[j] = IF j = <<c, "proxy">> THEN <<Msg("StartProxy", c)>>
                                          ELSE toAgent[j]
        BY <2>1 DEF Types, SocketTypes
    <2> QED BY <1>3, <2>2 DEF Goal
<1>11. CASE HaveHint(c) \/ GoDirect(c) \/ SessionEnds(c) \/ Recorded(c) \/ LoggedIn(c)
            \/ Failed(c)
    BY <1>1, <1>11 DEF HaveHint, GoDirect, SessionEnds, Recorded, LoggedIn, Failed, HangUp, socketVars
<1> QED BY <1>1, <1>4, <1>5, <1>6, <1>7, <1>8, <1>9, <1>10, <1>11 DEF CliStep

LEMMA AgentTakes ==
    ASSUME Types, AgentStep
    PROVE  \/ UNCHANGED toAgent
           \/ /\ agent.sock \in Socket /\ toAgent[agent.sock] # << >>
              /\ toAgent' = [toAgent EXCEPT ![agent.sock] = Tail(@)]
BY AgentHas DEF AgentStep, Accept, HandleGetLastSync, HandleSetLastSync, HandleShutdown, StartProxy,
                ForwardUp, ProbeOnly, ForwardDown, SessionError, TakeRequest

(* Nothing else puts a message on a socket to the agent.                     *)
LEMMA OtherMail ==
    ASSUME Types, AgentStep \/ DaemonStep \/ DaemonDrops \/ UNCHANGED vars
    PROVE  \A j \in Socket : \A i \in 1 .. Len(toAgent'[j]) :
               \E n \in 1 .. Len(toAgent[j]) : toAgent'[j][i] = toAgent[j][n]
<1>1. CASE UNCHANGED toAgent
    BY <1>1
<1>2. CASE /\ agent.sock \in Socket /\ toAgent[agent.sock] # << >>
           /\ toAgent' = [toAgent EXCEPT ![agent.sock] = Tail(@)]
    <2> TAKE j \in Socket
    <2> TAKE i \in 1 .. Len(toAgent'[j])
    <2>1. toAgent[j] \in Seq(Message)
        BY DEF Types, SocketTypes
    <2>2. CASE j = agent.sock
        <3>1. toAgent'[j] = Tail(toAgent[j])
            BY <1>2, <2>2 DEF Types, SocketTypes
        <3>2. /\ Len(Tail(toAgent[j])) = Len(toAgent[j]) - 1 /\ Len(toAgent[j]) \in Nat
              /\ \A n \in 1 .. Len(Tail(toAgent[j])) : Tail(toAgent[j])[n] = toAgent[j][n + 1]
            BY <1>2, <2>1, <2>2, HeadTailProperties, LenProperties
        <3>3. toAgent'[j][i] = toAgent[j][i + 1] /\ i + 1 \in 1 .. Len(toAgent[j])
            BY <3>1, <3>2
        <3> QED BY <3>3
    <2>3. CASE j # agent.sock
        <3>1. toAgent'[j] = toAgent[j]
            BY <1>2, <2>3 DEF Types, SocketTypes
        <3> QED BY <3>1
    <2> QED BY <2>2, <2>3
<1>3. AgentStep \/ UNCHANGED toAgent
    BY DEF DaemonStep, DaemonAnswers, DaemonTakesFile, DaemonBuilds, DaemonFrame, DaemonDrops,
           socketVars, vars
<1> QED BY <1>1, <1>2, <1>3, AgentTakes

LEMMA NextMail ==
    ASSUME Types, MailOK, [Next]_vars
    PROVE  MailOK'
<1>1. ASSUME NEW c \in Client, CliStep(c) \/ Abort(c)
      PROVE  MailOK'
    BY <1>1, CliMail DEF MailOK
<1>2. CASE AgentStep \/ DaemonStep \/ DaemonDrops \/ UNCHANGED vars
    BY <1>2, OtherMail DEF MailOK
<1> QED BY <1>1, <1>2 DEF Next, Done

LEMMA InitMail == Init => MailOK
BY EmptySeq DEF Init, MailOK

-----------------------------------------------------------------------------
(* What is recorded.                                                         *)

LEMMA RecordsStays ==
    ASSUME Types, NEW c \in Client, CliStep(c) \/ Abort(c), NEW d \in Client
    PROVE  /\ Records(d) => Records(d)'
           /\ Recording(d) => Recording(d)'
           /\ Record(c) /\ Recording(c) => Records(c)'
<1>0. /\ cli \in [Client -> CliPc] /\ got \in [Client -> Seq(Word)] /\ got[c] \in Seq(Word)
    BY DEF Types, CliTypes, HistoryTypes
<1>1. \/ UNCHANGED got
      \/ /\ cli[c] \in {"response", "needed", "ack", "output"}
         /\ cli'[c] \in {"output", "stream", "needed", "ended", "record"}
         /\ \E kind \in Word : /\ got' = [got EXCEPT ![c] = Append(@, kind)]
                               /\ cli'[c] = "record" => kind = "BuildFinished"
    <2>1. CASE SessionReads(c)
        BY <1>0, <2>1, WordsKnown DEF SessionReads, CliReads, Enter
    <2>2. CASE SessionEnds(c)
        BY <1>0, <2>2, WordsKnown DEF SessionEnds, CliReads, Enter
    <2> QED BY <2>1, <2>2 DEF CliStep, Abort, AskLastSync, HaveHint, OpenSession, GoDirect,
                  Stream, Record, Recorded, Login, LoggedIn, Failed, HangUp, CliReads
<1>2. \/ UNCHANGED cli
      \/ \E pc \in CliPc : /\ cli' = [cli EXCEPT ![c] = pc]
                           /\ cli[c] = "recording" => pc = "ended"
                           /\ cli[c] # "ended"
                           /\ pc \in {"record", "recording"} =>
                                  \/ cli[c] = "record" /\ UNCHANGED got
                                  \/ pc = "record" /\ cli[c] = "output"
    BY <1>0 DEF CliStep, Abort, AskLastSync, HaveHint, OpenSession, GoDirect, SessionReads,
                SessionEnds, Stream, Record, Recorded, Login, LoggedIn, Failed, HangUp, Enter, CliPc
<1>3. CASE UNCHANGED got
    <2>1. Built(d)' <=> Built(d)
        BY <1>3 DEF Built
    <2>2. Records(d) => Records(d)'
        BY <1>0, <1>2, <2>1 DEF Records, CliPc
    <2>3. Recording(d) => Recording(d)'
        <3>1. ~(cli[c] = "output" /\ cli'[c] = "record")
            <4>1. CASE SessionReads(c)
                <5>1. got' # got
                    <6>1. \E kind \in Word : got' = [got EXCEPT ![c] = Append(@, kind)]
                        BY <4>1, WordsKnown DEF SessionReads, CliReads
                    <6>2. \A kind \in Word : Append(got[c], kind) # got[c]
                        BY <1>0, AppendProperties, LenProperties
                    <6> QED BY <1>0, <6>1, <6>2
                <5> QED BY <1>3, <5>1
            <4> QED BY <1>0, <4>1 DEF CliStep, Abort, AskLastSync, HaveHint, OpenSession, GoDirect,
                SessionEnds, Stream, Record, Recorded, Login, LoggedIn, Failed, HangUp, Enter
        <3> QED BY <1>0, <1>2, <2>1, <3>1 DEF Recording, CliPc
    <2>4. Record(c) /\ Recording(c) => Records(c)'
        <3>1. Built(c)' <=> Built(c)
            BY <1>3 DEF Built
        <3> QED BY <1>0, <3>1 DEF Record, Enter, Recording, Records
    <2> QED BY <2>2, <2>3, <2>4
<1>4. CASE ~UNCHANGED got
    <2>1. PICK kind \in Word : /\ got' = [got EXCEPT ![c] = Append(@, kind)]
                               /\ cli'[c] = "record" => kind = "BuildFinished"
        BY <1>1, <1>4
    <2>2. ~Records(c) /\ cli'[c] # "recording" /\ ~Record(c)
        BY <1>1, <1>4 DEF Records, Record
    <2>3. d # c => got'[d] = got[d] /\ cli'[d] = cli[d]
        BY <1>0, <1>2, <2>1
    <2>4. d # c => (Built(d)' <=> Built(d)) /\ (Records(d)' <=> Records(d))
                   /\ (Recording(d)' <=> Recording(d))
        BY <2>3 DEF Built, Records, Recording
    <2>5. Recording(c)'
        <3>1. got'[c] = Append(got[c], kind)
            BY <1>0, <2>1
        <3>2. got'[c] # << >> /\ got'[c][Len(got'[c])] = kind
            BY <1>0, <3>1, AppendProperties, LenProperties
        <3> QED BY <2>1, <2>2, <3>2 DEF Recording, Built
    <2> QED BY <2>2, <2>4, <2>5
<1> QED BY <1>3, <1>4

LEMMA NextHint ==
    ASSUME Types, HintOK, [Next]_vars
    PROVE  HintOK'
<1>1. ASSUME NEW c \in Client, CliStep(c) \/ Abort(c)
      PROVE  HintOK'
    <2>1. \A d \in Client : Recording(d)'
        BY <1>1, RecordsStays DEF HintOK
    <2>2. \A k \in Socket : \A i \in 1 .. Len(toAgent'[k]) :
              toAgent'[k][i].kind = "SetLastSync" => Records(k[1])'
        <3> TAKE k \in Socket
        <3> TAKE i \in 1 .. Len(toAgent'[k])
        <3>1. k[1] \in Client
            BY SocketOf
        <3> QED BY <1>1, <3>1, CliMail, RecordsStays DEF HintOK
    <2>3. lastSync' = lastSync
        BY <1>1, CliFrames
    <2>4. lastSync' # Nobody => Records(lastSync)'
        <3> SUFFICES ASSUME lastSync # Nobody PROVE Records(lastSync)'
            BY <2>3
        <3>1. PICK d \in Client : d = lastSync
            BY DEF Types, HistoryTypes
        <3>2. Records(d)'
            BY <1>1, <3>1, RecordsStays DEF HintOK
        <3> QED BY <2>3, <3>1, <3>2 DEF Records, Built
    <2> QED BY <2>1, <2>2, <2>3, <2>4 DEF HintOK
<1>2. CASE AgentStep \/ DaemonStep \/ DaemonDrops \/ UNCHANGED vars
    <2>1. UNCHANGED <<cli, got>>
        BY <1>2 DEF AgentStep, Accept, HandleGetLastSync, HandleSetLastSync, HandleShutdown,
                    StartProxy, ForwardUp, ProbeOnly, ForwardDown, SessionError, AgentFrame,
                    DaemonStep, DaemonAnswers, DaemonTakesFile, DaemonBuilds, DaemonFrame,
                    DaemonDrops, vars
    <2>2. \A d : (Records(d)' <=> Records(d)) /\ (Recording(d)' <=> Recording(d))
        BY <2>1 DEF Records, Recording, Built
    <2>3. lastSync' # Nobody => Records(lastSync')
        <3>1. CASE HandleSetLastSync
            <4>1. /\ agent.sock \in Socket /\ lastSync' = agent.sock[1]
                  /\ toAgent[agent.sock] \in Seq(Message) /\ toAgent[agent.sock] # << >>
                  /\ Head(toAgent[agent.sock]).kind = "SetLastSync"
                BY <3>1, AgentHas DEF HandleSetLastSync, TakeRequest
            <4>2. 1 \in 1 .. Len(toAgent[agent.sock])
                  /\ Head(toAgent[agent.sock]) = toAgent[agent.sock][1]
                BY <4>1, EmptySeq
            <4> QED BY <4>1, <4>2 DEF HintOK
        <3>2. CASE ~HandleSetLastSync
            <4>1. lastSync' \in {lastSync, Nobody}
                BY <1>2, <3>2
                   DEF AgentStep, Accept, HandleGetLastSync, HandleShutdown,
                    StartProxy, ForwardUp, ProbeOnly, ForwardDown, SessionError,
                    DaemonStep, DaemonAnswers, DaemonTakesFile, DaemonBuilds, DaemonFrame,
                    DaemonDrops, vars
            <4>3. lastSync # Nobody => Records(lastSync)
                BY DEF HintOK
            <4> QED BY <4>1, <4>3
        <3> QED BY <3>1, <3>2
    <2>4. \A k \in Socket : \A i \in 1 .. Len(toAgent'[k]) :
              toAgent'[k][i].kind = "SetLastSync" => Records(k[1])
        BY <1>2, OtherMail DEF HintOK
    <2>5. lastSync' # Nobody => Records(lastSync)'
        BY <2>1, <2>3 DEF Records, Built
    <2>6. \A c \in Client : Recording(c)'
        BY <2>2 DEF HintOK
    <2>7. \A k \in Socket : \A i \in 1 .. Len(toAgent'[k]) :
              toAgent'[k][i].kind = "SetLastSync" => Records(k[1])'
        BY <2>2, <2>4
    <2> QED BY <2>5, <2>6, <2>7 DEF HintOK
<1> QED BY <1>1, <1>2 DEF Next, Done

LEMMA InitHint == Init => HintOK
BY EmptySeq DEF Init, HintOK, Recording

-----------------------------------------------------------------------------
(* A run's session, in a step of somebody else.                              *)

LEMMA ProxyIs ==
    /\ \A c \in Client : Proxy(c) \in Socket /\ Proxy(c)[1] = c /\ Proxy(c)[2] = "proxy"
                         /\ Proxy(c) # NoSocket
    /\ \A c, d \in Client : Proxy(c) = Proxy(d) => c = d
    /\ \A k \in Socket : k[2] = "proxy" => k = Proxy(k[1])
BY SocketOf DEF Proxy

(* What is said and unsaid in the session of d stays so.                     *)
SameTalk(d) ==
    /\ Once(d) => Once(d)'
    /\ Queued(Proxy(d))' => Queued(Proxy(d))
    /\ toAgent'[Proxy(d)] = toAgent[Proxy(d)] /\ toCli'[Proxy(d)] = toCli[Proxy(d)]
    /\ asked'[d] = asked[d] /\ heard'[d] = heard[d]
    /\ told'[d] = told[d] /\ got'[d] = got[d]

(* The run itself does not begin, read or write a session.                   *)
SameRole(d) ==
    /\ cli'[d] \in {"start", "asking", "ready"} => cli[d] \in {"start", "asking", "ready"}
    /\ cli[d] \in {"response", "ended"} => cli'[d] \in {"response", "ended"}
    /\ cli'[d] = "stream" => cli[d] = "stream"

LEMMA Undisturbed ==
    ASSUME NEW d \in Client, SessionOK(d), SameTalk(d), SameRole(d),
           \/ UNCHANGED <<agent, ws, wsUp, wsDown, daemon>>
           \/ agent.sock # Proxy(d) /\ agent'.sock # Proxy(d),
           Proxy(d) \in agentOpen /\ (agent'.sock = Proxy(d) \/ Queued(Proxy(d))')
               => Proxy(d) \in agentOpen'
    PROVE  SessionOK(d)'
<1>1. agent'.sock = Proxy(d) => /\ agent.sock = Proxy(d) 
                                /\ UNCHANGED <<agent, ws, wsUp, wsDown, daemon>>
    OBVIOUS
<1>2. QueueOK(d)'
    BY <1>1 DEF SessionOK, QueueOK, SameTalk, Proxy
<1>3. Unheard(d)' <=> Unheard(d)
    BY DEF SameTalk, Unheard, Proxy
<1>4. FreshOK(d)'
    BY <1>1, <1>3 DEF SessionOK, FreshOK, SameTalk, SameRole, Proxy
<1>5. WaitingOK(d)'
    <2>1. Waits(d)' => Waits(d)
        BY <1>1 DEF Waits, SameTalk, Proxy
    <2>2. \A pc : Understood(pc, Tail(toAgent[Proxy(d)]))' <=> Understood(pc, Tail(toAgent[Proxy(d)]))
        BY DEF Understood, SameTalk, Proxy
    <2> QED BY <1>3, <2>1, <2>2 DEF SessionOK, WaitingOK, SameTalk, SameRole, Kinds, Proxy
<1>6. FlowOK(d)'
    BY DEF SessionOK, FlowOK, Arrived, SameTalk, Kinds, Begins, Proxy
<1>7. ServedOK(d)'
    <2>1. Serves(d)' => Serves(d) /\ UNCHANGED <<agent, ws, wsUp, wsDown, daemon>>
        BY <1>1 DEF Serves, Proxy
    <2> SUFFICES ASSUME Serves(d)' PROVE ServedOK(d)'
        BY DEF ServedOK
    <2>2. Unread(d)' = Unread(d) /\ (Quiet(d)' <=> Quiet(d))
        BY <2>1 DEF Unread, Quiet, SameTalk, Proxy
    <2>3. \A kind : Awaits(d, kind)' <=> Awaits(d, kind)
        BY <2>1, <2>2 DEF Awaits, SameTalk, Proxy
    <2>4. DialogueOK(d) => DialogueOK(d)'
        BY <2>1, <2>2, <2>3 DEF DialogueOK, SameTalk, SameRole, Understood, Proxy
    <2> QED BY <2>1, <2>2, <2>4 DEF SessionOK, ServedOK, Arrived, SameTalk, Kinds, Proxy
<1> QED BY <1>2, <1>4, <1>5, <1>6, <1>7 DEF SessionOK

(* Sockets put into the backlog.                                             *)
LEMMA Enqueue ==
    ASSUME backlog \in Seq(Socket), NEW socks \in Seq(Socket), backlog' = backlog \o socks,
           NEW d \in Client, Once(d),
           \/ \A i \in 1 .. Len(socks) : socks[i] # Proxy(d)
           \/ /\ ~Queued(Proxy(d))
              /\ \A i, j \in 1 .. Len(socks) : socks[i] = Proxy(d) /\ socks[j] = Proxy(d) => i = j
    PROVE  /\ Once(d)'
           /\ Queued(Proxy(d))' =>
                  Queued(Proxy(d)) \/ \E i \in 1 .. Len(socks) : socks[i] = Proxy(d)
<1>1. /\ Len(backlog) \in Nat /\ Len(socks) \in Nat /\ Len(backlog') = Len(backlog) + Len(socks)
      /\ \A i \in 1 .. Len(backlog') :
             backlog'[i] = IF i <= Len(backlog) THEN backlog[i] ELSE socks[i - Len(backlog)]
    BY ConcatProperties, LenProperties
<1>2. \A i \in 1 .. Len(backlog') :
          \/ i \in 1 .. Len(backlog) /\ backlog'[i] = backlog[i]
          \/ i - Len(backlog) \in 1 .. Len(socks) /\ backlog'[i] = socks[i - Len(backlog)]
    BY <1>1
<1>3. Queued(Proxy(d))' => Queued(Proxy(d)) \/ \E i \in 1 .. Len(socks) : socks[i] = Proxy(d)
    BY <1>2 DEF Queued, Proxy
<1>4. Once(d)'
    <2> SUFFICES ASSUME NEW i \in 1 .. Len(backlog'), NEW j \in 1 .. Len(backlog'),
                        backlog'[i] = Proxy(d), backlog'[j] = Proxy(d)
                 PROVE  i = j
        BY DEF Once, Proxy
    <2>1. CASE i \in 1 .. Len(backlog) /\ backlog'[i] = backlog[i]
        <3>1. Queued(Proxy(d))
            BY <2>1 DEF Queued
        <3>2. j \in 1 .. Len(backlog) /\ backlog'[j] = backlog[j]
            BY <1>2, <3>1
        <3> QED BY <2>1, <3>2 DEF Once
    <2>2. CASE i - Len(backlog) \in 1 .. Len(socks) /\ backlog'[i] = socks[i - Len(backlog)]
        <3>1. ~Queued(Proxy(d))
            BY <2>2
        <3>2. j - Len(backlog) \in 1 .. Len(socks) /\ backlog'[j] = socks[j - Len(backlog)]
            BY <1>2, <3>1 DEF Queued
        <3>3. i - Len(backlog) = j - Len(backlog)
            BY <2>2, <3>1, <3>2
        <3> QED BY <1>1, <3>3
    <2> QED BY <1>2, <2>1, <2>2
<1> QED BY <1>3, <1>4

LEMMA Dequeue ==
    ASSUME backlog \in Seq(Socket), backlog # << >>, backlog' = Tail(backlog),
           NEW d \in Client, Once(d)
    PROVE  /\ Once(d)'
           /\ Queued(Proxy(d))' => Queued(Proxy(d)) /\ Head(backlog) # Proxy(d)
           /\ Head(backlog) = Proxy(d) => Queued(Proxy(d))
<1>1. /\ Len(backlog) \in Nat /\ Len(backlog') = Len(backlog) - 1 /\ 1 \in 1 .. Len(backlog)
      /\ Head(backlog) = backlog[1]
      /\ \A i \in 1 .. Len(backlog') : backlog'[i] = backlog[i + 1]
    BY HeadTailProperties, LenProperties, EmptySeq
<1>2. \A i \in 1 .. Len(backlog') : i + 1 \in 1 .. Len(backlog) /\ i + 1 # 1
    BY <1>1
<1>3. Once(d)'
    <2> SUFFICES ASSUME NEW i \in 1 .. Len(backlog'), NEW j \in 1 .. Len(backlog'),
                        backlog'[i] = Proxy(d), backlog'[j] = Proxy(d)
                 PROVE  i = j
        BY DEF Once, Proxy
    <2>1. i + 1 = j + 1
        BY <1>1, <1>2 DEF Once
    <2> QED BY <2>1
<1>4. ASSUME Queued(Proxy(d))'
      PROVE  Queued(Proxy(d)) /\ Head(backlog) # Proxy(d)
    <2>1. PICK i \in 1 .. Len(backlog') : backlog'[i] = Proxy(d)
        BY <1>4 DEF Queued, Proxy
    <2>2. backlog[i + 1] = Proxy(d) /\ i + 1 \in 1 .. Len(backlog) /\ i + 1 # 1
        BY <1>1, <1>2, <2>1
    <2>3. Head(backlog) # Proxy(d)
        BY <1>1, <2>2 DEF Once
    <2> QED BY <2>2, <2>3 DEF Queued
<1> QED BY <1>1, <1>3, <1>4 DEF Queued

LEMMA ConnectSame ==
    ASSUME Types, NEW k \in Socket, NEW ms \in Seq(Message), Connect(k, ms),
           NEW d \in Client, Proxy(d) # k
    PROVE  /\ Once(d) => Once(d)'
           /\ Queued(Proxy(d))' => Queued(Proxy(d))
           /\ toAgent'[Proxy(d)] = toAgent[Proxy(d)] /\ toCli'[Proxy(d)] = toCli[Proxy(d)]
           /\ agentOpen \subseteq agentOpen'
<1>1. Proxy(d) \in Socket /\ Proxy(d)[2] = "proxy"
    BY ProxyIs
<1>2. PICK socks \in Seq(Socket) : /\ backlog' = backlog \o socks
                                   /\ \A i \in 1 .. Len(socks) : socks[i] # Proxy(d)
    <2>1. <<k[1], "knock">> \in Socket /\ <<k[1], "knock">> # Proxy(d)
        BY <1>1, SocketOf
    <2>2. CASE cli[k[1]] = "start"
        <3> DEFINE socks == << <<k[1], "knock">>, k >>
        <3>1. socks \in Seq(Socket) /\ \A i \in 1 .. Len(socks) : socks[i] # Proxy(d)
            BY <2>1
        <3>2. backlog' = backlog \o socks
            BY <2>2 DEF Connect
        <3> QED BY <3>1, <3>2
    <2>3. CASE cli[k[1]] # "start"
        <3> DEFINE socks == <<k>>
        <3>1. socks \in Seq(Socket) /\ \A i \in 1 .. Len(socks) : socks[i] # Proxy(d)
            OBVIOUS
        <3>2. backlog' = backlog \o socks
            BY <2>3 DEF Connect
        <3> QED BY <3>1, <3>2
    <2> QED BY <2>2, <2>3
<1>3. backlog \in Seq(Socket)
    BY DEF Types, SocketTypes
<1>4. Once(d) => Once(d)'
    BY <1>2, <1>3, Enqueue
<1>5. Queued(Proxy(d))' => Queued(Proxy(d))
    <2>1. /\ Len(backlog) \in Nat /\ Len(socks) \in Nat
          /\ Len(backlog') = Len(backlog) + Len(socks)
          /\ \A i \in 1 .. Len(backlog') :
                 backlog'[i] = IF i <= Len(backlog) THEN backlog[i] ELSE socks[i - Len(backlog)]
        BY <1>2, <1>3, ConcatProperties, LenProperties
    <2>2. \A i \in 1 .. Len(backlog') :
              \/ i \in 1 .. Len(backlog) /\ backlog'[i] = backlog[i]
              \/ i - Len(backlog) \in 1 .. Len(socks) /\ backlog'[i] = socks[i - Len(backlog)]
        BY <2>1
    <2> QED BY <1>2, <2>2 DEF Queued, Proxy
<1>6. toAgent'[Proxy(d)] = toAgent[Proxy(d)] /\ toCli'[Proxy(d)] = toCli[Proxy(d)]
      /\ agentOpen \subseteq agentOpen'
    BY <1>1 DEF Connect, Types, SocketTypes
<1> QED BY <1>4, <1>5, <1>6

LEMMA ReadSame ==
    ASSUME Types, NEW c \in Client, NEW k \in Socket, k[1] = c, NEW kind, CliReads(c, k, kind),
           NEW d \in Client, Proxy(d) # k
    PROVE  toCli'[Proxy(d)] = toCli[Proxy(d)] /\ got'[d] = got[d]
<1>1. toCli'[Proxy(d)] = toCli[Proxy(d)]
    BY ProxyIs DEF CliReads, Types, SocketTypes
<1>2. k[2] = "proxy" => d # c
    BY ProxyIs
<1> QED BY <1>1, <1>2 DEF CliReads, Types, HistoryTypes

(* What a run does beside its session.                                       *)
Aside(c) ==
    \/ AskLastSync(c) \/ HaveHint(c) \/ GoDirect(c) \/ Record(c) \/ Recorded(c)
    \/ Login(c) \/ LoggedIn(c) \/ HangUp(c)

LEMMA AsideSame ==
    ASSUME Types, NEW c \in Client, Aside(c), NEW d \in Client
    PROVE  SameTalk(d) /\ SameRole(d) /\ agentOpen \subseteq agentOpen'
<1> USE SocketOf, WordsKnown
<1>0. /\ <<c, "get">> \in Socket /\ <<c, "get">>[1] = c /\ <<c, "get">> # Proxy(d)
      /\ <<c, "set">> \in Socket /\ <<c, "set">>[1] = c /\ <<c, "set">> # Proxy(d)
    BY DEF Proxy
<1>1. SameRole(d)
    BY DEF Aside, AskLastSync, HaveHint, GoDirect, Record, Recorded, Login, LoggedIn, HangUp,
           Enter, SameRole, Types, CliTypes
<1>2. heard' = heard /\ told' = told /\ asked' = asked
    BY DEF Aside, AskLastSync, HaveHint, GoDirect, Record, Recorded, Login, LoggedIn, HangUp,
           CliFrame
<1>3. ASSUME NEW k \in {<<c, "get">>, <<c, "set">>}, NEW kind \in Word,
             Connect(k, <<Msg(kind, c)>>), UNCHANGED got
      PROVE  SameTalk(d) /\ agentOpen \subseteq agentOpen'
    <2>1. <<Msg(kind, c)>> \in Seq(Message)
        BY MsgType
    <2> QED BY <1>0, <1>2, <1>3, <2>1, ConnectSame DEF SameTalk
<1>4. ASSUME NEW k \in {<<c, "get">>, <<c, "set">>}, NEW kind, CliReads(c, k, kind),
             UNCHANGED <<backlog, toAgent, agentOpen>>
      PROVE  SameTalk(d) /\ agentOpen \subseteq agentOpen'
    <2>1. toCli'[Proxy(d)] = toCli[Proxy(d)] /\ got'[d] = got[d]
        BY <1>0, <1>4, ReadSame
    <2> QED BY <1>2, <1>4, <2>1 DEF SameTalk, Once, Queued, Proxy
<1>5. ASSUME UNCHANGED <<backlog, toAgent, toCli, agentOpen, got>>
      PROVE  SameTalk(d) /\ agentOpen \subseteq agentOpen'
    BY <1>2, <1>5 DEF SameTalk, Once, Queued, Proxy
<1>6. CASE AskLastSync(c) \/ Record(c) \/ Login(c)
    <2>1. \/ Connect(<<c, "get">>, <<Msg("GetLastSync", c)>>)
          \/ Connect(<<c, "set">>, <<Msg("SetLastSync", c)>>)
          \/ Connect(<<c, "get">>, <<Msg("Shutdown", c)>>)
        BY <1>6 DEF AskLastSync, Record, Login
    <2>2. UNCHANGED got
        BY <1>6 DEF AskLastSync, Record, Login
    <2>3. SameTalk(d) /\ agentOpen \subseteq agentOpen'
        BY <1>3, <2>1, <2>2
    <2> QED BY <1>1, <2>3
<1>7. CASE HaveHint(c) \/ Recorded(c) \/ LoggedIn(c)
    <2>1. \/ \E k \in {<<c, "get">>, <<c, "set">>}, kind \in Word : CliReads(c, k, kind)
          \/ UNCHANGED <<toCli, got>>
        BY <1>7 DEF HaveHint, Recorded, LoggedIn
    <2>2. UNCHANGED <<backlog, toAgent, agentOpen>>
        BY <1>7 DEF HaveHint, Recorded, LoggedIn
    <2>3. SameTalk(d) /\ agentOpen \subseteq agentOpen'
        BY <1>4, <1>5, <2>1, <2>2
    <2> QED BY <1>1, <2>3
<1>8. CASE GoDirect(c) \/ HangUp(c)
    <2>1. UNCHANGED <<backlog, toAgent, toCli, agentOpen, got>>
        BY <1>8 DEF GoDirect, HangUp, socketVars
    <2> QED BY <1>1, <1>5, <2>1
<1> QED BY <1>6, <1>7, <1>8 DEF Aside

LEMMA CliSame ==
    ASSUME Types, NEW c \in Client, CliStep(c) \/ Abort(c), ~Aside(c), NEW d \in Client, d # c
    PROVE  SameTalk(d) /\ SameRole(d) /\ agentOpen \subseteq agentOpen'
<1> USE SocketOf, WordsKnown
<1>0. Proxy(c) \in Socket /\ Proxy(c) # Proxy(d) /\ Proxy(c) = <<c, "proxy">> /\ Proxy(c)[1] = c
    BY ProxyIs DEF Proxy
<1>1. cli'[d] = cli[d] /\ asked'[d] = asked[d] /\ heard' = heard /\ told' = told
    <2>1. heard' = heard /\ told' = told
        BY CliFrames
    <2>2. cli'[d] = cli[d] /\ asked'[d] = asked[d]
        BY DEF CliStep, Abort, AskLastSync, HaveHint, OpenSession, GoDirect, SessionReads, SessionEnds,
           Stream, Record, Recorded, Login, LoggedIn, Failed, HangUp, Enter, Types, CliTypes,
           HistoryTypes
    <2> QED BY <2>1, <2>2
<1>2. SameRole(d)
    BY <1>1 DEF SameRole
<1>3. CASE OpenSession(c)
    <2>1. PICK first \in {"TipRequest", "Probe"} :
              Connect(Proxy(c), <<Msg("StartProxy", c), Msg(first, c)>>)
        BY <1>0, <1>3 DEF OpenSession
    <2>2. <<Msg("StartProxy", c), Msg(first, c)>> \in Seq(Message)
        <3>1. Msg("StartProxy", c) \in Message /\ Msg(first, c) \in Message
            BY MsgType
        <3> QED BY <3>1
    <2>3. UNCHANGED got
        BY <1>3 DEF OpenSession
    <2>4. /\ Once(d) => Once(d)'
          /\ Queued(Proxy(d))' => Queued(Proxy(d))
          /\ toAgent'[Proxy(d)] = toAgent[Proxy(d)] /\ toCli'[Proxy(d)] = toCli[Proxy(d)]
          /\ agentOpen \subseteq agentOpen'
        BY <1>0, <2>1, <2>2, ConnectSame
    <2> QED BY <1>1, <1>2, <2>3, <2>4 DEF SameTalk
<1>4. CASE SessionReads(c) \/ SessionEnds(c) \/ Stream(c)
    <2>1. UNCHANGED <<backlog, agentOpen>>
        BY <1>4 DEF SessionReads, SessionEnds, Stream
    <2>2. toCli'[Proxy(d)] = toCli[Proxy(d)] /\ got'[d] = got[d]
        <3>1. UNCHANGED <<toCli, got>> \/ \E kind : CliReads(c, Proxy(c), kind)
            BY <1>0, <1>4 DEF SessionReads, SessionEnds, Stream
        <3> QED BY <1>0, <3>1, ReadSame
    <2>3. toAgent'[Proxy(d)] = toAgent[Proxy(d)]
        <3>1. UNCHANGED toAgent \/ \E ms : CliSend(Proxy(c), ms)
            BY <1>0, <1>4 DEF SessionReads, SessionEnds, Stream
        <3> QED BY <1>0, <3>1, ProxyIs DEF CliSend, Types, SocketTypes
    <2> QED BY <1>1, <1>2, <2>1, <2>2, <2>3 DEF SameTalk, Once, Queued, Proxy
<1>5. CASE Abort(c) /\ ~HangUp(c)
    <2>1. /\ backlog' = Append(backlog, Proxy(c))
          /\ toAgent' = [toAgent EXCEPT ![Proxy(c)] = <<Msg("StartProxy", c)>>]
          /\ agentOpen' = agentOpen \cup {Proxy(c)}
          /\ UNCHANGED <<toCli, got>>
        BY <1>0, <1>5 DEF Abort
    <2>2. backlog \in Seq(Socket) /\ backlog' = backlog \o <<Proxy(c)>>
          /\ <<Proxy(c)>> \in Seq(Socket)
        <3>1. backlog \in Seq(Socket)
            BY DEF Types, SocketTypes
        <3> QED BY <1>0, <2>1, <3>1, AppendIsConcat
    <2>3. \A i \in 1 .. Len(<<Proxy(c)>>) : <<Proxy(c)>>[i] # Proxy(d)
        BY <1>0
    <2>4. Once(d) => Once(d)'
        BY <2>2, <2>3, Enqueue
    <2>5. Queued(Proxy(d))' => Queued(Proxy(d))
        <3>1. /\ Len(backlog') = Len(backlog) + 1 /\ Len(backlog) \in Nat
              /\ \A i \in 1 .. Len(backlog) : backlog'[i] = backlog[i]
              /\ backlog'[Len(backlog) + 1] = Proxy(c)
            BY <1>0, <2>1, <2>2, AppendProperties, LenProperties
        <3>2. \A i \in 1 .. Len(backlog') : i \in 1 .. Len(backlog) \/ i = Len(backlog) + 1
            BY <3>1
        <3> QED BY <1>0, <3>1, <3>2 DEF Queued, Proxy
    <2>6. toAgent'[Proxy(d)] = toAgent[Proxy(d)]
        BY <1>0, <2>1, ProxyIs DEF Types, SocketTypes
    <2> QED BY <1>1, <1>2, <2>1, <2>4, <2>5, <2>6 DEF SameTalk
<1> QED BY <1>3, <1>4, <1>5 DEF CliStep, Aside, Failed

-----------------------------------------------------------------------------
(* A run's session, in the run's own steps.  It begins ...                   *)

LEMMA Begun ==
    ASSUME NEW c \in Client, SessionOK(c), cli[c] \in {"start", "asking", "ready"},
           cli'[c] \in {"response", "ended"}, agent' = agent,
           Once(c)', Proxy(c) \in agentOpen',
           toAgent'[Proxy(c)] # << >>, Head(toAgent'[Proxy(c)]).kind = "StartProxy",
           asked'[c] = Kinds(Tail(toAgent'[Proxy(c)])), asked'[c] \in Seq(Word),
           Understood("idle", Tail(toAgent'[Proxy(c)])),
           told[c] \in Seq(Word), UNCHANGED <<heard, told, got, toCli>>
    PROVE  SessionOK(c)'
<1>1. Unheard(c) /\ agent.sock # Proxy(c)
    BY DEF SessionOK, FreshOK
<1>2. Unheard(c)'
    BY <1>1 DEF Unheard, Proxy
<1>3. QueueOK(c)'
    BY <1>1 DEF QueueOK, Proxy
<1>4. FreshOK(c)'
    BY DEF FreshOK
<1>5. WaitingOK(c)'
    BY <1>2 DEF WaitingOK, Understood, Kinds, Proxy
<1>6. FlowOK(c)'
    <2>1. heard'[c] = << >> /\ got'[c] = << >> /\ toCli'[Proxy(c)] = << >> /\ told'[c] = << >>
        BY <1>1 DEF Unheard
    <2>2. Kinds(<< >>) = << >> /\ << >> \o << >> = << >>
        BY KindsOfNone
    <2>3. Begins(<< >>, asked'[c]) /\ Begins(<< >>, told'[c])
        BY BeginsEmpty
    <2> QED BY <2>1, <2>2, <2>3 DEF FlowOK, Arrived, Begins, Kinds, Proxy
<1>7. ServedOK(c)'
    BY <1>1 DEF ServedOK, Serves, Proxy
<1> QED BY <1>3, <1>4, <1>5, <1>6, <1>7 DEF SessionOK

LEMMA OpenSessionOK ==
    ASSUME Types, NEW c \in Client, SessionOK(c), OpenSession(c)
    PROVE  SessionOK(c)'
<1> USE SocketOf, WordsKnown
<1>1. PICK first \in {"TipRequest", "Probe"} :
          /\ Connect(Proxy(c), <<Msg("StartProxy", c), Msg(first, c)>>)
          /\ asked' = [asked EXCEPT ![c] = <<first>>]
    BY DEF OpenSession, Proxy
<1> DEFINE ms == <<Msg("StartProxy", c), Msg(first, c)>>
<1>2. /\ cli[c] \in {"start", "asking", "ready"} /\ cli'[c] = "response"
      /\ UNCHANGED <<agent, heard, told, got>>
    BY DEF OpenSession, Enter, CliFrame, Types, CliTypes
<1>3. Msg("StartProxy", c) \in Message /\ Msg(first, c) \in Message
    BY MsgType
<1>4. /\ Proxy(c) \in agentOpen' /\ toAgent'[Proxy(c)] = ms /\ toCli' = toCli
    <2>1. Proxy(c) \in Socket
        BY ProxyIs
    <2>2. toAgent'[Proxy(c)] = ms /\ toCli' = toCli
        BY <1>1, <2>1 DEF Connect, Types, SocketTypes
    <2>3. Proxy(c) \in agentOpen'
        <3>1. CASE cli[Proxy(c)[1]] = "start"
            <4> DEFINE socks == << <<Proxy(c)[1], "knock">>, Proxy(c) >>
            <4>1. agentOpen' = agentOpen \cup {socks[i] : i \in DOMAIN socks}
                BY <1>1, <3>1 DEF Connect
            <4>2. 2 \in DOMAIN socks /\ socks[2] = Proxy(c)
                OBVIOUS
            <4> HIDE DEF socks
            <4> QED BY <4>1, <4>2
        <3>2. CASE cli[Proxy(c)[1]] # "start"
            <4> DEFINE socks == <<Proxy(c)>>
            <4>1. agentOpen' = agentOpen \cup {socks[i] : i \in DOMAIN socks}
                BY <1>1, <3>2 DEF Connect
            <4>2. 1 \in DOMAIN socks /\ socks[1] = Proxy(c)
                OBVIOUS
            <4> HIDE DEF socks
            <4> QED BY <4>1, <4>2
        <3> QED BY <3>1, <3>2
    <2> QED BY <2>2, <2>3
<1>5. Once(c)'
    <2>1. backlog \in Seq(Socket) /\ Proxy(c) \in Socket /\ Proxy(c)[1] = c
          /\ <<c, "knock">> \in Socket /\ <<c, "knock">> # Proxy(c)
        BY ProxyIs DEF Types, SocketTypes, Proxy
    <2>2. Once(c) /\ ~Queued(Proxy(c))
        BY <1>2 DEF SessionOK, QueueOK, FreshOK
    <2>3. CASE cli[c] = "start"
        <3> DEFINE socks == << <<c, "knock">>, Proxy(c) >>
        <3>1. socks \in Seq(Socket)
              /\ \A i, j \in 1 .. Len(socks) : socks[i] = Proxy(c) /\ socks[j] = Proxy(c) => i = j
            BY <2>1
        <3>2. backlog' = backlog \o socks
            BY <1>1, <2>1, <2>3 DEF Connect
        <3> HIDE DEF socks
        <3> QED BY <2>1, <2>2, <3>1, <3>2, Enqueue
    <2>4. CASE cli[c] # "start"
        <3> DEFINE socks == <<Proxy(c)>>
        <3>1. socks \in Seq(Socket)
              /\ \A i, j \in 1 .. Len(socks) : socks[i] = Proxy(c) /\ socks[j] = Proxy(c) => i = j
            BY <2>1
        <3>2. backlog' = backlog \o socks
            BY <1>1, <2>1, <2>4 DEF Connect
        <3> HIDE DEF socks
        <3> QED BY <2>1, <2>2, <3>1, <3>2, Enqueue
    <2> QED BY <2>3, <2>4
<1>6. /\ toAgent'[Proxy(c)] # << >> /\ Head(toAgent'[Proxy(c)]).kind = "StartProxy"
      /\ Tail(toAgent'[Proxy(c)]) = <<Msg(first, c)>>
    BY <1>4 DEF Msg
<1>7. asked'[c] = <<first>> /\ <<first>> \in Seq(Word) /\ Kinds(<<Msg(first, c)>>) = <<first>>
    <2>1. Msg(first, c).kind = first
        BY DEF Msg
    <2> QED BY <1>1, <1>3, <2>1, KindsOfOne DEF Types, HistoryTypes
<1>8. Understood("idle", <<Msg(first, c)>>)
    BY DEF Understood, Msg
<1>9. told[c] \in Seq(Word)
    BY DEF Types, HistoryTypes
<1> HIDE DEF ms
<1> QED BY <1>2, <1>4, <1>5, <1>6, <1>7, <1>8, <1>9, Begun

LEMMA CutOpenOK ==
    ASSUME Types, NEW c \in Client, SessionOK(c), Abort(c), ~HangUp(c)
    PROVE  SessionOK(c)'
<1>1. /\ cli[c] = "ready" /\ cli'[c] = "ended"
      /\ backlog' = Append(backlog, Proxy(c)) /\ Proxy(c) \in agentOpen'
      /\ toAgent' = [toAgent EXCEPT ![Proxy(c)] = <<Msg("StartProxy", c)>>]
      /\ UNCHANGED <<toCli, asked, got, agent, heard, told>>
    BY DEF Abort, Enter, Proxy, Types, CliTypes
<1>2. Proxy(c) \in Socket
    BY ProxyIs
<1>3. /\ toAgent'[Proxy(c)] # << >> /\ Head(toAgent'[Proxy(c)]).kind = "StartProxy"
      /\ Tail(toAgent'[Proxy(c)]) = << >>
    BY <1>1, <1>2 DEF Msg, Types, SocketTypes
<1>4. Once(c)'
    <2>1. backlog \in Seq(Socket)
        BY DEF Types, SocketTypes
    <2>2. backlog' = backlog \o <<Proxy(c)>> /\ <<Proxy(c)>> \in Seq(Socket)
        BY <1>1, <1>2, <2>1, AppendIsConcat
    <2>3. Once(c) /\ ~Queued(Proxy(c))
        BY <1>1 DEF SessionOK, QueueOK, FreshOK
    <2>4. \A i, j \in 1 .. Len(<<Proxy(c)>>) :
              <<Proxy(c)>>[i] = Proxy(c) /\ <<Proxy(c)>>[j] = Proxy(c) => i = j
        OBVIOUS
    <2> QED BY <2>1, <2>2, <2>3, <2>4, Enqueue
<1>5. asked'[c] = << >> /\ << >> \in Seq(Word) /\ Kinds(<< >>) = << >>
    BY <1>1, KindsOfNone DEF SessionOK, FreshOK
<1>6. Understood("idle", << >>)
    BY DEF Understood
<1>7. told[c] \in Seq(Word)
    BY DEF Types, HistoryTypes
<1> QED BY <1>1, <1>3, <1>4, <1>5, <1>6, <1>7, Begun

(* ... is read ...                                                           *)
LEMMA ReadingOK ==
    ASSUME Types, NEW c \in Client, SessionOK(c), NEW kind \in Word, CliReads(c, Proxy(c), kind),
           UNCHANGED <<backlog, agentOpen, agent, ws, wsUp, wsDown, daemon, heard, told>>,
           cli[c] \notin {"start", "asking", "ready"} => cli'[c] \notin {"start", "asking", "ready"},
           Begins(heard[c], asked[c]) => Begins(heard[c], asked'[c]),
           Serves(c) /\ ws = "up" => asked'[c] = heard[c] \o Kinds(Unread(c)') /\ DialogueOK(c)'
    PROVE  SessionOK(c)'
<1>1. /\ Proxy(c) \in Socket /\ Proxy(c)[2] = "proxy"
      /\ toCli[Proxy(c)] \in Seq(Message) /\ got[c] \in Seq(Word) /\ wsDown \in Seq(Message)
    BY ProxyIs DEF Types, SocketTypes, HistoryTypes, WireTypes
<1>2. /\ toCli[Proxy(c)] # << >> /\ Head(toCli[Proxy(c)]).kind = kind
      /\ toCli'[Proxy(c)] = Tail(toCli[Proxy(c)]) /\ got'[c] = Append(got[c], kind)
    BY <1>1 DEF CliReads, Types, SocketTypes, HistoryTypes
<1>3. Arrived(c)' = Arrived(c)
    <2>1. Append(got[c], kind) \o Kinds(Tail(toCli[Proxy(c)])) = got[c] \o Kinds(toCli[Proxy(c)])
        BY <1>1, <1>2, TakeHead
    <2> QED BY <1>2, <2>1 DEF Arrived, Kinds, Proxy
<1>4. cli[c] \notin {"start", "asking", "ready"} /\ ~Waits(c)
    BY <1>2 DEF SessionOK, FreshOK, WaitingOK, Unheard
<1>5. QueueOK(c)'
    BY DEF SessionOK, QueueOK, Once, Queued, Proxy
<1>6. FreshOK(c)' /\ WaitingOK(c)'
    <2>1. ~Waits(c)'
        BY <1>4 DEF Waits, Queued, Proxy
    <2> QED BY <1>4, <2>1 DEF FreshOK, WaitingOK
<1>7. FlowOK(c)'
    BY <1>3 DEF SessionOK, FlowOK, Begins
<1>8. ServedOK(c)'
    <2>1. Serves(c)' <=> Serves(c)
        BY DEF Serves, Proxy
    <2>2. Kinds(wsDown)' = Kinds(wsDown) /\ Kinds(Unread(c))' = Kinds(Unread(c)')
        BY DEF Kinds
    <2> QED BY <1>3, <2>1, <2>2 DEF SessionOK, ServedOK
<1> QED BY <1>5, <1>6, <1>7, <1>8 DEF SessionOK

(* While the daemon says something the client has nothing under way.         *)
LEMMA Listening ==
    ASSUME Types, NEW c \in Client, DialogueOK(c), toCli[Proxy(c)] # << >>
    PROVE  /\ wsUp = << >> /\ toAgent[Proxy(c)] = << >> /\ Unread(c) = << >>
           /\ YieldsToClient(Head(toCli[Proxy(c)]).kind) =>
                  /\ Tail(toCli[Proxy(c)]) = << >> /\ wsDown = << >>
                  /\ daemon.pc = After(Head(toCli[Proxy(c)]).kind)
           /\ ~YieldsToClient(Head(toCli[Proxy(c)]).kind) =>
                  /\ \A i \in 1 .. Len(toCli[Proxy(c)]) : ~YieldsToClient(toCli[Proxy(c)][i].kind)
                  /\ \A i \in 1 .. Len(wsDown) : ~YieldsToClient(wsDown[i].kind)
<1> DEFINE q == toCli[Proxy(c)]
<1>1. /\ q \in Seq(Message) /\ wsUp \in Seq(Message) /\ wsDown \in Seq(Message)
      /\ toAgent[Proxy(c)] \in Seq(Message)
    BY ProxyIs DEF Types, SocketTypes, WireTypes
<1>2. Unread(c) = << >>
    BY DEF DialogueOK, Quiet
<1>3. wsUp = << >> /\ toAgent[Proxy(c)] = << >>
    BY <1>1, <1>2, ConcatEqualIffEmpty DEF Unread
<1>4. /\ Len(q) \in Nat \ {0} /\ Len(wsDown) \in Nat /\ Head(q) = q[1] /\ 1 \in 1 .. Len(q)
      /\ Tail(q) \in Seq(Message) /\ Len(Tail(q)) = Len(q) - 1
    BY <1>1, EmptySeq, LenProperties, HeadTailProperties
<1>5. /\ \A i \in 1 .. Len(q) : YieldsToClient(q[i].kind) => Awaits(c, q[i].kind)
      /\ \A i \in 1 .. Len(wsDown) : YieldsToClient(wsDown[i].kind) => Awaits(c, wsDown[i].kind)
    BY DEF DialogueOK
<1> HIDE DEF q
<1>6. ASSUME NEW kind, Awaits(c, kind)
      PROVE  Len(q) = 1 /\ Len(wsDown) = 0 /\ daemon.pc = After(kind)
    <2>1. Len(q) + Len(wsDown) = 1 /\ daemon.pc = After(kind)
        BY <1>6 DEF Awaits, q
    <2>2. Len(q) \in Nat /\ Len(q) # 0 /\ Len(wsDown) \in Nat
        BY <1>4
    <2>3. \A x, y \in Nat : x # 0 /\ x + y = 1 => x = 1 /\ y = 0
        OBVIOUS
    <2>4. Len(q) = 1 /\ Len(wsDown) = 0
        BY <2>1, <2>2, <2>3, Zenon
    <2> QED BY <2>1, <2>4
<1>7. ASSUME YieldsToClient(Head(q).kind)
      PROVE  Tail(q) = << >> /\ wsDown = << >> /\ daemon.pc = After(Head(q).kind)
    <2>1. Len(q) = 1 /\ Len(wsDown) = 0 /\ daemon.pc = After(Head(q).kind)
        BY <1>4, <1>5, <1>6, <1>7
    <2>2. \A s \in Seq(Message) : Len(s) = 0 => s = << >>
        BY EmptySeq
    <2>3. Len(Tail(q)) = 0 /\ Tail(q) \in Seq(Message)
        BY <1>4, <2>1
    <2> QED BY <1>1, <2>1, <2>2, <2>3
<1>8. ASSUME ~YieldsToClient(Head(q).kind)
      PROVE  /\ \A i \in 1 .. Len(q) : ~YieldsToClient(q[i].kind)
             /\ \A i \in 1 .. Len(wsDown) : ~YieldsToClient(wsDown[i].kind)
    BY <1>4, <1>5, <1>6, <1>8
<1> QED BY <1>2, <1>3, <1>7, <1>8 DEF q

(* The run reads something that asks nothing of it.                          *)
LEMMA HearsOK ==
    ASSUME Types, NEW c \in Client, SessionOK(c), NEW kind \in Word, CliReads(c, Proxy(c), kind),
           ~YieldsToClient(kind),
           UNCHANGED <<backlog, agentOpen, agent, ws, wsUp, wsDown, daemon, heard, told,
                       toAgent, asked>>,
           cli'[c] \notin {"start", "asking", "ready", "stream"}
    PROVE  SessionOK(c)'
<1>1. /\ Proxy(c) \in Socket /\ toCli[Proxy(c)] \in Seq(Message) /\ Unread(c)' = Unread(c)
    BY ProxyIs DEF Types, SocketTypes, Unread, Proxy
<1>2. /\ toCli[Proxy(c)] # << >> /\ Head(toCli[Proxy(c)]).kind = kind
      /\ toCli'[Proxy(c)] = Tail(toCli[Proxy(c)])
    BY <1>1 DEF CliReads, Types, SocketTypes
<1>3. ASSUME Serves(c), ws = "up"
      PROVE  asked'[c] = heard[c] \o Kinds(Unread(c)') /\ DialogueOK(c)'
    <2>1. DialogueOK(c) /\ asked[c] = heard[c] \o Kinds(Unread(c))
        BY <1>3 DEF SessionOK, ServedOK
    <2>2. /\ Unread(c) = << >>
          /\ \A i \in 1 .. Len(toCli[Proxy(c)]) : ~YieldsToClient(toCli[Proxy(c)][i].kind)
          /\ \A i \in 1 .. Len(wsDown) : ~YieldsToClient(wsDown[i].kind)
        BY <1>2, <2>1, Listening
    <2>3. \A i \in 1 .. Len(toCli'[Proxy(c)]) : ~YieldsToClient(toCli'[Proxy(c)][i].kind)
        <3>1. /\ Len(Tail(toCli[Proxy(c)])) = Len(toCli[Proxy(c)]) - 1
              /\ Len(toCli[Proxy(c)]) \in Nat
              /\ \A i \in 1 .. Len(Tail(toCli[Proxy(c)])) :
                     Tail(toCli[Proxy(c)])[i] = toCli[Proxy(c)][i + 1]
            BY <1>1, <1>2, HeadTailProperties, LenProperties
        <3>2. \A i \in 1 .. Len(Tail(toCli[Proxy(c)])) : i + 1 \in 1 .. Len(toCli[Proxy(c)])
            BY <3>1
        <3> QED BY <1>2, <2>2, <3>1, <3>2
    <2>4. DialogueOK(c)'
        BY <1>1, <2>2, <2>3 DEF DialogueOK, Understood, Proxy
    <2> QED BY <1>1, <2>1, <2>4
<1> QED BY <1>3, ReadingOK

(* The daemon wants the manifest.                                            *)
LEMMA ManifestOK ==
    ASSUME Types, NEW c \in Client, SessionOK(c), CliReads(c, Proxy(c), "ProbeMiss"),
           CliSend(Proxy(c), <<Msg("Manifest", c)>>),
           asked' = [asked EXCEPT ![c] = Append(@, "Manifest")],
           UNCHANGED <<backlog, agentOpen, agent, ws, wsUp, wsDown, daemon, heard, told>>,
           cli'[c] \notin {"start", "asking", "ready", "stream"}
    PROVE  SessionOK(c)'
<1> USE WordsKnown
<1> DEFINE m == Msg("Manifest", c)
<1>1. /\ Proxy(c) \in Socket /\ toCli[Proxy(c)] \in Seq(Message) /\ m \in Message
      /\ toAgent[Proxy(c)] \in Seq(Message) /\ asked[c] \in Seq(Word) /\ heard[c] \in Seq(Word)
    BY ProxyIs, MsgType DEF Types, SocketTypes, HistoryTypes
<1>2. /\ toCli[Proxy(c)] # << >> /\ Head(toCli[Proxy(c)]).kind = "ProbeMiss"
      /\ toCli'[Proxy(c)] = Tail(toCli[Proxy(c)])
    BY <1>1 DEF CliReads, Types, SocketTypes
<1>3. asked'[c] = Append(asked[c], "Manifest")
    BY DEF Types, HistoryTypes
<1>4. Begins(heard[c], asked[c]) => Begins(heard[c], asked'[c])
    BY <1>1, <1>3, BeginsAppend
<1>5. ASSUME Serves(c), ws = "up"
      PROVE  asked'[c] = heard[c] \o Kinds(Unread(c)') /\ DialogueOK(c)'
    <2>1. DialogueOK(c) /\ asked[c] = heard[c] \o Kinds(Unread(c))
        BY <1>5 DEF SessionOK, ServedOK
    <2>2. /\ wsUp = << >> /\ toAgent[Proxy(c)] = << >> /\ Unread(c) = << >>
          /\ Tail(toCli[Proxy(c)]) = << >> /\ wsDown = << >> /\ daemon.pc = "manifest"
        BY <1>2, <2>1, Listening DEF YieldsToClient, After
    <2>3. Proxy(c) \in agentOpen
        BY <1>5 DEF SessionOK, QueueOK, Serves
    <2>4. toAgent'[Proxy(c)] = <<m>>
        <3>1. toAgent'[Proxy(c)] = toAgent[Proxy(c)] \o <<m>>
            BY <1>1, <2>3 DEF CliSend, Types, SocketTypes
        <3>2. <<m>> \in Seq(Message)
            BY <1>1
        <3> QED BY <2>2, <3>1, <3>2, ConcatEmptySeq
    <2>5. Unread(c)' = <<m>>
        <3>1. wsUp' = << >> /\ <<m>> \in Seq(Message)
            BY <1>1, <2>2
        <3>2. << >> \o <<m>> = <<m>>
            BY <3>1, ConcatEmptySeq
        <3> QED BY <2>4, <3>1, <3>2 DEF Unread, Proxy
    <2>6. asked[c] = heard[c]
        BY <1>1, <2>1, <2>2, KindsOfNone, ConcatEmptySeq
    <2>7. asked'[c] = heard[c] \o Kinds(<<m>>)
        <3>1. Kinds(<<m>>) = <<"Manifest">>
            BY <1>1, KindsOfOne DEF Msg
        <3>2. Append(heard[c], "Manifest") = heard[c] \o <<"Manifest">>
            BY <1>1, AppendIsConcat
        <3> QED BY <1>3, <2>6, <3>1, <3>2
    <2>8. DialogueOK(c)'
        <3>1. Understood("manifest", <<m>>)
            BY DEF Understood, Msg
        <3>2. toCli'[Proxy(c)] = << >> /\ wsDown' = << >> /\ daemon'.pc = "manifest"
              /\ 1 .. Len(toCli'[Proxy(c)]) = {} /\ 1 .. Len(wsDown') = {}
            BY <1>2, <2>2
        <3> QED BY <2>5, <3>1, <3>2 DEF DialogueOK, Quiet, Understood, Proxy
    <2> QED BY <2>5, <2>7, <2>8
<1> HIDE DEF m
<1> QED BY <1>4, <1>5, ReadingOK

(* The daemon wants the files.                                               *)
LEMMA NeededOK ==
    ASSUME Types, NEW c \in Client, SessionOK(c), CliReads(c, Proxy(c), "NeedFiles"),
           UNCHANGED <<backlog, agentOpen, agent, ws, wsUp, wsDown, daemon, heard, told,
                       toAgent, asked>>,
           cli'[c] \notin {"start", "asking", "ready"}
    PROVE  SessionOK(c)'
<1> USE WordsKnown
<1>1. /\ Proxy(c) \in Socket /\ Unread(c)' = Unread(c)
    BY ProxyIs DEF Unread, Proxy
<1>2. /\ toCli[Proxy(c)] # << >> /\ Head(toCli[Proxy(c)]).kind = "NeedFiles"
      /\ toCli'[Proxy(c)] = Tail(toCli[Proxy(c)])
    BY <1>1 DEF CliReads, Types, SocketTypes
<1>3. ASSUME Serves(c), ws = "up"
      PROVE  asked'[c] = heard[c] \o Kinds(Unread(c)') /\ DialogueOK(c)'
    <2>1. DialogueOK(c) /\ asked[c] = heard[c] \o Kinds(Unread(c))
        BY <1>3 DEF SessionOK, ServedOK
    <2>2. /\ Unread(c) = << >> /\ daemon.pc = "receive"
          /\ Tail(toCli[Proxy(c)]) = << >> /\ wsDown = << >>
        BY <1>2, <2>1, Listening DEF YieldsToClient, After
    <2>3. toCli'[Proxy(c)] = << >> /\ wsDown' = << >> /\ daemon'.pc = "receive"
          /\ 1 .. Len(toCli'[Proxy(c)]) = {} /\ 1 .. Len(wsDown') = {} /\ Unread(c)' = << >>
        BY <1>1, <1>2, <2>2
    <2>4. DialogueOK(c)'
        BY <2>3 DEF DialogueOK, Quiet, Understood, Proxy
    <2> QED BY <1>1, <2>1, <2>4
<1> QED BY <1>3, ReadingOK

LEMMA SessionReadsOK ==
    ASSUME Types, NEW c \in Client, SessionOK(c), SessionReads(c) \/ SessionEnds(c)
    PROVE  SessionOK(c)'
<1> USE WordsKnown
<1>1. /\ UNCHANGED <<backlog, agentOpen, agent, ws, wsUp, wsDown, daemon, heard, told>>
    BY DEF SessionReads, SessionEnds, CliFrame, wsVars
<1>2. \/ /\ UNCHANGED <<toAgent, asked>>
         /\ cli'[c] \notin {"start", "asking", "ready", "stream"}
         /\ \E kind \in {"ProbeAccepted", "SyncAck", "BuildStdout", "BuildFinished", "SlotsBusy",
                         "Tip"} : CliReads(c, Proxy(c), kind)
      \/ /\ UNCHANGED <<toAgent, asked>> /\ cli'[c] = "stream"
         /\ CliReads(c, Proxy(c), "NeedFiles")
      \/ /\ cli'[c] = "needed"
         /\ CliReads(c, Proxy(c), "ProbeMiss")
         /\ CliSend(Proxy(c), <<Msg("Manifest", c)>>)
         /\ asked' = [asked EXCEPT ![c] = Append(@, "Manifest")]
    <2>1. cli \in [Client -> CliPc]
        BY DEF Types, CliTypes
    <2> QED BY <2>1 DEF SessionReads, SessionEnds, Enter, Proxy
<1>3. \A kind \in {"ProbeAccepted", "SyncAck", "BuildStdout", "BuildFinished", "SlotsBusy", "Tip"} :
          ~YieldsToClient(kind)
    BY DEF YieldsToClient
<1> QED BY <1>1, <1>2, <1>3, HearsOK, NeededOK, ManifestOK

(* ... and is written.                                                       *)
LEMMA StreamOK ==
    ASSUME Types, NEW c \in Client, SessionOK(c), Stream(c)
    PROVE  SessionOK(c)'
<1> USE WordsKnown
<1>1. PICK ks \in {<<"SyncDone">>, <<"FileData", "SyncDone">>} :
          /\ CliSend(Proxy(c), [i \in DOMAIN ks |-> Msg(ks[i], c)])
          /\ asked' = [asked EXCEPT ![c] = @ \o ks]
    BY DEF Stream, Proxy
<1> DEFINE ms == [i \in DOMAIN ks |-> Msg(ks[i], c)]
<1>2. /\ ks \in Seq(Word) /\ ms \in Seq(Message) /\ Len(ms) = Len(ks) /\ Kinds(ms) = ks
      /\ \A j \in 1 .. Len(ks) : ms[j] = Msg(ks[j], c)
    BY StreamMail
<1>3. \A j \in 1 .. Len(ks) : ks[j] = "FileData" \/ (ks[j] = "SyncDone" /\ j = Len(ks))
    <2>1. CASE ks = <<"SyncDone">>
        BY <2>1
    <2>2. CASE ks = <<"FileData", "SyncDone">>
        BY <2>2
    <2> QED BY <2>1, <2>2
<1>4. CliSend(Proxy(c), ms)
    BY <1>1
<1>5. \A j \in 1 .. Len(ms) : ms[j].kind = "FileData" \/ (ms[j].kind = "SyncDone" /\ j = Len(ms))
    <2>1. \A j \in 1 .. Len(ks) : Msg(ks[j], c).kind = ks[j]
        BY DEF Msg
    <2> HIDE DEF ms
    <2> QED BY <1>2, <1>3, <2>1
<1> HIDE DEF ms
<1>6. /\ cli[c] = "stream" /\ cli'[c] = "ack"
      /\ UNCHANGED <<backlog, toCli, agentOpen, got, agent, ws, wsUp, wsDown, daemon, heard, told>>
    BY DEF Stream, Enter, CliFrame, wsVars, Types, CliTypes
<1>7. /\ asked[c] \in Seq(Word) /\ heard[c] \in Seq(Word) /\ asked'[c] = asked[c] \o ks
      /\ Proxy(c) \in Socket /\ toAgent[Proxy(c)] \in Seq(Message)
    BY <1>1, ProxyIs DEF Types, HistoryTypes, SocketTypes
<1>8. QueueOK(c)'
    BY <1>6 DEF SessionOK, QueueOK, Once, Queued, Proxy
<1>9. FreshOK(c)' /\ WaitingOK(c)'
    <2>1. ~Waits(c)
        BY <1>6 DEF SessionOK, WaitingOK
    <2>2. ~Waits(c)'
        BY <1>6, <2>1 DEF Waits, Queued, Proxy
    <2> QED BY <1>6, <2>2 DEF FreshOK, WaitingOK
<1>10. FlowOK(c)'
    <2>1. Begins(heard[c], asked[c]) /\ Begins(Arrived(c), told[c])
        BY DEF SessionOK, FlowOK
    <2>2. Begins(heard[c], asked'[c])
        BY <1>2, <1>7, <2>1, BeginsMore
    <2>3. Arrived(c)' = Arrived(c)
        BY <1>6 DEF Arrived, Kinds, Proxy
    <2> QED BY <1>6, <2>1, <2>2, <2>3 DEF FlowOK, Begins
<1>11. ServedOK(c)'
    <2> SUFFICES ASSUME Serves(c)' PROVE ServedOK(c)'
        BY DEF ServedOK
    <2>1. Serves(c)
        BY <1>6 DEF Serves, Proxy
    <2>2. told'[c] = Arrived(c)' \o Kinds(wsDown')
        BY <1>6, <2>1 DEF SessionOK, ServedOK, Arrived, Kinds, Proxy
    <2>3. ASSUME ws = "up"
          PROVE  asked'[c] = heard[c] \o Kinds(Unread(c)') /\ DialogueOK(c)'
        <3>1. DialogueOK(c) /\ asked[c] = heard[c] \o Kinds(Unread(c))
            BY <2>1, <2>3 DEF SessionOK, ServedOK
        <3>2. Unread(c) = << >> /\ Quiet(c) /\ daemon.pc = "receive"
            BY <1>6, <3>1 DEF DialogueOK
        <3>3. wsUp = << >> /\ toAgent[Proxy(c)] = << >>
            BY <1>7, <3>2, ConcatEqualIffEmpty DEF Unread, Types, WireTypes
        <3>4. Proxy(c) \in agentOpen
            BY <2>1 DEF SessionOK, QueueOK, Serves
        <3>5. toAgent'[Proxy(c)] = ms
            <4>1. toAgent'[Proxy(c)] = toAgent[Proxy(c)] \o ms
                BY <1>4, <1>7, <3>4 DEF CliSend, Types, SocketTypes
            <4> QED BY <1>2, <3>3, <4>1, ConcatEmptySeq
        <3>6. Unread(c)' = ms
            <4>1. << >> \o ms = ms
                BY <1>2, ConcatEmptySeq
            <4> QED BY <1>6, <3>3, <3>5, <4>1 DEF Unread, Proxy
        <3>7. asked'[c] = heard[c] \o Kinds(ms)
            BY <1>2, <1>7, <3>1, <3>2, KindsOfNone, ConcatEmptySeq, ZenonT(40)
        <3>8. DialogueOK(c)'
            <4>1. Understood("receive", ms)
                BY <1>5 DEF Understood
            <4>2. toCli'[Proxy(c)] = << >> /\ wsDown' = << >> /\ daemon'.pc = "receive"
                  /\ 1 .. Len(toCli'[Proxy(c)]) = {} /\ 1 .. Len(wsDown') = {}
                BY <1>6, <3>2 DEF Quiet
            <4> QED BY <1>6, <3>6, <4>1, <4>2 DEF DialogueOK, Quiet, Understood, Proxy
        <3> QED BY <3>6, <3>7, <3>8
    <2> QED BY <1>6, <2>2, <2>3 DEF ServedOK, Kinds, Arrived
<1> QED BY <1>8, <1>9, <1>10, <1>11 DEF SessionOK

LEMMA CliSessions ==
    ASSUME Types, NEW c \in Client, CliStep(c) \/ Abort(c), NEW d \in Client, SessionOK(d)
    PROVE  SessionOK(d)'
<1>1. CASE Aside(c)
    BY <1>1, AsideSame, Undisturbed, CliFrames
<1>2. CASE ~Aside(c) /\ d # c
    BY <1>2, CliSame, Undisturbed, CliFrames
<1>3. CASE ~Aside(c) /\ d = c
    <2>1. \/ OpenSession(c) \/ SessionReads(c) \/ SessionEnds(c) \/ Stream(c)
          \/ Abort(c) /\ ~HangUp(c)
        BY <1>3 DEF CliStep, Aside, Failed
    <2> QED BY <1>3, <2>1, OpenSessionOK, SessionReadsOK, StreamOK, CutOpenOK
<1> QED BY <1>1, <1>2, <1>3

-----------------------------------------------------------------------------
(* A run's session, in a step of the agent.                                  *)

LEMMA OtherSession ==
    ASSUME Types, AgentStep, NEW d \in Client, SessionOK(d), agent.sock # Proxy(d),
           ~(Accept /\ Head(backlog) = Proxy(d))
    PROVE  SessionOK(d)'
<1>1. Proxy(d) \in Socket /\ Proxy(d) # NoSocket
    BY ProxyIs
<1>2. UNCHANGED <<cli, asked, heard, told, got>>
    BY DEF AgentStep, Accept, HandleGetLastSync, HandleSetLastSync, HandleShutdown,
                    StartProxy, ForwardUp, ProbeOnly, ForwardDown, SessionError, AgentFrame
<1>3. toAgent'[Proxy(d)] = toAgent[Proxy(d)]
    BY <1>1, AgentTakes DEF Types, SocketTypes
<1>4. toCli'[Proxy(d)] = toCli[Proxy(d)]
    <2>1. CASE HandleGetLastSync \/ HandleSetLastSync
        BY <1>1, <2>1 DEF HandleGetLastSync, HandleSetLastSync, Respond, Types, SocketTypes
    <2>2. CASE HandleShutdown
        BY <1>1, <2>2 DEF HandleShutdown, Types, SocketTypes
    <2>3. CASE ForwardDown
        BY <1>1, <2>3 DEF ForwardDown, Types, SocketTypes
    <2>4. CASE Accept \/ StartProxy \/ ForwardUp \/ ProbeOnly \/ SessionError
        BY <2>4 DEF Accept, StartProxy, ForwardUp, ProbeOnly, SessionError
    <2> QED BY <2>1, <2>2, <2>3, <2>4 DEF AgentStep
<1>5. agent'.sock \in {agent.sock, NoSocket} \/ (Accept /\ agent'.sock = Head(backlog))
    <2>1. ServeNext \/ DropSession => agent'.sock = NoSocket
        BY DEF ServeNext, DropSession, Resting
    <2>2. CASE HandleGetLastSync \/ HandleSetLastSync \/ ProbeOnly \/ SessionError
        BY <2>1, <2>2 DEF HandleGetLastSync, HandleSetLastSync, Respond, ProbeOnly, SessionError
    <2>3. CASE HandleShutdown \/ Accept
        BY <2>3 DEF HandleShutdown, Accept, Resting
    <2>4. CASE StartProxy \/ ForwardUp \/ ForwardDown
        BY <2>1, <2>4 DEF StartProxy, ForwardUp, ForwardDown, Types, AgentTypes, AgentRecord
    <2> QED BY <2>2, <2>3, <2>4 DEF AgentStep
<1>6. \/ UNCHANGED backlog
      \/ Accept /\ backlog # << >> /\ backlog' = Tail(backlog)
      \/ HandleShutdown /\ backlog' = << >> /\ agent'.sock = NoSocket
    BY DEF AgentStep, Accept, HandleGetLastSync, HandleSetLastSync, HandleShutdown,
           StartProxy, ForwardUp, ProbeOnly, ForwardDown, SessionError, Resting
<1>7. Proxy(d) \in agentOpen => Proxy(d) \in agentOpen' \/ HandleShutdown
    BY DEF AgentStep, Accept, HandleGetLastSync, HandleSetLastSync, Respond,
           StartProxy, ForwardUp, ProbeOnly, ForwardDown, SessionError, DropSession, ServeNext
<1>8. (Once(d) => Once(d)') /\ (Queued(Proxy(d))' => Queued(Proxy(d)))
    <2>1. CASE UNCHANGED backlog
        BY <2>1 DEF Once, Queued, Proxy
    <2>2. CASE backlog # << >> /\ backlog' = Tail(backlog)
        <3>1. backlog \in Seq(Socket) /\ Once(d)
            BY DEF Types, SocketTypes, SessionOK, QueueOK
        <3> QED BY <2>2, <3>1, Dequeue
    <2>3. CASE backlog' = << >>
        <3>1. 1 .. Len(backlog') = {}
            BY <2>3
        <3> QED BY <3>1 DEF Once, Queued, Proxy
    <2> QED BY <1>6, <2>1, <2>2, <2>3
<1>9. HandleShutdown => ~Queued(Proxy(d))' /\ agent'.sock = NoSocket
    <2> SUFFICES ASSUME HandleShutdown PROVE ~Queued(Proxy(d))' /\ agent'.sock = NoSocket
        OBVIOUS
    <2>1. backlog' = << >> /\ 1 .. Len(backlog') = {} /\ agent'.sock = NoSocket
        BY DEF HandleShutdown, Resting
    <2> QED BY <2>1 DEF Queued, Proxy
<1>10. SameTalk(d) /\ SameRole(d)
    BY <1>2, <1>3, <1>4, <1>8 DEF SameTalk, SameRole
<1>11. agent'.sock # Proxy(d)
    BY <1>1, <1>5
<1> QED BY <1>1, <1>7, <1>9, <1>10, <1>11, Undisturbed

LEMMA AcceptOK ==
    ASSUME Types, NEW d \in Client, SessionOK(d), Accept, Head(backlog) = Proxy(d)
    PROVE  SessionOK(d)'
<1>1. /\ backlog # << >> /\ backlog' = Tail(backlog) /\ agent'.pc = "request"
      /\ agent'.sock = Proxy(d)
      /\ UNCHANGED <<toAgent, toCli, agentOpen, ws, wsUp, wsDown, daemon, heard, told, cli,
                     asked, got>>
    BY DEF Accept, Resting, AgentFrame, wsVars
<1>2. backlog \in Seq(Socket) /\ Once(d)
    BY DEF Types, SocketTypes, SessionOK, QueueOK
<1>3. Once(d)' /\ ~Queued(Proxy(d))' /\ Queued(Proxy(d))
    BY <1>1, <1>2, Dequeue
<1>4. Proxy(d) \in agentOpen /\ Waits(d)
    BY <1>3 DEF SessionOK, QueueOK, Waits
<1>5. QueueOK(d)'
    BY <1>1, <1>3, <1>4 DEF QueueOK, Proxy
<1>6. FreshOK(d)' /\ WaitingOK(d)'
    BY <1>1, <1>4 DEF SessionOK, FreshOK, WaitingOK, Unheard, Understood, Kinds, Proxy
<1>7. FlowOK(d)'
    BY <1>1 DEF SessionOK, FlowOK, Arrived, Begins, Kinds, Proxy
<1>8. ServedOK(d)'
    BY <1>1 DEF ServedOK, Serves
<1> QED BY <1>5, <1>6, <1>7, <1>8 DEF SessionOK

(* The agent leaves a session, for whatever reason.                          *)
LEMMA SessionOver ==
    ASSUME NEW d \in Client, SessionOK(d), agent.sock = Proxy(d), agent' = Resting,
           UNCHANGED <<backlog, cli>>, FlowOK(d)'
    PROVE  SessionOK(d)'
<1>1. agent'.sock # Proxy(d) /\ agent'.pc = "accept"
    BY ProxyIs DEF Resting
<1>2. Once(d) /\ ~Queued(Proxy(d)) /\ cli[d] \notin {"start", "asking", "ready"}
    BY DEF SessionOK, QueueOK, FreshOK
<1>3. Once(d)' /\ ~Queued(Proxy(d))'
    BY <1>2 DEF Once, Queued, Proxy
<1>4. QueueOK(d)' /\ FreshOK(d)' /\ WaitingOK(d)' /\ ServedOK(d)'
    BY <1>1, <1>2, <1>3 DEF QueueOK, FreshOK, WaitingOK, Waits, ServedOK, Serves, Proxy
<1> QED BY <1>4 DEF SessionOK

LEMMA SameFlow ==
    ASSUME NEW d \in Client, SessionOK(d), UNCHANGED <<toCli, asked, heard, told, got>>
    PROVE  FlowOK(d)'
BY DEF SessionOK, FlowOK, Arrived, Begins, Kinds, Proxy

LEMMA DropOK ==
    ASSUME NEW d \in Client, SessionOK(d), agent.sock = Proxy(d), DropSession,
           UNCHANGED <<backlog, cli, toCli, asked, heard, told, got>>
    PROVE  SessionOK(d)'
BY SessionOver, SameFlow DEF DropSession, ServeNext

LEMMA StartOK ==
    ASSUME Types, WireOK, NEW d \in Client, SessionOK(d), agent.sock = Proxy(d), StartProxy
    PROVE  SessionOK(d)'
<1>1. /\ agent.pc = "request" /\ agent'.pc = "client" /\ agent'.sock = Proxy(d)
      /\ toAgent[Proxy(d)] # << >>
      /\ toAgent' = [toAgent EXCEPT ![Proxy(d)] = Tail(@)]
      /\ UNCHANGED <<backlog, toCli, agentOpen, wsUp, wsDown, daemon, heard, told, cli, asked, got>>
    BY DEF StartProxy, TakeRequest, AgentFrame, Types, AgentTypes, AgentRecord
<1>2. /\ Proxy(d) \in Socket /\ toAgent[Proxy(d)] \in Seq(Message)
      /\ asked[d] \in Seq(Word)
    BY ProxyIs DEF Types, SocketTypes, HistoryTypes
<1>3. toAgent'[Proxy(d)] = Tail(toAgent[Proxy(d)]) /\ Tail(toAgent[Proxy(d)]) \in Seq(Message)
    BY <1>1, <1>2, HeadTailProperties DEF Types, SocketTypes
<1>4. /\ Waits(d) /\ Unheard(d) /\ cli[d] \in {"response", "ended"}
      /\ asked[d] = Kinds(Tail(toAgent[Proxy(d)]))
      /\ Understood("idle", Tail(toAgent[Proxy(d)]))
    BY <1>1 DEF SessionOK, WaitingOK, Waits
<1>5. Clean
    BY <1>1 DEF WireOK, Speaks
<1>6. QueueOK(d)' /\ FreshOK(d)' /\ WaitingOK(d)'
    <2>1. Once(d) /\ ~Queued(Proxy(d)) /\ Proxy(d) \in agentOpen
        BY DEF SessionOK, QueueOK
    <2>2. Once(d)' /\ ~Queued(Proxy(d))'
        BY <1>1, <2>1 DEF Once, Queued, Proxy
    <2> QED BY <1>1, <1>4, <2>1, <2>2 DEF QueueOK, FreshOK, WaitingOK, Waits, Proxy
<1>7. FlowOK(d)'
    BY <1>1, SameFlow
<1>8. ServedOK(d)'
    <2>1. told'[d] = << >> /\ heard'[d] = << >> /\ got'[d] = << >> /\ toCli'[Proxy(d)] = << >>
          /\ wsDown' = << >> /\ wsUp' = << >> /\ daemon'.pc = "idle"
          /\ 1 .. Len(toCli'[Proxy(d)]) = {} /\ 1 .. Len(wsDown') = {}
        BY <1>1, <1>4, <1>5 DEF Unheard, Clean
    <2>2. told'[d] = Arrived(d)' \o Kinds(wsDown')
        <3>1. Kinds(<< >>) = << >> /\ << >> \o << >> = << >>
            BY KindsOfNone
        <3> QED BY <2>1, <3>1 DEF Arrived, Kinds, Proxy
    <2>3. Unread(d)' = Tail(toAgent[Proxy(d)])
        <3>1. << >> \o Tail(toAgent[Proxy(d)]) = Tail(toAgent[Proxy(d)])
            BY <1>3, ConcatEmptySeq
        <3> QED BY <1>3, <2>1, <3>1 DEF Unread, Proxy
    <2>4. asked'[d] = heard'[d] \o Kinds(Unread(d)')
        <3>1. << >> \o asked[d] = asked[d]
            BY <1>2, ConcatEmptySeq
        <3> QED BY <1>1, <1>4, <2>1, <2>3, <3>1
    <2>5. DialogueOK(d)'
        BY <1>1, <1>4, <2>1, <2>3 DEF DialogueOK, Quiet, Understood, Proxy
    <2> QED BY <2>2, <2>4, <2>5 DEF ServedOK, Kinds, Arrived
<1> QED BY <1>6, <1>7, <1>8 DEF SessionOK

(* The agent stays in the session.                                           *)
LEMMA GoesOn ==
    ASSUME NEW d \in Client, SessionOK(d), Serves(d), Serves(d)',
           UNCHANGED <<backlog, agentOpen, cli>>, FlowOK(d)', ServedOK(d)'
    PROVE  SessionOK(d)'
<1>1. Once(d) /\ ~Queued(Proxy(d)) /\ Proxy(d) \in agentOpen
      /\ cli[d] \notin {"start", "asking", "ready"}
    BY DEF SessionOK, QueueOK, FreshOK, Serves
<1>2. Once(d)' /\ ~Queued(Proxy(d))'
    BY <1>1 DEF Once, Queued, Proxy
<1>3. QueueOK(d)' /\ FreshOK(d)' /\ WaitingOK(d)'
    BY <1>1, <1>2 DEF QueueOK, FreshOK, WaitingOK, Waits, Serves, Proxy
<1> QED BY <1>3 DEF SessionOK

LEMMA ForwardUpOK ==
    ASSUME Types, WireOK, NEW d \in Client, SessionOK(d), agent.sock = Proxy(d), ForwardUp
    PROVE  SessionOK(d)'
<1> DEFINE q == toAgent[Proxy(d)]
<1>1. /\ agent.pc = "client" /\ q # << >> /\ toAgent' = [toAgent EXCEPT ![Proxy(d)] = Tail(@)]
      /\ wsUp' = IF ws = "up" THEN Append(wsUp, Head(q)) ELSE wsUp
      /\ agent'.sock = Proxy(d) /\ agent'.pc \in {"client", "daemon"}
      /\ UNCHANGED <<backlog, toCli, agentOpen, ws, wsDown, daemon, heard, told, cli, asked, got>>
    BY DEF ForwardUp, AgentFrame, Types, AgentTypes, AgentRecord
<1>2. /\ Proxy(d) \in Socket /\ q \in Seq(Message) /\ wsUp \in Seq(Message)
      /\ toAgent'[Proxy(d)] = Tail(q)
    BY <1>1, ProxyIs DEF Types, SocketTypes, WireTypes
<1>3. Serves(d) /\ Serves(d)'
    BY <1>1 DEF Serves, Proxy
<1>4. FlowOK(d)'
    BY <1>1, SameFlow
<1>5. ServedOK(d)'
    <2>1. told'[d] = Arrived(d)' \o Kinds(wsDown')
        BY <1>1, <1>3 DEF SessionOK, ServedOK, Arrived, Kinds, Proxy
    <2>2. ASSUME ws = "up"
          PROVE  asked'[d] = heard'[d] \o Kinds(Unread(d)') /\ DialogueOK(d)'
        <3>1. DialogueOK(d) /\ asked[d] = heard[d] \o Kinds(Unread(d))
            BY <1>3, <2>2 DEF SessionOK, ServedOK
        <3>2. Unread(d)' = Unread(d)
            <4>1. Append(wsUp, Head(q)) \o Tail(q) = wsUp \o q
                BY <1>1, <1>2, PassAlong
            <4> QED BY <1>1, <1>2, <2>2, <4>1 DEF Unread, Proxy
        <3>3. Quiet(d)' <=> Quiet(d)
            BY <1>1 DEF Quiet, Proxy
        <3>4. \A kind : Awaits(d, kind)' <=> Awaits(d, kind)
            BY <1>1, <3>2 DEF Awaits, Proxy
        <3>5. DialogueOK(d)'
            BY <1>1, <3>1, <3>2, <3>3, <3>4 DEF DialogueOK, Understood, Proxy
        <3> QED BY <1>1, <3>1, <3>2, <3>5
    <2> QED BY <1>1, <2>1, <2>2 DEF ServedOK, Kinds, Arrived
<1> QED BY <1>1, <1>3, <1>4, <1>5, GoesOn

LEMMA ForwardDownOK ==
    ASSUME Types, WireOK, NEW d \in Client, SessionOK(d), agent.sock = Proxy(d), ForwardDown
    PROVE  SessionOK(d)'
<1> DEFINE m == Head(wsDown)
           q == toCli[Proxy(d)]
<1>1. /\ agent.pc = "daemon" /\ wsDown # << >>
      /\ UNCHANGED <<backlog, toAgent, heard, told, cli, asked, got>>
    BY DEF ForwardDown, AgentFrame
<1>2. CASE Proxy(d) \notin cliOpen
    <2>1. DropSession /\ UNCHANGED toCli
        BY <1>2 DEF ForwardDown
    <2> QED BY <1>1, <2>1, DropOK
<1>3. CASE Proxy(d) \in cliOpen
    <2>1. /\ toCli' = [toCli EXCEPT ![Proxy(d)] = Append(@, m)]
          /\ wsDown' = Tail(wsDown) /\ UNCHANGED <<ws, wsUp, daemon>>
          /\ \/ agent' = Resting
             \/ /\ agent'.sock = Proxy(d) /\ agent'.pc \in {"client", "daemon"}
                /\ UNCHANGED agentOpen
        BY <1>3 DEF ForwardDown, ServeNext, Types, AgentTypes, AgentRecord
    <2>2. /\ Proxy(d) \in Socket /\ q \in Seq(Message) /\ got[d] \in Seq(Word)
          /\ wsDown \in Seq(Message) /\ m \in Message /\ Tail(wsDown) \in Seq(Message)
          /\ m.kind \in Word
        <3>1. m \in Message /\ Tail(wsDown) \in Seq(Message)
            BY <1>1, HeadTailProperties DEF Types, WireTypes
        <3> QED BY <3>1, ProxyIs DEF Types, SocketTypes, HistoryTypes, WireTypes, Message
    <2>3. toCli'[Proxy(d)] = Append(q, m)
        BY <2>1, <2>2 DEF Types, SocketTypes
    <2>4. Serves(d)
        BY <1>1 DEF Serves
    <2>5. Arrived(d)' = Append(Arrived(d), m.kind) /\ Arrived(d) \in Seq(Word)
        <3>1. got[d] \o Kinds(Append(q, m)) = Append(got[d] \o Kinds(q), m.kind)
            BY <2>2, AddLast
        <3>2. Kinds(q) \in Seq(Word)
            BY <2>2, KindsSeq
        <3>3. got[d] \o Kinds(q) \in Seq(Word)
            BY <2>2, <3>2, ConcatProperties
        <3> QED BY <1>1, <2>3, <3>1, <3>3 DEF Arrived, Kinds, Proxy
    <2>6. told'[d] = Arrived(d)' \o Kinds(Tail(wsDown))
        <3>1. told[d] = Arrived(d) \o Kinds(wsDown)
            BY <2>4 DEF SessionOK, ServedOK
        <3>2. Append(Arrived(d), m.kind) \o Kinds(Tail(wsDown)) = Arrived(d) \o Kinds(wsDown)
            BY <1>1, <2>2, <2>5, TakeHead
        <3> QED BY <1>1, <2>5, <3>1, <3>2
    <2>7. FlowOK(d)'
        <3>1. Append(Arrived(d), m.kind) \in Seq(Word) /\ Kinds(Tail(wsDown)) \in Seq(Word)
            <4>1. Append(Arrived(d), m.kind) \in Seq(Word)
                BY <2>2, <2>5, AppendProperties
            <4> QED BY <2>2, <4>1, KindsSeq
        <3>2. Begins(Arrived(d)', told'[d])
            BY <2>5, <2>6, <3>1, BeginsConcat
        <3> QED BY <1>1, <3>2 DEF SessionOK, FlowOK, Begins
    <2>8. CASE agent' = Resting
        BY <1>1, <2>7, <2>8, SessionOver
    <2>9. CASE agent'.sock = Proxy(d) /\ agent'.pc \in {"client", "daemon"} /\ UNCHANGED agentOpen
        <3>1. Serves(d)'
            BY <2>9 DEF Serves, Proxy
        <3>2. ASSUME ws = "up"
              PROVE  asked'[d] = heard'[d] \o Kinds(Unread(d)') /\ DialogueOK(d)'
            <4>1. DialogueOK(d) /\ asked[d] = heard[d] \o Kinds(Unread(d))
                BY <2>4, <3>2 DEF SessionOK, ServedOK
            <4>2. Unread(d)' = Unread(d) /\ Unread(d) = << >>
                BY <1>1, <2>1, <4>1 DEF Unread, DialogueOK, Quiet, Proxy
            <4>3. cli[d] # "stream"
                BY <1>1, <4>1 DEF DialogueOK, Quiet
            <4>4. /\ Len(q) \in Nat /\ Len(wsDown) \in Nat /\ Len(Tail(wsDown)) = Len(wsDown) - 1
                  /\ Len(Append(q, m)) = Len(q) + 1 /\ m = wsDown[1] /\ 1 \in 1 .. Len(wsDown)
                  /\ \A i \in 1 .. Len(q) : Append(q, m)[i] = q[i]
                  /\ Append(q, m)[Len(q) + 1] = m
                  /\ \A i \in 1 .. Len(Tail(wsDown)) : Tail(wsDown)[i] = wsDown[i + 1]
                BY <1>1, <2>2, AppendProperties, HeadTailProperties, LenProperties, EmptySeq
            <4>5. \A kind : Awaits(d, kind)' <=> Awaits(d, kind)
                <5>1. Len(toCli'[Proxy(d)]) + Len(wsDown') = Len(q) + Len(wsDown)
                    <6>1. Len(toCli'[Proxy(d)]) = Len(q) + 1
                        BY <2>3, <4>4
                    <6>2. Len(wsDown') = Len(wsDown) - 1
                        BY <2>1, <4>4
                    <6>3. Len(q) \in Nat /\ Len(wsDown) \in Nat
                        BY <4>4
                    <6> HIDE DEF q, m
                    <6> QED BY <6>1, <6>2, <6>3
                <5> QED BY <2>1, <4>2, <5>1 DEF Awaits, Proxy
            <4>6. \A i \in 1 .. Len(toCli'[Proxy(d)]) :
                      YieldsToClient(toCli'[Proxy(d)][i].kind) => Awaits(d, toCli'[Proxy(d)][i].kind)
                <5>1. \A i \in 1 .. Len(toCli'[Proxy(d)]) :
                          \/ i \in 1 .. Len(q) /\ toCli'[Proxy(d)][i] = q[i]
                          \/ toCli'[Proxy(d)][i] = wsDown[1]
                    <6>1. Len(toCli'[Proxy(d)]) = Len(q) + 1
                        BY <2>3, <4>4
                    <6>2. \A i \in 1 .. Len(q) + 1 : i \in 1 .. Len(q) \/ i = Len(q) + 1
                        BY <4>4
                    <6> HIDE DEF q, m
                    <6> QED BY <2>3, <4>4, <6>1, <6>2
                <5> QED BY <4>1, <4>4, <5>1 DEF DialogueOK
            <4>7. \A i \in 1 .. Len(wsDown') :
                      YieldsToClient(wsDown'[i].kind) => Awaits(d, wsDown'[i].kind)
                <5>1. \A i \in 1 .. Len(wsDown') :
                          i + 1 \in 1 .. Len(wsDown) /\ wsDown'[i] = wsDown[i + 1]
                    BY <2>1, <4>4
                <5> QED BY <4>1, <5>1 DEF DialogueOK
            <4>8. DialogueOK(d)'
                BY <1>1, <2>1, <4>1, <4>2, <4>3, <4>5, <4>6, <4>7 DEF DialogueOK, Understood, Proxy
            <4> QED BY <1>1, <4>1, <4>2, <4>8
        <3>3. ServedOK(d)'
            BY <2>1, <2>6, <3>2 DEF ServedOK, Kinds, Arrived
        <3> QED BY <1>1, <2>4, <2>7, <2>9, <3>1, <3>3, GoesOn
    <2> QED BY <2>1, <2>8, <2>9
<1> QED BY <1>2, <1>3

LEMMA AgentSessions ==
    ASSUME Types, WireOK, AgentStep, NEW d \in Client, SessionOK(d)
    PROVE  SessionOK(d)'
<1>1. CASE Accept /\ Head(backlog) = Proxy(d)
    BY <1>1, AcceptOK
<1>2. CASE agent.sock # Proxy(d) /\ ~(Accept /\ Head(backlog) = Proxy(d))
    BY <1>2, OtherSession
<1>3. CASE agent.sock = Proxy(d)
    <2>1. ~Accept
        BY <1>3, ProxyIs DEF Accept, Types, AgentTypes
    <2>2. agent.pc = "request" => /\ toAgent[Proxy(d)] # << >>
                                  /\ Head(toAgent[Proxy(d)]).kind = "StartProxy"
        BY <1>3 DEF SessionOK, WaitingOK, Waits
    <2>3. ~HandleGetLastSync /\ ~HandleSetLastSync /\ ~HandleShutdown
        BY <1>3, <2>2 DEF HandleGetLastSync, HandleSetLastSync, HandleShutdown, TakeRequest
    <2>4. CASE StartProxy
        BY <1>3, <2>4, StartOK
    <2>5. CASE ForwardUp
        BY <1>3, <2>5, ForwardUpOK
    <2>6. CASE ForwardDown
        BY <1>3, <2>6, ForwardDownOK
    <2>7. CASE ProbeOnly
        <3>1. agent' = Resting /\ UNCHANGED <<backlog, cli, toCli, asked, heard, told, got>>
            BY <2>7 DEF ProbeOnly, ServeNext, AgentFrame
        <3> QED BY <1>3, <3>1, SessionOver, SameFlow
    <2>8. CASE SessionError
        <3>1. DropSession /\ UNCHANGED <<backlog, cli, toCli, asked, heard, told, got>>
            BY <2>8 DEF SessionError, AgentFrame
        <3> QED BY <1>3, <3>1, DropOK
    <2> QED BY <2>1, <2>3, <2>4, <2>5, <2>6, <2>7, <2>8 DEF AgentStep
<1> QED BY <1>1, <1>2, <1>3

-----------------------------------------------------------------------------
(* A run's session, in a step of the daemon.                                 *)

LEMMA DaemonQuiet ==
    ASSUME DaemonStep \/ DaemonDrops
    PROVE  UNCHANGED <<cli, backlog, toAgent, toCli, agentOpen, agent, asked, got>>
BY DEF DaemonStep, DaemonAnswers, DaemonTakesFile, DaemonBuilds, DaemonFrame, DaemonDrops, socketVars

(* Whom the daemon's thread hears and answers.                               *)
LEMMA DaemonServes ==
    ASSUME Types, WireOK, DaemonStep
    PROVE  /\ Speaks /\ ws = "up" /\ agent.sock = Proxy(agent.sock[1]) /\ agent.sock[1] \in Client
           /\ wsUp # << >> => Head(wsUp).of = agent.sock[1]
           /\ daemon.pc # "idle" => daemon.of = agent.sock[1]
<1>1. ws = "up"
    BY DEF DaemonStep, DaemonAnswers, DaemonTakesFile, DaemonBuilds, DaemonReads
<1>2. Speaks
    <2>1. wsUp # << >> \/ daemon.pc # "idle"
        BY DEF DaemonStep, DaemonAnswers, DaemonTakesFile, DaemonBuilds, DaemonReads
    <2> QED BY <2>1 DEF WireOK, Clean
<1>3. agent.sock \in Socket /\ agent.sock[2] = "proxy"
    BY <1>2, AgentHas DEF WireOK, Speaks
<1>4. wsUp # << >> => Head(wsUp).of = agent.sock[1]
    <2> SUFFICES ASSUME wsUp # << >> PROVE Head(wsUp).of = agent.sock[1]
        OBVIOUS
    <2>1. 1 \in 1 .. Len(wsUp) /\ Head(wsUp) = wsUp[1]
        BY EmptySeq DEF Types, WireTypes
    <2> QED BY <2>1 DEF WireOK
<1>5. agent.sock = Proxy(agent.sock[1]) /\ agent.sock[1] \in Client
    BY <1>3, ProxyIs, SocketOf
<1>6. daemon.pc # "idle" => daemon.of = agent.sock[1]
    BY DEF WireOK
<1> QED BY <1>1, <1>2, <1>4, <1>5, <1>6, Zenon

LEMMA DaemonElsewhere ==
    ASSUME Types, WireOK, DaemonStep, NEW d \in Client, SessionOK(d), agent.sock # Proxy(d)
    PROVE  SessionOK(d)'
<1>1. UNCHANGED <<cli, backlog, toAgent, toCli, agentOpen, agent, asked, got>>
    BY DaemonQuiet
<1>2. agent.sock[1] # d
    BY DaemonServes
<1>3. heard'[d] = heard[d] /\ told'[d] = told[d]
    <2>1. CASE DaemonAnswers
        <3>1. Head(wsUp).of # d
            BY <1>2, <2>1, DaemonServes DEF DaemonAnswers, DaemonReads
        <3> QED BY <2>1, <3>1 DEF DaemonAnswers, DaemonReads, DaemonSends, Types, HistoryTypes
    <2>2. CASE DaemonTakesFile
        <3>1. Head(wsUp).of # d
            BY <1>2, <2>2, DaemonServes DEF DaemonTakesFile, DaemonReads
        <3> QED BY <2>2, <3>1 DEF DaemonTakesFile, DaemonReads, Types, HistoryTypes
    <2>3. CASE DaemonBuilds
        <3>1. daemon.of # d
            BY <1>2, <2>3, DaemonServes DEF DaemonBuilds
        <3> QED BY <2>3, <3>1 DEF DaemonBuilds, DaemonSends, Types, HistoryTypes
    <2> QED BY <2>1, <2>2, <2>3 DEF DaemonStep
<1>4. SameTalk(d) /\ SameRole(d)
    BY <1>1, <1>3 DEF SameTalk, SameRole, Once, Queued, Proxy
<1> QED BY <1>1, <1>4, Undisturbed

(* The thread reads the first of what is under way to it.                    *)
LEMMA Heard ==
    ASSUME Types, NEW d \in Client, NEW kind \in Word, DaemonReads(kind), Head(wsUp).of = d,
           toAgent' = toAgent, asked' = asked, asked[d] = heard[d] \o Kinds(Unread(d))
    PROVE  /\ asked'[d] = heard'[d] \o Kinds(Unread(d)') /\ Begins(heard'[d], asked'[d])
           /\ Unread(d) # << >> /\ Head(Unread(d)).kind = kind /\ Unread(d)' = Tail(Unread(d))
           /\ Unread(d) \in Seq(Message) /\ heard'[d] \in Seq(Word)
<1>1. /\ wsUp \in Seq(Message) /\ toAgent[Proxy(d)] \in Seq(Message) /\ heard[d] \in Seq(Word)
      /\ wsUp # << >> /\ Head(wsUp).kind = kind /\ wsUp' = Tail(wsUp)
      /\ heard'[d] = Append(heard[d], kind)
    BY ProxyIs DEF DaemonReads, Types, SocketTypes, WireTypes, HistoryTypes
<1> DEFINE t == toAgent[Proxy(d)]
<1>2. /\ Len(wsUp) \in Nat /\ 1 \in 1 .. Len(wsUp) /\ Head(wsUp) = wsUp[1]
      /\ Tail(wsUp) \in Seq(Message) /\ Len(Tail(wsUp)) = Len(wsUp) - 1 /\ Len(t) \in Nat
      /\ \A i \in 1 .. Len(Tail(wsUp)) : Tail(wsUp)[i] = wsUp[i + 1]
    BY <1>1, EmptySeq, HeadTailProperties, LenProperties
<1>3. /\ wsUp \o t \in Seq(Message) /\ Len(wsUp \o t) = Len(wsUp) + Len(t)
      /\ \A i \in 1 .. Len(wsUp) + Len(t) :
             (wsUp \o t)[i] = IF i <= Len(wsUp) THEN wsUp[i] ELSE t[i - Len(wsUp)]
    BY <1>1, ConcatProperties
<1>4. wsUp \o t # << >> /\ Head(wsUp \o t) = Head(wsUp)
    <2>1. wsUp \o t # << >>
        BY <1>1, ConcatEqualIffEmpty
    <2>2. Head(wsUp \o t) = (wsUp \o t)[1] /\ 1 \in 1 .. Len(wsUp) + Len(t)
        BY <1>2, <1>3, <2>1
    <2> QED BY <1>2, <1>3, <2>1, <2>2
<1>5. Tail(wsUp \o t) = Tail(wsUp) \o t
    <2>1. /\ Tail(wsUp \o t) \in Seq(Message) /\ Len(Tail(wsUp \o t)) = Len(wsUp) + Len(t) - 1
          /\ \A i \in 1 .. Len(Tail(wsUp \o t)) : Tail(wsUp \o t)[i] = (wsUp \o t)[i + 1]
        BY <1>3, <1>4, HeadTailProperties
    <2>2. /\ Tail(wsUp) \o t \in Seq(Message)
          /\ Len(Tail(wsUp) \o t) = Len(Tail(wsUp)) + Len(t)
          /\ \A i \in 1 .. Len(Tail(wsUp)) + Len(t) : (Tail(wsUp) \o t)[i] =
                 IF i <= Len(Tail(wsUp)) THEN Tail(wsUp)[i] ELSE t[i - Len(Tail(wsUp))]
        BY <1>1, <1>2, ConcatProperties
    <2> HIDE DEF t
    <2>3. Len(Tail(wsUp \o t)) = Len(Tail(wsUp) \o t)
        BY <1>2, <2>1, <2>2
    <2>4. ASSUME NEW i \in 1 .. Len(Tail(wsUp \o t))
          PROVE  Tail(wsUp \o t)[i] = (Tail(wsUp) \o t)[i]
        <3>1. i + 1 \in 1 .. Len(wsUp) + Len(t) /\ i \in 1 .. Len(Tail(wsUp)) + Len(t)
            BY <1>2, <2>1
        <3>2. Tail(wsUp \o t)[i] = IF i + 1 <= Len(wsUp) THEN wsUp[i + 1] ELSE t[i + 1 - Len(wsUp)]
            BY <1>3, <2>1, <3>1
        <3>3. CASE i + 1 <= Len(wsUp)
            <4>1. i <= Len(Tail(wsUp)) /\ i \in 1 .. Len(Tail(wsUp))
                BY <1>2, <3>3
            <4> QED BY <1>2, <2>2, <3>1, <3>2, <3>3, <4>1
        <3>4. CASE ~(i + 1 <= Len(wsUp))
            <4>1. ~(i <= Len(Tail(wsUp))) /\ i - Len(Tail(wsUp)) = i + 1 - Len(wsUp)
                BY <1>2, <3>4
            <4> QED BY <2>2, <3>1, <3>2, <3>4, <4>1
        <3> QED BY <3>3, <3>4
    <2> QED BY <2>1, <2>2, <2>3, <2>4, SeqEqual
<1>6. Unread(d) = wsUp \o t /\ Unread(d)' = Tail(wsUp) \o t
    BY <1>1 DEF Unread, Proxy
<1> HIDE DEF t
<1>7. /\ Unread(d) \in Seq(Message) /\ Unread(d) # << >> /\ Head(Unread(d)).kind = kind
      /\ Unread(d)' = Tail(Unread(d)) /\ Tail(Unread(d)) \in Seq(Message)
    BY <1>1, <1>3, <1>4, <1>5, <1>6, HeadTailProperties
<1>8. asked'[d] = heard'[d] \o Kinds(Unread(d)')
    <2>1. Append(heard[d], Head(Unread(d)).kind) \o Kinds(Tail(Unread(d))) = heard[d] \o Kinds(Unread(d))
        BY <1>1, <1>7, TakeHead
    <2> QED BY <1>1, <1>7, <2>1
<1>9. heard'[d] \in Seq(Word)
    BY <1>1, AppendProperties
<1>10. Begins(heard'[d], asked'[d])
    <2>1. Kinds(Unread(d)') \in Seq(Word)
        BY <1>7, KindsSeq
    <2> QED BY <1>8, <1>9, <2>1, BeginsConcat
<1> QED BY <1>7, <1>8, <1>9, <1>10

(* The thread says something.                                                *)
LEMMA Said ==
    ASSUME Types, NEW d \in Client, NEW kind \in Word, DaemonSends(kind, d),
           UNCHANGED <<got, toCli>>, told[d] = Arrived(d) \o Kinds(wsDown),
           Begins(Arrived(d), told[d])
    PROVE  told'[d] = Arrived(d)' \o Kinds(wsDown') /\ Begins(Arrived(d)', told'[d])
<1>1. /\ told'[d] = Append(told[d], kind) /\ wsDown' = Append(wsDown, Msg(kind, d))
      /\ told[d] \in Seq(Word) /\ got[d] \in Seq(Word) /\ wsDown \in Seq(Message)
      /\ toCli[Proxy(d)] \in Seq(Message)
    BY ProxyIs DEF DaemonSends, Types, SocketTypes, WireTypes, HistoryTypes
<1>2. Arrived(d)' = Arrived(d)
    BY DEF Arrived, Kinds, Proxy
<1>3. Arrived(d) \in Seq(Word)
    BY <1>1, KindsSeq, ConcatProperties DEF Arrived
<1>4. Msg(kind, d) \in Message /\ Msg(kind, d).kind = kind
    BY MsgType DEF Msg
<1>5. Arrived(d) \o Kinds(Append(wsDown, Msg(kind, d))) = Append(Arrived(d) \o Kinds(wsDown), kind)
    <2>1. wsDown \in Seq(Message)
        BY <1>1
    <2> DEFINE said == Msg(kind, d)
               h    == Arrived(d)
    <2>2. h \in Seq(Word) /\ said \in Message /\ said.kind = kind
        BY <1>3, <1>4
    <2> HIDE DEF said, h
    <2>3. h \o Kinds(Append(wsDown, said)) = Append(h \o Kinds(wsDown), said.kind)
        BY <2>1, <2>2, AddLast, Zenon
    <2> QED BY <2>2, <2>3 DEF said, h
<1>6. Begins(Arrived(d), Append(told[d], kind))
    BY <1>1, <1>3, BeginsAppend
<1> QED BY <1>1, <1>2, <1>5, <1>6

LEMMA AnswersOK ==
    ASSUME Types, WireOK, DaemonAnswers, NEW d \in Client, SessionOK(d), agent.sock = Proxy(d)
    PROVE  SessionOK(d)'
<1> USE WordsKnown
<1>1. PICK kind \in ClientKinds : \E answer \in Answers(daemon.pc, kind) :
          /\ DaemonReads(kind)
          /\ DaemonSends(answer, Head(wsUp).of)
          /\ daemon' = [IdleThread EXCEPT !.pc = After(answer), !.of = Head(wsUp).of]
    BY DEF DaemonAnswers
<1>2. PICK answer \in Answers(daemon.pc, kind) :
          /\ DaemonReads(kind)
          /\ DaemonSends(answer, Head(wsUp).of)
          /\ daemon' = [IdleThread EXCEPT !.pc = After(answer), !.of = Head(wsUp).of]
    BY <1>1
<1>3. UNCHANGED <<cli, backlog, toAgent, toCli, agentOpen, agent, asked, got>>
      /\ answer \in Word /\ kind \in Word
    BY DaemonQuiet, AnswersKnown DEF DaemonStep
<1>4. /\ ws = "up" /\ wsUp # << >> /\ Head(wsUp).of = d /\ Serves(d) /\ ws' = ws
    <2>1. Speaks /\ ws = "up" /\ (wsUp # << >> => Head(wsUp).of = agent.sock[1])
        BY DaemonServes DEF DaemonStep
    <2>2. ws' = ws /\ wsUp # << >>
        BY <1>2 DEF DaemonReads, DaemonAnswers, DaemonFrame
    <2>3. agent.sock[1] = d
        BY ProxyIs, Zenon
    <2>4. Serves(d)
        BY <2>1 DEF Serves, Speaks
    <2> QED BY <2>1, <2>2, <2>3, <2>4, Zenon
<1>5. /\ told[d] = Arrived(d) \o Kinds(wsDown) /\ asked[d] = heard[d] \o Kinds(Unread(d))
      /\ DialogueOK(d) /\ Begins(Arrived(d), told[d])
    BY <1>4 DEF SessionOK, ServedOK, FlowOK
<1>6. /\ asked'[d] = heard'[d] \o Kinds(Unread(d)') /\ Begins(heard'[d], asked'[d])
      /\ Unread(d) # << >> /\ Head(Unread(d)).kind = kind /\ Unread(d)' = Tail(Unread(d))
      /\ Unread(d) \in Seq(Message)
    BY <1>2, <1>3, <1>4, <1>5, Heard
<1>7. told'[d] = Arrived(d)' \o Kinds(wsDown') /\ Begins(Arrived(d)', told'[d])
    BY <1>2, <1>3, <1>4, <1>5, Said
<1>8. toCli[Proxy(d)] = << >> /\ wsDown = << >> /\ Understood(daemon.pc, Unread(d))
      /\ cli[d] # "stream"
    BY <1>5, <1>6 DEF DialogueOK, Quiet
<1>9. Unread(d)' = << >>
    <2>1. /\ Len(Unread(d)) \in Nat /\ 1 \in 1 .. Len(Unread(d)) /\ Head(Unread(d)) = Unread(d)[1]
          /\ Tail(Unread(d)) \in Seq(Message) /\ Len(Tail(Unread(d))) = Len(Unread(d)) - 1
        BY <1>6, EmptySeq, LenProperties, HeadTailProperties
    <2>2. \/ kind \in {"Probe", "TipRequest"} /\ daemon.pc = "idle"
          \/ kind = "Manifest" /\ daemon.pc = "manifest"
          \/ kind = "SyncDone" /\ daemon.pc = "receive"
        BY <1>2 DEF Answers
    <2>3. Len(Unread(d)) = 1
        BY <1>6, <1>8, <2>1, <2>2 DEF Understood
    <2> QED BY <1>6, <2>1, <2>3, EmptySeq
<1>10. /\ wsDown' = <<Msg(answer, d)>> /\ daemon'.pc = After(answer) /\ toCli'[Proxy(d)] = << >>
       /\ 1 .. Len(toCli'[Proxy(d)]) = {}
    BY <1>2, <1>3, <1>4, <1>8 DEF DaemonSends, IdleThread
<1>11. Len(wsDown') = 1 /\ wsDown'[1].kind = answer /\ Len(toCli'[Proxy(d)]) = 0
    BY <1>10 DEF Msg
<1>12. DialogueOK(d)'
    <2>1. Awaits(d, answer)'
        BY <1>9, <1>10, <1>11 DEF Awaits, Proxy, After
    <2>2. \A i \in 1 .. Len(wsDown') : wsDown'[i].kind = answer
        BY <1>11
    <2> QED BY <1>3, <1>8, <1>9, <1>10, <2>1, <2>2 DEF DialogueOK, Understood, Awaits, Proxy
<1>13. FlowOK(d)'
    BY <1>6, <1>7 DEF FlowOK, Begins
<1>14. ServedOK(d)'
    BY <1>6, <1>7, <1>12 DEF ServedOK, Kinds, Arrived
<1>15. Serves(d)'
    BY <1>3, <1>4 DEF Serves, Proxy
<1> QED BY <1>3, <1>4, <1>13, <1>14, <1>15, GoesOn

LEMMA TakesFileOK ==
    ASSUME Types, WireOK, DaemonTakesFile, NEW d \in Client, SessionOK(d), agent.sock = Proxy(d)
    PROVE  SessionOK(d)'
<1> USE WordsKnown
<1>1. /\ UNCHANGED <<cli, backlog, toAgent, toCli, agentOpen, agent, asked, got, ws, wsDown,
                     daemon, told>>
      /\ daemon.pc = "receive" /\ DaemonReads("FileData")
    BY DaemonQuiet DEF DaemonStep, DaemonTakesFile, DaemonFrame
<1>2. /\ ws = "up" /\ wsUp # << >> /\ Head(wsUp).of = d /\ Serves(d)
    BY <1>1, DaemonServes, ProxyIs DEF DaemonStep, DaemonReads, Serves, Speaks
<1>3. /\ told[d] = Arrived(d) \o Kinds(wsDown) /\ asked[d] = heard[d] \o Kinds(Unread(d))
      /\ DialogueOK(d) /\ Begins(Arrived(d), told[d])
    BY <1>2 DEF SessionOK, ServedOK, FlowOK
<1>4. /\ asked'[d] = heard'[d] \o Kinds(Unread(d)') /\ Begins(heard'[d], asked'[d])
      /\ Unread(d) # << >> /\ Head(Unread(d)).kind = "FileData"
      /\ Unread(d)' = Tail(Unread(d)) /\ Unread(d) \in Seq(Message)
    BY <1>1, <1>2, <1>3, Heard
<1>5. /\ toCli[Proxy(d)] = << >> /\ wsDown = << >> /\ Understood("receive", Unread(d))
      /\ cli[d] # "stream"
    BY <1>1, <1>3, <1>4 DEF DialogueOK, Quiet
<1>6. Understood("receive", Tail(Unread(d)))
    <2>1. /\ Len(Unread(d)) \in Nat /\ Len(Tail(Unread(d))) = Len(Unread(d)) - 1
          /\ \A i \in 1 .. Len(Tail(Unread(d))) : Tail(Unread(d))[i] = Unread(d)[i + 1]
        BY <1>4, LenProperties, HeadTailProperties
    <2>2. \A i \in 1 .. Len(Tail(Unread(d))) :
              i + 1 \in 1 .. Len(Unread(d)) /\ (i + 1 = Len(Unread(d)) => i = Len(Tail(Unread(d))))
        BY <2>1
    <2>3. \A i \in 1 .. Len(Unread(d)) : \/ Unread(d)[i].kind = "FileData"
                                         \/ Unread(d)[i].kind = "SyncDone" /\ i = Len(Unread(d))
        BY <1>4, <1>5 DEF Understood
    <2> QED BY <2>1, <2>2, <2>3 DEF Understood
<1>7. Arrived(d)' = Arrived(d)
    BY <1>1 DEF Arrived, Kinds, Proxy
<1>8. DialogueOK(d)'
    <2>1. toCli'[Proxy(d)] = << >> /\ wsDown' = << >> /\ daemon'.pc = "receive"
          /\ 1 .. Len(toCli'[Proxy(d)]) = {} /\ 1 .. Len(wsDown') = {}
        BY <1>1, <1>5
    <2> QED BY <1>1, <1>4, <1>5, <1>6, <2>1 DEF DialogueOK, Quiet, Understood, Proxy
<1>9. FlowOK(d)'
    BY <1>1, <1>3, <1>4, <1>7 DEF FlowOK, Begins
<1>10. ServedOK(d)'
    BY <1>1, <1>3, <1>4, <1>7, <1>8 DEF ServedOK, Kinds, Arrived
<1>11. Serves(d)'
    BY <1>1, <1>2 DEF Serves, Proxy
<1> QED BY <1>1, <1>2, <1>9, <1>10, <1>11, GoesOn

LEMMA BuildsOK ==
    ASSUME Types, WireOK, DaemonBuilds, NEW d \in Client, SessionOK(d), agent.sock = Proxy(d)
    PROVE  SessionOK(d)'
<1> USE WordsKnown
<1>1. /\ UNCHANGED <<cli, backlog, toAgent, toCli, agentOpen, agent, asked, got, ws, wsUp, heard>>
      /\ daemon.pc = "output"
    BY DaemonQuiet DEF DaemonStep, DaemonBuilds, DaemonFrame
<1>2. ws = "up" /\ daemon.of = d /\ Serves(d)
    BY <1>1, DaemonServes, ProxyIs DEF DaemonStep, Serves, Speaks
<1>3. PICK kind \in {"BuildStdout", "BuildFinished"} : DaemonSends(kind, d)
    BY <1>2 DEF DaemonBuilds
<1>4. /\ told[d] = Arrived(d) \o Kinds(wsDown) /\ asked[d] = heard[d] \o Kinds(Unread(d))
      /\ DialogueOK(d) /\ Begins(Arrived(d), told[d]) /\ Begins(heard[d], asked[d])
    BY <1>2 DEF SessionOK, ServedOK, FlowOK
<1>5. told'[d] = Arrived(d)' \o Kinds(wsDown') /\ Begins(Arrived(d)', told'[d])
    BY <1>1, <1>3, <1>4, Said
<1>6. Unread(d) = << >> /\ Unread(d)' = Unread(d) /\ cli[d] # "stream"
    BY <1>1, <1>4 DEF DialogueOK, Understood, Unread, Proxy
<1>7. \A k : YieldsToClient(k) => ~Awaits(d, k)
    BY <1>1 DEF Awaits, After, YieldsToClient
<1>8. /\ \A i \in 1 .. Len(toCli[Proxy(d)]) : ~YieldsToClient(toCli[Proxy(d)][i].kind)
      /\ \A i \in 1 .. Len(wsDown) : ~YieldsToClient(wsDown[i].kind)
    BY <1>4, <1>7 DEF DialogueOK
<1>9. \A i \in 1 .. Len(wsDown') : ~YieldsToClient(wsDown'[i].kind)
    <2>1. wsDown \in Seq(Message) /\ Msg(kind, d) \in Message /\ Msg(kind, d).kind = kind
        BY MsgType DEF Types, WireTypes, Msg
    <2>2. /\ wsDown' = Append(wsDown, Msg(kind, d)) /\ Len(wsDown') = Len(wsDown) + 1
          /\ Len(wsDown) \in Nat
          /\ wsDown'[Len(wsDown) + 1].kind = kind
          /\ \A i \in 1 .. Len(wsDown) : wsDown'[i] = wsDown[i]
        BY <1>3, <2>1, AppendProperties, LenProperties DEF DaemonSends
    <2>3. \A i \in 1 .. Len(wsDown') : i \in 1 .. Len(wsDown) \/ i = Len(wsDown) + 1
        BY <2>2
    <2>4. ~YieldsToClient(kind)
        BY DEF YieldsToClient
    <2> QED BY <1>8, <2>2, <2>3, <2>4
<1>10. DialogueOK(d)'
    BY <1>1, <1>6, <1>8, <1>9 DEF DialogueOK, Understood, Proxy
<1>11. FlowOK(d)'
    BY <1>1, <1>4, <1>5 DEF FlowOK, Begins
<1>12. ServedOK(d)'
    BY <1>1, <1>4, <1>5, <1>6, <1>10 DEF ServedOK, Kinds, Arrived
<1>13. Serves(d)'
    BY <1>1, <1>2 DEF Serves, Proxy
<1> QED BY <1>1, <1>2, <1>11, <1>12, <1>13, GoesOn

LEMMA DropsOK ==
    ASSUME Types, DaemonDrops, NEW d \in Client, SessionOK(d)
    PROVE  SessionOK(d)'
<1>1. /\ UNCHANGED <<cli, backlog, toAgent, toCli, agentOpen, agent, asked, got, heard, told, wsDown>>
      /\ ws' = "dead"
    BY DEF DaemonDrops, socketVars
<1>2. CASE agent.sock # Proxy(d)
    <2>1. SameTalk(d) /\ SameRole(d)
        BY <1>1 DEF SameTalk, SameRole, Once, Queued, Proxy
    <2> QED BY <1>1, <1>2, <2>1, Undisturbed
<1>3. CASE agent.sock = Proxy(d)
    <2>1. FlowOK(d)'
        BY <1>1, SameFlow
    <2>2. QueueOK(d)' /\ FreshOK(d)' /\ WaitingOK(d)'
        BY <1>1 DEF SessionOK, QueueOK, FreshOK, WaitingOK, Once, Queued, Waits, Unheard,
                    Understood, Kinds, Proxy
    <2>3. ServedOK(d)'
        BY <1>1 DEF SessionOK, ServedOK, Serves, Arrived, Kinds, Proxy
    <2> QED BY <2>1, <2>2, <2>3 DEF SessionOK
<1> QED BY <1>2, <1>3

LEMMA NextSession ==
    ASSUME Types, WireOK, [Next]_vars, NEW d \in Client, SessionOK(d)
    PROVE  SessionOK(d)'
<1>1. CASE UNCHANGED vars
    <2>1. SameTalk(d) /\ SameRole(d)
        BY <1>1 DEF vars, socketVars, SameTalk, SameRole, Once, Queued, Proxy
    <2>2. UNCHANGED <<agent, ws, wsUp, wsDown, daemon, agentOpen>>
        BY <1>1 DEF vars, wsVars, socketVars
    <2> QED BY <2>1, <2>2, Undisturbed
<1>2. CASE DaemonStep
    BY <1>2, DaemonElsewhere, AnswersOK, TakesFileOK, BuildsOK DEF DaemonStep
<1> QED BY <1>1, <1>2, CliSessions, AgentSessions, DropsOK DEF Next, Done

LEMMA InitSession ==
    ASSUME Init, NEW c \in Client
    PROVE  SessionOK(c)
<1> USE DEF Init
<1>1. Proxy(c) # NoSocket /\ Proxy(c) \in Socket
    BY ProxyIs
<1>2. 1 .. Len(backlog) = {}
    OBVIOUS
<1>3. QueueOK(c)
    BY <1>1, <1>2 DEF QueueOK, Once, Queued, Resting
<1>4. FreshOK(c)
    BY <1>1, <1>2 DEF FreshOK, Unheard, Queued, Resting
<1>5. WaitingOK(c) /\ ServedOK(c)
    BY <1>1, <1>2 DEF WaitingOK, Waits, ServedOK, Serves, Queued, Resting
<1>6. FlowOK(c)
    <2>1. heard[c] = << >> /\ asked[c] = << >> /\ told[c] = << >> /\ got[c] = << >>
          /\ toCli[Proxy(c)] = << >>
        BY <1>1
    <2>2. Arrived(c) = << >>
        BY <2>1, KindsOfNone DEF Arrived
    <2>3. Begins(<< >>, << >>)
        BY BeginsEmpty, EmptySeq
    <2> QED BY <2>1, <2>2, <2>3 DEF FlowOK
<1> QED BY <1>3, <1>4, <1>5, <1>6 DEF SessionOK

-----------------------------------------------------------------------------
(* The agent is always either between two sessions, with nothing on its      *)
(* websocket, or in one, and then the two sides' messages account for each   *)
(* other and it is never both sides' turn.                                   *)
THEOREM ProxySafety == Spec => []ProxyInv
<1>1. Init => ProxyInv
    BY InitTypes, InitHint, InitMail, InitWire, InitSession DEF ProxyInv
<1>2. ProxyInv /\ [Next]_vars => ProxyInv'
    BY NextTypes, NextHint, NextMail, NextWire, NextSession DEF ProxyInv
<1> QED BY <1>1, <1>2, PTL DEF Spec

(* Every variable keeps its type.                                            *)
THEOREM ProxyTypes == Spec => []TypeOK
<1>1. ProxyInv => TypeOK
    <2> SUFFICES ASSUME Types PROVE TypeOK
        BY DEF ProxyInv
    <2>1. \A i \in DOMAIN backlog : backlog[i] \in Socket
        BY LenProperties, ElementOfSeq DEF Types, SocketTypes
    <2> QED BY <2>1 DEF TypeOK, Types, CliTypes, CliPc, SocketTypes, AgentTypes, AgentRecord,
                        WireTypes, DaemonRecord, HistoryTypes
<1> QED BY <1>1, ProxySafety, PTL

(* A websocket the agent keeps for the next run carries nothing of the last. *)
THEOREM ProxyKeepsClean == Spec => []KeptIsClean
<1>1. ProxyInv => KeptIsClean
    BY DEF ProxyInv, WireOK, Clean, Speaks, KeptIsClean
<1> QED BY <1>1, ProxySafety, PTL

(* The thread at the other end always has a case for what comes first.       *)
THEOREM ProxyUnderstood == Spec => []DaemonUnderstands
<1>1. ProxyInv => DaemonUnderstands
    <2> SUFFICES ASSUME ProxyInv, ws = "up", wsUp # << >>
                 PROVE  \/ Answers(daemon.pc, Head(wsUp).kind) # {}
                        \/ daemon.pc = "receive" /\ Head(wsUp).kind = "FileData"
        BY DEF DaemonUnderstands
    <2>1. Types /\ WireOK /\ Speaks
        BY DEF ProxyInv, WireOK, Clean
    <2> DEFINE d == agent.sock[1]
    <2>2. agent.sock \in Socket /\ agent.sock[2] = "proxy"
        BY <2>1, AgentHas DEF WireOK, Speaks
    <2>3. d \in Client /\ agent.sock = Proxy(d)
        BY <2>2, ProxyIs, SocketOf
    <2> HIDE DEF d
    <2>4. SessionOK(d) /\ Serves(d)
        BY <2>1, <2>3 DEF ProxyInv, Serves, Speaks
    <2>5. Understood(daemon.pc, Unread(d))
        BY <2>4 DEF SessionOK, ServedOK, DialogueOK
    <2>6. /\ wsUp \in Seq(Message) /\ toAgent[Proxy(d)] \in Seq(Message)
          /\ Len(wsUp) \in Nat /\ 1 \in 1 .. Len(wsUp) /\ Head(wsUp) = wsUp[1]
          /\ Len(toAgent[Proxy(d)]) \in Nat
        BY <2>1, <2>3, ProxyIs, EmptySeq, LenProperties DEF Types, SocketTypes, WireTypes
    <2>7. Unread(d) # << >> /\ Unread(d)[1] = wsUp[1] /\ 1 \in 1 .. Len(Unread(d))
        <3>1. /\ Len(wsUp \o toAgent[Proxy(d)]) = Len(wsUp) + Len(toAgent[Proxy(d)])
              /\ \A i \in 1 .. Len(wsUp) + Len(toAgent[Proxy(d)]) :
                     (wsUp \o toAgent[Proxy(d)])[i] =
                         IF i <= Len(wsUp) THEN wsUp[i] ELSE toAgent[Proxy(d)][i - Len(wsUp)]
            BY <2>6, ConcatProperties
        <3>2. wsUp \o toAgent[Proxy(d)] # << >>
            BY <2>6, ConcatEqualIffEmpty
        <3> QED BY <2>6, <3>1, <3>2 DEF Unread
    <2> QED BY <2>5, <2>6, <2>7 DEF Understood, Answers
<1> QED BY <1>1, ProxySafety, PTL

LEMMA InvTransparent == ProxyInv => Transparent
<1> SUFFICES ASSUME ProxyInv, NEW c \in Client
             PROVE  Begins(heard[c], asked[c]) /\ Begins(got[c], told[c])
    BY DEF Transparent
<1>1. Types /\ FlowOK(c)
    BY DEF ProxyInv, SessionOK
<1>2. /\ got[c] \in Seq(Word) /\ told[c] \in Seq(Word) /\ toCli[Proxy(c)] \in Seq(Message)
    BY <1>1, ProxyIs DEF Types, HistoryTypes, SocketTypes
<1>3. Kinds(toCli[Proxy(c)]) \in Seq(Word)
    BY <1>2, KindsSeq
<1>4. Arrived(c) \in Seq(Word)
    BY <1>2, <1>3, ConcatProperties DEF Arrived
<1>5. PICK u \in Seq(Word) : told[c] = Arrived(c) \o u
    BY <1>1, <1>2, <1>4, BeginsSplit DEF FlowOK
<1>6. Begins(got[c], Arrived(c))
    BY <1>2, <1>3, BeginsConcat DEF Arrived
<1>7. Begins(got[c], told[c])
    BY <1>2, <1>4, <1>5, <1>6, BeginsMore
<1> QED BY <1>1, <1>7 DEF FlowOK

(* The agent is a pipe: what each side reads of a run's session is a         *)
(* beginning of what the other side said in it.                              *)
THEOREM ProxyTransparent == Spec => []Transparent
BY InvTransparent, ProxySafety, PTL

(* What the agent remembers is of a run whose build the daemon finished.     *)
THEOREM ProxyHint == Spec => []HintIsOfABuild
<1>1. ProxyInv => HintIsOfABuild
    BY DEF ProxyInv, HintOK, Records, Built, HintIsOfABuild
<1> QED BY <1>1, ProxySafety, PTL

-----------------------------------------------------------------------------
(* The agent, its sockets and its websocket do what Relay promises.          *)

(* What has been read with one word more is still a beginning: then that     *)
(* word is the next.                                                         *)
LEMMA NextWord ==
    ASSUME NEW s \in Seq(Word), NEW t \in Seq(Word), NEW w \in Word, Begins(Append(s, w), t)
    PROVE  Relays!ReadsOn(s, t, Append(s, w))
<1> DEFINE r == Append(s, w)
<1>1. r \in Seq(Word) /\ Len(r) = Len(s) + 1 /\ r[Len(s) + 1] = w
    BY AppendProperties
<1>2. Len(s) \in Nat /\ Len(t) \in Nat
    BY LenProperties
<1> HIDE DEF r
<1>3. Len(r) <= Len(t) /\ SubSeq(t, 1, Len(r)) = r
    BY DEF Begins, r
<1>4. 1 .. Len(r) \subseteq 1 .. Len(t) /\ Len(s) + 1 \in 1 .. Len(r)
    BY <1>1, <1>2, <1>3
<1>5. SubSeq(t, 1, Len(r))[Len(s) + 1] = t[Len(s) + 1]
    BY <1>1, <1>2, <1>3, <1>4
<1>6. Len(s) < Len(t) /\ t[Len(s) + 1] = w
    BY <1>1, <1>2, <1>3, <1>5
<1> QED BY <1>6 DEF Relays!ReadsOn

LEMMA SaysMore ==
    ASSUME NEW s \in Seq(Word), NEW u \in Seq(Word)
    PROVE  Relays!Continues(s, s) /\ Relays!Continues(s, s \o u)
<1>1. s \o << >> = s /\ << >> \in Seq(Word)
    BY ConcatEmptySeq, EmptySeq
<1>2. Begins(s, s) /\ Begins(s, s \o u)
    BY <1>1, BeginsConcat
<1> QED BY <1>2 DEF Begins, Relays!Continues

LEMMA SaysOne ==
    ASSUME NEW s \in Seq(Word), NEW w \in Word
    PROVE  Relays!Continues(s, Append(s, w))
<1>1. Append(s, w) = s \o <<w>> /\ <<w>> \in Seq(Word)
    BY AppendIsConcat
<1> QED BY <1>1, SaysMore

(* What a run reads in a step, and what it says.                             *)
LEMMA RunReads ==
    ASSUME Types, NEW c \in Client, CliStep(c) \/ Abort(c)
    PROVE  got' = got \/ \E w \in Word : got' = [got EXCEPT ![c] = Append(@, w)]
<1>1. ASSUME NEW k, NEW kind \in Word, CliReads(c, k, kind)
      PROVE  got' = got \/ \E w \in Word : got' = [got EXCEPT ![c] = Append(@, w)]
    BY <1>1 DEF CliReads
<1>2. CASE Abort(c)
    BY <1>2 DEF Abort, HangUp
<1>3. CASE HaveHint(c) \/ SessionEnds(c) \/ Recorded(c) \/ LoggedIn(c)
    BY <1>1, <1>3, WordsKnown DEF HaveHint, SessionEnds, Recorded, LoggedIn
<1>4. CASE SessionReads(c)
    BY <1>1, <1>4, WordsKnown DEF SessionReads
<1>5. CASE AskLastSync(c) \/ OpenSession(c) \/ GoDirect(c) \/ Stream(c) \/ Record(c) \/ Login(c)
           \/ Failed(c)
    BY <1>5 DEF AskLastSync, OpenSession, GoDirect, Stream, Record, Login, Failed, HangUp
<1> QED BY <1>2, <1>3, <1>4, <1>5 DEF CliStep

LEMMA RunSays ==
    ASSUME Types, NEW c \in Client, CliStep(c) \/ Abort(c), SessionOK(c)
    PROVE  /\ Relays!Continues(asked[c], asked'[c])
           /\ \A d \in Client : d # c => asked'[d] = asked[d]
<1>1. asked \in [Client -> Seq(Word)] /\ asked[c] \in Seq(Word)
    BY DEF Types, HistoryTypes
<1>2. ASSUME NEW u \in Seq(Word), asked' = [asked EXCEPT ![c] = @ \o u]
      PROVE  /\ Relays!Continues(asked[c], asked'[c])
             /\ \A d \in Client : d # c => asked'[d] = asked[d]
    BY <1>1, <1>2, SaysMore
<1>3. CASE asked' = asked
    BY <1>1, <1>3, SaysMore, EmptySeq
<1>4. CASE OpenSession(c)
    <2>1. PICK first \in {"Probe", "TipRequest"} : asked' = [asked EXCEPT ![c] = <<first>>]
        BY <1>4 DEF OpenSession
    <2>2. asked[c] = << >> /\ <<first>> \in Seq(Word) /\ << >> \o <<first>> = <<first>>
        BY <1>4, WordsKnown DEF OpenSession, SessionOK, FreshOK
    <2>3. asked' = [asked EXCEPT ![c] = @ \o <<first>>]
        BY <2>1, <2>2
    <2> QED BY <1>2, <2>2, <2>3
<1>5. CASE SessionReads(c)
    <2>1. asked' = asked \/ asked' = [asked EXCEPT ![c] = Append(@, "Manifest")]
        BY <1>5 DEF SessionReads
    <2>2. Append(asked[c], "Manifest") = asked[c] \o <<"Manifest">> /\ <<"Manifest">> \in Seq(Word)
        BY <1>1, WordsKnown, AppendIsConcat
    <2> QED BY <1>2, <1>3, <2>1, <2>2
<1>6. CASE Stream(c)
    <2>1. PICK ks \in {<<"SyncDone">>, <<"FileData", "SyncDone">>} :
              asked' = [asked EXCEPT ![c] = @ \o ks]
        BY <1>6 DEF Stream
    <2> QED BY <1>2, <2>1, StreamMail
<1>7. CASE \/ Abort(c) \/ AskLastSync(c) \/ HaveHint(c) \/ GoDirect(c) \/ SessionEnds(c)
           \/ Record(c) \/ Recorded(c) \/ Login(c) \/ LoggedIn(c) \/ Failed(c)
    <2>1. asked' = asked
        BY <1>7 DEF Abort, AskLastSync, HaveHint, GoDirect, SessionEnds, Record, Recorded, Login,
                    LoggedIn, Failed, HangUp
    <2> QED BY <1>3, <2>1
<1> QED BY <1>4, <1>5, <1>6, <1>7 DEF CliStep

(* A step of a CLI is its turn,                                              *)
LEMMA RunTurns ==
    ASSUME Types, Transparent', NEW c \in Client, CliStep(c) \/ Abort(c), SessionOK(c)
    PROVE  Relays!RunTurn(c)
<1>1. UNCHANGED <<Carried, heard, told>>
    BY CliFrames DEF Carried
<1>2. got \in [Client -> Seq(Word)] /\ told[c] \in Seq(Word) /\ got[c] \in Seq(Word)
    BY DEF Types, HistoryTypes
<1>3. /\ Relays!ReadsOn(got[c], told[c], got'[c])
      /\ \A d \in Client : d # c => got'[d] = got[d]
    <2>1. CASE got' = got
        BY <2>1 DEF Relays!ReadsOn
    <2>2. ASSUME NEW w \in Word, got' = [got EXCEPT ![c] = Append(@, w)]
          PROVE  /\ Relays!ReadsOn(got[c], told[c], got'[c])
                 /\ \A d \in Client : d # c => got'[d] = got[d]
        <3>1. got'[c] = Append(got[c], w) /\ \A d \in Client : d # c => got'[d] = got[d]
            BY <1>2, <2>2
        <3>2. Begins(Append(got[c], w), told[c])
            BY <1>1, <3>1 DEF Transparent
        <3> QED BY <1>2, <3>1, <3>2, NextWord
    <2> QED BY <2>1, <2>2, RunReads
<1> QED BY <1>1, <1>3, RunSays DEF Relays!RunTurn

(* a step of the agent begins a session, ends one or goes on with one,       *)
LEMMA AgentRelays ==
    ASSUME ProxyInv, AgentStep
    PROVE  Relays!RelayNext \/ UNCHANGED <<Carried, asked, heard, told, got>>
<1>0. Types
    BY DEF ProxyInv
<1>1. UNCHANGED <<asked, heard, told, got>>
    BY DEF AgentStep, Accept, HandleGetLastSync, HandleSetLastSync, HandleShutdown, StartProxy,
           ForwardUp, ProbeOnly, ForwardDown, SessionError, AgentFrame
<1>2. CASE StartProxy
    <2>1. /\ agent.pc = "request" /\ agent'.pc = "client" /\ agent'.sock = agent.sock
          /\ toAgent[agent.sock] # << >> /\ Head(toAgent[agent.sock]).kind = "StartProxy"
        BY <1>0, <1>2 DEF StartProxy, TakeRequest, Types, AgentTypes, AgentRecord
    <2>2. agent.sock \in Socket /\ toAgent[agent.sock] \in Seq(Message)
        BY <1>0, <2>1, AgentHas DEF Types, SocketTypes
    <2>3. 1 \in 1 .. Len(toAgent[agent.sock]) /\ Head(toAgent[agent.sock]) = toAgent[agent.sock][1]
        BY <2>1, <2>2, EmptySeq
    <2>4. agent.sock[2] = "proxy"
        BY <2>1, <2>2, <2>3 DEF ProxyInv, MailOK
    <2>5. PICK c \in Client : agent.sock = Proxy(c) /\ agent.sock[1] = c
        BY <2>2, <2>4, ProxyIs, SocketOf
    <2>6. Unheard(c)
        BY <2>1, <2>5 DEF ProxyInv, SessionOK, WaitingOK, Waits
    <2>7. Carried = Nobody /\ Carried' = c
        BY <2>1, <2>5 DEF Carried
    <2> QED BY <1>1, <2>6, <2>7 DEF Unheard, Relays!RelayNext, Relays!Begin
<1>3. CASE ~StartProxy
    <2>1. \/ agent' = agent
          \/ agent'.pc \notin {"client", "daemon"}
          \/ /\ agent.pc \in {"client", "daemon"} /\ agent'.pc \in {"client", "daemon"}
             /\ agent'.sock = agent.sock
        <3>1. CASE ForwardUp
            BY <1>0, <3>1 DEF ForwardUp, Types, AgentTypes, AgentRecord
        <3>2. CASE ForwardDown
            BY <1>0, <3>2 DEF ForwardDown, DropSession, ServeNext, Resting, Types, AgentTypes,
                              AgentRecord
        <3>3. CASE HandleGetLastSync \/ HandleSetLastSync \/ HandleShutdown
            BY <3>3 DEF HandleGetLastSync, HandleSetLastSync, HandleShutdown, Respond, DropSession,
                        ServeNext, Resting
        <3>4. CASE Accept
            BY <3>4 DEF Accept, Resting
        <3>5. CASE ProbeOnly
            BY <3>5 DEF ProbeOnly, ServeNext, Resting
        <3>6. CASE SessionError
            BY <3>6 DEF SessionError, DropSession, ServeNext, Resting
        <3> QED BY <1>3, <3>1, <3>2, <3>3, <3>4, <3>5, <3>6 DEF AgentStep
    <2>2. Carried' = Carried \/ Carried' = Nobody
        BY <2>1 DEF Carried
    <2> QED BY <1>1, <2>2 DEF Relays!RelayNext, Relays!End
<1> QED BY <1>2, <1>3

(* and a step of the daemon's thread is its turn in the session carried.     *)
LEMMA DaemonTurns ==
    ASSUME Types, WireOK, Transparent', DaemonStep
    PROVE  \E c \in Client : Relays!DaemonTurn(c)
<1>1. PICK c \in Client : c = agent.sock[1]
    BY DaemonServes
<1>2. Carried = c /\ UNCHANGED <<Carried, asked, got>>
    BY <1>1, DaemonServes, DaemonQuiet DEF Carried, Speaks
<1>3. /\ heard \in [Client -> Seq(Word)] /\ heard[c] \in Seq(Word) /\ asked[c] \in Seq(Word)
      /\ told \in [Client -> Seq(Word)] /\ told[c] \in Seq(Word)
    BY DEF Types, HistoryTypes
<1>4. heard' = heard \/ \E w \in Word : heard' = [heard EXCEPT ![c] = Append(@, w)]
    <2>1. ASSUME NEW kind \in Word, DaemonReads(kind)
          PROVE  heard' = [heard EXCEPT ![c] = Append(@, kind)]
        BY <1>1, <2>1, DaemonServes DEF DaemonReads
    <2> QED BY <2>1, WordsKnown DEF DaemonStep, DaemonAnswers, DaemonTakesFile, DaemonBuilds
<1>5. told' = told \/ \E w \in Word : told' = [told EXCEPT ![c] = Append(@, w)]
    <2>1. CASE DaemonAnswers
        <3>1. PICK kind, answer \in Word : DaemonReads(kind) /\ DaemonSends(answer, Head(wsUp).of)
            BY <2>1, WordsKnown, AnswersKnown DEF DaemonAnswers
        <3>2. Head(wsUp).of = c
            BY <1>1, <3>1, DaemonServes DEF DaemonReads
        <3> QED BY <3>1, <3>2 DEF DaemonSends
    <2>2. CASE DaemonTakesFile
        BY <2>2 DEF DaemonTakesFile
    <2>3. CASE DaemonBuilds
        <3>1. daemon.of = c
            BY <1>1, <2>3, DaemonServes DEF DaemonBuilds
        <3> QED BY <2>3, <3>1, WordsKnown DEF DaemonBuilds, DaemonSends
    <2> QED BY <2>1, <2>2, <2>3 DEF DaemonStep
<1>6. /\ Relays!ReadsOn(heard[c], asked[c], heard'[c])
      /\ \A d \in Client : d # c => heard'[d] = heard[d]
    <2>1. CASE heard' = heard
        BY <2>1 DEF Relays!ReadsOn
    <2>2. ASSUME NEW w \in Word, heard' = [heard EXCEPT ![c] = Append(@, w)]
          PROVE  /\ Relays!ReadsOn(heard[c], asked[c], heard'[c])
                 /\ \A d \in Client : d # c => heard'[d] = heard[d]
        <3>1. heard'[c] = Append(heard[c], w) /\ \A d \in Client : d # c => heard'[d] = heard[d]
            BY <1>3, <2>2
        <3>2. Begins(Append(heard[c], w), asked[c])
            BY <1>2, <3>1 DEF Transparent
        <3> QED BY <1>3, <3>1, <3>2, NextWord
    <2> QED BY <1>4, <2>1, <2>2
<1>7. /\ Relays!Continues(told[c], told'[c])
      /\ \A d \in Client : d # c => told'[d] = told[d]
    <2>1. CASE told' = told
        BY <1>3, <2>1, SaysMore, EmptySeq
    <2>2. ASSUME NEW w \in Word, told' = [told EXCEPT ![c] = Append(@, w)]
          PROVE  /\ Relays!Continues(told[c], told'[c])
                 /\ \A d \in Client : d # c => told'[d] = told[d]
        BY <1>3, <2>2, SaysOne
    <2> QED BY <1>5, <2>1, <2>2
<1> QED BY <1>2, <1>6, <1>7 DEF Relays!DaemonTurn

(* An agent with its sockets, its backlog and one websocket it keeps does    *)
(* what Relay promises: sessions are carried one at a time and begun once,   *)
(* and each side reads next what the other said next.                        *)
THEOREM ProxyRelays == Spec => AgentIsRelay
<1>1. Init => Relays!RelayInit
    BY DEF Init, Resting, Carried, Relays!RelayInit
<1>2. ASSUME ProxyInv, Transparent', [Next]_vars
      PROVE  [Relays!RelayNext]_(Relays!relayVars)
    <2>0. Types /\ WireOK /\ Transparent' /\ \A c \in Client : SessionOK(c)
        BY <1>2 DEF ProxyInv
    <2>1. ASSUME NEW c \in Client, CliStep(c) \/ Abort(c) PROVE Relays!RelayNext
        BY <2>0, <2>1, RunTurns DEF Relays!RelayNext
    <2>2. CASE AgentStep
        BY <1>2, <2>2, AgentRelays DEF Relays!relayVars
    <2>3. CASE DaemonStep
        BY <2>0, <2>3, DaemonTurns DEF Relays!RelayNext
    <2>4. CASE DaemonDrops \/ Done \/ UNCHANGED vars
        <3>1. UNCHANGED <<agent, asked, heard, told, got>>
            BY <2>4 DEF DaemonDrops, Done, vars
        <3> QED BY <3>1 DEF Carried, Relays!relayVars
    <2> QED BY <1>2, <2>1, <2>2, <2>3, <2>4 DEF Next
<1> QED BY <1>1, <1>2, ProxySafety, ProxyTransparent, PTL DEF Spec, AgentIsRelay, Relays!RelaySpec
=============================================================================
