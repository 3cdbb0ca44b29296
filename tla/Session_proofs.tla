--------------------------- MODULE Session_proofs ---------------------------
(* Sessions of the build service, for any number of clients, connections,    *)
(* scopes, paths and contents, and any number of edits, breaks and failures. *)
(* First the conversation: who may have said what when.  Then what the       *)
(* messages, the threads and the directories say of the clients' files.      *)
EXTENDS BuildService_proofs

-----------------------------------------------------------------------------
(* The shapes a queue may have.                                              *)

(* One message, of one of these kinds.                                       *)
One(q, kinds) == Len(q) = 1 /\ Head(q).kind \in kinds

(* One message of these kinds, and the daemon's last word behind it.         *)
Two(q, kinds) == Len(q) = 2 /\ q[1].kind \in kinds /\ q[2].kind = "BuildFinished"

(* The client has sent its SyncDone.                                         *)
Complete(q) == \E i \in 1 .. Len(q) : q[i].kind = "SyncDone"

(* What stream_files sends: files, and SyncDone after the last.              *)
FileStream(q) ==
    \A i \in 1 .. Len(q) :
        \/ q[i].kind = "FileData"
        \/ q[i].kind = "SyncDone" /\ i = Len(q)

(* A message that joins a queue.                                             *)
LEMMA JoinShapes ==
    ASSUME NEW M, NEW q \in Seq(M), NEW m \in M, NEW kinds
    PROVE  /\ Append(q, m) # <<>>
           /\ q = <<>> /\ m.kind \in kinds => One(Append(q, m), kinds)
           /\ One(q, kinds) /\ m.kind = "BuildFinished" => Two(Append(q, m), kinds)
           /\ Complete(Append(q, m)) <=> Complete(q) \/ m.kind = "SyncDone"
           /\ FileStream(q) /\ ~Complete(q) /\ m.kind \in {"FileData", "SyncDone"}
                => FileStream(Append(q, m))
<1>1. /\ Append(q, m) \in Seq(M) /\ Len(Append(q, m)) = Len(q) + 1
      /\ \A i \in 1 .. Len(q) : Append(q, m)[i] = q[i]
      /\ Append(q, m)[Len(q) + 1] = m
      /\ Len(q) \in Nat
    BY AppendProperties, LenProperties
<1>2. Append(q, m) # <<>>
    BY AppendProperties
<1>3. Head(Append(q, m)) = Append(q, m)[1] /\ (q # <<>> => Head(q) = q[1])
    BY <1>1, <1>2, HeadTailProperties
<1>4. q = <<>> <=> Len(q) = 0
    BY EmptySeq, LenProperties
<1> DEFINE r == Append(q, m)
<1> HIDE DEF r
<1>5. /\ Len(r) = Len(q) + 1 /\ \A i \in 1 .. Len(q) : r[i] = q[i]
      /\ r[Len(q) + 1] = m /\ Len(q) \in Nat /\ Head(r) = r[1]
      /\ q # <<>> => Head(q) = q[1]
    BY <1>1, <1>3 DEF r
<1>6. q = <<>> /\ m.kind \in kinds => One(r, kinds)
    BY <1>4, <1>5 DEF One
<1>7. One(q, kinds) /\ m.kind = "BuildFinished" => Two(r, kinds)
    BY <1>4, <1>5 DEF One, Two
<1>8. Complete(r) <=> Complete(q) \/ m.kind = "SyncDone"
    BY <1>5 DEF Complete
<1>9. FileStream(q) /\ ~Complete(q) /\ m.kind \in {"FileData", "SyncDone"} => FileStream(r)
    BY <1>5 DEF Complete, FileStream
<1> QED BY <1>2, <1>6, <1>7, <1>8, <1>9 DEF r

(* A message that leaves a queue.                                            *)
LEMMA LeaveShapes ==
    ASSUME NEW M, NEW q \in Seq(M), q # <<>>, NEW kinds
    PROVE  /\ One(q, kinds) => Head(q).kind \in kinds /\ Tail(q) = <<>>
           /\ Two(q, kinds) => Head(q).kind \in kinds /\ One(Tail(q), {"BuildFinished"})
           /\ Complete(Tail(q)) => Complete(q)
           /\ Complete(q) => Head(q).kind = "SyncDone" \/ Complete(Tail(q))
           /\ Head(q).kind = "SyncDone" => Complete(q)
           /\ FileStream(q) => /\ FileStream(Tail(q))
                               /\ Head(q).kind \in {"FileData", "SyncDone"}
                               /\ Head(q).kind = "SyncDone" => Tail(q) = <<>>
<1>1. /\ Head(q) = q[1] /\ Tail(q) \in Seq(M) /\ Len(Tail(q)) = Len(q) - 1
      /\ \A i \in 1 .. Len(q) - 1 : Tail(q)[i] = q[i + 1]
      /\ Len(q) \in Nat \ {0}
    BY HeadTailProperties, LenProperties, EmptySeq
<1>2. Len(Tail(q)) = 0 => Tail(q) = <<>>
    BY <1>1, EmptySeq
<1>3. Tail(q) # <<>> => Head(Tail(q)) = Tail(q)[1]
    BY <1>1, HeadTailProperties
<1> DEFINE r == Tail(q)
           h == Head(q)
<1> HIDE DEF r, h
<1>4. /\ h = q[1] /\ Len(r) = Len(q) - 1 /\ Len(q) \in Nat \ {0}
      /\ \A i \in 1 .. Len(q) - 1 : r[i] = q[i + 1]
      /\ Len(r) = 0 => r = <<>>
      /\ r # <<>> => Head(r) = r[1]
      /\ Len(<<>>) = 0
    BY <1>1, <1>2, <1>3, EmptySeq DEF r, h
<1>5. One(q, kinds) => h.kind \in kinds /\ r = <<>>
    BY <1>4 DEF One, h
<1>6. Two(q, kinds) => h.kind \in kinds /\ One(r, {"BuildFinished"})
    BY <1>4 DEF One, Two
<1>7. Complete(r) => Complete(q)
    <2> SUFFICES ASSUME NEW i \in 1 .. Len(r), r[i].kind = "SyncDone" PROVE Complete(q)
        BY DEF Complete
    <2>1. i + 1 \in 1 .. Len(q) /\ q[i + 1].kind = "SyncDone"
        BY <1>4
    <2> QED BY <2>1 DEF Complete
<1>8. Complete(q) => h.kind = "SyncDone" \/ Complete(r)
    <2> SUFFICES ASSUME NEW i \in 1 .. Len(q), q[i].kind = "SyncDone", i # 1 PROVE Complete(r)
        BY <1>4 DEF Complete
    <2>1. i - 1 \in 1 .. Len(r) /\ r[i - 1] = q[i]
        BY <1>4
    <2> QED BY <2>1 DEF Complete
<1>9. h.kind = "SyncDone" => Complete(q)
    BY <1>4 DEF Complete
<1>10. FileStream(q) => /\ FileStream(r) /\ h.kind \in {"FileData", "SyncDone"}
                        /\ h.kind = "SyncDone" => r = <<>>
    <2> SUFFICES ASSUME FileStream(q)
                 PROVE  /\ FileStream(r) /\ h.kind \in {"FileData", "SyncDone"}
                        /\ h.kind = "SyncDone" => r = <<>>
        OBVIOUS
    <2>1. h.kind \in {"FileData", "SyncDone"} /\ (h.kind = "SyncDone" => Len(q) = 1)
        BY <1>4 DEF FileStream
    <2>2. ASSUME NEW i \in 1 .. Len(r)
          PROVE  r[i].kind = "FileData" \/ (r[i].kind = "SyncDone" /\ i = Len(r))
        <3>1. i + 1 \in 1 .. Len(q) /\ r[i] = q[i + 1]
            BY <1>4
        <3> QED BY <1>4, <3>1 DEF FileStream
    <2> QED BY <1>4, <2>1, <2>2 DEF FileStream
<1> QED BY <1>5, <1>6, <1>7, <1>8, <1>9, <1>10 DEF r, h

(* The empty queue.                                                          *)
LEMMA EmptyShapes ==
    /\ ~Complete(<<>>) /\ FileStream(<<>>)
    /\ \A kinds : ~One(<<>>, kinds) /\ ~Two(<<>>, kinds)
BY EmptySeq DEF Complete, FileStream, One, Two

-----------------------------------------------------------------------------
(* The conversation.                                                         *)

(* What a thread may find on its connection, whatever became of the client.  *)
MailFits(n) ==
    LET pc == thread[n].pc
        q  == toDaemon[n]
    IN  /\ pc \in {"none", "acquired", "bundle", "insert", "build"} => q = <<>>
        /\ pc \in {"idle", "release"} => q = <<>> \/ One(q, {"Probe"})
        /\ pc = "manifest" => q = <<>> \/ One(q, {"Manifest"})
        /\ pc = "receive" => FileStream(q)

Answers == {"ProbeAccepted", "SyncAck", "NeedFiles", "ProbeMiss", "SlotsBusy"}

(* What tells a CLI at pc that its tree is in place.                         *)
Settling(pc) ==
    CASE pc = "response" -> {"ProbeAccepted", "SyncAck"}
      [] pc = "ack"      -> {"SyncAck"}
      [] OTHER           -> {}

(* What a CLI at pc may find on connection n.                                *)
AnswerFits(pc, n) ==
    LET q == toClient[n] IN
    \/ q = <<>>
    \/ pc = "response" /\ One(q, Answers)
    \/ pc = "needed" /\ One(q, {"NeedFiles"})
    \/ One(q, Settling(pc))
    \/ Two(q, Settling(pc))
    \/ pc = "output" /\ One(q, {"BuildFinished"})

(* Where a CLI at pc and the thread of its connection n stand with each      *)
(* other while the connection is up: what each has sent and the other has    *)
(* not read yet.                                                             *)
Turn(pc, n) ==
    LET up   == toDaemon[n]
        down == toClient[n]
        at   == thread[n].pc
    IN  \/ /\ pc \in {"idle", "scanned", "stamped"} /\ at \in {"idle", "release"}
           /\ up = <<>> /\ down = <<>>
        \/ /\ pc = "response" /\ at \in {"idle", "release"}
           /\ One(up, {"Probe"}) /\ down = <<>>
        \/ /\ pc = "response" /\ at \in {"acquired", "bundle", "unwind"}
           /\ up = <<>> /\ down = <<>>
        \/ /\ pc = "response" /\ at = "manifest"
           /\ up = <<>> /\ One(down, {"ProbeMiss"})
        \/ /\ pc = "response" /\ at = "idle"
           /\ up = <<>> /\ One(down, {"SlotsBusy"})
        \/ /\ pc = "needed" /\ at = "manifest"
           /\ One(up, {"Manifest"}) /\ down = <<>>
        \/ /\ pc \in {"response", "needed"} /\ at = "receive"
           /\ up = <<>> /\ One(down, {"NeedFiles"})
        \/ /\ pc = "stream" /\ at \in {"receive", "unwind"}
           /\ ~Complete(up) /\ down = <<>>
        \/ /\ pc = "ack" /\ at \in {"receive", "unwind"}
           /\ at = "receive" => Complete(up)
           /\ down = <<>>
        \/ /\ at \in {"insert", "build"}
           /\ up = <<>> /\ One(down, Settling(pc))
        \/ /\ at \in {"idle", "release"}
           /\ up = <<>> /\ Two(down, Settling(pc))
        \/ /\ pc = "output" /\ at \in {"insert", "build"}
           /\ up = <<>> /\ down = <<>>
        \/ /\ pc = "output" /\ at \in {"idle", "release"}
           /\ up = <<>> /\ One(down, {"BuildFinished"})

(* A CLI that has a connection: it takes part in the conversation, or the    *)
(* daemon's end is gone and it has yet to read what was sent before that.    *)
Talks(pc, n) ==
    \/ link[n] = "up" /\ Turn(pc, n)
    \/ link[n] = "shut" /\ thread[n].pc = "none" /\ AnswerFits(pc, n)

(* A connection belongs to one CLI.                                          *)
OneCliEach ==
    \A b, c \in Client : cli[b].conn = cli[c].conn /\ cli[b].conn # NoConn => b = c

(* The thread of a connection that is up serves the CLI that holds it.       *)
ServesHolder ==
    \A n \in Conn : link[n] = "up" =>
        /\ thread[n].pc # "none"
        /\ owner[n] \in Client
        /\ cli[owner[n]].conn = n

Conversation ==
    /\ \A n \in Conn : MailFits(n)
    /\ \A c \in Client : cli[c].conn # NoConn => Talks(cli[c].pc, cli[c].conn)
    /\ OneCliEach
    /\ ServesHolder

SessionInv == ServiceInv /\ Conversation

(* While the connection is up, an answer fits, too.                          *)
LEMMA TurnFits ==
    ASSUME NEW pc, NEW n, Turn(pc, n)
    PROVE  AnswerFits(pc, n)
BY DEF Turn, AnswerFits, Answers, One

-----------------------------------------------------------------------------
(* The thread's half.                                                        *)

(* Nothing about a connection other than n has changed.                      *)
OnlyOn(n) ==
    \A m \in Conn : m # n =>
        /\ link'[m] = link[m] /\ owner'[m] = owner[m] /\ thread'[m] = thread[m]
        /\ toDaemon'[m] = toDaemon[m] /\ toClient'[m] = toClient[m]

(* The state thread n is in after a move.                                    *)
LEMMA BecomeLands ==
    ASSUME DaemonTypeOK, NEW n \in Conn, NEW state, Become(n, state)
    PROVE  thread'[n] = state /\ \A m \in Conn : m # n => thread'[m] = thread[m]
BY DEF DaemonTypeOK, Become

(* As above, of a thread that changes its place only.                        *)
LEMMA GotoLands ==
    ASSUME DaemonTypeOK, NEW n \in Conn, NEW pc, Goto(n, pc)
    PROVE  /\ thread'[n] = [thread[n] EXCEPT !.pc = pc]
           /\ thread'[n].pc = pc
           /\ \A m \in Conn : m # n => thread'[m] = thread[m]
BY BecomeLands DEF DaemonTypeOK, Goto

(* A message that goes out on connection n joins the queue while it is up.   *)
LEMMA CarryLands ==
    ASSUME NEW M, NEW q \in [Conn -> Seq(M)], NEW n \in Conn, NEW m
    PROVE  /\ link[n] = "up" => Carry(q, n, m)[n] = Append(q[n], m)
           /\ link[n] # "up" => Carry(q, n, m)[n] = q[n]
           /\ \A k \in Conn : k # n => Carry(q, n, m)[k] = q[k]
BY DEF Carry

(* Where send_msg(..)? leads.                                                *)
LEMMA ReplyLeads ==
    ASSUME DaemonTypeOK, NEW n \in Conn, NEW m, NEW state, Reply(n, m, state)
    PROVE  thread'[n] = state \/ thread'[n].pc = "unwind"
BY BecomeLands, GotoLands DEF Reply

(* send_msg(..)?, seen from both ends.                                       *)
LEMMA ReplyLands ==
    ASSUME NetTypeOK, DaemonTypeOK, NEW n \in Conn, NEW m \in ToClient,
           NEW state \in ThreadRecord, Reply(n, m, state)
    PROVE  /\ \A k \in Conn : k # n => thread'[k] = thread[k] /\ toClient'[k] = toClient[k]
           /\ \/ /\ thread'[n] = state
                 /\ link[n] = "up" => toClient'[n] = Append(toClient[n], m)
                 /\ link[n] # "up" => toClient'[n] = toClient[n]
              \/ /\ link[n] = "shut"
                 /\ thread'[n] = [thread[n] EXCEPT !.pc = "unwind"]
                 /\ thread'[n].pc = "unwind"
                 /\ toClient' = toClient
<1>1. toClient \in [Conn -> Seq(ToClient)]
    BY DEF NetTypeOK
<1>2. CASE toClient' = Carry(toClient, n, m) /\ Become(n, state)
    BY <1>1, <1>2, CarryLands, BecomeLands
<1>3. CASE link[n] = "shut" /\ Goto(n, "unwind") /\ UNCHANGED toClient
    BY <1>3, GotoLands
<1> QED BY <1>2, <1>3 DEF Reply

(* What recv_msg takes off the queue.                                        *)
LEMMA ReadLands ==
    ASSUME NetTypeOK, NEW n \in Conn, NEW kind, Read(n, kind)
    PROVE  /\ toDaemon[n] \in Seq(ToDaemon) /\ toDaemon[n] # <<>>
           /\ Head(toDaemon[n]).kind = kind
           /\ toDaemon'[n] = Tail(toDaemon[n])
           /\ \A m \in Conn : m # n => toDaemon'[m] = toDaemon[m]
BY DEF NetTypeOK, Read, HasMail

(* What a step of thread n has to leave behind, for whatever CLI may be at   *)
(* the other end.                                                            *)
KeepsTurn(n) ==
    /\ MailFits(n)'
    /\ \A pc : link[n] = "up" /\ Turn(pc, n) => Talks(pc, n)'
    /\ OnlyOn(n)
    /\ link'[n] = "up" => /\ link[n] = "up" /\ owner'[n] = owner[n]
                          /\ thread[n].pc # "none" /\ thread'[n].pc # "none"

(* Where nothing about a connection has changed, nor has the talk on it.     *)
LEMMA TalksOn ==
    ASSUME NEW k, NEW pc, Talks(pc, k),
           link'[k] = link[k], thread'[k] = thread[k],
           toDaemon'[k] = toDaemon[k], toClient'[k] = toClient[k]
    PROVE  Talks(pc, k)'
<1>1. Turn(pc, k) => Turn(pc, k)'
    BY DEF Turn
<1>2. AnswerFits(pc, k) => AnswerFits(pc, k)'
    BY DEF AnswerFits
<1> QED BY <1>1, <1>2 DEF Talks

(* An answer: the thread unwinds over a connection that is shut, or it goes  *)
(* on, and it is enough to look at that.                                     *)
LEMMA ReplyKeepsTurn ==
    ASSUME NetTypeOK, DaemonTypeOK, NEW n \in Conn, NEW m \in ToClient,
           NEW state \in ThreadRecord, Reply(n, m, state),
           thread[n].pc # "none", state.pc # "none",
           UNCHANGED <<link, owner>>,
           \A k \in Conn : k # n => toDaemon'[k] = toDaemon[k],
           thread'[n].pc = state.pc => MailFits(n)',
           ASSUME NEW pc, link[n] = "up", Turn(pc, n), thread'[n].pc = state.pc,
                  toClient'[n] = Append(toClient[n], m)
           PROVE  Turn(pc, n)'
    PROVE  KeepsTurn(n)
<1>1. OnlyOn(n)
    BY ReplyLands, ZenonT(40) DEF OnlyOn
<1>2. \/ thread'[n].pc = state.pc
      \/ link[n] = "shut" /\ thread'[n].pc = "unwind"
    BY ReplyLands, ZenonT(40)
<1>3. link[n] = "up" => thread'[n].pc = state.pc /\ toClient'[n] = Append(toClient[n], m)
    BY ReplyLands
<1>4. \A pc : link[n] = "up" /\ Turn(pc, n) => Talks(pc, n)'
    BY <1>3 DEF Talks
<1>5. MailFits(n)'
    BY <1>2 DEF MailFits
<1> QED BY <1>1, <1>2, <1>4, <1>5 DEF KeepsTurn

(* A step that says nothing.                                                 *)
LEMMA SilentKeepsTurn ==
    ASSUME NEW n \in Conn, thread[n].pc # "none", thread'[n].pc # "none",
           \A k \in Conn : k # n => thread'[k] = thread[k],
           UNCHANGED <<link, owner, toClient>>,
           \A k \in Conn : k # n => toDaemon'[k] = toDaemon[k],
           MailFits(n)',
           ASSUME NEW pc, link[n] = "up", Turn(pc, n) PROVE Turn(pc, n)'
    PROVE  KeepsTurn(n)
BY DEF KeepsTurn, OnlyOn, Talks

(* Probe to SyncAck or ProbeAccepted, and on to the build.                   *)
LEMMA ProbeKeepsTurn ==
    ASSUME ServiceInv, NEW n \in Conn, MailFits(n),
           \/ ServeProbe(n) \/ RejectBusy(n) \/ SkipSync(n) \/ StartSync(n)
    PROVE  KeepsTurn(n)
<1>0. NetTypeOK /\ DaemonTypeOK
    BY DEF ServiceInv
<1>d. toClient[n] \in Seq(ToClient)
    BY <1>0 DEF NetTypeOK
<1>1. CASE ServeProbe(n)
    <2>1. /\ thread[n].pc = "idle" /\ thread'[n].pc = "acquired"
          /\ \A k \in Conn : k # n => thread'[k] = thread[k]
        BY <1>0, <1>1, BecomeLands DEF ServeProbe
    <2>2. /\ toDaemon[n] # <<>> /\ toDaemon'[n] = Tail(toDaemon[n])
          /\ toDaemon[n] \in Seq(ToDaemon)
          /\ \A k \in Conn : k # n => toDaemon'[k] = toDaemon[k]
        BY <1>0, <1>1, ReadLands DEF ServeProbe
    <2>3. toDaemon'[n] = <<>>
        BY <2>1, <2>2, LeaveShapes DEF MailFits
    <2>4. UNCHANGED <<link, owner, toClient>>
        BY <1>1 DEF ServeProbe
    <2>5. MailFits(n)'
        BY <2>1, <2>3 DEF MailFits
    <2>6. ASSUME NEW pc, link[n] = "up", Turn(pc, n) PROVE Turn(pc, n)'
        <3>1. pc = "response" /\ toClient[n] = <<>>
            BY <2>1, <2>2, <2>6 DEF Turn
        <3> QED BY <2>1, <2>3, <2>4, <3>1 DEF Turn
    <2> QED BY <2>1, <2>2, <2>4, <2>5, <2>6, SilentKeepsTurn
<1>2. CASE RejectBusy(n)
    <2> DEFINE m == [kind |-> "SlotsBusy"]
               state == At("idle")
    <2>1. m \in ToClient /\ m.kind = "SlotsBusy" /\ state \in ThreadRecord /\ state.pc = "idle"
        BY AtTyped, PlainMessages DEF ThreadStates
    <2>2. Reply(n, m, state) /\ thread[n].pc = "idle" /\ UNCHANGED <<link, owner>>
        BY <1>2 DEF RejectBusy
    <2> HIDE DEF m, state
    <2>3. /\ toDaemon[n] # <<>> /\ toDaemon'[n] = Tail(toDaemon[n])
          /\ toDaemon[n] \in Seq(ToDaemon)
          /\ \A k \in Conn : k # n => toDaemon'[k] = toDaemon[k]
        BY <1>0, <1>2, ReadLands DEF RejectBusy
    <2>4. toDaemon'[n] = <<>>
        BY <2>2, <2>3, LeaveShapes DEF MailFits
    <2>5. thread'[n].pc = state.pc => MailFits(n)'
        BY <2>1, <2>4 DEF MailFits
    <2>6. ASSUME NEW pc, link[n] = "up", Turn(pc, n), thread'[n].pc = state.pc,
                 toClient'[n] = Append(toClient[n], m)
          PROVE  Turn(pc, n)'
        <3>1. pc = "response" /\ toClient[n] = <<>>
            BY <2>2, <2>3, <2>6 DEF Turn
        <3>2. One(toClient'[n], {"SlotsBusy"})
            BY <1>d, <2>1, <2>6, <3>1, JoinShapes
        <3> QED BY <2>1, <2>4, <2>6, <3>1, <3>2 DEF Turn
    <2> QED BY <1>0, <2>1, <2>2, <2>3, <2>5, <2>6, ReplyKeepsTurn
<1>3. CASE SkipSync(n)
    <2> DEFINE m == [kind |-> "ProbeAccepted"]
               state == [thread[n] EXCEPT !.pc = "build"]
    <2>1. /\ m \in ToClient /\ m.kind = "ProbeAccepted"
          /\ state \in ThreadRecord /\ state.pc = "build"
        BY <1>0, AdvanceTyped, PlainMessages DEF ThreadStates
    <2>2. Reply(n, m, state) /\ thread[n].pc = "acquired" /\ UNCHANGED <<link, owner, toDaemon>>
        BY <1>3 DEF SkipSync
    <2> HIDE DEF m, state
    <2>3. thread'[n].pc = state.pc => MailFits(n)'
        BY <2>1, <2>2 DEF MailFits
    <2>4. ASSUME NEW pc, link[n] = "up", Turn(pc, n), thread'[n].pc = state.pc,
                 toClient'[n] = Append(toClient[n], m)
          PROVE  Turn(pc, n)'
        <3>1. pc = "response" /\ toClient[n] = <<>> /\ toDaemon[n] = <<>>
            BY <2>2, <2>4 DEF Turn
        <3>2. m.kind \in Settling(pc)
            BY <2>1, <3>1 DEF Settling
        <3>3. One(toClient'[n], Settling(pc))
            BY <1>d, <2>1, <2>4, <3>1, <3>2, JoinShapes
        <3> QED BY <2>1, <2>2, <2>4, <3>1, <3>3 DEF Turn
    <2> QED BY <1>0, <2>1, <2>2, <2>3, <2>4, ReplyKeepsTurn
<1>4. CASE StartSync(n)
    <2> DEFINE m == [kind |-> "ProbeMiss"]
               state == [thread[n] EXCEPT !.pc = "manifest"]
    <2>1. /\ m \in ToClient /\ m.kind = "ProbeMiss"
          /\ state \in ThreadRecord /\ state.pc = "manifest"
        BY <1>0, AdvanceTyped, PlainMessages DEF ThreadStates
    <2>2. /\ \/ Goto(n, "bundle") /\ UNCHANGED toClient
             \/ Reply(n, m, state)
          /\ thread[n].pc = "acquired" /\ UNCHANGED <<link, owner, toDaemon>>
        BY <1>4 DEF StartSync
    <2> HIDE DEF m, state
    <2>3. CASE Goto(n, "bundle") /\ UNCHANGED toClient
        <3>1. thread'[n].pc = "bundle" /\ \A k \in Conn : k # n => thread'[k] = thread[k]
            BY <1>0, <2>3, GotoLands
        <3>2. MailFits(n)'
            BY <2>2, <3>1 DEF MailFits
        <3>3. ASSUME NEW pc, link[n] = "up", Turn(pc, n) PROVE Turn(pc, n)'
            BY <2>2, <2>3, <3>1, <3>3 DEF Turn
        <3> QED BY <2>2, <2>3, <3>1, <3>2, <3>3, SilentKeepsTurn
    <2>4. CASE Reply(n, m, state)
        <3>1. thread'[n].pc = state.pc => MailFits(n)'
            BY <2>1, <2>2 DEF MailFits
        <3>2. ASSUME NEW pc, link[n] = "up", Turn(pc, n), thread'[n].pc = state.pc,
                     toClient'[n] = Append(toClient[n], m)
              PROVE  Turn(pc, n)'
            <4>1. pc = "response" /\ toClient[n] = <<>> /\ toDaemon[n] = <<>>
                BY <2>2, <3>2 DEF Turn
            <4>2. One(toClient'[n], {"ProbeMiss"})
                BY <1>d, <2>1, <3>2, <4>1, JoinShapes
            <4> QED BY <2>1, <2>2, <3>2, <4>1, <4>2 DEF Turn
        <3> QED BY <1>0, <2>1, <2>2, <2>4, <3>1, <3>2, ReplyKeepsTurn
    <2> QED BY <2>2, <2>3, <2>4
<1> QED BY <1>1, <1>2, <1>3, <1>4

(* Reconcile's answer: SyncAck, or NeedFiles.                                *)
LEMMA ReconcileKeepsTurn ==
    ASSUME ServiceInv, NEW n \in Conn, NEW files \in Tree, NEW ack, NEW unread, NEW stuck,
           Reconcile(n, files, ack, unread, stuck),
           thread[n].pc # "none", UNCHANGED <<link, owner>>,
           \A k \in Conn : k # n => toDaemon'[k] = toDaemon[k],
           toDaemon'[n] = <<>>,
           ASSUME NEW pc, link[n] = "up", Turn(pc, n)
           PROVE  /\ toClient[n] = <<>>
                  /\ pc = "response" \/ (pc = "needed" /\ ~ack)
    PROVE  KeepsTurn(n)
<1>0. NetTypeOK /\ DaemonTypeOK
    BY DEF ServiceInv
<1>d. toClient[n] \in Seq(ToClient)
    BY <1>0 DEF NetTypeOK
<1> DEFINE done == [thread[n] EXCEPT !.pc = "insert", !.files = files]
           wait == [thread[n] EXCEPT !.pc = "receive", !.files = files]
           acked == [kind |-> "SyncAck"]
           asks == [kind |-> "NeedFiles",
                    paths |-> NeededFiles(files, LocalManifest(disk[Workspace(n)], unread))]
<1>1. /\ done \in ThreadRecord /\ done.pc = "insert"
      /\ wait \in ThreadRecord /\ wait.pc = "receive"
    BY <1>0, SyncFieldsTyped, ZenonT(40) DEF ThreadStates
<1>2. /\ acked \in ToClient /\ acked.kind = "SyncAck"
      /\ asks \in ToClient /\ asks.kind = "NeedFiles"
    <2>1. NeededFiles(files, LocalManifest(disk[Workspace(n)], unread)) \in SUBSET Path
        BY DEF NeededFiles, Files
    <2> QED BY <2>1, PlainMessages
<1>3. \/ ack /\ Reply(n, acked, done)
      \/ Reply(n, asks, wait)
    BY DEF Reconcile
<1> HIDE DEF done, wait, acked, asks
<1>4. CASE ack /\ Reply(n, acked, done)
    <2>1. thread'[n].pc = done.pc => MailFits(n)'
        BY <1>1, EmptyShapes DEF MailFits
    <2>2. ASSUME NEW pc, link[n] = "up", Turn(pc, n), thread'[n].pc = done.pc,
                 toClient'[n] = Append(toClient[n], acked)
          PROVE  Turn(pc, n)'
        <3>1. toClient[n] = <<>> /\ pc = "response"
            BY <1>4, <2>2
        <3>2. acked.kind \in Settling(pc)
            BY <1>2, <3>1 DEF Settling
        <3>3. One(Append(toClient[n], acked), Settling(pc))
            BY <1>d, <1>2, <3>1, <3>2, JoinShapes
        <3> QED BY <1>1, <2>2, <3>1, <3>3 DEF Turn
    <2> QED BY <1>0, <1>1, <1>2, <1>4, <2>1, <2>2, ReplyKeepsTurn
<1>5. CASE Reply(n, asks, wait)
    <2>1. thread'[n].pc = wait.pc => MailFits(n)'
        BY <1>1, EmptyShapes DEF MailFits
    <2>2. ASSUME NEW pc, link[n] = "up", Turn(pc, n), thread'[n].pc = wait.pc,
                 toClient'[n] = Append(toClient[n], asks)
          PROVE  Turn(pc, n)'
        <3>1. toClient[n] = <<>> /\ pc \in {"response", "needed"}
            BY <2>2
        <3>2. One(Append(toClient[n], asks), {"NeedFiles"})
            <4>1. asks.kind \in {"NeedFiles"}
                BY <1>2
            <4> QED BY <1>d, <1>2, <3>1, <4>1, JoinShapes, ZenonT(40)
        <3> QED BY <1>1, <2>2, <3>1, <3>2 DEF Turn
    <2> QED BY <1>0, <1>1, <1>2, <1>5, <2>1, <2>2, ReplyKeepsTurn
<1> QED BY <1>3, <1>4, <1>5

(* The sync: bundle, manifest, files.                                        *)
LEMMA SyncKeepsTurn ==
    ASSUME ServiceInv, NEW n \in Conn, MailFits(n),
           \/ \E p \in Path : WriteBundled(n, p)
           \/ Reconciles(n) \/ ReceiveFile(n) \/ AckSync(n)
    PROVE  KeepsTurn(n)
<1>0. NetTypeOK /\ DaemonTypeOK
    BY DEF ServiceInv
<1>d. toClient[n] \in Seq(ToClient)
    BY <1>0 DEF NetTypeOK
<1>1. ASSUME NEW p \in Path, WriteBundled(n, p) PROVE KeepsTurn(n)
    <2>1. /\ thread[n].pc = "bundle" /\ thread'[n].pc = "bundle"
          /\ \A k \in Conn : k # n => thread'[k] = thread[k]
        <3>1. PICK r : Become(n, r) /\ r.pc = thread[n].pc
            BY <1>0, <1>1, BundleFieldTyped DEF WriteBundled
        <3> QED BY <1>0, <1>1, <3>1, BecomeLands DEF WriteBundled
    <2>2. UNCHANGED <<link, owner, toClient, toDaemon>>
        BY <1>1 DEF WriteBundled, netVars
    <2>3. MailFits(n)'
        BY <2>1, <2>2 DEF MailFits
    <2>4. ASSUME NEW pc, link[n] = "up", Turn(pc, n) PROVE Turn(pc, n)'
        BY <2>1, <2>2, <2>4 DEF Turn
    <2> QED BY <2>1, <2>2, <2>3, <2>4, SilentKeepsTurn
<1>2. ASSUME NEW unread, NEW stuck, ReconcileBundled(n, unread, stuck) PROVE KeepsTurn(n)
    <2>1. /\ thread[n].pc = "bundle" /\ Reconcile(n, thread[n].files, TRUE, unread, stuck)
          /\ UNCHANGED <<link, owner, toDaemon>>
        BY <1>2 DEF ReconcileBundled
    <2>2. toDaemon[n] = <<>> /\ thread[n].files \in Tree
        BY <1>0, <2>1 DEF MailFits, DaemonTypeOK
    <2>3. ASSUME NEW pc, link[n] = "up", Turn(pc, n)
          PROVE  toClient[n] = <<>> /\ pc = "response"
        BY <2>1, <2>3 DEF Turn
    <2> QED BY <2>1, <2>2, <2>3, ReconcileKeepsTurn
<1>3. ASSUME NEW unread, NEW stuck, ReconcileManifest(n, unread, stuck) PROVE KeepsTurn(n)
    <2>1. /\ thread[n].pc = "manifest" /\ UNCHANGED <<link, owner>>
          /\ Reconcile(n, Head(toDaemon[n]).files, FALSE, unread, stuck)
        BY <1>3 DEF ReconcileManifest
    <2>2. /\ toDaemon[n] # <<>> /\ toDaemon'[n] = Tail(toDaemon[n])
          /\ toDaemon[n] \in Seq(ToDaemon)
          /\ \A k \in Conn : k # n => toDaemon'[k] = toDaemon[k]
        BY <1>0, <1>3, ReadLands DEF ReconcileManifest
    <2>3. Head(toDaemon[n]).files \in Tree
        BY <1>0, <1>3, ReadTyped, ManifestFields DEF ReconcileManifest
    <2>4. toDaemon'[n] = <<>>
        BY <2>1, <2>2, LeaveShapes DEF MailFits
    <2>5. ASSUME NEW pc, link[n] = "up", Turn(pc, n)
          PROVE  toClient[n] = <<>> /\ pc = "needed"
        BY <2>1, <2>2, <2>5 DEF Turn
    <2> QED BY <2>1, <2>2, <2>3, <2>4, <2>5, ReconcileKeepsTurn
<1>4. CASE ReceiveFile(n)
    <2>1. /\ thread[n].pc = "receive" /\ UNCHANGED <<link, owner, toClient, thread>>
        BY <1>4 DEF ReceiveFile
    <2>2. /\ toDaemon[n] # <<>> /\ toDaemon'[n] = Tail(toDaemon[n])
          /\ toDaemon[n] \in Seq(ToDaemon) /\ Head(toDaemon[n]).kind = "FileData"
          /\ \A k \in Conn : k # n => toDaemon'[k] = toDaemon[k]
        BY <1>0, <1>4, ReadLands DEF ReceiveFile
    <2>3. /\ FileStream(toDaemon'[n])
          /\ Complete(toDaemon'[n]) <=> Complete(toDaemon[n])
        BY <2>1, <2>2, LeaveShapes DEF MailFits
    <2>4. MailFits(n)'
        BY <2>1, <2>3 DEF MailFits
    <2>5. ASSUME NEW pc, link[n] = "up", Turn(pc, n) PROVE Turn(pc, n)'
        <3>1. /\ toClient[n] = <<>>
              /\ \/ pc = "stream" /\ ~Complete(toDaemon[n])
                 \/ pc = "ack" /\ Complete(toDaemon[n])
            BY <2>1, <2>2, <2>5 DEF Turn
        <3> QED BY <2>1, <2>3, <3>1 DEF Turn
    <2> QED BY <2>1, <2>2, <2>4, <2>5, SilentKeepsTurn
<1>5. CASE AckSync(n)
    <2> DEFINE m == [kind |-> "SyncAck"]
               state == [thread[n] EXCEPT !.pc = "insert"]
    <2>1. /\ m \in ToClient /\ m.kind = "SyncAck"
          /\ state \in ThreadRecord /\ state.pc = "insert"
        BY <1>0, AdvanceTyped, PlainMessages DEF ThreadStates
    <2>2. Reply(n, m, state) /\ thread[n].pc = "receive" /\ UNCHANGED <<link, owner>>
        BY <1>5 DEF AckSync
    <2> HIDE DEF m, state
    <2>3. /\ toDaemon[n] # <<>> /\ toDaemon'[n] = Tail(toDaemon[n])
          /\ toDaemon[n] \in Seq(ToDaemon) /\ Head(toDaemon[n]).kind = "SyncDone"
          /\ \A k \in Conn : k # n => toDaemon'[k] = toDaemon[k]
        BY <1>0, <1>5, ReadLands DEF AckSync
    <2>4. toDaemon'[n] = <<>> /\ Complete(toDaemon[n])
        BY <2>2, <2>3, LeaveShapes DEF MailFits
    <2>5. thread'[n].pc = state.pc => MailFits(n)'
        BY <2>1, <2>4 DEF MailFits
    <2>6. ASSUME NEW pc, link[n] = "up", Turn(pc, n), thread'[n].pc = state.pc,
                 toClient'[n] = Append(toClient[n], m)
          PROVE  Turn(pc, n)'
        <3>1. pc = "ack" /\ toClient[n] = <<>>
            BY <2>2, <2>3, <2>4, <2>6 DEF Turn
        <3>2. m.kind \in Settling(pc)
            BY <2>1, <3>1 DEF Settling
        <3>3. One(toClient'[n], Settling(pc))
            BY <1>d, <2>1, <2>6, <3>1, <3>2, JoinShapes
        <3> QED BY <2>1, <2>4, <2>6, <3>1, <3>3 DEF Turn
    <2> QED BY <1>0, <2>1, <2>2, <2>3, <2>5, <2>6, ReplyKeepsTurn
<1> QED BY <1>1, <1>2, <1>3, <1>4, <1>5 DEF Reconciles

(* The build, and the ends a thread may come to.                             *)
LEMMA BuildKeepsTurn ==
    ASSUME ServiceInv, NEW n \in Conn, MailFits(n),
           InsertFingerprint(n) \/ RunBuild(n) \/ Finish(n) \/ PeerGone(n) \/ IoFails(n)
    PROVE  KeepsTurn(n)
<1>0. NetTypeOK /\ DaemonTypeOK
    BY DEF ServiceInv
<1>d. toClient[n] \in Seq(ToClient) /\ toClient \in [Conn -> Seq(ToClient)]
    BY <1>0 DEF NetTypeOK
<1>1. CASE InsertFingerprint(n)
    <2>1. /\ thread[n].pc = "insert" /\ thread'[n].pc = "build"
          /\ \A k \in Conn : k # n => thread'[k] = thread[k]
        BY <1>0, <1>1, GotoLands DEF InsertFingerprint
    <2>2. UNCHANGED <<link, owner, toClient, toDaemon>>
        BY <1>1 DEF InsertFingerprint, netVars
    <2>3. MailFits(n)'
        BY <2>1, <2>2 DEF MailFits
    <2>4. ASSUME NEW pc, link[n] = "up", Turn(pc, n) PROVE Turn(pc, n)'
        BY <2>1, <2>2, <2>4 DEF Turn
    <2> QED BY <2>1, <2>2, <2>3, <2>4, SilentKeepsTurn
<1>2. CASE RunBuild(n)
    <2> DEFINE m == [kind |-> "BuildFinished"]
    <2>1. m \in ToClient /\ m.kind = "BuildFinished"
        BY PlainMessages
    <2>2. /\ thread[n].pc = "build" /\ thread'[n].pc = "release"
          /\ \A k \in Conn : k # n => thread'[k] = thread[k]
        BY <1>0, <1>2, AtTyped, BecomeLands DEF RunBuild, ThreadStates
    <2>3. toClient' = Carry(toClient, n, m) /\ UNCHANGED <<link, owner, toDaemon>>
        BY <1>2 DEF RunBuild
    <2> HIDE DEF m
    <2>4. /\ link[n] = "up" => toClient'[n] = Append(toClient[n], m)
          /\ \A k \in Conn : k # n => toClient'[k] = toClient[k]
        BY <1>d, <2>3, CarryLands
    <2>5. MailFits(n)'
        BY <2>2, <2>3 DEF MailFits
    <2>6. ASSUME NEW pc, link[n] = "up", Turn(pc, n) PROVE Turn(pc, n)'
        <3>1. /\ toDaemon[n] = <<>>
              /\ \/ One(toClient[n], Settling(pc))
                 \/ pc = "output" /\ toClient[n] = <<>>
            BY <2>2, <2>6 DEF Turn
        <3>2. \/ Two(Append(toClient[n], m), Settling(pc))
              \/ pc = "output" /\ One(Append(toClient[n], m), {"BuildFinished"})
            BY <1>d, <2>1, <3>1, JoinShapes
        <3> QED BY <2>2, <2>3, <2>4, <2>6, <3>1, <3>2 DEF Turn
    <2> QED BY <2>2, <2>3, <2>4, <2>5, <2>6 DEF KeepsTurn, OnlyOn, Talks
<1>3. CASE Finish(n)
    <2>1. /\ thread[n].pc = "release" /\ thread'[n].pc = "idle"
          /\ \A k \in Conn : k # n => thread'[k] = thread[k]
        BY <1>0, <1>3, AtTyped, BecomeLands DEF Finish, ThreadStates
    <2>2. UNCHANGED <<link, owner, toClient, toDaemon>>
        BY <1>3 DEF Finish, netVars
    <2>3. MailFits(n)'
        BY <2>1, <2>2 DEF MailFits
    <2>4. ASSUME NEW pc, link[n] = "up", Turn(pc, n) PROVE Turn(pc, n)'
        BY <2>1, <2>2, <2>4 DEF Turn
    <2> QED BY <2>1, <2>2, <2>3, <2>4, SilentKeepsTurn
<1>4. CASE PeerGone(n)
    <2>1. /\ thread[n].pc # "none" /\ thread'[n].pc = "unwind" /\ link[n] = "shut"
          /\ \A k \in Conn : k # n => thread'[k] = thread[k]
        BY <1>0, <1>4, GotoLands DEF PeerGone
    <2>2. UNCHANGED <<link, owner, toClient, toDaemon>>
        BY <1>4 DEF PeerGone, netVars
    <2>3. MailFits(n)'
        BY <2>1 DEF MailFits
    <2> QED BY <2>1, <2>2, <2>3, SilentKeepsTurn
<1>5. CASE IoFails(n)
    <2>1. /\ thread[n].pc \in {"acquired", "bundle", "receive"} /\ thread'[n].pc = "unwind"
          /\ \A k \in Conn : k # n => thread'[k] = thread[k]
        BY <1>0, <1>5, GotoLands DEF IoFails, Writing
    <2>2. UNCHANGED <<link, owner, toClient>>
        BY <1>5 DEF IoFails
    <2>3. /\ \A k \in Conn : k # n => toDaemon'[k] = toDaemon[k]
          /\ \/ thread[n].pc \in {"acquired", "bundle"} /\ toDaemon' = toDaemon
             \/ /\ thread[n].pc = "receive" /\ toDaemon[n] \in Seq(ToDaemon)
                /\ toDaemon[n] # <<>> /\ Head(toDaemon[n]).kind = "FileData"
                /\ toDaemon'[n] = Tail(toDaemon[n])
        BY <1>0, <1>5, <2>1, ReadLands DEF IoFails
    <2>4. MailFits(n)'
        BY <2>1 DEF MailFits
    <2>5. ASSUME NEW pc, link[n] = "up", Turn(pc, n) PROVE Turn(pc, n)'
        <3>1. CASE thread[n].pc \in {"acquired", "bundle"} /\ toDaemon' = toDaemon
            BY <2>1, <2>2, <2>5, <3>1 DEF Turn
        <3>2. CASE thread[n].pc = "receive" /\ toDaemon[n] # <<>>
            <4>1. Complete(toDaemon'[n]) => Complete(toDaemon[n])
                BY <2>3, <3>2, LeaveShapes
            <4> QED BY <2>1, <2>2, <2>5, <3>2, <4>1 DEF Turn
        <3> QED BY <2>3, <3>1, <3>2
    <2> QED BY <2>1, <2>2, <2>3, <2>4, <2>5, SilentKeepsTurn
<1> QED BY <1>1, <1>2, <1>3, <1>4, <1>5

(* The end of serve: the connection is shut, and the CLI at its end has yet  *)
(* to read what was sent.                                                    *)
LEMMA UnwindKeepsTurn ==
    ASSUME ServiceInv, NEW n \in Conn, Unwind(n)
    PROVE  KeepsTurn(n)
<1>0. NetTypeOK /\ DaemonTypeOK
    BY DEF ServiceInv
<1>1. /\ thread[n].pc = "unwind" /\ thread'[n].pc = "none"
      /\ \A k \in Conn : k # n => thread'[k] = thread[k]
    BY <1>0, AtTyped, BecomeLands DEF Unwind, ThreadStates
<1>2. /\ link[n] = "up" => link'[n] = "shut"
      /\ link'[n] # "up"
      /\ \A k \in Conn : k # n => link'[k] = link[k]
    BY <1>0 DEF Unwind, Shut, NetTypeOK
<1>3. /\ toDaemon'[n] = <<>> /\ toClient' = toClient
      /\ \A k \in Conn : k # n => toDaemon'[k] = toDaemon[k] /\ owner'[k] = owner[k]
    BY <1>0 DEF Unwind, NetTypeOK
<1>4. MailFits(n)'
    BY <1>1, <1>3 DEF MailFits
<1>5. ASSUME NEW pc, link[n] = "up", Turn(pc, n) PROVE Talks(pc, n)'
    <2>1. toClient[n] = <<>>
        BY <1>1, <1>5 DEF Turn
    <2> QED BY <1>1, <1>2, <1>3, <1>5, <2>1 DEF Talks, AnswerFits
<1> QED BY <1>1, <1>2, <1>3, <1>4, <1>5 DEF KeepsTurn, OnlyOn

(* Every step of a thread.                                                   *)
LEMMA ThreadKeepsTurn ==
    ASSUME ServiceInv, NEW n \in Conn, MailFits(n), ThreadMoves(n)
    PROVE  KeepsTurn(n) /\ thread[n].pc # "none"
<1>1. thread[n].pc # "none"
    BY MovesOfThread DEF ServeProbe, RejectBusy, SkipSync, StartSync, WriteBundled, Reconciles,
           ReconcileBundled, ReconcileManifest, ReceiveFile, AckSync, InsertFingerprint, RunBuild,
           Finish, PeerGone, Unwind, IoFails, Writing
<1>2. KeepsTurn(n)
    BY MovesOfThread, ProbeKeepsTurn, SyncKeepsTurn, BuildKeepsTurn, UnwindKeepsTurn
<1> QED BY <1>1, <1>2

(* The conversation survives what the daemon does.                           *)
LEMMA DaemonKeepsConversation ==
    ASSUME SessionInv, cli' = cli,
           (\E n \in Conn : ThreadMoves(n)) \/ Restart
    PROVE  Conversation'
<1>0. /\ \A c \in Client : cli[c].conn # NoConn => cli[c].conn \in Conn
      /\ \A c \in Client : cli[c].conn # NoConn => Talks(cli[c].pc, cli[c].conn)
      /\ ServiceInv /\ OneCliEach /\ ServesHolder
      /\ \A n \in Conn : MailFits(n)
    BY DEF SessionInv, ServiceInv, CliTypeOK, Conversation
<1>1. OneCliEach'
    BY <1>0 DEF OneCliEach
<1>2. ASSUME NEW n \in Conn, ThreadMoves(n) PROVE Conversation'
    <2>1. KeepsTurn(n) /\ thread[n].pc # "none"
        BY <1>0, <1>2, ThreadKeepsTurn
    <2>2. \A m \in Conn : MailFits(m)'
        BY <1>0, <2>1 DEF KeepsTurn, OnlyOn, MailFits
    <2>3. ASSUME NEW c \in Client, cli[c].conn # NoConn PROVE Talks(cli[c].pc, cli[c].conn)'
        <3>1. CASE cli[c].conn = n
            <4>1. link[n] = "up" /\ Turn(cli[c].pc, n)
                BY <1>0, <2>1, <2>3, <3>1 DEF Talks
            <4> QED BY <2>1, <3>1, <4>1 DEF KeepsTurn
        <3>2. CASE cli[c].conn # n
            <4> PICK k \in Conn, pc \in {cli[c].pc} : k = cli[c].conn
                BY <1>0, <2>3
            <4>1. OnlyOn(n) /\ k # n /\ Talks(pc, k) /\ UNCHANGED cli
                BY <1>0, <2>1, <2>3, <3>2 DEF KeepsTurn
            <4>2. Talks(pc, k)'
                BY <4>1, TalksOn DEF OnlyOn
            <4> QED BY <4>1, <4>2
        <3> QED BY <3>1, <3>2
    <2>4. ServesHolder'
        BY <1>0, <2>1 DEF KeepsTurn, OnlyOn, ServesHolder
    <2> QED BY <1>1, <2>2, <2>3, <2>4 DEF Conversation
<1>3. CASE Restart
    <2>1. \A n \in Conn : /\ thread'[n].pc = "none" /\ toDaemon'[n] = <<>>
                          /\ link'[n] = "shut" /\ toClient'[n] = toClient[n]
        BY <1>3, AtTyped DEF Restart, ThreadStates
    <2>2. \A n \in Conn : MailFits(n)'
        BY <2>1 DEF MailFits
    <2>3. ASSUME NEW c \in Client, cli[c].conn # NoConn PROVE Talks(cli[c].pc, cli[c].conn)'
        <3>1. cli[c].conn \in Conn /\ AnswerFits(cli[c].pc, cli[c].conn)
            BY <1>0, <2>3, TurnFits DEF Talks
        <3> QED BY <2>1, <3>1 DEF Talks, AnswerFits
    <2>4. ServesHolder'
        BY <2>1 DEF ServesHolder
    <2> QED BY <1>1, <2>2, <2>3, <2>4 DEF Conversation
<1> QED BY <1>2, <1>3

-----------------------------------------------------------------------------
(* The CLI's half.                                                           *)

(* What a step of CLI c has to leave behind, with n its connection, if any:  *)
(* it goes on with the conversation, or it leaves.                           *)
ClientKeeps(c, n) ==
    /\ n \in Conn => MailFits(n)'
    /\ OnlyOn(n)
    /\ thread' = thread /\ owner' = owner
    /\ \A b \in Client : b # c => cli'[b] = cli[b]
    /\ \/ cli'[c].conn = n /\ link' = link /\ (n \in Conn => Talks(cli[c].pc, n)')
       \/ cli'[c].conn = NoConn /\ (n \in Conn => link'[n] # "up")

(* What the CLI takes off its connection.                                    *)
LEMMA ReceiveLands ==
    ASSUME NetTypeOK, NEW c \in Client, NEW n \in Conn, cli[c].conn = n, NEW kind, Receive(c, kind)
    PROVE  /\ toClient[n] \in Seq(ToClient) /\ toClient[n] # <<>>
           /\ Head(toClient[n]).kind = kind
           /\ toClient'[n] = Tail(toClient[n])
           /\ \A k \in Conn : k # n => toClient'[k] = toClient[k]
BY DEF NetTypeOK, Receive, HasMail

(* What the CLI puts on it.                                                  *)
LEMMA SendLands ==
    ASSUME NetTypeOK, NEW c \in Client, NEW n \in Conn, cli[c].conn = n, NEW m \in ToDaemon, Send(c, m)
    PROVE  /\ link[n] = "up" => toDaemon'[n] = Append(toDaemon[n], m)
           /\ link[n] # "up" => toDaemon'[n] = toDaemon[n]
           /\ \A k \in Conn : k # n => toDaemon'[k] = toDaemon[k]
<1>1. toDaemon \in [Conn -> Seq(ToDaemon)]
    BY DEF NetTypeOK
<1> QED BY <1>1, CarryLands DEF Send

(* A CLI whose next record is r.                                             *)
LEMMA CliLands ==
    ASSUME CliTypeOK, NEW c \in Client, NEW r, cli' = [cli EXCEPT ![c] = r]
    PROVE  cli'[c] = r /\ \A b \in Client : b # c => cli'[b] = cli[b]
BY DEF CliTypeOK

(* A CLI that keeps its connection and moves to pc.                          *)
LEMMA CliMoves ==
    ASSUME CliTypeOK, NEW c \in Client, NEW pc,
           cli' = [cli EXCEPT ![c].pc = pc]
    PROVE  /\ cli'[c].conn = cli[c].conn /\ cli'[c].pc = pc
           /\ cli'[c].files = cli[c].files /\ cli'[c].fp = cli[c].fp
           /\ \A b \in Client : b # c => cli'[b] = cli[b]
BY DEF CliTypeOK

(* The probe says what the CLI has seen, and the CLI waits for its answer.   *)
LEMMA ProbeLands ==
    ASSUME CliInv, NEW c \in Client, NEW n \in Conn, SendProbe(c, n)
    PROVE  /\ \E m \in ToDaemon :
                /\ m.kind = "Probe" /\ m.fp = cli[c].fp
                /\ m.speculative => m.files = cli[c].files
                /\ toDaemon'[n] = Append(toDaemon[n], m)
           /\ \A k \in Conn : k # n => toDaemon'[k] = toDaemon[k]
           /\ cli'[c].conn = n /\ cli'[c].pc = "response"
           /\ \A b \in Client : b # c => cli'[b] = cli[b]
<1>1. PICK cmd \in Command, hint \in Hint :
          toDaemon' = [toDaemon EXCEPT ![n] = Append(@,
              IF c \in LegacyClient THEN PlainProbe(cmd, cli[c].fp)
              ELSE Probe(cmd, cli[c].fp, cli[c].files,
                         Bundle(checkout[c], ChangedPaths(cli[c].files, hint))))]
    BY DEF SendProbe
<1> DEFINE bundle == Bundle(checkout[c], ChangedPaths(cli[c].files, hint))
           m == IF c \in LegacyClient THEN PlainProbe(cmd, cli[c].fp)
                ELSE Probe(cmd, cli[c].fp, cli[c].files, bundle)
<1>2. cli[c].fp \in Fingerprint /\ cli[c].files \in Tree /\ checkout[c] \in Checkout
    BY DEF CliInv, CliTypeOK
<1>3. bundle \in Tree
    <2>1. ChangedPaths(cli[c].files, hint) \in SUBSET Path
        BY DEF ChangedPaths, Files
    <2> QED BY <1>2, <2>1, WalksTyped
<1>4. m \in ToDaemon
    BY <1>2, <1>3, ProbeMessages
<1>5. m.kind = "Probe" /\ m.fp = cli[c].fp /\ (m.speculative => m.files = cli[c].files)
    BY DEF PlainProbe, Probe
<1> HIDE DEF m
<1>6. toDaemon' = [toDaemon EXCEPT ![n] = Append(@, m)] /\ toDaemon \in [Conn -> Seq(ToDaemon)]
    BY <1>1 DEF m, CliInv, NetTypeOK
<1>7. toDaemon'[n] = Append(toDaemon[n], m) /\ \A k \in Conn : k # n => toDaemon'[k] = toDaemon[k]
    BY <1>6
<1>8. /\ cli'[c].conn = n /\ cli'[c].pc = "response"
      /\ \A b \in Client : b # c => cli'[b] = cli[b]
    <2> DEFINE asked == [Idle(n) EXCEPT !.pc = "response"]
    <2>1. asked.conn = n /\ asked.pc = "response"
        BY DEF Idle
    <2>2. cli' = [cli EXCEPT ![c] = asked]
        BY DEF SendProbe
    <2> HIDE DEF asked
    <2> QED BY <2>1, <2>2, CliLands DEF CliInv
<1> QED BY <1>4, <1>5, <1>7, <1>8

(* The probe, on a connection that is kept.                                  *)
LEMMA ProbeKeeps ==
    ASSUME SessionInv, NEW c \in Client, NEW n \in Conn, cli[c].conn = n, ProbeOnKept(c),
           UNCHANGED daemonVars
    PROVE  ClientKeeps(c, n)
<1>0. NetTypeOK /\ CliInv /\ Talks(cli[c].pc, n)
    BY DeploymentAssumption DEF SessionInv, ServiceInv, Conversation, CliInv
<1>1. cli[c].pc = "stamped" /\ link[n] = "up" /\ UNCHANGED <<link, owner, toClient, thread>>
    BY DEF ProbeOnKept, daemonVars
<1>2. thread[n].pc \in {"idle", "release"} /\ toDaemon[n] = <<>> /\ toClient[n] = <<>>
    BY <1>0, <1>1 DEF Talks, Turn, Settling, One, Two
<1>3. PICK m \in ToDaemon : m.kind = "Probe" /\ toDaemon'[n] = Append(toDaemon[n], m)
    BY <1>0, ProbeLands DEF ProbeOnKept
<1>4. /\ cli'[c].conn = n /\ cli'[c].pc = "response"
      /\ \A b \in Client : b # c => cli'[b] = cli[b]
      /\ \A k \in Conn : k # n => toDaemon'[k] = toDaemon[k]
    BY <1>0, ProbeLands DEF ProbeOnKept
<1>5. toDaemon[n] \in Seq(ToDaemon)
    BY <1>0 DEF NetTypeOK
<1>6. One(Append(toDaemon[n], m), {"Probe"})
    BY <1>2, <1>3, <1>5, JoinShapes
<1>7. MailFits(n)'
    BY <1>1, <1>2, <1>3, <1>6 DEF MailFits
<1>8. Turn("response", n)'
    BY <1>1, <1>2, <1>3, <1>6 DEF Turn
<1> QED BY <1>1, <1>4, <1>7, <1>8 DEF ClientKeeps, OnlyOn, Talks

(* The CLI reads the daemon's answer.                                        *)
LEMMA ReadingKeeps ==
    ASSUME SessionInv, NEW c \in Client, NEW n \in Conn, cli[c].conn = n,
           SyncSettled(c) \/ LearnNeeded(c) \/ SendManifest(c) \/ EndSession(c),
           UNCHANGED daemonVars
    PROVE  ClientKeeps(c, n)
<1>0. NetTypeOK /\ CliTypeOK /\ Talks(cli[c].pc, n) /\ MailFits(n)
    BY DeploymentAssumption DEF SessionInv, ServiceInv, Conversation
<1>1. CASE SyncSettled(c)
    <2>1. /\ toClient[n] \in Seq(ToClient) /\ toClient[n] # <<>>
          /\ Head(toClient[n]).kind \in Settling(cli[c].pc)
          /\ toClient'[n] = Tail(toClient[n])
          /\ \A k \in Conn : k # n => toClient'[k] = toClient[k]
        BY <1>0, <1>1, ReceiveLands DEF SyncSettled, Settling
    <2>2. /\ cli'[c].conn = n /\ cli'[c].pc = "output"
          /\ \A b \in Client : b # c => cli'[b] = cli[b]
        BY <1>0, <1>1, CliMoves DEF SyncSettled
    <2>3. UNCHANGED <<link, owner, toDaemon, thread>> /\ cli[c].pc \in {"response", "ack"}
        BY <1>1 DEF SyncSettled, daemonVars
    <2>4. AnswerFits("output", n)'
        <3>1. \/ One(toClient[n], Answers) \/ One(toClient[n], Settling(cli[c].pc))
              \/ Two(toClient[n], Settling(cli[c].pc))
            BY <1>0, <2>1, <2>3, TurnFits DEF Talks, AnswerFits
        <3>2. Tail(toClient[n]) = <<>> \/ One(Tail(toClient[n]), {"BuildFinished"})
            BY <2>1, <3>1, LeaveShapes
        <3> QED BY <2>1, <3>2 DEF AnswerFits
    <2>5. Turn(cli[c].pc, n) => Turn("output", n)'
        <3> SUFFICES ASSUME Turn(cli[c].pc, n) PROVE Turn("output", n)'
            OBVIOUS
        <3>1. /\ toDaemon[n] = <<>>
              /\ \/ /\ thread[n].pc \in {"insert", "build"}
                    /\ One(toClient[n], Settling(cli[c].pc))
                 \/ /\ thread[n].pc \in {"idle", "release"}
                    /\ Two(toClient[n], Settling(cli[c].pc))
            BY <2>1, <2>3 DEF Turn, Settling, One
        <3>2. \/ thread[n].pc \in {"insert", "build"} /\ Tail(toClient[n]) = <<>>
              \/ /\ thread[n].pc \in {"idle", "release"}
                 /\ One(Tail(toClient[n]), {"BuildFinished"})
            BY <2>1, <3>1, LeaveShapes
        <3> QED BY <2>1, <2>3, <3>1, <3>2 DEF Turn
    <2>6. Talks("output", n)'
        BY <1>0, <2>3, <2>4, <2>5 DEF Talks
    <2>7. MailFits(n)'
        BY <1>0, <2>3 DEF MailFits
    <2> QED BY <2>1, <2>2, <2>3, <2>6, <2>7 DEF ClientKeeps, OnlyOn
<1>2. CASE LearnNeeded(c)
    <2>1. /\ toClient[n] \in Seq(ToClient) /\ toClient[n] # <<>>
          /\ Head(toClient[n]).kind = "NeedFiles"
          /\ toClient'[n] = Tail(toClient[n])
          /\ \A k \in Conn : k # n => toClient'[k] = toClient[k]
        BY <1>0, <1>2, ReceiveLands DEF LearnNeeded
    <2>2. /\ cli'[c].conn = n /\ cli'[c].pc = "stream"
          /\ \A b \in Client : b # c => cli'[b] = cli[b]
        BY <1>0, <1>2 DEF LearnNeeded, CliTypeOK
    <2>3. UNCHANGED <<link, owner, toDaemon, thread>> /\ cli[c].pc \in {"response", "needed"}
        BY <1>2 DEF LearnNeeded, daemonVars
    <2>4. toClient'[n] = <<>>
        <3>1. \/ One(toClient[n], Answers) \/ One(toClient[n], {"NeedFiles"})
              \/ One(toClient[n], Settling(cli[c].pc)) \/ Two(toClient[n], Settling(cli[c].pc))
            BY <1>0, <2>1, <2>3, TurnFits DEF Talks, AnswerFits
        <3>2. Head(toClient[n]).kind \notin Settling(cli[c].pc)
            BY <2>1, <2>3 DEF Settling
        <3> QED BY <2>1, <3>1, <3>2, LeaveShapes
    <2>5. Turn(cli[c].pc, n) => Turn("stream", n)'
        <3> SUFFICES ASSUME Turn(cli[c].pc, n) PROVE Turn("stream", n)'
            OBVIOUS
        <3>1. \/ thread[n].pc = "receive" /\ toDaemon[n] = <<>>
              \/ One(toClient[n], {"ProbeMiss"}) \/ One(toClient[n], {"SlotsBusy"})
              \/ One(toClient[n], Settling(cli[c].pc)) \/ Two(toClient[n], Settling(cli[c].pc))
            BY <2>1, <2>3 DEF Turn
        <3>2. Head(toClient[n]).kind \notin Settling(cli[c].pc)
            BY <2>1, <2>3 DEF Settling
        <3>3. thread[n].pc = "receive" /\ toDaemon[n] = <<>>
            BY <2>1, <3>1, <3>2, LeaveShapes
        <3> QED BY <2>3, <2>4, <3>3, EmptyShapes DEF Turn
    <2>6. Talks("stream", n)'
        BY <1>0, <2>3, <2>4, <2>5 DEF Talks, AnswerFits
    <2>7. MailFits(n)'
        BY <1>0, <2>3 DEF MailFits
    <2> QED BY <2>1, <2>2, <2>3, <2>6, <2>7 DEF ClientKeeps, OnlyOn
<1>3. CASE SendManifest(c)
    <2> DEFINE m == [kind |-> "Manifest", files |-> BuildManifest(checkout[c])]
    <2>1. /\ toClient[n] \in Seq(ToClient) /\ toClient[n] # <<>>
          /\ Head(toClient[n]).kind = "ProbeMiss"
          /\ toClient'[n] = Tail(toClient[n])
          /\ \A k \in Conn : k # n => toClient'[k] = toClient[k]
        BY <1>0, <1>3, ReceiveLands DEF SendManifest
    <2>2. /\ cli'[c].conn = n /\ cli'[c].pc = "needed"
          /\ \A b \in Client : b # c => cli'[b] = cli[b]
        BY <1>0, <1>3, CliMoves DEF SendManifest
    <2>3. UNCHANGED <<link, owner, thread>> /\ cli[c].pc = "response"
        BY <1>3 DEF SendManifest, daemonVars
    <2>m. m \in ToDaemon /\ m.kind = "Manifest" /\ Send(c, m)
        BY <1>0, <1>3, WalksTyped, PlainMessages DEF CliTypeOK, SendManifest
    <2> HIDE DEF m
    <2>4. /\ link[n] = "up" => toDaemon'[n] = Append(toDaemon[n], m)
          /\ link[n] # "up" => toDaemon'[n] = toDaemon[n]
          /\ \A k \in Conn : k # n => toDaemon'[k] = toDaemon[k]
        BY <1>0, <2>m, SendLands
    <2>5. toClient'[n] = <<>>
        <3>1. \/ One(toClient[n], Answers)
              \/ One(toClient[n], Settling(cli[c].pc)) \/ Two(toClient[n], Settling(cli[c].pc))
            BY <1>0, <2>1, <2>3, TurnFits DEF Talks, AnswerFits
        <3>2. Head(toClient[n]).kind \notin Settling(cli[c].pc)
            BY <2>1, <2>3 DEF Settling
        <3> QED BY <2>1, <3>1, <3>2, LeaveShapes
    <2>6. link[n] = "up" => thread[n].pc = "manifest" /\ One(toDaemon'[n], {"Manifest"})
        <3> SUFFICES ASSUME link[n] = "up"
                     PROVE  thread[n].pc = "manifest" /\ One(toDaemon'[n], {"Manifest"})
            OBVIOUS
        <3>1. \/ thread[n].pc = "manifest" /\ toDaemon[n] = <<>>
              \/ One(toClient[n], {"NeedFiles"}) \/ One(toClient[n], {"SlotsBusy"})
              \/ One(toClient[n], Settling(cli[c].pc)) \/ Two(toClient[n], Settling(cli[c].pc))
            BY <1>0, <2>1, <2>3 DEF Talks, Turn
        <3>2. Head(toClient[n]).kind \notin Settling(cli[c].pc)
            BY <2>1, <2>3 DEF Settling
        <3>3. thread[n].pc = "manifest" /\ toDaemon[n] = <<>>
            BY <2>1, <3>1, <3>2, LeaveShapes
        <3>4. toDaemon[n] \in Seq(ToDaemon)
            BY <1>0 DEF NetTypeOK
        <3>5. One(Append(toDaemon[n], m), {"Manifest"})
            BY <2>m, <3>3, <3>4, JoinShapes
        <3> QED BY <2>4, <3>3, <3>5
    <2>7. Talks("needed", n)'
        BY <1>0, <2>3, <2>5, <2>6 DEF Talks, Turn, AnswerFits
    <2>8. MailFits(n)'
        BY <1>0, <2>3, <2>4, <2>6 DEF MailFits
    <2> QED BY <2>1, <2>2, <2>3, <2>4, <2>7, <2>8 DEF ClientKeeps, OnlyOn
<1>4. CASE EndSession(c)
    <2>1. /\ toClient[n] \in Seq(ToClient) /\ toClient[n] # <<>>
          /\ \/ cli[c].pc = "response" /\ Head(toClient[n]).kind = "SlotsBusy"
             \/ cli[c].pc = "output" /\ Head(toClient[n]).kind = "BuildFinished"
          /\ toClient'[n] = Tail(toClient[n])
          /\ \A k \in Conn : k # n => toClient'[k] = toClient[k]
        BY <1>0, <1>4, ReceiveLands DEF EndSession
    <2>2. UNCHANGED <<owner, toDaemon, thread>>
        BY <1>4 DEF EndSession, daemonVars
    <2>3. /\ \A b \in Client : b # c => cli'[b] = cli[b]
          /\ \/ cli'[c].conn = n /\ cli'[c].pc = "idle" /\ link' = link
             \/ /\ cli'[c].conn = NoConn /\ link'[n] # "up"
                /\ \A k \in Conn : k # n => link'[k] = link[k]
        <3>1. CASE cli' = [cli EXCEPT ![c] = Idle(n)] /\ link' = link
            <4>1. Idle(n).conn = n /\ Idle(n).pc = "idle"
                BY DEF Idle
            <4>2. cli'[c] = Idle(n) /\ \A b \in Client : b # c => cli'[b] = cli[b]
                BY <1>0, <3>1, CliLands
            <4> QED BY <3>1, <4>1, <4>2
        <3>2. CASE cli' = [cli EXCEPT ![c] = Idle(NoConn)] /\ link' = Shut(n)
            <4>1. Idle(NoConn).conn = NoConn
                BY DEF Idle
            <4>2. cli'[c] = Idle(NoConn) /\ \A b \in Client : b # c => cli'[b] = cli[b]
                BY <1>0, <3>2, CliLands
            <4>3. link'[n] # "up" /\ \A k \in Conn : k # n => link'[k] = link[k]
                BY <1>0, <3>2 DEF NetTypeOK, Shut
            <4> QED BY <4>1, <4>2, <4>3
        <3> QED BY <1>4, <3>1, <3>2 DEF EndSession
    <2>4. Head(toClient[n]).kind \notin Settling(cli[c].pc)
        BY <2>1 DEF Settling
    <2>5. toClient'[n] = <<>>
        <3>1. \/ One(toClient[n], Answers) \/ One(toClient[n], {"BuildFinished"})
              \/ One(toClient[n], Settling(cli[c].pc)) \/ Two(toClient[n], Settling(cli[c].pc))
            BY <1>0, <2>1, TurnFits DEF Talks, AnswerFits
        <3> QED BY <2>1, <2>4, <3>1, LeaveShapes
    <2>6. link[n] = "up" => thread[n].pc \in {"idle", "release"} /\ toDaemon[n] = <<>>
        <3> SUFFICES ASSUME link[n] = "up"
                     PROVE  thread[n].pc \in {"idle", "release"} /\ toDaemon[n] = <<>>
            OBVIOUS
        <3>1. \/ thread[n].pc \in {"idle", "release"} /\ toDaemon[n] = <<>>
              \/ One(toClient[n], {"NeedFiles"}) \/ One(toClient[n], {"ProbeMiss"})
              \/ One(toClient[n], Settling(cli[c].pc)) \/ Two(toClient[n], Settling(cli[c].pc))
            BY <1>0, <2>1 DEF Talks, Turn
        <3> QED BY <2>1, <2>4, <3>1, LeaveShapes
    <2>7. link' = link => Talks("idle", n)'
        BY <1>0, <2>2, <2>5, <2>6 DEF Talks, Turn, AnswerFits
    <2>8. MailFits(n)'
        BY <1>0, <2>2 DEF MailFits
    <2>9. OnlyOn(n)
        BY <2>1, <2>2, <2>3 DEF OnlyOn
    <2> QED BY <2>2, <2>3, <2>7, <2>8, <2>9 DEF ClientKeeps
<1> QED BY <1>1, <1>2, <1>3, <1>4

(* The CLI sends what was asked for.                                         *)
LEMMA SendingKeeps ==
    ASSUME SessionInv, NEW c \in Client, NEW n \in Conn, cli[c].conn = n,
           (\E p \in Path : StreamFile(c, p)) \/ SendSyncDone(c),
           UNCHANGED daemonVars
    PROVE  ClientKeeps(c, n)
<1>0. NetTypeOK /\ CliTypeOK /\ Talks(cli[c].pc, n) /\ MailFits(n)
    BY DeploymentAssumption DEF SessionInv, ServiceInv, Conversation
<1>1. UNCHANGED <<link, owner, toClient, thread>> /\ cli[c].pc = "stream"
    BY DEF StreamFile, SendSyncDone, daemonVars
<1>2. /\ toClient[n] = <<>>
      /\ link[n] = "up" => thread[n].pc \in {"receive", "unwind"} /\ ~Complete(toDaemon[n])
    <2>1. Settling("stream") = {}
        BY DEF Settling
    <2> QED BY <1>0, <1>1, <2>1 DEF Talks, Turn, AnswerFits, One, Two
<1>3. toDaemon[n] \in Seq(ToDaemon)
    BY <1>0 DEF NetTypeOK
<1>4. ASSUME NEW m \in ToDaemon, m.kind \in {"FileData", "SyncDone"}, Send(c, m)
      PROVE  /\ MailFits(n)'
             /\ \A k \in Conn : k # n => toDaemon'[k] = toDaemon[k]
             /\ link[n] = "up" => (Complete(toDaemon'[n]) <=> m.kind = "SyncDone")
    <2>1. /\ link[n] = "up" => toDaemon'[n] = Append(toDaemon[n], m)
          /\ link[n] # "up" => toDaemon'[n] = toDaemon[n]
          /\ \A k \in Conn : k # n => toDaemon'[k] = toDaemon[k]
        BY <1>0, <1>4, SendLands
    <2>2. link[n] = "up" => (Complete(toDaemon'[n]) <=> m.kind = "SyncDone")
        <3>1. Complete(Append(toDaemon[n], m)) <=> Complete(toDaemon[n]) \/ m.kind = "SyncDone"
            BY <1>3, JoinShapes
        <3> QED BY <1>2, <2>1, <3>1
    <2>3. CASE link[n] = "up"
        <3>1. FileStream(toDaemon[n]) => FileStream(Append(toDaemon[n], m))
            BY <1>2, <1>3, <1>4, <2>3, JoinShapes
        <3>2. thread[n].pc = "receive" => FileStream(toDaemon'[n])
            BY <1>0, <2>1, <2>3, <3>1 DEF MailFits
        <3>3. MailFits(n)'
            BY <1>1, <1>2, <2>3, <3>2 DEF MailFits
        <3> QED BY <2>1, <2>2, <3>3
    <2>4. CASE link[n] # "up"
        BY <1>0, <1>1, <2>1, <2>4 DEF MailFits
    <2> QED BY <2>1, <2>2, <2>3, <2>4
<1>5. ASSUME NEW p \in Path, StreamFile(c, p) PROVE ClientKeeps(c, n)
    <2>1. /\ cli'[c].conn = n /\ cli'[c].pc = "stream"
          /\ \A b \in Client : b # c => cli'[b] = cli[b]
        BY <1>0, <1>1, <1>5 DEF StreamFile, CliTypeOK
    <2>2. /\ MailFits(n)'
          /\ \A k \in Conn : k # n => toDaemon'[k] = toDaemon[k]
          /\ link[n] = "up" => ~Complete(toDaemon'[n])
        <3>1. CASE checkout[c][p] = Absent
            <4>1. toDaemon' = toDaemon
                BY <1>5, <3>1 DEF StreamFile
            <4> QED BY <1>0, <1>1, <1>2, <4>1 DEF MailFits
        <3>2. CASE checkout[c][p] # Absent
            <4> DEFINE m == [kind |-> "FileData", path |-> p, contents |-> ContentOf[checkout[c][p]]]
            <4>1. ContentOf[checkout[c][p]] \in Content
                BY <1>0, <3>2, SourceTreeAssumption DEF CliTypeOK, Checkout
            <4>2. m \in ToDaemon /\ m.kind = "FileData"
                BY <4>1, PlainMessages
            <4>3. Send(c, m)
                BY <1>5, <3>2 DEF StreamFile
            <4> HIDE DEF m
            <4> QED BY <1>4, <4>2, <4>3
        <3> QED BY <3>1, <3>2
    <2>3. Talks("stream", n)'
        BY <1>0, <1>1, <1>2, <2>2 DEF Talks, Turn, AnswerFits
    <2> QED BY <1>1, <2>1, <2>2, <2>3 DEF ClientKeeps, OnlyOn
<1>6. CASE SendSyncDone(c)
    <2> DEFINE m == [kind |-> "SyncDone"]
    <2>1. /\ cli'[c].conn = n /\ cli'[c].pc = "ack"
          /\ \A b \in Client : b # c => cli'[b] = cli[b]
        BY <1>0, <1>6, CliMoves DEF SendSyncDone
    <2>2. m \in ToDaemon /\ m.kind = "SyncDone" /\ Send(c, m)
        BY <1>6, PlainMessages DEF SendSyncDone
    <2> HIDE DEF m
    <2>3. /\ MailFits(n)'
          /\ \A k \in Conn : k # n => toDaemon'[k] = toDaemon[k]
          /\ link[n] = "up" => Complete(toDaemon'[n])
        BY <1>4, <2>2
    <2>4. Talks("ack", n)'
        BY <1>0, <1>1, <1>2, <2>3 DEF Talks, Turn, AnswerFits
    <2> QED BY <1>1, <2>1, <2>3, <2>4 DEF ClientKeeps, OnlyOn
<1> QED BY <1>5, <1>6

(* The CLI walks its checkout, or goes away.                                 *)
LEMMA LeavingKeeps ==
    ASSUME SessionInv, NEW c \in Client, NEW n, n = cli[c].conn,
           \/ ScanFiles(c) \/ TakeFingerprint(c)
           \/ CannotConnect(c) \/ GiveUp(c) \/ Vanish(c),
           UNCHANGED daemonVars
    PROVE  ClientKeeps(c, n)
<1>0. /\ NetTypeOK /\ CliTypeOK /\ n \in Conn \cup {NoConn}
      /\ n \in Conn => MailFits(n) /\ Talks(cli[c].pc, n)
    BY DeploymentAssumption DEF SessionInv, ServiceInv, Conversation, CliTypeOK
<1>1. CASE ScanFiles(c) \/ TakeFingerprint(c)
    <2>1. UNCHANGED <<link, owner, toDaemon, toClient, thread>>
        BY <1>1 DEF ScanFiles, TakeFingerprint, netVars, daemonVars
    <2>2. /\ cli[c].pc \in {"idle", "scanned"} /\ cli'[c].pc \in {"scanned", "stamped"}
          /\ cli'[c].conn = n /\ \A b \in Client : b # c => cli'[b] = cli[b]
        BY <1>0, <1>1 DEF ScanFiles, TakeFingerprint, CliTypeOK
    <2>3. ASSUME n \in Conn PROVE Talks(cli[c].pc, n)'
        <3>1. toClient[n] = <<>>
            BY <1>0, <2>2, <2>3, TurnFits DEF Talks, AnswerFits, Settling, One, Two
        <3>2. \/ /\ link[n] = "up" /\ thread[n].pc \in {"idle", "release"}
                 /\ toDaemon[n] = <<>>
              \/ link[n] = "shut" /\ thread[n].pc = "none"
            BY <1>0, <2>2, <2>3 DEF Talks, Turn, Settling, One, Two
        <3> QED BY <2>1, <2>2, <3>1, <3>2 DEF Talks, Turn, AnswerFits
    <2>4. n \in Conn => MailFits(n)'
        BY <1>0, <2>1 DEF MailFits
    <2>5. OnlyOn(n)
        BY <2>1 DEF OnlyOn
    <2> QED BY <2>1, <2>2, <2>3, <2>4, <2>5 DEF ClientKeeps
<1>2. CASE CannotConnect(c) \/ GiveUp(c) \/ Vanish(c)
    <2>1. Idle(NoConn).conn = NoConn
        BY DEF Idle
    <2>2. cli' = [cli EXCEPT ![c] = Idle(NoConn)] /\ UNCHANGED <<owner, toDaemon, thread>>
        BY <1>2 DEF CannotConnect, GiveUp, Vanish, netVars, daemonVars
    <2>3. cli'[c].conn = NoConn /\ \A b \in Client : b # c => cli'[b] = cli[b]
        BY <1>0, <2>1, <2>2, CliLands
    <2>4. /\ n \in Conn => link'[n] # "up"
          /\ \A k \in Conn : k # n => link'[k] = link[k] /\ toClient'[k] = toClient[k]
        <3>1. CASE CannotConnect(c)
            BY <1>0, <3>1, DeploymentAssumption DEF CannotConnect, netVars
        <3>2. CASE GiveUp(c)
            BY <1>0, <3>2, DeploymentAssumption DEF GiveUp, Shut, NetTypeOK
        <3>3. CASE Vanish(c)
            BY <1>0, <3>3 DEF Vanish, NetTypeOK
        <3> QED BY <1>2, <3>1, <3>2, <3>3
    <2>5. n \in Conn => MailFits(n)'
        BY <1>0, <2>2 DEF MailFits
    <2>6. OnlyOn(n)
        BY <2>2, <2>4 DEF OnlyOn
    <2> QED BY <2>2, <2>3, <2>4, <2>5, <2>6 DEF ClientKeeps
<1> QED BY <1>1, <1>2

(* Every step of a CLI, but for opening a connection.                        *)
LEMMA CliStepKeeps ==
    ASSUME SessionInv, NEW c \in Client, NEW n, n = cli[c].conn,
           CliSteps(c) \/ ScanFiles(c) \/ GiveUp(c) \/ Vanish(c),
           UNCHANGED daemonVars
    PROVE  ClientKeeps(c, n)
<1>1. CASE \/ ScanFiles(c) \/ TakeFingerprint(c)
           \/ CannotConnect(c) \/ GiveUp(c) \/ Vanish(c)
    BY <1>1, LeavingKeeps
<1>2. CASE ProbeOnKept(c)
    <2>1. n \in Conn
        BY <1>2 DEF ProbeOnKept, SessionInv, ServiceInv, CliTypeOK
    <2> QED BY <1>2, <2>1, ProbeKeeps
<1>3. CASE SyncSettled(c) \/ LearnNeeded(c) \/ SendManifest(c) \/ EndSession(c)
    <2>1. n \in Conn
        BY <1>3 DEF SyncSettled, LearnNeeded, SendManifest, EndSession, SessionInv, ServiceInv, Connected
    <2> QED BY <1>3, <2>1, ReadingKeeps
<1>4. CASE (\E p \in Path : StreamFile(c, p)) \/ SendSyncDone(c)
    <2>1. n \in Conn
        BY <1>4 DEF StreamFile, SendSyncDone, SessionInv, ServiceInv, Connected
    <2> QED BY <1>4, <2>1, SendingKeeps
<1> QED BY <1>1, <1>2, <1>3, <1>4 DEF CliSteps

(* The conversation survives what a CLI does on its connection.              *)
LEMMA ClientKeepsConversation ==
    ASSUME SessionInv, NEW c \in Client, NEW n, n = cli[c].conn, ClientKeeps(c, n)
    PROVE  Conversation'
<1>0. /\ CliTypeOK /\ OneCliEach /\ ServesHolder
      /\ \A k \in Conn : MailFits(k)
      /\ \A b \in Client : cli[b].conn # NoConn => Talks(cli[b].pc, cli[b].conn)
      /\ \A b \in Client : cli[b].conn \in Conn \cup {NoConn}
      /\ NoConn \notin Conn /\ n \in Conn \cup {NoConn}
    BY DeploymentAssumption DEF SessionInv, ServiceInv, Conversation, CliTypeOK
<1>1. /\ n \in Conn => MailFits(n)'
      /\ OnlyOn(n) /\ thread' = thread /\ owner' = owner
      /\ \A b \in Client : b # c => cli'[b] = cli[b]
      /\ \/ cli'[c].conn = n /\ link' = link /\ (n \in Conn => Talks(cli[c].pc, n)')
         \/ cli'[c].conn = NoConn /\ (n \in Conn => link'[n] # "up")
    BY DEF ClientKeeps
<1>2. ASSUME NEW k \in Conn PROVE MailFits(k)'
    BY <1>0, <1>1 DEF OnlyOn, MailFits
<1>3. OneCliEach'
    BY <1>0, <1>1 DEF OneCliEach
<1>4. ASSUME NEW b \in Client, cli'[b].conn # NoConn PROVE Talks(cli[b].pc, cli[b].conn)'
    <2>1. CASE b = c
        <3>1. cli'[c].conn = n /\ n \in Conn /\ Talks(cli[c].pc, n)'
            BY <1>0, <1>1, <1>4, <2>1
        <3> QED BY <2>1, <3>1
    <2>2. CASE b # c
        <3> PICK k \in Conn, pc \in {cli[b].pc} : k = cli[b].conn
            BY <1>0, <1>1, <1>4, <2>2
        <3>1. cli'[b] = cli[b] /\ k # n /\ Talks(pc, k)
            BY <1>0, <1>1, <1>4, <2>2 DEF OneCliEach
        <3>2. /\ link'[k] = link[k] /\ thread'[k] = thread[k]
              /\ toDaemon'[k] = toDaemon[k] /\ toClient'[k] = toClient[k]
            BY <1>1, <3>1 DEF OnlyOn
        <3>3. Talks(pc, k)'
            BY <3>1, <3>2, TalksOn
        <3> QED BY <3>1, <3>3
    <2> QED BY <2>1, <2>2
<1>5. ServesHolder'
    <2> SUFFICES ASSUME NEW k \in Conn, link'[k] = "up"
                 PROVE  /\ thread'[k].pc # "none" /\ owner'[k] \in Client
                        /\ cli'[owner'[k]].conn = k
        BY DEF ServesHolder
    <2>1. CASE k # n
        <3>1. link[k] = "up" /\ owner[k] \in Client /\ cli[owner[k]].conn = k /\ thread[k].pc # "none"
            BY <1>0, <1>1, <2>1 DEF OnlyOn, ServesHolder
        <3> QED BY <1>1, <2>1, <3>1
    <2>2. CASE k = n
        <3>1. link[n] = "up" /\ cli'[c].conn = n
            BY <1>1, <2>2
        <3>2. owner[n] \in Client /\ cli[owner[n]].conn = n /\ thread[n].pc # "none"
            BY <1>0, <2>2, <3>1 DEF ServesHolder
        <3>3. owner[n] = c
            BY <1>0, <2>2, <3>2 DEF OneCliEach
        <3> QED BY <1>1, <2>2, <3>1, <3>2, <3>3
    <2> QED BY <2>1, <2>2
<1> QED BY <1>2, <1>3, <1>4, <1>5 DEF Conversation

(* A connection that has just been opened carries the probe and nothing      *)
(* else.                                                                     *)
LEMMA FreshKeepsConversation ==
    ASSUME SessionInv, NEW c \in Client, NEW n \in Conn, ProbeOnFresh(c, n)
    PROVE  Conversation'
<1>0. /\ NetTypeOK /\ DaemonTypeOK /\ CliInv /\ OneCliEach /\ ServesHolder
      /\ \A k \in Conn : MailFits(k)
      /\ \A b \in Client : cli[b].conn # NoConn => Talks(cli[b].pc, cli[b].conn)
      /\ \A b \in Client : cli[b].conn \in Conn \cup {NoConn}
      /\ NoConn \notin Conn
    BY DeploymentAssumption DEF SessionInv, ServiceInv, Conversation, CliTypeOK, CliInv
<1>1. /\ cli[c].conn = NoConn /\ thread[n].pc = "none" /\ link[n] = "shut"
      /\ \A b \in Client : cli[b].conn # n
      /\ link'[n] = "up" /\ owner'[n] = c /\ toClient'[n] = <<>>
      /\ \A k \in Conn : k # n => link'[k] = link[k] /\ owner'[k] = owner[k] /\ toClient'[k] = toClient[k]
    BY <1>0 DEF ProbeOnFresh, NetTypeOK
<1>2. thread'[n].pc = "idle" /\ \A k \in Conn : k # n => thread'[k] = thread[k]
    BY <1>0, GotoLands DEF ProbeOnFresh
<1>3. PICK m \in ToDaemon : m.kind = "Probe" /\ toDaemon'[n] = Append(toDaemon[n], m)
    BY <1>0, ProbeLands DEF ProbeOnFresh
<1>4. /\ cli'[c].conn = n /\ cli'[c].pc = "response"
      /\ \A b \in Client : b # c => cli'[b] = cli[b]
      /\ \A k \in Conn : k # n => toDaemon'[k] = toDaemon[k]
    BY <1>0, ProbeLands DEF ProbeOnFresh
<1>5. toDaemon[n] \in Seq(ToDaemon) /\ toDaemon[n] = <<>>
    BY <1>0, <1>1 DEF NetTypeOK, MailFits
<1>6. One(toDaemon'[n], {"Probe"})
    BY <1>3, <1>5, JoinShapes
<1>7. OnlyOn(n)
    BY <1>1, <1>2, <1>4 DEF OnlyOn
<1>8. ASSUME NEW k \in Conn PROVE MailFits(k)'
    BY <1>0, <1>2, <1>6, <1>7 DEF OnlyOn, MailFits
<1>9. ASSUME NEW b \in Client, cli'[b].conn # NoConn PROVE Talks(cli[b].pc, cli[b].conn)'
    <2>1. CASE b = c
        <3>1. Turn("response", n)'
            BY <1>1, <1>2, <1>6 DEF Turn
        <3> QED BY <1>1, <1>4, <2>1, <3>1 DEF Talks
    <2>2. CASE b # c
        <3> PICK k \in Conn, pc \in {cli[b].pc} : k = cli[b].conn
            BY <1>0, <1>4, <1>9, <2>2
        <3>1. cli'[b] = cli[b] /\ k # n /\ Talks(pc, k)
            BY <1>0, <1>1, <1>4, <1>9, <2>2
        <3>2. /\ link'[k] = link[k] /\ thread'[k] = thread[k]
              /\ toDaemon'[k] = toDaemon[k] /\ toClient'[k] = toClient[k]
            BY <1>7, <3>1 DEF OnlyOn
        <3>3. Talks(pc, k)'
            BY <3>1, <3>2, TalksOn
        <3> QED BY <3>1, <3>3
    <2> QED BY <2>1, <2>2
<1>10. OneCliEach'
    BY <1>0, <1>1, <1>4 DEF OneCliEach
<1>11. ServesHolder'
    <2> SUFFICES ASSUME NEW k \in Conn, link'[k] = "up"
                 PROVE  /\ thread'[k].pc # "none" /\ owner'[k] \in Client
                        /\ cli'[owner'[k]].conn = k
        BY DEF ServesHolder
    <2>1. CASE k # n
        <3>1. /\ link[k] = "up" /\ owner[k] \in Client /\ cli[owner[k]].conn = k
              /\ thread[k].pc # "none" /\ owner'[k] = owner[k] /\ thread'[k] = thread[k]
            BY <1>0, <1>7, <2>1 DEF OnlyOn, ServesHolder
        <3>2. owner[k] # c
            BY <1>0, <1>1, <3>1
        <3> QED BY <1>4, <3>1, <3>2
    <2>2. CASE k = n
        BY <1>1, <1>2, <1>4, <2>2
    <2> QED BY <2>1, <2>2
<1> QED BY <1>8, <1>9, <1>10, <1>11 DEF Conversation

-----------------------------------------------------------------------------
(* The conversation, always.                                                 *)

(* Nobody is connected at the start.                                         *)
LEMMA InitSession == Init => SessionInv
<1> SUFFICES ASSUME Init PROVE SessionInv
    OBVIOUS
<1>1. ServiceInv
    BY InitInv
<1>2. /\ \A c \in Client : cli[c].conn = NoConn
      /\ \A n \in Conn : link[n] = "shut" /\ toDaemon[n] = <<>> /\ thread[n].pc = "none"
    BY AtTyped DEF Init, CliInit, NetInit, DaemonInit, Idle, At
<1>3. Conversation
    BY <1>2 DEF Conversation, MailFits, OneCliEach, ServesHolder
<1> QED BY <1>1, <1>3 DEF SessionInv

(* A step that leaves the CLIs' records, the network and the threads alone.  *)
LEMMA AsideKeepsConversation ==
    ASSUME Conversation, UNCHANGED <<cli, netVars, thread>>
    PROVE  Conversation'
<1>1. UNCHANGED <<link, owner, toDaemon, toClient>>
    BY DEF netVars
<1>2. ASSUME NEW n \in Conn PROVE MailFits(n)'
    BY <1>1 DEF Conversation, MailFits
<1>3. ASSUME NEW c \in Client, cli'[c].conn # NoConn PROVE Talks(cli[c].pc, cli[c].conn)'
    <2> PICK k, pc : k = cli[c].conn /\ pc = cli[c].pc
        OBVIOUS
    <2>1. Talks(pc, k)
        BY <1>3 DEF Conversation
    <2>2. Talks(pc, k)'
        BY <1>1, <2>1, TalksOn
    <2> QED BY <2>2
<1>4. OneCliEach' /\ ServesHolder'
    BY <1>1 DEF Conversation, OneCliEach, ServesHolder
<1> QED BY <1>2, <1>3, <1>4 DEF Conversation

(* Every step of the service.                                                *)
LEMMA NextSession == SessionInv /\ [Next]_vars => SessionInv'
<1> SUFFICES ASSUME SessionInv, [Next]_vars PROVE SessionInv'
    OBVIOUS
<1>0. ServiceInv' /\ Conversation
    BY NextInv DEF SessionInv
<1> SUFFICES Conversation'
    BY <1>0 DEF SessionInv
<1>1. ASSUME NEW c \in Client, CliSteps(c) \/ ScanFiles(c) \/ GiveUp(c) \/ Vanish(c),
             UNCHANGED daemonVars
      PROVE  Conversation'
    BY <1>1, CliStepKeeps, ClientKeepsConversation
<1>2. ASSUME NEW c \in Client, BeginAttempt(c) \/ ClientStep(c) \/ NoticeShut(c)
      PROVE  Conversation'
    BY <1>1, <1>2, FreshKeepsConversation DEF BeginAttempt, ClientStep, NoticeShut
<1>3. ASSUME NEW n \in Conn, DaemonStep(n)
      PROVE  Conversation'
    BY <1>3, DaemonKeepsConversation DEF DaemonStep, BlockedFails, ThreadMoves, cliVars
<1>4. CASE EditStep
    BY <1>0, <1>4, AsideKeepsConversation DEF EditStep, Edit, daemonVars
<1>5. CASE BreakStep
    BY <1>1, <1>5 DEF BreakStep
<1>6. CASE FailStep
    BY <1>6, DaemonKeepsConversation DEF FailStep, Overlook, ThreadMoves, cliVars
<1>7. CASE UNCHANGED vars
    BY <1>0, <1>7, AsideKeepsConversation DEF vars, cliVars, daemonVars
<1> QED BY <1>2, <1>3, <1>4, <1>5, <1>6, <1>7 DEF Next

(* The two sides keep to the conversation, whatever breaks.                  *)
THEOREM SessionSafety == Spec => []SessionInv
BY InitSession, NextSession, PTL DEF Spec

(* Neither the daemon nor a CLI ever meets a message it has no case for, in  *)
(* the first session of a connection or in a later one.                      *)
THEOREM SessionMessages == Spec => []NoUnexpectedMessage
<1>1. SessionInv => NoUnexpectedMessage
    <2> SUFFICES ASSUME SessionInv PROVE NoUnexpectedMessage
        OBVIOUS
    <2>0. NetTypeOK /\ CliTypeOK /\ Conversation
        BY DEF SessionInv, ServiceInv
    <2>1. ASSUME NEW n \in Conn, HasMail(toDaemon, n)
          PROVE  Head(toDaemon[n]).kind \in
                    CASE thread[n].pc = "manifest" -> {"Manifest"}
                      [] thread[n].pc = "receive"  -> {"FileData", "SyncDone"}
                      [] thread[n].pc = "idle"     -> {"Probe"}
                      [] OTHER                     -> ClientKinds
        <3>1. toDaemon[n] \in Seq(ToDaemon) /\ toDaemon[n] # <<>> /\ MailFits(n)
            BY <2>0, <2>1 DEF NetTypeOK, Conversation, HasMail
        <3>2. Head(toDaemon[n]) \in ToDaemon
            BY <3>1, HeadTailProperties
        <3>3. Head(toDaemon[n]).kind \in ClientKinds
            BY <3>2 DEF ToDaemon, ClientKinds
        <3>4. thread[n].pc = "receive" => Head(toDaemon[n]).kind \in {"FileData", "SyncDone"}
            BY <3>1, LeaveShapes DEF MailFits
        <3> QED BY <3>1, <3>3, <3>4 DEF MailFits, One
    <2>2. ASSUME NEW c \in Client, cli[c].conn # NoConn, HasMail(toClient, cli[c].conn)
          PROVE  Head(toClient[cli[c].conn]).kind \in
                    CASE cli[c].pc = "response" -> {"ProbeAccepted", "SyncAck", "NeedFiles",
                                                    "ProbeMiss", "SlotsBusy"}
                      [] cli[c].pc = "needed"   -> {"NeedFiles", "SlotsBusy"}
                      [] cli[c].pc = "ack"      -> {"SyncAck"}
                      [] cli[c].pc = "output"   -> {"BuildFinished"}
                      [] OTHER                  -> {}
        <3> DEFINE q == toClient[cli[c].conn]
                   pc == cli[c].pc
        <3>1. q \in Seq(ToClient) /\ q # <<>>
            BY <2>0, <2>2 DEF NetTypeOK, CliTypeOK, HasMail
        <3>2. AnswerFits(pc, cli[c].conn)
            BY <2>0, <2>2, TurnFits DEF Conversation, Talks
        <3>3. \/ pc = "response" /\ One(q, Answers)
              \/ pc = "needed" /\ One(q, {"NeedFiles"})
              \/ One(q, Settling(pc)) \/ Two(q, Settling(pc))
              \/ pc = "output" /\ One(q, {"BuildFinished"})
            BY <3>1, <3>2 DEF AnswerFits
        <3> HIDE DEF q, pc
        <3>4. \/ pc = "response" /\ Head(q).kind \in Answers
              \/ pc = "needed" /\ Head(q).kind = "NeedFiles"
              \/ Head(q).kind \in Settling(pc)
              \/ pc = "output" /\ Head(q).kind = "BuildFinished"
            BY <3>1, <3>3, LeaveShapes
        <3> QED BY <3>4 DEF Answers, Settling, q, pc
    <2> QED BY <2>1, <2>2 DEF NoUnexpectedMessage
<1> QED BY <1>1, SessionSafety, PTL

(* While a connection is up and empty, its CLI and its thread are never both *)
(* in a receive.                                                             *)
THEOREM SessionTurns == Spec => []TurnsAgree
<1>1. SessionInv => TurnsAgree
    <2> SUFFICES ASSUME SessionInv, NEW c \in Client, NEW n, n = cli[c].conn,
                        cli[c].pc \in {"response", "needed", "ack", "output"},
                        link[n] = "up", toClient[n] = <<>>, toDaemon[n] = <<>>
                 PROVE  thread[n].pc \notin {"none", "idle", "manifest", "receive"}
        BY DEF TurnsAgree, HasMail
    <2>1. n \in Conn /\ n # NoConn
        BY DeploymentAssumption DEF SessionInv, ServiceInv, Connected
    <2>2. Turn(cli[c].pc, n)
        BY <2>1 DEF SessionInv, Conversation, Talks
    <2> QED BY <2>2, EmptyShapes DEF Turn
<1> QED BY <1>1, SessionSafety, PTL
-----------------------------------------------------------------------------
(* What the files are.  Everything a CLI, a message or a thread says of the  *)
(* tree of client c is true of every path that c has not edited since its    *)
(* attempt began.                                                            *)

TrueFiles(t, c) == \A p \in Path : p \notin drift[c] => t[p] = BuildManifest(checkout[c])[p]

TrueStats(fp, c) == \A p \in Path : p \notin drift[c] => fp[p] = FingerprintOf(checkout[c])[p]

CliTrue(c) ==
    /\ cli[c].pc \in {"scanned", "stamped"} => TrueFiles(cli[c].files, c)
    /\ cli[c].pc = "stamped" => TrueStats(cli[c].fp, c)

MessageTrue(m, c) ==
    /\ m.kind = "Probe" => TrueStats(m.fp, c) /\ (m.speculative => TrueFiles(m.files, c))
    /\ m.kind = "Manifest" => TrueFiles(m.files, c)
    /\ m.kind = "FileData" /\ m.path \notin drift[c] =>
          m.contents = BuildManifest(checkout[c])[m.path]

MailTrue(n) == \A i \in 1 .. Len(toDaemon[n]) : MessageTrue(toDaemon[n][i], owner[n])

Syncing == {"acquired", "bundle", "manifest", "receive", "insert"}

ThreadTrue(n) ==
    LET at == thread[n] IN
    /\ at.pc \in Syncing => TrueStats(at.fp, owner[n])
    /\ at.pc \in {"bundle", "receive", "insert"} => TrueFiles(at.files, owner[n])
    /\ at.pc = "acquired" /\ at.speculative => TrueFiles(at.files, owner[n])

(* The directory has what the manifest says of p, as SyncExact means it.     *)
InPlace(n, p) ==
    \/ disk[Workspace(n)].file[p] = thread[n].files[p]
    \/ p \in TargetPath /\ thread[n].files[p] = Absent

OnItsWay(n, p) ==
    \E i \in 1 .. Len(toDaemon[n]) : toDaemon[n][i].kind = "FileData" /\ toDaemon[n][i].path = p

(* The CLI has yet to read that p is needed, or has yet to send it.          *)
AskedFor(n, p) ==
    LET k == cli[owner[n]] IN
    \/ k.pc \in {"response", "needed"} /\ p \in Head(toClient[n]).paths
    \/ k.pc = "stream" /\ p \in k.todo

(* A file that is missing and not on its way: the client will send it, or    *)
(* the sync will not be finished.                                            *)
Outstanding(n, p) ==
    /\ thread[n].files[p] # Absent
    /\ ~Complete(toDaemon[n])
    /\ link[n] = "up" => AskedFor(n, p)

TreeTrue(n) ==
    \A p \in Path : p \notin drift[owner[n]] =>
        /\ thread[n].pc = "receive" => InPlace(n, p) \/ OnItsWay(n, p) \/ Outstanding(n, p)
        /\ thread[n].pc = "insert" => InPlace(n, p)

ConnTrue(n) == MailTrue(n) /\ ThreadTrue(n) /\ TreeTrue(n)

SyncInv ==
    /\ SessionInv
    /\ \A c \in Client : CliTrue(c)
    /\ \A n \in Conn : ConnTrue(n)

-----------------------------------------------------------------------------
(* What is true stays true.                                                  *)

(* The paths that still count have not changed.                              *)
Steady(c) ==
    \A p \in Path : p \notin drift'[c] => p \notin drift[c] /\ checkout'[c][p] = checkout[c][p]

(* A tree, a fingerprint or a message that was true of c still is.           *)
LEMMA StaysTrue ==
    ASSUME NEW c, Steady(c)
    PROVE  /\ \A t : TrueFiles(t, c) => TrueFiles(t, c)'
           /\ \A fp : TrueStats(fp, c) => TrueStats(fp, c)'
           /\ \A m \in ToDaemon : MessageTrue(m, c) => MessageTrue(m, c)'
<1>1. \A p \in Path : p \notin drift'[c] =>
          /\ p \notin drift[c]
          /\ BuildManifest(checkout'[c])[p] = BuildManifest(checkout[c])[p]
          /\ FingerprintOf(checkout'[c])[p] = FingerprintOf(checkout[c])[p]
    BY DEF Steady, BuildManifest, FingerprintOf
<1>2. \A t : TrueFiles(t, c) => TrueFiles(t, c)'
    BY <1>1 DEF TrueFiles
<1>3. \A fp : TrueStats(fp, c) => TrueStats(fp, c)'
    BY <1>1 DEF TrueStats
<1>4. ASSUME NEW m \in ToDaemon, MessageTrue(m, c) PROVE MessageTrue(m, c)'
    <2>1. m.kind = "FileData" => m.path \in Path
        BY FileFields
    <2> QED BY <1>1, <1>2, <1>3, <1>4, <2>1 DEF MessageTrue
<1> QED BY <1>2, <1>3, <1>4

(* A connection on which somebody relies on what the files are.              *)
Relied(n) == toDaemon[n] # <<>> \/ thread[n].pc \in Syncing

(* Who is relied on is a client.                                             *)
LEMMA ReliedOwner ==
    ASSUME SessionInv, NEW n \in Conn, Relied(n)
    PROVE  owner[n] \in Client
BY DEF SessionInv, ServiceInv, Conversation, Authenticated, MailFits, Relied, Syncing

(* A connection nothing happens on, seen from its thread.                    *)
LEMMA ConnFrame ==
    ASSUME NetTypeOK, NEW n \in Conn, ConnTrue(n),
           thread'[n] = thread[n], toDaemon'[n] = toDaemon[n], owner'[n] = owner[n],
           guard'[n] = guard[n],
           thread[n].pc \in {"receive", "insert"} => disk'[Workspace(n)] = disk[Workspace(n)],
           thread[n].pc = "receive" /\ link'[n] = "up" =>
               link[n] = "up" /\ toClient'[n] = toClient[n] /\ cli'[owner[n]] = cli[owner[n]],
           Relied(n) => Steady(owner[n])
    PROVE  ConnTrue(n)'
<1>0. toDaemon[n] \in Seq(ToDaemon) /\ Len(<<>>) = 0
    BY EmptySeq DEF NetTypeOK
<1>1. MailTrue(n)'
    <2>1. ASSUME NEW i \in 1 .. Len(toDaemon[n]) PROVE MessageTrue(toDaemon[n][i], owner[n])'
        <3>1. toDaemon[n] # <<>> /\ toDaemon[n][i] \in ToDaemon
            BY <1>0, ElementOfSeq
        <3>2. PICK m \in ToDaemon : m = toDaemon[n][i]
            BY <3>1
        <3>3. PICK c : c = owner[n]
            OBVIOUS
        <3>4. Steady(c) /\ MessageTrue(m, c)
            BY <3>1, <3>2, <3>3 DEF Relied, ConnTrue, MailTrue
        <3>5. MessageTrue(m, c)'
            BY <3>4, StaysTrue
        <3> QED BY <3>2, <3>3, <3>5
    <2> QED BY <2>1 DEF MailTrue
<1>2. ThreadTrue(n)'
    <2>1. PICK c : c = owner[n]
        OBVIOUS
    <2>2. PICK t : t = thread[n]
        OBVIOUS
    <2>3. /\ t.pc \in Syncing => TrueStats(t.fp, c)
          /\ t.pc \in {"bundle", "receive", "insert"} => TrueFiles(t.files, c)
          /\ t.pc = "acquired" /\ t.speculative => TrueFiles(t.files, c)
          /\ t.pc \in Syncing => Steady(c)
        BY <2>1, <2>2 DEF ConnTrue, ThreadTrue, Relied
    <2>4. /\ t.pc \in Syncing => TrueStats(t.fp, c)'
          /\ t.pc \in {"bundle", "receive", "insert"} => TrueFiles(t.files, c)'
          /\ t.pc = "acquired" /\ t.speculative => TrueFiles(t.files, c)'
        BY <2>3, StaysTrue DEF Syncing
    <2> QED BY <2>1, <2>2, <2>4 DEF ThreadTrue
<1>3. TreeTrue(n)'
    <2> SUFFICES ASSUME NEW p \in Path, p \notin drift'[owner'[n]],
                        thread[n].pc \in {"receive", "insert"}
                 PROVE  /\ thread[n].pc = "receive" => (InPlace(n, p) \/ OnItsWay(n, p) \/ Outstanding(n, p))'
                        /\ thread[n].pc = "insert" => InPlace(n, p)'
        BY DEF TreeTrue
    <2>1. p \notin drift[owner[n]]
        BY DEF Relied, Syncing, Steady
    <2>2. InPlace(n, p) => InPlace(n, p)'
        BY DEF InPlace, Workspace
    <2>3. OnItsWay(n, p) => OnItsWay(n, p)'
        BY DEF OnItsWay
    <2>4. thread[n].pc = "receive" /\ Outstanding(n, p) => Outstanding(n, p)'
        BY DEF Outstanding, AskedFor, Complete
    <2> QED BY <2>1, <2>2, <2>3, <2>4 DEF ConnTrue, TreeTrue
<1> QED BY <1>1, <1>2, <1>3 DEF ConnTrue
-----------------------------------------------------------------------------
(* The daemon's half.                                                        *)

(* No two threads share a directory, so what one does is not seen by another.*)
Touches(n) ==
    \/ disk' = disk
    \/ guard[n] # NoSlot /\ \E d : disk' = [disk EXCEPT ![Workspace(n)] = d]

(* What a thread writes, it writes in its own directory.                     *)
LEMMA ThreadTouches ==
    ASSUME DaemonInv, NEW n \in Conn, ThreadMoves(n)
    PROVE  /\ Touches(n)
           /\ \A k \in Conn : k # n => guard'[k] = guard[k]
<1> USE DEF DaemonInv
<1>1. guard[n] = NoSlot => thread[n].pc \notin {"acquired", "bundle", "manifest", "receive", "build"}
    BY DEF HoldsItsSlot, ThreadStates
<1>2. Touches(n)
    <2>1. CASE \/ ServeProbe(n) \/ RejectBusy(n) \/ SkipSync(n) \/ StartSync(n) \/ AckSync(n)
               \/ InsertFingerprint(n) \/ Finish(n) \/ PeerGone(n) \/ Unwind(n)
        BY <2>1 DEF ServeProbe, RejectBusy, SkipSync, StartSync, AckSync, InsertFingerprint,
                    Finish, PeerGone, Unwind, Touches
    <2>2. ASSUME NEW p \in Path, WriteBundled(n, p) PROVE Touches(n)
        BY <1>1, <2>2 DEF WriteBundled, Touches
    <2>3. CASE Reconciles(n)
        BY <1>1, <2>3 DEF Reconciles, ReconcileBundled, ReconcileManifest, Reconcile, Touches
    <2>4. CASE ReceiveFile(n)
        BY <1>1, <2>4 DEF ReceiveFile, Touches
    <2>5. CASE RunBuild(n)
        <3>1. guard[n] # NoSlot
            BY <1>1, <2>5 DEF RunBuild
        <3>2. \/ disk' = disk
              \/ \E left : disk' = [disk EXCEPT ![Workspace(n)] = CleanTarget(disk[Workspace(n)], left)]
            BY <2>5 DEF RunBuild
        <3> QED BY <3>1, <3>2 DEF Touches
    <2>6. CASE IoFails(n)
        <3>1. guard[n] # NoSlot
            BY <1>1, <2>6 DEF IoFails, Writing
        <3>2. \/ disk' = disk
              \/ \E p : FailedWrite(n, p)
            BY <2>6 DEF IoFails
        <3>3. ASSUME NEW p, FailedWrite(n, p)
              PROVE  \/ disk' = disk
                     \/ disk' = [disk EXCEPT ![Workspace(n)] = WriteFile(disk[Workspace(n)], p, Torn)]
            BY <3>3 DEF FailedWrite
        <3> QED BY <3>1, <3>2, <3>3 DEF Touches
    <2> QED BY <2>1, <2>2, <2>3, <2>4, <2>5, <2>6, MovesOfThread
<1>3. \A k \in Conn : k # n => guard'[k] = guard[k]
    <2>1. CASE ServeProbe(n)
        <3>1. PICK s : guard' = [guard EXCEPT ![n] = s]
            BY <2>1 DEF ServeProbe, TryAcquire
        <3> QED BY <3>1 DEF SlotInv, SlotTypeOK
    <2>2. CASE Finish(n) \/ Unwind(n)
        BY <2>2 DEF Finish, Unwind, DropGuard, slotVars, SlotInv, SlotTypeOK
    <2>3. CASE ~ServeProbe(n) /\ ~Finish(n) /\ ~Unwind(n)
        BY <2>3, MovesOfThread DEF RejectBusy, SkipSync, StartSync, WriteBundled, Reconciles,
                    ReconcileBundled, ReconcileManifest, ReceiveFile, AckSync, InsertFingerprint,
                    RunBuild, IoFails, PeerGone, slotVars
    <2> QED BY <2>1, <2>2, <2>3
<1> QED BY <1>2, <1>3

(* Another thread's directory is another directory.                          *)
LEMMA TouchesOwn ==
    ASSUME WorkspacesDistinct, DaemonInv, NEW n \in Conn, Touches(n),
           NEW k \in Conn, k # n, guard[k] # NoSlot
    PROVE  disk'[Workspace(k)] = disk[Workspace(k)]
<1>1. CASE guard[n] # NoSlot
    <2>1. guard[n] \in Slot /\ guard[k] \in Slot /\ guard[n] # guard[k]
        BY <1>1 DEF DaemonInv, SlotInv, SlotTypeOK, SlotExclusive
    <2>2. Workspace(n) # Workspace(k) /\ Workspace(k) \in Directory
        BY <2>1 DEF WorkspacesDistinct, Workspace, Directory
    <2>3. disk \in [Directory -> Disk]
        BY DEF DaemonInv, DaemonTypeOK
    <2> QED BY <2>2, <2>3 DEF Touches
<1>2. CASE disk' = disk
    BY <1>2
<1> QED BY <1>1, <1>2 DEF Touches

(* A thread that is not syncing relies on nothing.                           *)
LEMMA NotSyncing ==
    ASSUME NEW n, thread'[n].pc \notin Syncing
    PROVE  ThreadTrue(n)' /\ TreeTrue(n)'
BY DEF ThreadTrue, TreeTrue, Syncing

(* The next message to be read is true.                                      *)
LEMMA HeadIsTrue ==
    ASSUME NetTypeOK, NEW n \in Conn, MailTrue(n), toDaemon[n] # <<>>
    PROVE  MessageTrue(Head(toDaemon[n]), owner[n])
<1>1. toDaemon[n] \in Seq(ToDaemon)
    BY DEF NetTypeOK
<1>2. Head(toDaemon[n]) = toDaemon[n][1] /\ Len(toDaemon[n]) \in Nat \ {0}
    BY <1>1, HeadTailProperties, LenProperties, EmptySeq
<1> QED BY <1>2 DEF MailTrue

(* The queue to the daemon, after one message was read or none.              *)
LEMMA MailLeaves ==
    ASSUME NetTypeOK, NEW n \in Conn, MailTrue(n), UNCHANGED <<checkout, drift>>
    PROVE  /\ owner'[n] = owner[n] /\ toDaemon'[n] = toDaemon[n] => MailTrue(n)'
           /\ toDaemon[n] # <<>> =>
                /\ MessageTrue(Head(toDaemon[n]), owner[n])
                /\ owner'[n] = owner[n] /\ toDaemon'[n] = Tail(toDaemon[n]) => MailTrue(n)'
           /\ toDaemon'[n] = <<>> => MailTrue(n)'
<1>1. toDaemon[n] \in Seq(ToDaemon) /\ Len(<<>>) = 0
    BY EmptySeq DEF NetTypeOK
<1>2. \A m, c : MessageTrue(m, c) => MessageTrue(m, c)'
    BY DEF MessageTrue, TrueFiles, TrueStats
<1>3. owner'[n] = owner[n] /\ toDaemon'[n] = toDaemon[n] => MailTrue(n)'
    BY <1>2 DEF MailTrue
<1>4. toDaemon'[n] = <<>> => MailTrue(n)'
    BY <1>1 DEF MailTrue
<1>5. ASSUME toDaemon[n] # <<>>
      PROVE  /\ MessageTrue(Head(toDaemon[n]), owner[n])
             /\ owner'[n] = owner[n] /\ toDaemon'[n] = Tail(toDaemon[n]) => MailTrue(n)'
    <2>1. /\ Len(Tail(toDaemon[n])) = Len(toDaemon[n]) - 1
          /\ \A i \in 1 .. Len(toDaemon[n]) - 1 : Tail(toDaemon[n])[i] = toDaemon[n][i + 1]
          /\ Len(toDaemon[n]) \in Nat \ {0}
        BY <1>1, <1>5, HeadTailProperties, LenProperties, EmptySeq
    <2>2. MessageTrue(Head(toDaemon[n]), owner[n])
        BY <1>5, HeadIsTrue
    <2>3. ASSUME owner'[n] = owner[n], toDaemon'[n] = Tail(toDaemon[n]),
                 NEW i \in 1 .. Len(toDaemon'[n])
          PROVE  MessageTrue(toDaemon[n][i], owner[n])'
        <3>1. i + 1 \in 1 .. Len(toDaemon[n]) /\ toDaemon'[n][i] = toDaemon[n][i + 1]
            BY <2>1, <2>3
        <3>2. MessageTrue(toDaemon[n][i + 1], owner[n])
            BY <3>1 DEF MailTrue
        <3>3. PICK m, c : m = toDaemon[n][i + 1] /\ c = owner[n]
            OBVIOUS
        <3>4. MessageTrue(m, c)'
            BY <1>2, <3>2, <3>3
        <3> QED BY <2>3, <3>1, <3>3, <3>4
    <2> QED BY <2>2, <2>3 DEF MailTrue
<1> QED BY <1>3, <1>4, <1>5

(* The steps after which thread n is not syncing.                            *)
LEMMA RestingKeepsTrue ==
    ASSUME SyncInv, NEW n \in Conn, UNCHANGED <<checkout, drift>>,
           \/ RejectBusy(n) \/ SkipSync(n) \/ InsertFingerprint(n) \/ RunBuild(n)
           \/ Finish(n) \/ PeerGone(n) \/ IoFails(n) \/ Unwind(n)
    PROVE  ConnTrue(n)'
<1>0. NetTypeOK /\ DaemonTypeOK /\ MailTrue(n)
    BY DEF SyncInv, SessionInv, ServiceInv, ConnTrue
<1>1. thread'[n].pc \in {"idle", "build", "release", "unwind", "none"}
    <2>1. CASE RejectBusy(n)
        <3>1. At("idle") \in ThreadRecord /\ At("idle").pc = "idle"
            BY AtTyped DEF ThreadStates
        <3> QED BY <1>0, <2>1, <3>1, PlainMessages, ReplyLands DEF RejectBusy
    <2>2. CASE SkipSync(n)
        <3> DEFINE state == [thread[n] EXCEPT !.pc = "build"]
                   m == [kind |-> "ProbeAccepted"]
        <3>1. state \in ThreadRecord /\ state.pc = "build" /\ m \in ToClient
            BY <1>0, AdvanceTyped, PlainMessages DEF ThreadStates
        <3>2. Reply(n, m, state)
            BY <2>2 DEF SkipSync
        <3> HIDE DEF state, m
        <3> QED BY <1>0, <3>1, <3>2, ReplyLands
    <2>3. CASE InsertFingerprint(n) \/ PeerGone(n) \/ IoFails(n)
        BY <1>0, <2>3, GotoLands DEF InsertFingerprint, PeerGone, IoFails
    <2>4. CASE RunBuild(n) \/ Finish(n) \/ Unwind(n)
        <3>1. At("release").pc = "release" /\ At("idle").pc = "idle" /\ At("none").pc = "none"
            BY AtTyped DEF ThreadStates
        <3> QED BY <1>0, <2>4, <3>1, BecomeLands DEF RunBuild, Finish, Unwind
    <2> QED BY <2>1, <2>2, <2>3, <2>4
<1>2. ThreadTrue(n)' /\ TreeTrue(n)'
    BY <1>1, NotSyncing DEF Syncing
<1>3. MailTrue(n)'
    <2>1. CASE RejectBusy(n)
        BY <1>0, <2>1, ReadLands, MailLeaves DEF RejectBusy
    <2>2. CASE IoFails(n)
        BY <1>0, <2>2, ReadLands, MailLeaves DEF IoFails
    <2>3. CASE SkipSync(n) \/ InsertFingerprint(n) \/ RunBuild(n) \/ Finish(n) \/ PeerGone(n)
        BY <1>0, <2>3, MailLeaves DEF SkipSync, InsertFingerprint, RunBuild, Finish, PeerGone, netVars
    <2>4. CASE Unwind(n)
        <3>1. toDaemon'[n] = <<>>
            BY <1>0, <2>4 DEF Unwind, NetTypeOK
        <3> QED BY <1>0, <3>1, MailLeaves
    <2> QED BY <2>1, <2>2, <2>3, <2>4
<1> QED BY <1>2, <1>3 DEF ConnTrue
(* What a thread keeps when its place changes.                               *)
LEMMA RecordFields ==
    ASSUME DaemonTypeOK, NEW n \in Conn, NEW pc \in ThreadStates
    PROVE  /\ [thread[n] EXCEPT !.pc = pc].fp = thread[n].fp
           /\ [thread[n] EXCEPT !.pc = pc].files = thread[n].files
           /\ \A files \in Tree :
                /\ [thread[n] EXCEPT !.pc = pc, !.files = files].fp = thread[n].fp
                /\ [thread[n] EXCEPT !.pc = pc, !.files = files].files = files
BY DEF DaemonTypeOK

(* The probe is taken up, and its sync begun.                                *)
LEMMA StartingKeepsTrue ==
    ASSUME SyncInv, NEW n \in Conn, UNCHANGED <<checkout, drift>>,
           ServeProbe(n) \/ StartSync(n)
    PROVE  ConnTrue(n)'
<1>0. /\ NetTypeOK /\ DaemonTypeOK /\ MailTrue(n) /\ ThreadTrue(n)
      /\ thread[n] \in ThreadRecord
    BY DEF SyncInv, SessionInv, ServiceInv, ConnTrue, DaemonTypeOK, ThreadRecord
<1>c. PICK c : c = owner[n] /\ c = owner'[n]
    BY DEF ServeProbe, StartSync
<1>s. Steady(c)
    BY DEF Steady
<1>1. CASE ServeProbe(n)
    <2>1. /\ toDaemon[n] # <<>> /\ Head(toDaemon[n]).kind = "Probe"
          /\ toDaemon'[n] = Tail(toDaemon[n])
        BY <1>0, <1>1, ReadLands DEF ServeProbe
    <2>2. PICK m : m = Head(toDaemon[n])
        OBVIOUS
    <2>3. TrueStats(m.fp, c) /\ (m.speculative => TrueFiles(m.files, c))
        <3>1. MessageTrue(Head(toDaemon[n]), owner[n])
            BY <1>0, <2>1, MailLeaves
        <3> QED BY <1>c, <2>1, <2>2, <3>1 DEF MessageTrue
    <2>4. TrueStats(m.fp, c)' /\ (m.speculative => TrueFiles(m.files, c)')
        BY <1>s, <2>3, StaysTrue
    <2>5. /\ thread'[n].pc = "acquired" /\ thread'[n].fp = m.fp
          /\ thread'[n].files = m.files /\ thread'[n].speculative = m.speculative
        BY <1>0, <1>1, <2>2, BecomeLands DEF ServeProbe
    <2>6. ThreadTrue(n)'
        BY <1>c, <2>4, <2>5 DEF ThreadTrue
    <2>7. TreeTrue(n)'
        BY <2>5 DEF TreeTrue
    <2>8. MailTrue(n)'
        BY <1>0, <1>1, <2>1, MailLeaves DEF ServeProbe
    <2> QED BY <2>6, <2>7, <2>8 DEF ConnTrue
<1>2. CASE StartSync(n)
    <2> DEFINE state == [thread[n] EXCEPT !.pc = "manifest"]
               m == [kind |-> "ProbeMiss"]
    <2>1. /\ m \in ToClient /\ state \in ThreadRecord
          /\ state.pc = "manifest" /\ state.fp = thread[n].fp
        BY <1>0, AdvanceTyped, RecordFields, PlainMessages DEF ThreadStates
    <2>2. /\ thread[n].pc = "acquired"
          /\ \/ thread[n].speculative /\ Goto(n, "bundle")
             \/ Reply(n, m, state)
        BY <1>2 DEF StartSync
    <2> HIDE DEF m, state
    <2>3. \/ /\ thread[n].speculative /\ thread'[n].pc = "bundle"
             /\ thread'[n].fp = thread[n].fp /\ thread'[n].files = thread[n].files
          \/ thread'[n].pc = "manifest" /\ thread'[n].fp = thread[n].fp
          \/ thread'[n].pc = "unwind"
        <3>1. CASE thread[n].speculative /\ Goto(n, "bundle")
            <4>1. thread'[n] = [thread[n] EXCEPT !.pc = "bundle"] /\ thread'[n].pc = "bundle"
                BY <1>0, <3>1, GotoLands
            <4> QED BY <1>0, <3>1, <4>1, RecordFields DEF ThreadStates
        <3>2. CASE Reply(n, m, state)
            BY <1>0, <2>1, <3>2, ReplyLands
        <3> QED BY <2>2, <3>1, <3>2
    <2>4. TrueStats(thread[n].fp, c) /\ (thread[n].speculative => TrueFiles(thread[n].files, c))
        BY <1>0, <1>c, <2>2 DEF ThreadTrue, Syncing
    <2>5. PICK fp, t : fp = thread[n].fp /\ t = thread[n].files
        OBVIOUS
    <2>6. TrueStats(fp, c)' /\ (thread[n].speculative => TrueFiles(t, c)')
        BY <1>s, <2>4, <2>5, StaysTrue
    <2>7. ThreadTrue(n)'
        BY <1>c, <2>3, <2>5, <2>6 DEF ThreadTrue, Syncing
    <2>8. TreeTrue(n)'
        BY <2>3 DEF TreeTrue
    <2>9. MailTrue(n)'
        BY <1>0, <1>2, MailLeaves DEF StartSync
    <2> QED BY <2>7, <2>8, <2>9 DEF ConnTrue
<1> QED BY <1>1, <1>2

(* An answer, for the thread that gives it.                                  *)
LEMMA ReplyEnds ==
    ASSUME NetTypeOK, DaemonTypeOK, NEW n \in Conn, NEW m \in ToClient,
           NEW state \in ThreadRecord, Reply(n, m, state)
    PROVE  \/ /\ thread'[n] = state
              /\ link[n] = "up" => toClient'[n] = Append(toClient[n], m)
           \/ thread'[n].pc = "unwind"
BY ReplyLands

(* delete_stale and needed_files: afterwards a path is in place or needed,   *)
(* whatever the directory held, unless it is stale and was overlooked.       *)
LEMMA ReconcilePlaces ==
    ASSUME NEW d \in Disk, NEW files \in Tree, NEW unread, NEW stuck, NEW p \in Path
    PROVE  LET loc == LocalManifest(d, unread) IN
           \/ DeleteStale(d, loc, files, stuck).file[p] = files[p]
           \/ p \in TargetPath /\ files[p] = Absent
           \/ p \in NeededFiles(files, loc) /\ files[p] # Absent
           \/ p \in unread \cup stuck /\ files[p] = Absent
BY DEF LocalManifest, DeleteStale, NeededFiles, Files

(* What was overlooked is in the manifest, and so comes again, or counts as  *)
(* drifted.                                                                  *)
Excused(n, overlooked) ==
    \A p \in overlooked : thread'[n].files[p] # Absent \/ p \in drift'[owner[n]]

(* Reconcile: the thread has the manifest now, and knows what it needs.      *)
LEMMA ReconcileKeepsTrue ==
    ASSUME SyncInv, NEW n \in Conn, UNCHANGED cli, Steady(owner[n]),
           NEW files \in Tree, NEW ack, NEW unread, NEW stuck,
           Reconcile(n, files, ack, unread, stuck), Excused(n, unread \cup stuck),
           guard[n] # NoSlot, guard' = guard, owner' = owner,
           TrueFiles(files, owner[n]), TrueStats(thread[n].fp, owner[n]),
           toDaemon'[n] = <<>>,
           link[n] = "up" => toClient[n] = <<>> /\ cli[owner[n]].pc \in {"response", "needed"},
           link' = link
    PROVE  ConnTrue(n)'
<1>0. NetTypeOK /\ DaemonTypeOK
    BY DEF SyncInv, SessionInv, ServiceInv
<1> DEFINE d == disk[Workspace(n)]
           loc == LocalManifest(d, unread)
           needed == NeededFiles(files, loc)
           done == [thread[n] EXCEPT !.pc = "insert", !.files = files]
           wait == [thread[n] EXCEPT !.pc = "receive", !.files = files]
           acked == [kind |-> "SyncAck"]
           asks == [kind |-> "NeedFiles", paths |-> needed]
<1>t. /\ done \in ThreadRecord /\ done.pc = "insert"
      /\ wait \in ThreadRecord /\ wait.pc = "receive"
    BY <1>0, SyncFieldsTyped, ZenonT(40) DEF ThreadStates
<1>1. /\ done.files = files /\ done.fp = thread[n].fp
      /\ wait.files = files /\ wait.fp = thread[n].fp
    <2>1. "insert" \in ThreadStates /\ "receive" \in ThreadStates
        BY DEF ThreadStates
    <2> QED BY <1>0, <2>1, RecordFields
<1>2. acked \in ToClient /\ asks \in ToClient
    <2>1. needed \in SUBSET Path
        BY DEF NeededFiles, Files
    <2> QED BY <2>1, PlainMessages
<1>p. asks.paths = needed
    OBVIOUS
<1>3. /\ disk' = [disk EXCEPT ![Workspace(n)] = DeleteStale(d, loc, files, stuck)]
      /\ \/ needed = {} /\ Reply(n, acked, done)
         \/ Reply(n, asks, wait)
    BY DEF Reconcile
<1>4. d \in Disk /\ disk'[Workspace(n)] = DeleteStale(d, loc, files, stuck)
    <2>1. disk \in [Directory -> Disk] /\ Workspace(n) \in Directory
        BY <1>0 DEF DaemonTypeOK, SlotTypeOK, Workspace, Directory
    <2> QED BY <1>3, <2>1
<1>5. \A p \in Path : \/ disk'[Workspace(n)].file[p] = files[p]
                      \/ p \in TargetPath /\ files[p] = Absent
                      \/ p \in needed /\ files[p] # Absent
                      \/ p \in unread \cup stuck /\ files[p] = Absent
    BY <1>4, ReconcilePlaces
<1> HIDE DEF done, wait, acked, asks, needed, d, loc
<1>6. \/ needed = {} /\ thread'[n] = done
      \/ /\ thread'[n] = wait
         /\ link[n] = "up" => toClient'[n] = Append(toClient[n], asks)
      \/ thread'[n].pc = "unwind"
    <2>1. CASE needed = {} /\ Reply(n, acked, done)
        <3>1. thread'[n] = done \/ thread'[n].pc = "unwind"
            BY <1>0, <2>1, ReplyLeads
        <3> QED BY <2>1, <3>1
    <2>2. CASE Reply(n, asks, wait)
        <3>1. \/ /\ thread'[n] = wait
                 /\ link[n] = "up" => toClient'[n] = Append(toClient[n], asks)
              \/ thread'[n].pc = "unwind"
            <4>1. asks \in ToClient /\ wait \in ThreadRecord
                BY <1>t, <1>2
            <4> QED BY <1>0, <2>2, <4>1, ReplyEnds
        <3> QED BY <3>1
    <2> QED BY <1>3, <2>1, <2>2
<1>c. PICK c : c = owner[n]
    OBVIOUS
<1>7. TrueFiles(files, c)' /\ \A fp : fp = thread[n].fp => TrueStats(fp, c)'
    BY <1>c, StaysTrue
<1>8. ThreadTrue(n)'
    BY <1>c, <1>t, <1>1, <1>6, <1>7 DEF ThreadTrue, Syncing
<1>9. MailTrue(n)'
    BY EmptySeq DEF MailTrue
<1>10. TreeTrue(n)'
    <2>1. CASE needed = {} /\ thread'[n] = done
        <3>1. ASSUME NEW p \in Path, p \notin drift'[owner[n]] PROVE InPlace(n, p)'
            BY <1>t, <1>1, <1>5, <2>1, <3>1 DEF InPlace, Workspace, Excused
        <3> QED BY <1>t, <1>1, <2>1, <3>1 DEF TreeTrue
    <2>2. CASE thread'[n] = wait /\ (link[n] = "up" => toClient'[n] = Append(toClient[n], asks))
        <3>1. ASSUME link[n] = "up" PROVE Head(toClient'[n]).paths = needed
            <4>1. toClient[n] = <<>> /\ toClient'[n] = Append(<<>>, asks)
                BY <2>2, <3>1
            <4>2. Append(<<>>, asks)[1] = asks /\ Append(<<>>, asks) \in Seq(ToClient)
                  /\ Append(<<>>, asks) # <<>>
                BY <1>2, EmptySeq, AppendProperties
            <4>3. Head(Append(<<>>, asks)) = asks
                BY <4>2, HeadTailProperties
            <4> QED BY <1>p, <4>1, <4>3
        <3>2. ~Complete(toDaemon'[n])
            BY EmptyShapes
        <3>3. ASSUME NEW p \in Path, p \notin drift'[owner[n]]
              PROVE  InPlace(n, p)' \/ Outstanding(n, p)'
            BY <1>t, <1>1, <1>5, <2>2, <3>1, <3>2, <3>3
               DEF InPlace, Workspace, Outstanding, AskedFor, Excused
        <3> QED BY <1>t, <1>1, <2>2, <3>3 DEF TreeTrue
    <2>3. CASE thread'[n].pc = "unwind"
        BY <2>3 DEF TreeTrue
    <2> QED BY <1>6, <2>1, <2>2, <2>3
<1> QED BY <1>8, <1>9, <1>10 DEF ConnTrue
(* Whom a connection that is up belongs to, and where the two stand.         *)
LEMMA HolderTurn ==
    ASSUME SessionInv, NEW n \in Conn, link[n] = "up"
    PROVE  owner[n] \in Client /\ cli[owner[n]].conn = n /\ Turn(cli[owner[n]].pc, n)
<1>1. owner[n] \in Client /\ cli[owner[n]].conn = n
    BY DEF SessionInv, Conversation, ServesHolder
<1>2. Talks(cli[owner[n]].pc, n)
    BY <1>1, DeploymentAssumption DEF SessionInv, Conversation
<1> QED BY <1>1, <1>2 DEF Talks

(* A file of the bundle.                                                     *)
LEMMA BundleKeepsTrue ==
    ASSUME SyncInv, NEW n \in Conn, UNCHANGED <<checkout, drift, cli>>,
           NEW p \in Path, WriteBundled(n, p)
    PROVE  ConnTrue(n)'
<1>0. NetTypeOK /\ DaemonTypeOK /\ MailTrue(n) /\ ThreadTrue(n)
    BY DEF SyncInv, SessionInv, ServiceInv, ConnTrue
<1>1. /\ thread[n].pc = "bundle" /\ thread'[n].pc = "bundle"
      /\ thread'[n].fp = thread[n].fp /\ thread'[n].files = thread[n].files
    BY <1>0, BecomeLands DEF WriteBundled, DaemonTypeOK
<1>2. UNCHANGED <<owner, toDaemon>>
    BY DEF WriteBundled, netVars
<1>3. PICK c, fp, t : c = owner[n] /\ fp = thread[n].fp /\ t = thread[n].files
    OBVIOUS
<1>4. TrueStats(fp, c) /\ TrueFiles(t, c)
    BY <1>0, <1>1, <1>3 DEF ThreadTrue, Syncing
<1>5. TrueStats(fp, c)' /\ TrueFiles(t, c)'
    BY <1>4, StaysTrue DEF Steady
<1>6. ThreadTrue(n)' /\ TreeTrue(n)'
    BY <1>1, <1>2, <1>3, <1>5 DEF ThreadTrue, TreeTrue
<1>7. MailTrue(n)'
    BY <1>0, <1>2, MailLeaves
<1> QED BY <1>6, <1>7 DEF ConnTrue

(* What is done once the bundle is on disk, or the manifest there.           *)
LEMMA ReconcilingKeepsTrue ==
    ASSUME SyncInv, NEW n \in Conn, UNCHANGED cli, owner[n] \in Client => Steady(owner[n]),
           NEW unread, NEW stuck, Excused(n, unread \cup stuck),
           ReconcileBundled(n, unread, stuck) \/ ReconcileManifest(n, unread, stuck)
    PROVE  ConnTrue(n)'
<1>0. NetTypeOK /\ DaemonTypeOK /\ MailTrue(n) /\ ThreadTrue(n) /\ MailFits(n) /\ HoldsItsSlot
    BY DEF SyncInv, SessionInv, ServiceInv, ConnTrue, Conversation
<1>1. Steady(owner[n])
    <2>1. thread[n].pc \in {"bundle", "manifest"}
        BY DEF ReconcileBundled, ReconcileManifest
    <2> QED BY <2>1 DEF SyncInv, SessionInv, ServiceInv, Authenticated
<1>2. CASE ReconcileBundled(n, unread, stuck)
    <2>1. /\ thread[n].pc = "bundle" /\ Reconcile(n, thread[n].files, TRUE, unread, stuck)
          /\ UNCHANGED <<guard, owner, link, toDaemon>>
        BY <1>2 DEF ReconcileBundled, slotVars
    <2>2. thread[n].files \in Tree /\ toDaemon[n] = <<>> /\ guard[n] # NoSlot
        BY <1>0, <2>1 DEF DaemonTypeOK, MailFits, HoldsItsSlot, ThreadStates
    <2>3. TrueFiles(thread[n].files, owner[n]) /\ TrueStats(thread[n].fp, owner[n])
        BY <1>0, <2>1 DEF ThreadTrue, Syncing
    <2>4. link[n] = "up" => toClient[n] = <<>> /\ cli[owner[n]].pc = "response"
        BY <2>1, HolderTurn DEF SyncInv, Turn
    <2> QED BY <1>1, <2>1, <2>2, <2>3, <2>4, ReconcileKeepsTrue
<1>3. CASE ReconcileManifest(n, unread, stuck)
    <2>1. /\ thread[n].pc = "manifest" /\ Reconcile(n, Head(toDaemon[n]).files, FALSE, unread, stuck)
          /\ UNCHANGED <<guard, owner, link>>
        BY <1>3 DEF ReconcileManifest, slotVars
    <2>2. /\ toDaemon[n] # <<>> /\ toDaemon'[n] = Tail(toDaemon[n])
          /\ toDaemon[n] \in Seq(ToDaemon) /\ Head(toDaemon[n]).kind = "Manifest"
        BY <1>0, <1>3, ReadLands DEF ReconcileManifest
    <2>3. Head(toDaemon[n]).files \in Tree /\ guard[n] # NoSlot
        BY <1>0, <1>3, <2>1, ReadTyped, ManifestFields DEF ReconcileManifest, HoldsItsSlot, ThreadStates
    <2>4. toDaemon'[n] = <<>>
        BY <1>0, <2>1, <2>2, LeaveShapes DEF MailFits
    <2>5. TrueFiles(Head(toDaemon[n]).files, owner[n]) /\ TrueStats(thread[n].fp, owner[n])
        BY <1>0, <2>1, <2>2, HeadIsTrue DEF ThreadTrue, Syncing, MessageTrue
    <2>6. link[n] = "up" => toClient[n] = <<>> /\ cli[owner[n]].pc = "needed"
        BY <2>1, <2>2, HolderTurn DEF SyncInv, Turn
    <2> QED BY <1>1, <2>1, <2>3, <2>4, <2>5, <2>6, ReconcileKeepsTrue
<1> QED BY <1>2, <1>3

(* receive_files: a file, and the end of the files.                          *)
LEMMA ReceivingKeepsTrue ==
    ASSUME SyncInv, NEW n \in Conn, UNCHANGED <<checkout, drift, cli>>,
           ReceiveFile(n) \/ AckSync(n)
    PROVE  ConnTrue(n)'
<1>0. /\ NetTypeOK /\ DaemonTypeOK /\ MailTrue(n) /\ ThreadTrue(n) /\ TreeTrue(n)
      /\ MailFits(n) /\ HoldsItsSlot
    BY DEF SyncInv, SessionInv, ServiceInv, ConnTrue, Conversation
<1>1. /\ thread[n].pc = "receive" /\ UNCHANGED <<link, owner, guard>>
      /\ FileStream(toDaemon[n])
    BY <1>0 DEF ReceiveFile, AckSync, slotVars, MailFits
<1>2. /\ toDaemon[n] \in Seq(ToDaemon) /\ toDaemon[n] # <<>>
      /\ toDaemon'[n] = Tail(toDaemon[n])
      /\ ReceiveFile(n) => Head(toDaemon[n]).kind = "FileData"
      /\ AckSync(n) => Head(toDaemon[n]).kind = "SyncDone"
    BY <1>0, ReadLands DEF ReceiveFile, AckSync
<1>3. MailTrue(n)'
    BY <1>0, <1>1, <1>2, MailLeaves
<1>4. PICK c, fp, t : c = owner[n] /\ fp = thread[n].fp /\ t = thread[n].files
    OBVIOUS
<1>5. TrueStats(fp, c) /\ TrueFiles(t, c)
    BY <1>0, <1>1, <1>4 DEF ThreadTrue, Syncing
<1>6. TrueStats(fp, c)' /\ TrueFiles(t, c)'
    BY <1>5, StaysTrue DEF Steady
<1>7. CASE ReceiveFile(n)
    <2> DEFINE m == Head(toDaemon[n])
               d == disk[Workspace(n)]
    <2>1. /\ disk' = [disk EXCEPT ![Workspace(n)] = WriteFile(d, m.path, m.contents)]
          /\ UNCHANGED <<thread, toClient>>
        BY <1>7 DEF ReceiveFile
    <2>2. ThreadTrue(n)'
        BY <1>1, <1>4, <1>6, <2>1 DEF ThreadTrue
    <2>3. m \in ToDaemon /\ m.path \in Path /\ m.contents \in Content
        BY <1>2, <1>7, HeadTailProperties, FileFields
    <2>4. /\ disk'[Workspace(n)].file[m.path] = m.contents
          /\ \A p \in Path : p # m.path => disk'[Workspace(n)].file[p] = d.file[p]
        <3>1. disk \in [Directory -> Disk] /\ Workspace(n) \in Directory
            BY <1>0, <1>1 DEF DaemonTypeOK, SlotTypeOK, HoldsItsSlot, ThreadStates, Workspace, Directory
        <3>2. d \in Disk /\ disk'[Workspace(n)] = WriteFile(d, m.path, m.contents)
            BY <2>1, <3>1
        <3> QED BY <2>3, <3>2 DEF WriteFile, Disk
    <2>5. MessageTrue(m, owner[n])
        BY <1>0, <1>2, MailLeaves
    <2> HIDE DEF m, d
    <2>6. ASSUME NEW p \in Path, p \notin drift[owner[n]]
          PROVE  InPlace(n, p)' \/ OnItsWay(n, p)' \/ Outstanding(n, p)'
        <3>1. CASE p = m.path
            <4>1. m.contents = thread[n].files[p]
                BY <1>2, <1>4, <1>5, <1>7, <2>5, <2>6, <3>1 DEF MessageTrue, TrueFiles, m
            <4> QED BY <1>1, <2>1, <2>4, <3>1, <4>1 DEF InPlace, Workspace
        <3>2. CASE p # m.path /\ InPlace(n, p)
            BY <1>1, <2>1, <2>4, <3>2 DEF InPlace, Workspace, d
        <3>3. CASE p # m.path /\ OnItsWay(n, p)
            <4>1. PICK i \in 1 .. Len(toDaemon[n]) :
                      toDaemon[n][i].kind = "FileData" /\ toDaemon[n][i].path = p
                BY <3>3 DEF OnItsWay
            <4>2. /\ m = toDaemon[n][1] /\ Len(Tail(toDaemon[n])) = Len(toDaemon[n]) - 1
                  /\ \A j \in 1 .. Len(toDaemon[n]) - 1 : Tail(toDaemon[n])[j] = toDaemon[n][j + 1]
                  /\ Len(toDaemon[n]) \in Nat
                BY <1>2, HeadTailProperties, LenProperties DEF m
            <4>3. i # 1
                BY <3>3, <4>1, <4>2
            <4>4. i - 1 \in 1 .. Len(Tail(toDaemon[n])) /\ Tail(toDaemon[n])[i - 1] = toDaemon[n][i]
                BY <4>2, <4>3
            <4> QED BY <1>2, <4>1, <4>4 DEF OnItsWay
        <3>4. CASE Outstanding(n, p)
            <4>1. ~Complete(toDaemon'[n])
                BY <1>2, <3>4, LeaveShapes DEF Outstanding
            <4> QED BY <1>1, <2>1, <3>4, <4>1 DEF Outstanding, AskedFor
        <3> QED BY <1>0, <1>1, <2>6, <3>1, <3>2, <3>3, <3>4 DEF TreeTrue
    <2>7. TreeTrue(n)'
        BY <1>1, <2>1, <2>6 DEF TreeTrue
    <2> QED BY <1>3, <2>2, <2>7 DEF ConnTrue
<1>8. CASE AckSync(n)
    <2> DEFINE state == [thread[n] EXCEPT !.pc = "insert"]
               m == [kind |-> "SyncAck"]
    <2>1. /\ m \in ToClient /\ state \in ThreadRecord /\ state.pc = "insert"
          /\ state.fp = thread[n].fp /\ state.files = thread[n].files
        BY <1>0, AdvanceTyped, RecordFields, PlainMessages DEF ThreadStates
    <2>2. Reply(n, m, state) /\ UNCHANGED disk
        BY <1>8 DEF AckSync
    <2> HIDE DEF m, state
    <2>3. thread'[n] = state \/ thread'[n].pc = "unwind"
        BY <1>0, <2>1, <2>2, ReplyEnds
    <2>4. ThreadTrue(n)'
        BY <1>1, <1>4, <1>6, <2>1, <2>3 DEF ThreadTrue, Syncing
    <2>5. Complete(toDaemon[n]) /\ \A p \in Path : ~OnItsWay(n, p)
        <3>1. Head(toDaemon[n]) = toDaemon[n][1] /\ Len(toDaemon[n]) \in Nat \ {0}
            BY <1>2, HeadTailProperties, LenProperties, EmptySeq
        <3>2. toDaemon[n][1].kind = "SyncDone" /\ Len(toDaemon[n]) = 1
            <4>1. 1 \in 1 .. Len(toDaemon[n]) /\ toDaemon[n][1].kind = "SyncDone"
                BY <1>2, <1>8, <3>1
            <4>2. "SyncDone" # "FileData"
                OBVIOUS
            <4> QED BY <1>1, <4>1, <4>2 DEF FileStream
        <3> QED BY <3>2 DEF Complete, OnItsWay
    <2>6. ASSUME NEW p \in Path, p \notin drift[owner[n]], thread'[n] = state
          PROVE  InPlace(n, p)'
        <3>1. InPlace(n, p)
            BY <1>0, <1>1, <2>5, <2>6 DEF TreeTrue, Outstanding
        <3> QED BY <1>1, <2>1, <2>2, <2>6, <3>1 DEF InPlace, Workspace
    <2>7. TreeTrue(n)'
        BY <1>1, <2>1, <2>3, <2>6 DEF TreeTrue
    <2> QED BY <1>3, <2>4, <2>7 DEF ConnTrue
<1> QED BY <1>7, <1>8

(* A move of a thread, with what it adds to the drift of its client.         *)
DriftingMove(n) ==
    \/ (ThreadSteps(n) \/ IoFails(n)) /\ drift' = drift
    \/ Overlook(n)

(* It is a move, and what still counts is still so.                          *)
LEMMA DriftGrows ==
    ASSUME drift \in [Client -> SUBSET Path], NEW n, DriftingMove(n), checkout' = checkout
    PROVE  ThreadMoves(n) /\ \A c \in Client : Steady(c)
<1>1. ThreadMoves(n)
    BY DEF DriftingMove, Overlook, ThreadMoves
<1>2. ASSUME NEW c \in Client PROVE Steady(c)
    <2>1. CASE drift' = drift
        BY <2>1 DEF Steady
    <2>2. ASSUME NEW more, drift' = [drift EXCEPT ![owner[n]] = @ \cup more] PROVE Steady(c)
        <3>1. \A p \in drift[c] : p \in drift'[c]
            BY <2>2
        <3> QED BY <3>1 DEF Steady
    <2> QED BY <2>1, <2>2 DEF DriftingMove, Overlook
<1> QED BY <1>1, <1>2

(* Every step of a thread, and a restart.                                    *)
LEMMA DaemonKeepsTrue ==
    ASSUME WorkspacesDistinct, SyncInv, UNCHANGED <<checkout, cli>>,
           (\E n \in Conn : DriftingMove(n)) \/ Restart
    PROVE  \A k \in Conn : ConnTrue(k)'
<1>0. /\ NetTypeOK /\ DaemonInv /\ HoldsItsSlot /\ SessionInv
      /\ \A k \in Conn : ConnTrue(k) /\ MailFits(k)
    BY DEF SyncInv, SessionInv, ServiceInv, DaemonInv, Conversation
<1>1. ASSUME NEW n \in Conn, DriftingMove(n), NEW k \in Conn PROVE ConnTrue(k)'
    <2>0. ThreadMoves(n) /\ \A c \in Client : Steady(c)
        BY <1>0, <1>1, DriftGrows DEF SessionInv, ServiceInv, BudgetTypeOK
    <2>1. CASE k = n
        <3> SUFFICES ConnTrue(n)'
            BY <2>1
        <3>1. ASSUME NEW unread, NEW stuck, Excused(n, unread \cup stuck),
                     ReconcileBundled(n, unread, stuck) \/ ReconcileManifest(n, unread, stuck)
              PROVE  ConnTrue(n)'
            BY <2>0, <3>1, ReconcilingKeepsTrue
        <3>2. CASE Overlook(n)
            <4>1. PICK unread \in SUBSET Path, stuck \in SUBSET Path :
                      /\ ReconcileOverlooking(n, unread, stuck)
                      /\ drift' = [drift EXCEPT ![owner[n]] =
                                      @ \cup ((unread \cup stuck) \ Files(thread'[n].files))]
                BY <3>2 DEF Overlook
            <4>2. owner[n] \in Client
                BY <4>1 DEF ReconcileOverlooking, ReconcileBundled, ReconcileManifest, SyncInv,
                            SessionInv, ServiceInv, Authenticated
            <4>3. drift \in [Client -> SUBSET Path]
                BY DEF SyncInv, SessionInv, ServiceInv, BudgetTypeOK
            <4>4. Excused(n, unread \cup stuck)
                BY <4>1, <4>2, <4>3 DEF Excused, Files
            <4> QED BY <3>1, <4>1, <4>4 DEF ReconcileOverlooking
        <3>3. CASE ReconcileBundled(n, {}, {}) \/ ReconcileManifest(n, {}, {})
            BY <3>1, <3>3 DEF Excused
        <3>4. CASE /\ drift' = drift
                   /\ ThreadSteps(n) \/ IoFails(n)
                   /\ ~(ReconcileBundled(n, {}, {}) \/ ReconcileManifest(n, {}, {}))
            BY <3>4, RestingKeepsTrue, StartingKeepsTrue, BundleKeepsTrue, ReceivingKeepsTrue
               DEF ThreadSteps
        <3> QED BY <1>1, <2>1, <3>2, <3>3, <3>4 DEF DriftingMove
    <2>2. CASE k # n
        <3>1. OnlyOn(n)
            BY <1>0, <2>0, ThreadKeepsTurn DEF SessionInv, KeepsTurn
        <3>2. Touches(n) /\ guard'[k] = guard[k]
            BY <1>0, <2>0, <2>2, ThreadTouches
        <3>3. thread[k].pc \in {"receive", "insert"} => guard[k] # NoSlot
            BY <1>0 DEF HoldsItsSlot, ThreadStates
        <3>4. thread[k].pc \in {"receive", "insert"} => disk'[Workspace(k)] = disk[Workspace(k)]
            BY <1>0, <2>2, <3>2, <3>3, TouchesOwn
        <3>5. Relied(k) => Steady(owner[k])
            BY <1>0, <2>0, ReliedOwner
        <3> QED BY <1>0, <2>2, <3>1, <3>2, <3>4, <3>5, ConnFrame DEF OnlyOn
    <2> QED BY <2>1, <2>2
<1>2. ASSUME Restart, NEW k \in Conn PROVE ConnTrue(k)'
    <2>1. thread'[k].pc = "none" /\ toDaemon'[k] = <<>>
        BY <1>2, AtTyped DEF Restart, ThreadStates
    <2>2. ThreadTrue(k)' /\ TreeTrue(k)'
        BY <2>1, NotSyncing DEF Syncing
    <2>3. MailTrue(k)'
        BY <2>1, EmptySeq DEF MailTrue
    <2> QED BY <2>2, <2>3 DEF ConnTrue
<1> QED BY <1>1, <1>2
-----------------------------------------------------------------------------
(* The CLI's half.                                                           *)

(* A message joins the queue to the daemon.                                  *)
LEMMA MailJoins ==
    ASSUME NetTypeOK, NEW n \in Conn, MailTrue(n), UNCHANGED <<checkout, drift>>,
           NEW m \in ToDaemon, NEW c, MessageTrue(m, c), owner'[n] = c,
           toDaemon[n] # <<>> => owner[n] = c,
           toDaemon'[n] = Append(toDaemon[n], m)
    PROVE  MailTrue(n)'
<1>1. toDaemon[n] \in Seq(ToDaemon)
    BY DEF NetTypeOK
<1>2. /\ Len(toDaemon'[n]) = Len(toDaemon[n]) + 1 /\ Len(toDaemon[n]) \in Nat
      /\ \A i \in 1 .. Len(toDaemon[n]) : toDaemon'[n][i] = toDaemon[n][i]
      /\ toDaemon'[n][Len(toDaemon[n]) + 1] = m
      /\ toDaemon[n] = <<>> => Len(toDaemon[n]) = 0
    BY <1>1, AppendProperties, LenProperties, EmptySeq
<1>3. \A r, b : MessageTrue(r, b) => MessageTrue(r, b)'
    BY DEF MessageTrue, TrueFiles, TrueStats
<1>4. ASSUME NEW i \in 1 .. Len(toDaemon'[n]) PROVE MessageTrue(toDaemon[n][i], owner[n])'
    <2>1. PICK r : r = toDaemon'[n][i]
        OBVIOUS
    <2>2. MessageTrue(r, c)
        BY <1>2, <2>1 DEF MailTrue
    <2>3. MessageTrue(r, c)'
        BY <1>3, <2>2
    <2> QED BY <2>1, <2>3
<1> QED BY <1>4 DEF MailTrue

(* What the other connections carry is not disturbed.                        *)
LEMMA OthersKeepTrue ==
    ASSUME SyncInv, NEW c \in Client, NEW n, n = cli[c].conn, ClientKeeps(c, n),
           UNCHANGED <<slotVars, disk>>,
           NEW k \in Conn, k # n, Relied(k) => Steady(owner[k])
    PROVE  ConnTrue(k)'
<1>1. SessionInv /\ NetTypeOK /\ ConnTrue(k)
    BY DEF SyncInv, SessionInv, ServiceInv
<1>2. link'[k] = "up" => cli'[owner[k]] = cli[owner[k]]
    <2>1. link[k] = "up" => owner[k] \in Client /\ cli[owner[k]].conn = k
        BY <1>1, HolderTurn
    <2> QED BY <2>1 DEF ClientKeeps, OnlyOn
<1>3. UNCHANGED <<guard, disk>>
    BY DEF slotVars
<1> QED BY <1>1, <1>2, <1>3, ConnFrame DEF ClientKeeps, OnlyOn

(* The steps of a CLI that put nothing on its connection: its thread is not  *)
(* waiting for files while the CLI takes them.                               *)
LEMMA QuietKeepsTrue ==
    ASSUME SyncInv, NEW c \in Client, NEW n \in Conn, n = cli[c].conn, ClientKeeps(c, n),
           UNCHANGED <<slotVars, disk>>,
           \/ SyncSettled(c) \/ ScanFiles(c) \/ TakeFingerprint(c) \/ EndSession(c)
           \/ CannotConnect(c) \/ GiveUp(c) \/ Vanish(c),
           Relied(n) => Steady(owner[n])
    PROVE  ConnTrue(n)'
<1>0. SessionInv /\ NetTypeOK /\ CliTypeOK /\ ConnTrue(n)
    BY DEF SyncInv, SessionInv, ServiceInv
<1>1. UNCHANGED <<toDaemon, guard, thread, owner, disk>>
    BY DEF SyncSettled, ScanFiles, TakeFingerprint, EndSession, CannotConnect, GiveUp, Vanish,
           netVars, slotVars, ClientKeeps
<1>2. ASSUME thread[n].pc = "receive", link'[n] = "up" PROVE FALSE
    <2>1. cli'[c].conn = n /\ link[n] = "up" /\ n # NoConn
        BY <1>2, DeploymentAssumption DEF ClientKeeps
    <2>2. owner[n] = c /\ Turn(cli[c].pc, n)
        <3>1. owner[n] \in Client /\ cli[owner[n]].conn = n /\ Turn(cli[owner[n]].pc, n)
            BY <1>0, <2>1, HolderTurn
        <3> QED BY <2>1, <3>1 DEF SyncInv, SessionInv, Conversation, OneCliEach
    <2>3. \/ One(toClient[n], {"NeedFiles"}) /\ cli[c].pc \in {"response", "needed"}
          \/ toClient[n] = <<>> /\ cli[c].pc \in {"stream", "ack"}
        BY <1>2, <2>2 DEF Turn
    <2>4. Idle(NoConn).conn = NoConn
        BY DEF Idle
    <2>5. CASE CannotConnect(c) \/ GiveUp(c) \/ Vanish(c)
        <3>1. cli' = [cli EXCEPT ![c] = Idle(NoConn)]
            BY <2>5 DEF CannotConnect, GiveUp, Vanish
        <3>2. cli'[c] = Idle(NoConn)
            BY <1>0, <3>1, CliLands
        <3> QED BY <2>1, <2>4, <3>2
    <2>6. CASE ScanFiles(c) \/ TakeFingerprint(c)
        BY <2>3, <2>6 DEF ScanFiles, TakeFingerprint
    <2>7. CASE SyncSettled(c) \/ EndSession(c)
        <3>1. /\ toClient[n] # <<>>
              /\ Head(toClient[n]).kind \in {"ProbeAccepted", "SyncAck", "SlotsBusy", "BuildFinished"}
            BY <1>0, <2>7, ReceiveLands DEF SyncSettled, EndSession
        <3> QED BY <2>3, <3>1 DEF One
    <2> QED BY <2>5, <2>6, <2>7
<1> QED BY <1>0, <1>1, <1>2, ConnFrame

(* NeedFiles is read: what was asked for is now to be sent.                  *)
LEMMA LearnKeepsTrue ==
    ASSUME SyncInv, NEW c \in Client, NEW n \in Conn, n = cli[c].conn,
           LearnNeeded(c), UNCHANGED <<slotVars, daemonVars, drift>>
    PROVE  ConnTrue(n)'
<1>0. SessionInv /\ NetTypeOK /\ CliTypeOK /\ ConnTrue(n)
    BY DEF SyncInv, SessionInv, ServiceInv
<1>1. UNCHANGED <<checkout, drift, toDaemon, guard, thread, owner, disk, link>>
    BY DEF LearnNeeded, slotVars, daemonVars
<1>2. MailTrue(n)' /\ ThreadTrue(n)'
    BY <1>0, <1>1, MailLeaves DEF ConnTrue, ThreadTrue, TrueFiles, TrueStats
<1>3. /\ cli'[c].pc = "stream" /\ cli'[c].todo = Head(toClient[n]).paths
      /\ cli[c].pc \in {"response", "needed"}
    BY <1>0 DEF LearnNeeded, CliTypeOK
<1>4. link[n] = "up" => owner[n] = c
    BY <1>0, HolderTurn, DeploymentAssumption DEF SessionInv, Conversation, OneCliEach
<1>5. ASSUME NEW p \in Path
      PROVE  /\ InPlace(n, p) => InPlace(n, p)'
             /\ OnItsWay(n, p) => OnItsWay(n, p)'
             /\ Outstanding(n, p) => Outstanding(n, p)'
    BY <1>1, <1>3, <1>4 DEF InPlace, Workspace, OnItsWay, Outstanding, AskedFor
<1>6. TreeTrue(n)'
    BY <1>0, <1>1, <1>5 DEF ConnTrue, TreeTrue
<1> QED BY <1>2, <1>6 DEF ConnTrue

(* The CLI at its own end of a connection that is up; otherwise nobody reads *)
(* any more what it sends.                                                   *)
LEMMA OwnEnd ==
    ASSUME SessionInv, NEW c \in Client, NEW n \in Conn, n = cli[c].conn
    PROVE  \/ link[n] = "up" /\ owner[n] = c /\ Turn(cli[c].pc, n)
           \/ link[n] # "up" /\ thread[n].pc = "none" /\ toDaemon[n] = <<>>
<1>1. Talks(cli[c].pc, n) /\ MailFits(n)
    BY DeploymentAssumption DEF SessionInv, Conversation
<1>2. link[n] = "up" => owner[n] = c
    BY HolderTurn, DeploymentAssumption DEF SessionInv, Conversation, OneCliEach
<1> QED BY <1>1, <1>2 DEF Talks, MailFits

(* stream_files: what is sent is on its way, what is gone was not asked for. *)
LEMMA StreamKeepsTrue ==
    ASSUME SyncInv, NEW c \in Client, NEW n \in Conn, n = cli[c].conn,
           (\E p \in Path : StreamFile(c, p)) \/ SendSyncDone(c),
           UNCHANGED <<slotVars, daemonVars, drift>>
    PROVE  ConnTrue(n)'
<1>0. SessionInv /\ NetTypeOK /\ CliTypeOK /\ ConnTrue(n)
    BY DEF SyncInv, SessionInv, ServiceInv
<1>1. UNCHANGED <<checkout, drift, toClient, guard, thread, owner, disk, link>> /\ cli[c].pc = "stream"
    BY DEF StreamFile, SendSyncDone, slotVars, daemonVars
<1>2. ThreadTrue(n)'
    BY <1>0, <1>1 DEF ConnTrue, ThreadTrue, TrueFiles, TrueStats
<1>3. CASE link[n] # "up" /\ thread[n].pc = "none" /\ toDaemon[n] = <<>>
    <2>1. toDaemon'[n] = toDaemon[n]
        BY <1>0, <1>3 DEF StreamFile, SendSyncDone, Send, Carry
    <2> QED BY <1>0, <1>1, <1>2, <1>3, <2>1, MailLeaves DEF ConnTrue, TreeTrue
<1>4. CASE link[n] = "up" /\ owner[n] = c /\ Turn(cli[c].pc, n)
    <2>0. ~Complete(toDaemon[n]) /\ toDaemon[n] \in Seq(ToDaemon)
        BY <1>0, <1>1, <1>4 DEF Turn, Settling, One, Two, NetTypeOK
    <2>1. ASSUME NEW m \in ToDaemon, Send(c, m), MessageTrue(m, c)
          PROVE  /\ MailTrue(n)'
                 /\ \A p \in Path : InPlace(n, p) => InPlace(n, p)'
                 /\ \A p \in Path : OnItsWay(n, p) => OnItsWay(n, p)'
                 /\ m.kind = "FileData" => OnItsWay(n, m.path)'
                 /\ m.kind # "SyncDone" => ~Complete(toDaemon'[n])
        <3>1. toDaemon'[n] = Append(toDaemon[n], m)
            BY <1>0, <1>4, <2>1, SendLands
        <3>2. MailTrue(n)'
            BY <1>0, <1>1, <1>4, <2>1, <3>1, MailJoins DEF ConnTrue
        <3>3. \A p \in Path : InPlace(n, p) => InPlace(n, p)'
            BY <1>1 DEF InPlace, Workspace
        <3>4. /\ Len(toDaemon'[n]) = Len(toDaemon[n]) + 1 /\ Len(toDaemon[n]) \in Nat
              /\ \A i \in 1 .. Len(toDaemon[n]) : toDaemon'[n][i] = toDaemon[n][i]
              /\ toDaemon'[n][Len(toDaemon[n]) + 1] = m
            BY <2>0, <3>1, AppendProperties, LenProperties
        <3>5. ASSUME NEW p \in Path, OnItsWay(n, p) PROVE OnItsWay(n, p)'
            <4>1. PICK i \in 1 .. Len(toDaemon[n]) :
                      toDaemon[n][i].kind = "FileData" /\ toDaemon[n][i].path = p
                BY <3>5, Zenon DEF OnItsWay
            <4>2. i \in 1 .. Len(toDaemon'[n])
                BY <3>4
            <4>3. toDaemon'[n][i].kind = "FileData" /\ toDaemon'[n][i].path = p
                BY <3>4, <4>1, Zenon
            <4> QED BY <4>2, <4>3, Zenon DEF OnItsWay
        <3>6. m.kind = "FileData" => OnItsWay(n, m.path)'
            <4>1. Len(toDaemon[n]) + 1 \in 1 .. Len(toDaemon'[n])
                BY <3>4
            <4> QED BY <3>4, <4>1, Zenon DEF OnItsWay
        <3>7. Complete(Append(toDaemon[n], m)) <=> Complete(toDaemon[n]) \/ m.kind = "SyncDone"
            BY <2>0, JoinShapes
        <3> QED BY <2>0, <3>1, <3>2, <3>3, <3>5, <3>6, <3>7
    <2>2. ASSUME NEW q \in Path, StreamFile(c, q) PROVE ConnTrue(n)'
        <3>1. /\ cli'[c].pc = "stream" /\ cli'[c].todo = cli[c].todo \ {q}
              /\ \A p \in Path : AskedFor(n, p) => p \in cli[c].todo
            BY <1>0, <1>1, <1>4, <2>2 DEF StreamFile, CliTypeOK, AskedFor
        <3>2. CASE checkout[c][q] = Absent
            <4>1. toDaemon' = toDaemon
                BY <2>2, <3>2 DEF StreamFile
            <4>2. MailTrue(n)'
                BY <1>0, <1>1, <4>1, MailLeaves DEF ConnTrue
            <4>3. ASSUME NEW p \in Path, p \notin drift[owner[n]], thread[n].pc = "receive"
                  PROVE  InPlace(n, p)' \/ OnItsWay(n, p)' \/ Outstanding(n, p)'
                <5>1. InPlace(n, p) \/ OnItsWay(n, p) \/ Outstanding(n, p)
                    BY <1>0, <4>3 DEF ConnTrue, TreeTrue
                <5>2. (InPlace(n, p) => InPlace(n, p)') /\ (OnItsWay(n, p) => OnItsWay(n, p)')
                    BY <1>1, <4>1 DEF InPlace, OnItsWay, Workspace
                <5>3. Outstanding(n, p) => p # q
                    <6>1. thread[n].files[p] = BuildManifest(checkout[c])[p]
                        BY <1>0, <1>4, <4>3 DEF ConnTrue, ThreadTrue, TrueFiles
                    <6> QED BY <3>2, <6>1 DEF Outstanding, BuildManifest
                <5>4. Outstanding(n, p) => Outstanding(n, p)'
                    <6>1. Outstanding(n, p) => p \in cli'[c].todo
                        BY <1>4, <3>1, <5>3 DEF Outstanding
                    <6> QED BY <1>1, <1>4, <3>1, <4>1, <6>1 DEF Outstanding, AskedFor
                <5> QED BY <5>1, <5>2, <5>4
            <4>4. TreeTrue(n)'
                BY <1>0, <1>1, <4>1, <4>3 DEF ConnTrue, TreeTrue, InPlace, Workspace
            <4> QED BY <1>2, <4>2, <4>4 DEF ConnTrue
        <3>3. CASE checkout[c][q] # Absent
            <4> DEFINE m == [kind |-> "FileData", path |-> q, contents |-> ContentOf[checkout[c][q]]]
            <4>1. ContentOf[checkout[c][q]] \in Content
                BY <1>0, <3>3, SourceTreeAssumption DEF CliTypeOK, Checkout
            <4>2. m \in ToDaemon /\ m.kind = "FileData" /\ m.path = q
                BY <4>1, PlainMessages
            <4>3. Send(c, m)
                BY <2>2, <3>3 DEF StreamFile
            <4>4. MessageTrue(m, c)
                BY <3>3 DEF MessageTrue, BuildManifest
            <4> HIDE DEF m
            <4>5. /\ MailTrue(n)'
                  /\ \A p \in Path : InPlace(n, p) => InPlace(n, p)'
                  /\ \A p \in Path : OnItsWay(n, p) => OnItsWay(n, p)'
                  /\ OnItsWay(n, q)'
                  /\ ~Complete(toDaemon'[n])
                BY <2>1, <4>2, <4>3, <4>4
            <4>6. ASSUME NEW p \in Path, p # q, Outstanding(n, p)
                  PROVE  Outstanding(n, p)'
                <5>1. p \in cli'[c].todo
                    BY <1>4, <3>1, <4>6 DEF Outstanding
                <5> QED BY <1>1, <1>4, <3>1, <4>5, <4>6, <5>1 DEF Outstanding, AskedFor
            <4>7. TreeTrue(n)'
                BY <1>0, <1>1, <4>5, <4>6 DEF ConnTrue, TreeTrue
            <4> QED BY <1>2, <4>5, <4>7 DEF ConnTrue
        <3> QED BY <3>2, <3>3
    <2>3. CASE SendSyncDone(c)
        <3> DEFINE m == [kind |-> "SyncDone"]
        <3>1. m \in ToDaemon /\ Send(c, m) /\ MessageTrue(m, c)
            BY <2>3, PlainMessages DEF SendSyncDone, MessageTrue
        <3> HIDE DEF m
        <3>2. /\ MailTrue(n)'
              /\ \A p \in Path : InPlace(n, p) => InPlace(n, p)'
              /\ \A p \in Path : OnItsWay(n, p) => OnItsWay(n, p)'
            BY <2>1, <3>1
        <3>3. \A p \in Path : ~Outstanding(n, p)
            BY <1>1, <1>4, <2>3 DEF SendSyncDone, Outstanding, AskedFor
        <3>4. TreeTrue(n)'
            BY <1>0, <1>1, <3>2, <3>3 DEF ConnTrue, TreeTrue
        <3> QED BY <1>2, <3>2, <3>4 DEF ConnTrue
    <2> QED BY <2>2, <2>3
<1> QED BY <1>0, <1>3, <1>4, OwnEnd

(* The Probe and the Manifest say what the CLI has seen.                     *)
LEMMA ProbingKeepsTrue ==
    ASSUME SyncInv, NEW c \in Client, NEW n \in Conn, n = cli[c].conn,
           ProbeOnKept(c) \/ SendManifest(c),
           UNCHANGED <<slotVars, daemonVars, drift>>
    PROVE  ConnTrue(n)'
<1>0. SessionInv /\ NetTypeOK /\ CliTypeOK /\ CliInv /\ ConnTrue(n) /\ CliTrue(c)
    BY DEF SyncInv, SessionInv, ServiceInv, CliInv
<1>1. UNCHANGED <<checkout, drift, guard, thread, owner, disk, link>>
    BY DEF ProbeOnKept, SendManifest, SendProbe, slotVars, daemonVars
<1>2. CASE ProbeOnKept(c)
    <2>1. /\ owner[n] = c /\ toDaemon[n] = <<>>
          /\ thread[n].pc \in {"idle", "release"} /\ cli[c].pc = "stamped"
        BY <1>0, <1>2, OwnEnd DEF ProbeOnKept, Turn, Settling, One, Two
    <2>2. PICK m \in ToDaemon : /\ m.kind = "Probe" /\ m.fp = cli[c].fp
                                /\ m.speculative => m.files = cli[c].files
                                /\ toDaemon'[n] = Append(toDaemon[n], m)
        BY <1>0, <1>2, ProbeLands DEF ProbeOnKept
    <2>3. MessageTrue(m, c)
        BY <1>0, <2>1, <2>2 DEF CliTrue, MessageTrue
    <2>4. MailTrue(n)'
        BY <1>0, <1>1, <2>1, <2>2, <2>3, MailJoins DEF ConnTrue
    <2>5. ThreadTrue(n)' /\ TreeTrue(n)'
        BY <1>1, <2>1, NotSyncing DEF Syncing
    <2> QED BY <2>4, <2>5 DEF ConnTrue
<1>3. CASE SendManifest(c)
    <2> DEFINE m == [kind |-> "Manifest", files |-> BuildManifest(checkout[c])]
    <2>1. m \in ToDaemon
        BY <1>0, WalksTyped, PlainMessages DEF CliTypeOK
    <2>2. m.kind = "Manifest" /\ m.files = BuildManifest(checkout[c])
        OBVIOUS
    <2>3. Send(c, m)
        BY <1>3 DEF SendManifest
    <2>4. MessageTrue(m, c)
        BY <2>2 DEF MessageTrue, TrueFiles
    <2>5. (cli[c].pc = "response" /\ One(toClient[n], {"ProbeMiss"})) \/ link[n] # "up"
        <3>1. /\ cli[c].pc = "response" /\ toClient[n] # <<>> /\ Head(toClient[n]).kind = "ProbeMiss"
            BY <1>0, <1>3, ReceiveLands DEF SendManifest
        <3> QED BY <1>0, <3>1, OwnEnd DEF Turn, Settling, One, Two
    <2> HIDE DEF m
    <2>6. CASE link[n] = "up" /\ owner[n] = c /\ Turn(cli[c].pc, n)
        <3>1. toDaemon'[n] = Append(toDaemon[n], m)
            BY <1>0, <2>1, <2>3, <2>6, SendLands
        <3>2. MailTrue(n)'
            BY <1>0, <1>1, <2>1, <2>4, <2>6, <3>1, MailJoins DEF ConnTrue
        <3>3. thread[n].pc \notin {"receive", "insert"}
            <4>1. Head(toClient[n]).kind = "ProbeMiss" /\ cli[c].pc = "response"
                BY <2>5, <2>6 DEF One
            <4> QED BY <2>6, <4>1, EmptyShapes, <2>5 DEF Turn, Settling, One, Two
        <3>4. ThreadTrue(n)'
            BY <1>0, <1>1 DEF ConnTrue, ThreadTrue, TrueFiles, TrueStats
        <3>5. TreeTrue(n)'
            BY <1>1, <3>3 DEF TreeTrue
        <3> QED BY <3>2, <3>4, <3>5 DEF ConnTrue
    <2>7. CASE link[n] # "up" /\ thread[n].pc = "none" /\ toDaemon[n] = <<>>
        <3>1. toDaemon'[n] = toDaemon[n]
            BY <1>0, <2>1, <2>3, <2>7, SendLands
        <3>2. MailTrue(n)'
            BY <1>0, <1>1, <3>1, MailLeaves DEF ConnTrue
        <3>3. ThreadTrue(n)' /\ TreeTrue(n)'
            BY <1>1, <2>7, NotSyncing DEF Syncing
        <3> QED BY <3>2, <3>3 DEF ConnTrue
    <2> QED BY <1>0, <2>6, <2>7, OwnEnd
<1> QED BY <1>2, <1>3

(* A connection that has just been opened carries a probe and nothing else.  *)
LEMMA FreshKeepsTrue ==
    ASSUME SyncInv, NEW c \in Client, NEW n \in Conn, ProbeOnFresh(c, n), drift' = drift
    PROVE  \A k \in Conn : ConnTrue(k)'
<1>0. /\ SessionInv /\ NetTypeOK /\ DaemonTypeOK /\ CliInv /\ CliTrue(c) /\ MailFits(n)
      /\ \A k \in Conn : ConnTrue(k)
      /\ NoConn \notin Conn
    BY DeploymentAssumption DEF SyncInv, SessionInv, ServiceInv, CliInv, Conversation
<1>1. /\ cli[c].conn = NoConn /\ thread[n].pc = "none" /\ cli[c].pc = "stamped"
      /\ owner'[n] = c /\ UNCHANGED <<checkout, guard, disk>>
      /\ \A k \in Conn : k # n => link'[k] = link[k] /\ owner'[k] = owner[k] /\ toClient'[k] = toClient[k]
    BY <1>0 DEF ProbeOnFresh, SendProbe, NetTypeOK, slotVars
<1>2. thread'[n].pc = "idle" /\ \A k \in Conn : k # n => thread'[k] = thread[k]
    BY <1>0, GotoLands DEF ProbeOnFresh
<1>3. PICK m \in ToDaemon : /\ m.kind = "Probe" /\ m.fp = cli[c].fp
                            /\ m.speculative => m.files = cli[c].files
                            /\ toDaemon'[n] = Append(toDaemon[n], m)
    BY <1>0, ProbeLands DEF ProbeOnFresh
<1>4. /\ \A b \in Client : b # c => cli'[b] = cli[b]
      /\ \A k \in Conn : k # n => toDaemon'[k] = toDaemon[k]
    BY <1>0, ProbeLands DEF ProbeOnFresh
<1>5. ConnTrue(n)'
    <2>1. MessageTrue(m, c)
        BY <1>0, <1>1, <1>3 DEF CliTrue, MessageTrue
    <2>2. toDaemon[n] = <<>>
        BY <1>0, <1>1 DEF MailFits
    <2>3. MailTrue(n)'
        BY <1>0, <1>1, <1>3, <2>1, <2>2, MailJoins DEF ConnTrue
    <2>4. ThreadTrue(n)' /\ TreeTrue(n)'
        BY <1>2, NotSyncing DEF Syncing
    <2> QED BY <2>3, <2>4 DEF ConnTrue
<1>6. ASSUME NEW k \in Conn, k # n PROVE ConnTrue(k)'
    <2>1. link'[k] = "up" =>
              link[k] = "up" /\ toClient'[k] = toClient[k] /\ cli'[owner[k]] = cli[owner[k]]
        <3>1. link[k] = "up" => owner[k] \in Client /\ cli[owner[k]].conn = k
            BY <1>0, HolderTurn
        <3> QED BY <1>0, <1>1, <1>4, <1>6, <3>1
    <2>2. Steady(owner[k])
        BY <1>1 DEF Steady
    <2> QED BY <1>0, <1>1, <1>2, <1>4, <1>6, <2>1, <2>2, ConnFrame
<1> QED BY <1>5, <1>6

(* What a CLI has seen, while others act and while it acts itself.           *)
LEMMA StillSeen ==
    ASSUME NEW b, CliTrue(b), cli'[b] = cli[b], Steady(b)
    PROVE  CliTrue(b)'
<1> PICK t, fp : t = cli[b].files /\ fp = cli[b].fp
    OBVIOUS
<1>1. /\ TrueFiles(t, b) => TrueFiles(t, b)'
      /\ TrueStats(fp, b) => TrueStats(fp, b)'
    BY StaysTrue
<1> QED BY <1>1 DEF CliTrue

LEMMA SeesTrue ==
    ASSUME CliInv, NEW c \in Client, CliTrue(c),
           \/ ScanFiles(c)
           \/ /\ CliSteps(c) \/ GiveUp(c) \/ Vanish(c) \/ \E n \in Conn : ProbeOnFresh(c, n)
              /\ drift' = drift
    PROVE  CliTrue(c)'
<1>0. CliTypeOK
    BY DEF CliInv
<1>1. CASE ScanFiles(c)
    <2>1. cli'[c].pc = "scanned" /\ cli'[c].files = BuildManifest(checkout'[c])
        BY <1>0, <1>1 DEF ScanFiles, CliTypeOK
    <2> QED BY <2>1 DEF CliTrue, TrueFiles
<1>2. CASE TakeFingerprint(c) /\ drift' = drift
    <2>1. /\ cli[c].pc = "scanned" /\ cli'[c].pc = "stamped" /\ cli'[c].files = cli[c].files
          /\ cli'[c].fp = FingerprintOf(checkout'[c]) /\ checkout' = checkout
        BY <1>0, <1>2 DEF TakeFingerprint, CliTypeOK
    <2> QED BY <1>2, <2>1 DEF CliTrue, TrueFiles, TrueStats
<1>3. CASE ProbeOnKept(c) \/ \E n \in Conn : ProbeOnFresh(c, n)
    <2>1. \E n \in Conn : SendProbe(c, n)
        BY <1>0, <1>3 DEF ProbeOnKept, ProbeOnFresh, CliTypeOK
    <2>2. cli'[c].pc = "response"
        BY <2>1, ProbeLands
    <2> QED BY <2>2 DEF CliTrue
<1>4. CASE CannotConnect(c) \/ EndSession(c) \/ GiveUp(c) \/ Vanish(c)
    <2>1. PICK n : cli' = [cli EXCEPT ![c] = Idle(n)]
        BY <1>4 DEF CannotConnect, EndSession, GiveUp, Vanish
    <2>2. cli'[c] = Idle(n)
        BY <1>0, <2>1, CliLands
    <2>3. cli'[c].pc = "idle"
        BY <2>2 DEF Idle
    <2> QED BY <2>3 DEF CliTrue
<1>5. CASE \/ SyncSettled(c) \/ SendManifest(c) \/ LearnNeeded(c)
           \/ (\E p \in Path : StreamFile(c, p)) \/ SendSyncDone(c)
    <2>1. cli'[c].pc \notin {"scanned", "stamped"}
        <3>1. ASSUME NEW pc \in {"output", "needed", "ack"}, cli' = [cli EXCEPT ![c].pc = pc]
              PROVE  cli'[c].pc \notin {"scanned", "stamped"}
            <4>1. cli'[c].pc = pc
                BY <1>0, <3>1, CliMoves
            <4> QED BY <4>1
        <3>2. CASE LearnNeeded(c)
            BY <1>0, <3>2 DEF LearnNeeded, CliTypeOK
        <3>3. CASE \E p \in Path : StreamFile(c, p)
            BY <1>0, <3>3 DEF StreamFile, CliTypeOK
        <3>4. CASE SyncSettled(c)
            BY <3>1, <3>4 DEF SyncSettled
        <3>5. CASE SendManifest(c)
            BY <3>1, <3>5 DEF SendManifest
        <3>6. CASE SendSyncDone(c)
            BY <3>1, <3>6 DEF SendSyncDone
        <3> QED BY <1>5, <3>2, <3>3, <3>4, <3>5, <3>6
    <2> QED BY <2>1 DEF CliTrue
<1> QED BY <1>1, <1>2, <1>3, <1>4, <1>5 DEF CliSteps

-----------------------------------------------------------------------------
(* The files, always.                                                        *)

(* A step of a CLI, on the connection it has if it has one.                  *)
LEMMA CliStepKeepsTrue ==
    ASSUME SyncInv, NEW c \in Client,
           \/ ScanFiles(c)
           \/ /\ CliSteps(c) \/ GiveUp(c) \/ Vanish(c)
              /\ drift' = drift,
           UNCHANGED <<slotVars, daemonVars>>,
           \A b \in Client : b # c => drift'[b] = drift[b],
           \A k \in Conn : Relied(k) => Steady(owner[k])
    PROVE  (\A b \in Client : CliTrue(b)') /\ (\A k \in Conn : ConnTrue(k)')
<1>0. SessionInv /\ CliInv /\ \A b \in Client : CliTrue(b)
    BY DEF SyncInv, SessionInv, ServiceInv, CliInv
<1> PICK n : n = cli[c].conn
    OBVIOUS
<1>1. ClientKeeps(c, n)
    BY <1>0, CliStepKeeps
<1>2. checkout' = checkout
    BY DEF CliSteps, ScanFiles, TakeFingerprint, ProbeOnKept, SendProbe, CannotConnect, SyncSettled,
           SendManifest, LearnNeeded, StreamFile, SendSyncDone, EndSession, GiveUp, Vanish
<1>3. ASSUME NEW b \in Client PROVE CliTrue(b)'
    <2>1. CASE b = c
        BY <1>0, <2>1, SeesTrue
    <2>2. CASE b # c
        <3>1. cli'[b] = cli[b] /\ Steady(b)
            BY <1>1, <1>2, <2>2 DEF ClientKeeps, Steady
        <3> QED BY <1>0, <3>1, StillSeen
    <2> QED BY <2>1, <2>2
<1>4. UNCHANGED <<slotVars, disk>>
    BY DEF daemonVars
<1>5. ASSUME NEW k \in Conn PROVE ConnTrue(k)'
    <2>1. CASE k # n
        BY <1>1, <1>4, <2>1, OthersKeepTrue
    <2>2. CASE k = n
        <3>1. n \in Conn
            BY <2>2
        <3>2. CASE \/ SyncSettled(c) \/ ScanFiles(c) \/ TakeFingerprint(c) \/ EndSession(c)
                   \/ CannotConnect(c) \/ GiveUp(c) \/ Vanish(c)
            BY <1>1, <1>4, <2>2, <3>1, <3>2, QuietKeepsTrue
        <3>3. CASE (ProbeOnKept(c) \/ SendManifest(c)) /\ drift' = drift
            BY <2>2, <3>1, <3>3, ProbingKeepsTrue
        <3>4. CASE LearnNeeded(c) /\ drift' = drift
            BY <2>2, <3>1, <3>4, LearnKeepsTrue
        <3>5. CASE ((\E p \in Path : StreamFile(c, p)) \/ SendSyncDone(c)) /\ drift' = drift
            BY <2>2, <3>1, <3>5, StreamKeepsTrue
        <3> QED BY <3>2, <3>3, <3>4, <3>5 DEF CliSteps
    <2> QED BY <2>1, <2>2
<1> QED BY <1>3, <1>5

(* A step that changes nothing but the checkouts and their drift.            *)
LEMMA AsideKeepsTrue ==
    ASSUME SyncInv, UNCHANGED <<cli, netVars, slotVars, daemonVars>>,
           \A c \in Client : Steady(c)
    PROVE  (\A b \in Client : CliTrue(b)') /\ (\A k \in Conn : ConnTrue(k)')
<1>1. ASSUME NEW b \in Client PROVE CliTrue(b)'
    BY <1>1, StillSeen DEF SyncInv
<1>2. ASSUME NEW k \in Conn PROVE ConnTrue(k)'
    <2>1. Relied(k) => Steady(owner[k])
        BY ReliedOwner DEF SyncInv
    <2>2. UNCHANGED <<thread, toDaemon, owner, guard, disk, link, toClient>>
        BY DEF netVars, slotVars, daemonVars
    <2> QED BY <2>1, <2>2, ConnFrame DEF SyncInv, SessionInv, ServiceInv
<1> QED BY <1>1, <1>2

(* At the start nobody has said anything.                                    *)
LEMMA InitSync == Init => SyncInv
<1> SUFFICES ASSUME Init PROVE SyncInv
    OBVIOUS
<1>1. SessionInv
    BY InitSession
<1>2. /\ \A c \in Client : cli[c].pc = "idle"
      /\ \A n \in Conn : toDaemon[n] = <<>> /\ thread[n].pc = "none"
    BY AtTyped DEF Init, CliInit, NetInit, DaemonInit, Idle, At
<1>3. \A c \in Client : CliTrue(c)
    BY <1>2 DEF CliTrue
<1>4. \A n \in Conn : ConnTrue(n)
    BY <1>2, EmptySeq DEF ConnTrue, MailTrue, ThreadTrue, TreeTrue, Syncing
<1> QED BY <1>1, <1>3, <1>4 DEF SyncInv

(* Every step of the service.                                                *)
LEMMA NextSync ==
    ASSUME WorkspacesDistinct, SyncInv, [Next]_vars
    PROVE  SyncInv'
<1>0. SessionInv /\ SessionInv' /\ BudgetTypeOK
    BY NextSession DEF SyncInv, SessionInv, ServiceInv
<1> DEFINE Kept == (\A b \in Client : CliTrue(b)') /\ (\A k \in Conn : ConnTrue(k)')
<1> SUFFICES Kept
    BY <1>0 DEF SyncInv
<1>1. (\A k \in Conn : Relied(k) => owner[k] \in Client) /\ drift \in [Client -> SUBSET Path]
    BY <1>0, ReliedOwner DEF BudgetTypeOK
<1>2. ASSUME NEW c \in Client, BeginAttempt(c) PROVE Kept
    <2>1. /\ ScanFiles(c) /\ UNCHANGED <<slotVars, daemonVars>> /\ checkout' = checkout
          /\ \A b \in Client : b # c => drift'[b] = drift[b]
          /\ SyncPending(c) => drift' = drift
        BY <1>1, <1>2 DEF BeginAttempt, ScanFiles
    <2>2. ASSUME NEW k \in Conn, Relied(k) PROVE Steady(owner[k])
        <3>1. owner[k] = c => SyncPending(c)
            BY <2>2 DEF SyncPending, Relied, Syncing, HasMail
        <3> QED BY <1>1, <2>1, <2>2, <3>1 DEF Steady
    <2> QED BY <2>1, <2>2, CliStepKeepsTrue
<1>3. ASSUME NEW c \in Client, CliSteps(c) \/ GiveUp(c) \/ Vanish(c),
             UNCHANGED <<slotVars, daemonVars, historyVars>>
      PROVE  Kept
    <2>1. checkout' = checkout /\ drift' = drift
        BY <1>3 DEF CliSteps, TakeFingerprint, ProbeOnKept, SendProbe, CannotConnect, SyncSettled,
               SendManifest, LearnNeeded, StreamFile, SendSyncDone, EndSession, GiveUp, Vanish,
               historyVars
    <2>2. \A k \in Conn : Relied(k) => Steady(owner[k])
        BY <2>1 DEF Steady
    <2> QED BY <1>3, <2>1, <2>2, CliStepKeepsTrue
<1>4. ASSUME NEW c \in Client, NEW n \in Conn, ProbeOnFresh(c, n), UNCHANGED historyVars
      PROVE  Kept
    <2>1. \A k \in Conn : ConnTrue(k)'
        BY <1>4, FreshKeepsTrue DEF historyVars
    <2>2. ASSUME NEW b \in Client PROVE CliTrue(b)'
        <3>1. checkout' = checkout /\ drift' = drift /\ CliInv /\ CliTrue(b)
            BY <1>4 DEF ProbeOnFresh, SendProbe, historyVars, SyncInv, SessionInv, ServiceInv, CliInv
        <3>2. b # c => cli'[b] = cli[b]
            BY <1>4, <3>1, ProbeLands DEF ProbeOnFresh
        <3>3. Steady(b)
            BY <3>1 DEF Steady
        <3> QED BY <1>4, <3>1, <3>2, <3>3, SeesTrue, StillSeen
    <2> QED BY <2>1, <2>2
<1>5. ASSUME NEW c \in Client, ClientStep(c) \/ NoticeShut(c) PROVE Kept
    BY <1>3, <1>4, <1>5 DEF ClientStep, NoticeShut
<1>6. ASSUME (\E n \in Conn : DriftingMove(n)) \/ (Restart /\ drift' = drift), UNCHANGED cliVars
      PROVE  Kept
    <2>1. UNCHANGED <<checkout, cli>>
        BY <1>6 DEF cliVars
    <2>2. \A k \in Conn : ConnTrue(k)'
        BY <1>6, <2>1, DaemonKeepsTrue
    <2>3. \A b \in Client : Steady(b)
        BY <1>1, <1>6, <2>1, DriftGrows DEF Steady
    <2>4. \A b \in Client : CliTrue(b)'
        BY <2>1, <2>3, StillSeen DEF SyncInv
    <2> QED BY <2>2, <2>4
<1>7. ASSUME NEW n \in Conn, DaemonStep(n) PROVE Kept
    BY <1>6, <1>7 DEF DaemonStep, BlockedFails, DriftingMove
<1>8. CASE EditStep
    <2>1. PICK c \in Client, p \in Path :
              /\ drift' = [drift EXCEPT ![c] = @ \cup {p}]
              /\ \E v : checkout' = [checkout EXCEPT ![c][p] = v]
              /\ UNCHANGED <<cli, netVars, slotVars, daemonVars>>
        BY <1>8 DEF EditStep, Edit
    <2>2. checkout \in [Client -> Checkout]
        BY DEF SyncInv, SessionInv, ServiceInv, CliTypeOK
    <2>3. ASSUME NEW b \in Client PROVE Steady(b)
        BY <1>1, <2>1, <2>2 DEF Steady, Checkout
    <2> QED BY <2>1, <2>3, AsideKeepsTrue
<1>9. CASE BreakStep
    BY <1>3, <1>9 DEF BreakStep
<1>10. CASE FailStep
    BY <1>6, <1>10 DEF FailStep, DriftingMove
<1>11. CASE UNCHANGED vars
    <2>1. UNCHANGED <<checkout, drift, cli, netVars, slotVars, daemonVars>>
        BY <1>11 DEF vars, cliVars, historyVars
    <2> QED BY <2>1, AsideKeepsTrue DEF Steady
<1> QED BY <1>2, <1>5, <1>7, <1>8, <1>9, <1>10, <1>11 DEF Next

(* What is said of the clients' files is true, on every connection.          *)
THEOREM SyncSafety ==
    ASSUME WorkspacesDistinct
    PROVE  Spec => []SyncInv
BY InitSync, NextSync, PTL DEF Spec

(* A directory whose sync is acknowledged holds the client's manifest, up to *)
(* what the client edited meanwhile, to stale files the daemon could not     *)
(* read or remove, and to leftovers below "target".                          *)
THEOREM SyncIsExact ==
    ASSUME WorkspacesDistinct
    PROVE  Spec => []SyncExact
<1>1. SyncInv => SyncExact
    BY DEF SyncInv, ConnTrue, TreeTrue, InPlace, SyncExact
<1> QED BY <1>1, SyncSafety, PTL

-----------------------------------------------------------------------------
(* Who writes where, while a build is on.                                    *)

(* No source file in the directory of thread n is written in this step.      *)
SourcesStay(n) ==
    thread[n].pc \in {"acquired", "insert", "build"} =>
        \A p \in Path \ TargetPath : disk'[Workspace(n)].file[p] = disk[Workspace(n)].file[p]

(* The thread itself writes none: a build or a clean stays below "target".   *)
LEMMA OwnSourcesStay ==
    ASSUME DaemonInv, NEW n \in Conn, ThreadMoves(n)
    PROVE  SourcesStay(n)
<1> SUFFICES ASSUME thread[n].pc \in {"acquired", "insert", "build"}, NEW p \in Path \ TargetPath
             PROVE  disk'[Workspace(n)].file[p] = disk[Workspace(n)].file[p]
    BY DEF SourcesStay
<1>1. CASE RunBuild(n)
    <2>1. guard[n] \in Slot /\ thread[n].pc = "build"
        BY <1>1 DEF RunBuild, DaemonInv, HoldsItsSlot, ThreadStates, SlotInv, SlotTypeOK
    <2>2. disk \in [Directory -> Disk] /\ Workspace(n) \in Directory
        BY <2>1 DEF DaemonInv, DaemonTypeOK, Workspace, Directory
    <2>3. \/ disk' = disk
          \/ \E left : disk' = [disk EXCEPT ![Workspace(n)] = CleanTarget(disk[Workspace(n)], left)]
        BY <1>1 DEF RunBuild
    <2>4. p \notin RootTarget
        BY SourceTreeAssumption
    <2>5. \A left : CleanTarget(disk[Workspace(n)], left).file[p] = disk[Workspace(n)].file[p]
        BY <2>4 DEF CleanTarget
    <2> QED BY <2>2, <2>3, <2>5
<1>2. CASE ~RunBuild(n)
    <2>1. disk' = disk
        BY <1>2, MovesOfThread DEF IoFails, Writing, ServeProbe, RejectBusy, SkipSync, StartSync,
                    WriteBundled, Reconciles, ReconcileBundled, ReconcileManifest, ReceiveFile,
                    AckSync, InsertFingerprint, Finish, PeerGone, Unwind
    <2> QED BY <2>1
<1> QED BY <1>1, <1>2

(* A file a dying process leaves torn is in the directory of a sync.         *)
LEMMA RestartTouches ==
    ASSUME DaemonInv, Restart
    PROVE  \/ disk' = disk
           \/ \E m \in Conn : thread[m].pc \in {"bundle", "receive"} /\ Touches(m)
<1> SUFFICES ASSUME disk' # disk
             PROVE  \E m \in Conn : thread[m].pc \in {"bundle", "receive"} /\ Touches(m)
    OBVIOUS
<1>1. PICK m \in Conn : thread[m].pc \in {"bundle", "receive"} /\ \E p : FailedWrite(m, p)
    BY DEF Restart, Writing
<1>2. guard[m] # NoSlot
    BY <1>1 DEF DaemonInv, HoldsItsSlot, ThreadStates
<1>3. \E p : disk' = [disk EXCEPT ![Workspace(m)] = WriteFile(disk[Workspace(m)], p, Torn)]
    BY <1>1 DEF FailedWrite
<1> QED BY <1>1, <1>2, <1>3 DEF Touches

(* Where no two slots share a directory: what a thread found up to date, or  *)
(* has put in place, is what its build reads, whatever others sync, break    *)
(* off or leave torn meanwhile.                                              *)
THEOREM TreesAreSteady ==
    ASSUME WorkspacesDistinct
    PROVE  Spec => TreeSteady
<1>1. ASSUME ServiceInv, [Next]_vars, NEW n \in Conn PROVE SourcesStay(n)
    <2>0. DaemonInv
        BY <1>1 DEF ServiceInv, DaemonInv
    <2>1. thread[n].pc \in {"acquired", "insert", "build"} => guard[n] # NoSlot
        BY <2>0 DEF DaemonInv, HoldsItsSlot, ThreadStates
    <2>2. ASSUME NEW k \in Conn, ThreadMoves(k) PROVE SourcesStay(n)
        <3>1. CASE k = n
            BY <2>0, <2>2, <3>1, OwnSourcesStay
        <3>2. CASE k # n
            <4>1. Touches(k)
                BY <2>0, <2>2, ThreadTouches
            <4> QED BY <2>0, <2>1, <3>2, <4>1, TouchesOwn DEF SourcesStay
        <3> QED BY <3>1, <3>2
    <2>3. CASE Restart
        <3>1. CASE disk' = disk
            BY <3>1 DEF SourcesStay
        <3>2. ASSUME NEW m \in Conn, thread[m].pc \in {"bundle", "receive"}, Touches(m)
              PROVE  SourcesStay(n)
            BY <2>0, <2>1, <3>2, TouchesOwn DEF SourcesStay
        <3> QED BY <2>0, <2>3, <3>1, <3>2, RestartTouches
    <2>4. CASE disk' = disk
        BY <2>4 DEF SourcesStay
    <2>5. ASSUME NEW k \in Conn, DaemonStep(k) PROVE SourcesStay(n)
        BY <2>2, <2>5 DEF DaemonStep, BlockedFails, ThreadMoves
    <2>6. ASSUME FailStep PROVE SourcesStay(n)
        BY <2>2, <2>3, <2>6 DEF FailStep, Overlook, ThreadMoves
    <2>7. ASSUME NEW c \in Client, BeginAttempt(c) \/ ClientStep(c) \/ NoticeShut(c) PROVE disk' = disk
        BY <2>7 DEF BeginAttempt, ClientStep, NoticeShut, ProbeOnFresh, daemonVars
    <2>8. ASSUME EditStep \/ BreakStep \/ UNCHANGED vars PROVE disk' = disk
        BY <2>8 DEF EditStep, BreakStep, vars, daemonVars
    <2> QED BY <1>1, <2>4, <2>5, <2>6, <2>7, <2>8 DEF Next
<1>2. ServiceInv /\ [Next]_vars => [\A n \in Conn : SourcesStay(n)]_vars
    BY <1>1
<1>3. [\A n \in Conn : SourcesStay(n)]_vars <=>
      [\A n \in Conn : thread[n].pc \in {"acquired", "insert", "build"} =>
          \A p \in Path \ TargetPath :
              disk'[Workspace(n)].file[p] = disk[Workspace(n)].file[p]]_vars
    BY DEF SourcesStay
<1> QED BY <1>2, <1>3, ServiceSafety, PTL DEF Spec, TreeSteady

-----------------------------------------------------------------------------
(* What the fingerprint cache says of the directories.                       *)

(* The recorded fingerprint describes the directory, as long as the history  *)
(* of the slot is honest.                                                    *)
RecordTrue(s) ==
    honest[s] /\ fingerprints[s] # NoFingerprint =>
        Describes(fingerprints[s], disk[WorkspaceOf(s)].file)

(* Whether it was found or has just been recorded, a build's fingerprint is  *)
(* the one of its slot.                                                      *)
BuildsRecorded(n) == thread[n].pc = "build" => fingerprints[guard[n]] = thread[n].fp

RecordsInv ==
    /\ SyncInv
    /\ \A s \in Slot : RecordTrue(s)
    /\ \A n \in Conn : BuildsRecorded(n)

(* A build comes after a probe that matched, or after a sync.                *)
LEMMA ReachesBuild ==
    ASSUME DaemonTypeOK, NEW n \in Conn, ThreadMoves(n), thread'[n].pc = "build"
    PROVE  \/ SkipSync(n) /\ thread'[n].fp = thread[n].fp
           \/ InsertFingerprint(n) /\ thread'[n].fp = thread[n].fp /\ thread[n].pc = "insert"
<1>1. At("idle").pc = "idle" /\ At("release").pc = "release" /\ At("none").pc = "none"
    BY AtTyped DEF ThreadStates
<1>2. ASSUME NEW pc \in ThreadStates
      PROVE  /\ [thread[n] EXCEPT !.pc = pc].pc = pc
             /\ [thread[n] EXCEPT !.pc = pc].fp = thread[n].fp
    <2>1. [thread[n] EXCEPT !.pc = pc].pc = pc
        BY AdvanceTyped
    <2>2. [thread[n] EXCEPT !.pc = pc].fp = thread[n].fp
        BY RecordFields
    <2> QED BY <2>1, <2>2
<1>3. "build" \in ThreadStates /\ "insert" \in ThreadStates /\ "receive" \in ThreadStates
      /\ "manifest" \in ThreadStates
    BY DEF ThreadStates
<1>4. CASE SkipSync(n)
    <2>1. thread'[n] = [thread[n] EXCEPT !.pc = "build"]
        BY <1>4, ReplyLeads DEF SkipSync
    <2> QED BY <1>2, <1>3, <1>4, <2>1
<1>5. CASE InsertFingerprint(n)
    <2>1. thread'[n] = [thread[n] EXCEPT !.pc = "build"] /\ thread[n].pc = "insert"
        BY <1>5, GotoLands DEF InsertFingerprint
    <2> QED BY <1>2, <1>3, <1>5, <2>1
<1>6. CASE ServeProbe(n) \/ RunBuild(n) \/ Finish(n) \/ Unwind(n) \/ PeerGone(n) \/ IoFails(n)
    <2>1. CASE ServeProbe(n)
        BY <2>1, BecomeLands DEF ServeProbe
    <2>2. CASE RunBuild(n) \/ Finish(n) \/ Unwind(n)
        BY <1>1, <2>2, BecomeLands DEF RunBuild, Finish, Unwind
    <2>3. CASE PeerGone(n) \/ IoFails(n)
        <3>1. Goto(n, "unwind")
            BY <2>3 DEF PeerGone, IoFails
        <3>2. thread'[n].pc = "unwind"
            BY <3>1, GotoLands
        <3> QED BY <3>2
    <2> QED BY <1>6, <2>1, <2>2, <2>3
<1>7. CASE RejectBusy(n)
    BY <1>1, <1>7, ReplyLeads DEF RejectBusy
<1>8. CASE StartSync(n)
    <2>1. Goto(n, "bundle") \/ Reply(n, [kind |-> "ProbeMiss"], [thread[n] EXCEPT !.pc = "manifest"])
        BY <1>8 DEF StartSync
    <2>2. CASE Goto(n, "bundle")
        <3>1. thread'[n].pc = "bundle"
            BY <2>2, GotoLands
        <3> QED BY <3>1
    <2>3. CASE Reply(n, [kind |-> "ProbeMiss"], [thread[n] EXCEPT !.pc = "manifest"])
        BY <1>2, <1>3, <2>3, ReplyLeads
    <2> QED BY <2>1, <2>2, <2>3
<1>9. ASSUME NEW p \in Path, WriteBundled(n, p) PROVE FALSE
    BY <1>9, BecomeLands DEF WriteBundled, DaemonTypeOK
<1>10. ASSUME NEW files, NEW ack, NEW unread, NEW stuck,
              Reconcile(n, files, ack, unread, stuck), thread[n].pc # "build"
       PROVE  FALSE
    <2>1. PICK m, pc : /\ pc \in {"insert", "receive"}
                       /\ Reply(n, m, [thread[n] EXCEPT !.pc = pc, !.files = files])
        BY <1>10 DEF Reconcile
    <2>2. thread'[n] = [thread[n] EXCEPT !.pc = pc, !.files = files]
        BY <2>1, ReplyLeads
    <2> QED BY <2>1, <2>2 DEF DaemonTypeOK
<1>11. CASE Reconciles(n)
    BY <1>10, <1>11 DEF Reconciles, ReconcileBundled, ReconcileManifest
<1>12. CASE ReceiveFile(n)
    BY <1>12 DEF ReceiveFile
<1>13. CASE AckSync(n)
    <2>1. Reply(n, [kind |-> "SyncAck"], [thread[n] EXCEPT !.pc = "insert"])
        BY <1>13 DEF AckSync
    <2> QED BY <1>2, <1>3, <2>1, ReplyLeads
<1> QED BY <1>4, <1>5, <1>6, <1>7, <1>8, <1>9, <1>11, <1>12, <1>13, MovesOfThread

(* What a sync that no edit overlapped and that overlooked nothing stale     *)
(* leaves in the directory is what its fingerprint describes.                *)
LEMMA SyncedDescribes ==
    ASSUME SyncInv, NEW n \in Conn, thread[n].pc = "insert",
           drift[owner[n]] = {}
    PROVE  Describes(thread[n].fp, disk[Workspace(n)].file)
<1>1. owner[n] \in Client
    BY DEF SyncInv, SessionInv, ServiceInv, Authenticated
<1> PICK c \in Client : c = owner[n]
    BY <1>1
<1> PICK w \in Checkout : w = checkout[c]
    BY DEF SyncInv, SessionInv, ServiceInv, CliTypeOK
<1>2. \A p \in Path :
          /\ thread[n].fp[p] = FingerprintOf(w)[p]
          /\ thread[n].files[p] = BuildManifest(w)[p]
          /\ InPlace(n, p)
    BY DEF SyncInv, ConnTrue, ThreadTrue, TreeTrue, TrueFiles, TrueStats, Syncing
<1>3. ASSUME NEW p \in Path \ TargetPath
      PROVE  IF thread[n].fp[p] = Absent THEN disk[Workspace(n)].file[p] = Absent
             ELSE \E v \in Version : StatOf[v] = thread[n].fp[p]
                                     /\ disk[Workspace(n)].file[p] = ContentOf[v]
    <2>1. /\ disk[Workspace(n)].file[p] = (IF w[p] = Absent THEN Absent ELSE ContentOf[w[p]])
          /\ thread[n].fp[p] = (IF w[p] = Absent THEN Absent ELSE StatOf[w[p]])
        BY <1>2 DEF InPlace, BuildManifest, FingerprintOf
    <2>2. w[p] # Absent => w[p] \in Version /\ StatOf[w[p]] # Absent
        BY SourceTreeAssumption DEF Checkout
    <2> QED BY <2>1, <2>2
<1> QED BY <1>3 DEF Describes

(* Threads, and a restart.                                                   *)
LEMMA DaemonKeepsRecords ==
    ASSUME WorkspacesDistinct, RecordsInv, NoteHonesty, (\E n \in Conn : ThreadMoves(n)) \/ Restart
    PROVE  (\A s \in Slot : RecordTrue(s)') /\ (\A k \in Conn : BuildsRecorded(k)')
<1>0. /\ NetTypeOK /\ DaemonTypeOK /\ SlotTypeOK /\ SlotExclusive /\ HoldsItsSlot /\ DaemonInv
      /\ SessionInv /\ SyncInv
    BY DEF RecordsInv, SyncInv, SessionInv, ServiceInv, SlotInv, DaemonInv
<1>1. ASSUME Restart
      PROVE  (\A s \in Slot : RecordTrue(s)') /\ (\A k \in Conn : BuildsRecorded(k)')
    <2>1. /\ \A s \in Slot : fingerprints'[s] = NoFingerprint
          /\ \A k \in Conn : thread'[k].pc = "none"
        BY <1>1, AtTyped DEF Restart, ThreadStates
    <2> QED BY <2>1 DEF RecordTrue, BuildsRecorded
<1>2. ASSUME NEW n \in Conn, ThreadMoves(n)
      PROVE  (\A s \in Slot : RecordTrue(s)') /\ (\A k \in Conn : BuildsRecorded(k)')
    <2>1. /\ \A k \in Conn : k # n => thread'[k] = thread[k] /\ guard'[k] = guard[k]
          /\ \A k \in Conn : thread[k].pc \in {"acquired", "insert", "build"} => guard[k] \in Slot
        <3>1. OnlyOn(n)
            BY <1>0, <1>2, ThreadKeepsTurn DEF SessionInv, Conversation, KeepsTurn
        <3> QED BY <1>0, <1>2, <3>1, ThreadTouches DEF OnlyOn, HoldsItsSlot, SlotTypeOK, ThreadStates
    <2>2. thread'[n].pc = "build" =>
              \/ SkipSync(n) /\ thread'[n].fp = thread[n].fp
              \/ InsertFingerprint(n) /\ thread'[n].fp = thread[n].fp /\ thread[n].pc = "insert"
        BY <1>0, <1>2, ReachesBuild
    <2>3. \/ fingerprints' = fingerprints
          \/ /\ InsertFingerprint(n) /\ thread[n].pc = "insert" /\ thread'[n].pc = "build"
             /\ fingerprints' = [fingerprints EXCEPT ![guard[n]] = thread[n].fp]
             /\ disk' = disk /\ guard' = guard
        <3>1. CASE InsertFingerprint(n)
            BY <1>0, <3>1, GotoLands DEF InsertFingerprint, slotVars
        <3>2. CASE ~InsertFingerprint(n)
            BY <1>2, <3>2, MovesOfThread DEF ServeProbe, RejectBusy, SkipSync, StartSync, WriteBundled,
               Reconciles, ReconcileBundled, ReconcileManifest, ReceiveFile, AckSync, RunBuild, Finish,
               IoFails, PeerGone, Unwind
        <3> QED BY <3>1, <3>2
    <2>4. fingerprints \in [Slot -> Fingerprint \cup {NoFingerprint}]
        BY <1>0 DEF DaemonTypeOK
    <2>5. ASSUME NEW s \in Slot PROVE RecordTrue(s)'
        <3> SUFFICES ASSUME honest'[s], fingerprints'[s] # NoFingerprint
                     PROVE  Describes(fingerprints'[s], disk'[WorkspaceOf(s)].file)
            BY DEF RecordTrue
        <3>1. CASE \E k \in Conn : RecordedNow(s, k)
            <4>1. PICK k \in Conn : RecordedNow(s, k) /\ drift[owner[k]] = {}
                BY <3>1 DEF NoteHonesty
            <4>2. k = n /\ guard[n] = s /\ thread[n].pc = "insert" /\ thread'[n].pc = "build"
                BY <2>1, <4>1 DEF RecordedNow
            <4>3. /\ fingerprints' = [fingerprints EXCEPT ![s] = thread[n].fp]
                  /\ disk' = disk
                BY <2>2, <4>2 DEF SkipSync, InsertFingerprint
            <4>4. Describes(thread[n].fp, disk[WorkspaceOf(s)].file)
                BY <1>0, <4>1, <4>2, SyncedDescribes DEF Workspace
            <4> QED BY <2>4, <4>3, <4>4
        <3>2. CASE ~\E k \in Conn : RecordedNow(s, k)
            <4>1. honest[s] /\ ~SourcesTouched(s)
                BY <3>2 DEF NoteHonesty
            <4>2. fingerprints'[s] = fingerprints[s]
                BY <2>3, <2>4, <3>2 DEF RecordedNow
            <4>3. Describes(fingerprints[s], disk[WorkspaceOf(s)].file)
                BY <4>1, <4>2 DEF RecordsInv, RecordTrue
            <4> QED BY <4>1, <4>2, <4>3 DEF Describes, SourcesTouched
        <3> QED BY <3>1, <3>2
    <2>6. ASSUME NEW k \in Conn PROVE BuildsRecorded(k)'
        <3> SUFFICES ASSUME thread'[k].pc = "build" PROVE fingerprints'[guard'[k]] = thread'[k].fp
            BY DEF BuildsRecorded
        <3>1. CASE k = n
            <4>1. CASE SkipSync(n) /\ thread'[n].fp = thread[n].fp
                BY <3>1, <4>1 DEF SkipSync, slotVars
            <4>2. CASE InsertFingerprint(n) /\ thread'[n].fp = thread[n].fp /\ thread[n].pc = "insert"
                BY <2>1, <2>4, <3>1, <4>2 DEF InsertFingerprint, slotVars
            <4> QED BY <2>2, <3>1, <4>1, <4>2
        <3>2. CASE k # n
            <4>1. /\ thread'[k] = thread[k] /\ guard'[k] = guard[k] /\ guard[k] \in Slot
                  /\ fingerprints[guard[k]] = thread[k].fp
                BY <2>1, <3>2 DEF RecordsInv, BuildsRecorded
            <4>2. guard[k] # guard[n]
                BY <1>0, <3>2, <4>1, DeploymentAssumption DEF SlotExclusive
            <4> QED BY <2>3, <2>4, <4>1, <4>2
        <3> QED BY <3>1, <3>2
    <2> QED BY <2>5, <2>6
<1> QED BY <1>1, <1>2

(* The CLIs do not touch the daemon's records.                               *)
LEMMA AsideKeepsRecords ==
    ASSUME RecordsInv, UNCHANGED <<fingerprints, disk, honest, guard>>,
           \A k \in Conn : thread'[k] = thread[k] \/ thread'[k].pc = "idle"
    PROVE  (\A s \in Slot : RecordTrue(s)') /\ (\A k \in Conn : BuildsRecorded(k)')
BY DEF RecordsInv, RecordTrue, BuildsRecorded, Describes

(* Every step of the service.                                                *)
LEMMA NextRecords ==
    ASSUME WorkspacesDistinct, RecordsInv, [Next]_vars
    PROVE  RecordsInv'
<1>0. SyncInv /\ SyncInv'
    BY NextSync DEF RecordsInv
<1> DEFINE Kept == (\A s \in Slot : RecordTrue(s)') /\ (\A k \in Conn : BuildsRecorded(k)')
<1> SUFFICES Kept
    BY <1>0 DEF RecordsInv
<1>1. CASE \/ \E c \in Client : BeginAttempt(c) \/ NoticeShut(c)
           \/ EditStep \/ BreakStep \/ UNCHANGED vars
    <2>1. UNCHANGED <<fingerprints, disk, honest, guard, thread>>
        BY <1>1 DEF BeginAttempt, NoticeShut, EditStep, BreakStep, vars, slotVars, daemonVars, historyVars
    <2> QED BY <2>1, AsideKeepsRecords
<1>2. ASSUME NEW c \in Client, ClientStep(c) PROVE Kept
    <2>1. UNCHANGED <<fingerprints, disk, honest, guard>>
        BY <1>2 DEF ClientStep, ProbeOnFresh, slotVars, daemonVars, historyVars
    <2>2. \A k \in Conn : thread'[k] = thread[k] \/ thread'[k].pc = "idle"
        <3>1. ASSUME NEW n \in Conn, ProbeOnFresh(c, n), NEW k \in Conn
              PROVE  thread'[k] = thread[k] \/ thread'[k].pc = "idle"
            BY <1>0, <3>1, GotoLands DEF ProbeOnFresh, SyncInv, SessionInv, ServiceInv
        <3> QED BY <1>2, <3>1 DEF ClientStep, daemonVars
    <2> QED BY <2>1, <2>2, AsideKeepsRecords
<1>3. CASE (\E n \in Conn : DaemonStep(n)) \/ FailStep
    <2>1. ((\E n \in Conn : ThreadMoves(n)) \/ Restart) /\ NoteHonesty
        BY <1>3 DEF DaemonStep, BlockedFails, FailStep, Overlook, ThreadMoves
    <2> QED BY <2>1, DaemonKeepsRecords
<1> QED BY <1>1, <1>2, <1>3 DEF Next

(* The cache speaks the truth of every directory whose history is honest.    *)
THEOREM RecordsSafety ==
    ASSUME WorkspacesDistinct
    PROVE  Spec => []RecordsInv
<1>1. Init => RecordsInv
    <2> SUFFICES ASSUME Init PROVE RecordsInv
        OBVIOUS
    <2>1. /\ \A s \in Slot : fingerprints[s] = NoFingerprint
          /\ \A n \in Conn : thread[n].pc = "none"
        BY AtTyped DEF Init, DaemonInit, ThreadStates
    <2> QED BY <2>1, InitSync DEF RecordsInv, RecordTrue, BuildsRecorded
<1> QED BY <1>1, NextRecords, PTL DEF Spec

(* A build reads the tree its client probed with, whether its sync was done  *)
(* or skipped, as long as no edit overlapped the sync that recorded the      *)
(* fingerprint, that sync overlooked nothing stale, and no sync has been     *)
(* broken off since.                                                         *)
THEOREM BuildsReadOwnTree ==
    ASSUME WorkspacesDistinct
    PROVE  Spec => []BuildReadsOwnTree
<1>1. RecordsInv => BuildReadsOwnTree
    <2> SUFFICES ASSUME RecordsInv, NEW n \in Conn, thread[n].pc = "build", honest[guard[n]]
                 PROVE  Describes(thread[n].fp, disk[Workspace(n)].file)
        BY DEF BuildReadsOwnTree
    <2>1. guard[n] \in Slot /\ thread[n].fp \in Fingerprint
        BY DEF RecordsInv, SyncInv, SessionInv, ServiceInv, HoldsItsSlot, DaemonTypeOK, SlotTypeOK
    <2>2. fingerprints[guard[n]] = thread[n].fp /\ thread[n].fp # NoFingerprint
        BY <2>1, DaemonAssumption DEF RecordsInv, BuildsRecorded
    <2> QED BY <2>1, <2>2 DEF RecordsInv, RecordTrue, Workspace
<1> QED BY <1>1, RecordsSafety, PTL

(* Where the mtime and size of a file tell its contents, what a fingerprint  *)
(* allows and what it is taken to say are the same.                          *)
LEMMA DescribesDetermines ==
    ASSUME StatDistinguishes, NEW fp, NEW t, Describes(fp, t)
    PROVE  Determines(fp, t)
<1> SUFFICES ASSUME NEW p \in Path \ TargetPath, fp[p] # Absent,
                    NEW v \in Version, StatOf[v] = fp[p]
             PROVE  t[p] = ContentOf[v]
    BY DEF Describes, Determines
<1>1. PICK w \in Version : StatOf[w] = fp[p] /\ t[p] = ContentOf[w]
    BY DEF Describes
<1> QED BY <1>1 DEF StatDistinguishes

(* There a build reads the tree its client probed with, to the byte: a probe *)
(* that is answered from the cache builds what a sync would have brought.    *)
BuildReadsTheTree ==
    \A n \in Conn : thread[n].pc = "build" /\ honest[guard[n]] =>
        Determines(thread[n].fp, disk[Workspace(n)].file)

THEOREM BuildsReadTheTree ==
    ASSUME StatDistinguishes, WorkspacesDistinct
    PROVE  Spec => []BuildReadsTheTree
<1>1. BuildReadsOwnTree => BuildReadsTheTree
    BY DescribesDetermines DEF BuildReadsOwnTree, BuildReadsTheTree
<1> QED BY <1>1, BuildsReadOwnTree, PTL
=============================================================================
