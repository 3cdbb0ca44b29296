-------------------------- MODULE Workstation_proofs --------------------------
(* Agents and logins, for any number of runs, agents, kills and interrupts.  *)
EXTENDS Workstation, SequenceTheorems, TLAPS

CliPc == {"ended", "start", "spawn", "dispatch", "token", "connect", "waiting",
          "saving", "look", "leaving", "write", "writing", "written", "running"}

AgentPc == {"none", "reading", "removing", "connecting", "listening", "gone"}

AgentType == [pc : AgentPc, token : Nat, late : BOOLEAN]

Types ==
    /\ cli \in [Run -> CliPc]
    /\ agent \in [Run -> AgentType]
    /\ backlog \in [Run -> Seq(Run)]
    /\ name \in Run \cup {NoFile, Stale}
    /\ issued \in Nat /\ saved \in 0 .. issued
    /\ \A a \in Run : agent[a].token \in 0 .. issued

(* An agent is spawned once, and holds a token once it has read one.         *)
AgentsOK ==
    /\ \A c \in Run : cli[c] \in {"start", "spawn"} => agent[c].pc = "none"
    /\ \A a \in Run : agent[a].pc \in {"removing", "connecting", "listening"} =>
          agent[a].token # NoToken

(* Who waits is in one backlog, once.                                        *)
BacklogsOK ==
    /\ \A a \in Run : backlog[a] # <<>> => Listening(a)
    /\ \A a \in Run : IsInjective(backlog[a])
    /\ \A a, b \in Run : Range(backlog[a]) \cap Range(backlog[b]) # {} => a = b
    /\ \A a \in Run : \A c \in Range(backlog[a]) : cli[c] \in {"waiting", "leaving", "ended"}
    /\ \A c \in Run : cli[c] \in {"waiting", "leaving"} => \E a \in Run : c \in Range(backlog[a])

(* An agent that can be reached, or may yet be, has the saved token, or a    *)
(* login is about to change that, or missed it.                              *)
Matters(a) == Starting(a) \/ (Listening(a) /\ name = a)

Excused(a) ==
    \/ agent[a].late
    \/ \E c \in Run : cli[c] \in {"saving", "look"}
    \/ \E c \in Run : cli[c] = "leaving" /\ c \in Range(backlog[a])

CurrentOK == \A a \in Run : Matters(a) => agent[a].token = saved \/ Excused(a)

(* The agent owed can be reached, or will find no file in its way.           *)
OwedOK ==
    owed => \/ Reachable
            \/ \E a \in Run : \/ agent[a].pc \in {"reading", "removing"}
                              \/ agent[a].pc = "connecting" /\ name = NoFile

AgentInv == Types /\ AgentsOK /\ BacklogsOK /\ CurrentOK /\ OwedOK

-----------------------------------------------------------------------------
(* A run joins a backlog.                                                    *)
LEMMA Joins ==
    ASSUME NEW S, NEW s \in Seq(S), NEW x \in S
    PROVE  /\ Append(s, x) \in Seq(S)
           /\ Range(Append(s, x)) = Range(s) \cup {x}
           /\ IsInjective(s) /\ x \notin Range(s) => IsInjective(Append(s, x))
<1>1. Append(s, x) \in Seq(S) /\ DOMAIN s = 1 .. Len(s) /\ DOMAIN Append(s, x) = 1 .. Len(s) + 1
    OBVIOUS
<1>2. Append(s, x)[Len(s) + 1] = x /\ \A i \in 1 .. Len(s) : Append(s, x)[i] = s[i]
    OBVIOUS
<1>3. Range(Append(s, x)) = Range(s) \cup {x}
    BY <1>1, <1>2 DEF Range
<1>4. IsInjective(s) /\ x \notin Range(s) => IsInjective(Append(s, x))
    BY <1>1, <1>2 DEF Range, IsInjective
<1> QED BY <1>1, <1>3, <1>4

(* The first of a backlog has its turn.                                      *)
LEMMA Leaves ==
    ASSUME NEW S, NEW s \in Seq(S), s # <<>>
    PROVE  /\ Tail(s) \in Seq(S) /\ Head(s) \in S
           /\ Range(s) = Range(Tail(s)) \cup {Head(s)}
           /\ IsInjective(s) => IsInjective(Tail(s)) /\ Head(s) \notin Range(Tail(s))
<1>1. /\ Tail(s) \in Seq(S) /\ Head(s) = s[1] /\ Head(s) \in S /\ Len(s) \in Nat /\ Len(s) >= 1
      /\ DOMAIN s = 1 .. Len(s) /\ DOMAIN Tail(s) = 1 .. Len(s) - 1
    OBVIOUS
<1>2. \A i \in 1 .. Len(s) - 1 : Tail(s)[i] = s[i + 1]
    OBVIOUS
<1>3. Range(s) = Range(Tail(s)) \cup {Head(s)}
    <2>1. ASSUME NEW i \in 1 .. Len(s) PROVE s[i] \in Range(Tail(s)) \cup {Head(s)}
        <3>1. CASE i = 1
            BY <1>1, <3>1
        <3>2. CASE i # 1
            <4>1. i - 1 \in 1 .. Len(s) - 1 /\ Tail(s)[i - 1] = s[i]
                BY <1>1, <1>2, <3>2
            <4> QED BY <1>1, <4>1 DEF Range
        <3> QED BY <3>1, <3>2
    <2>2. Range(Tail(s)) \cup {Head(s)} \subseteq Range(s)
        BY <1>1, <1>2 DEF Range
    <2> QED BY <1>1, <2>1, <2>2 DEF Range
<1>4. IsInjective(s) => IsInjective(Tail(s)) /\ Head(s) \notin Range(Tail(s))
    BY <1>1, <1>2 DEF Range, IsInjective
<1> QED BY <1>1, <1>3, <1>4

-----------------------------------------------------------------------------
(* Before anything has happened.                                             *)
LEMMA InitInv == Init => AgentInv
<1> SUFFICES ASSUME Init PROVE AgentInv
    OBVIOUS
<1> USE DEF Init, NoAgent
<1>1. Types
    BY DEF Types, CliPc, AgentType, AgentPc, NoToken
<1>2. AgentsOK /\ CurrentOK /\ OwedOK
    BY DEF AgentsOK, CurrentOK, Matters, Starting, Listening, OwedOK
<1>3. BacklogsOK
    BY DEF BacklogsOK, IsInjective, Range
<1> QED BY <1>1, <1>2, <1>3 DEF AgentInv

(* What most steps of a run are: nothing that agents or logins notice.       *)
PlainStep(c, pc) ==
    /\ cli[c] \notin {"waiting", "saving", "look", "leaving"}
    /\ cli[c] = "ended" => pc = "ended"
    /\ pc \notin {"start", "waiting", "saving", "look", "leaving"}
    /\ pc = "spawn" => cli[c] = "start"
    /\ pc \in CliPc
    /\ Enter(c, pc)
    /\ UNCHANGED <<agent, backlog, name, saved, issued, owed>>

LEMMA PlainStepInv ==
    ASSUME AgentInv, NEW c \in Run, NEW pc, PlainStep(c, pc)
    PROVE  AgentInv'
<1> USE DEF AgentInv, PlainStep, Enter
<1>1. Types'
    BY DEF Types
<1>2. AgentsOK' /\ OwedOK'
    BY DEF AgentsOK, OwedOK, Types, Reachable, Listening
<1>3. BacklogsOK'
    BY DEF BacklogsOK, Types, Listening
<1>4. CurrentOK'
    BY DEF CurrentOK, Matters, Excused, Starting, Listening, Types
<1> QED BY <1>1, <1>2, <1>3, <1>4

(* An agent begins, or cannot be started.                                    *)
LEMMA SpawnAgentInv ==
    ASSUME AgentInv, NEW c \in Run, SpawnAgent(c)
    PROVE  AgentInv'
<1> USE DEF AgentInv
<1>1. PICK started \in BOOLEAN :
          /\ cli' = [cli EXCEPT ![c] = "dispatch"]
          /\ agent' = [agent EXCEPT ![c] =
                [pc |-> IF started THEN "reading" ELSE "gone", token |-> 0, late |-> FALSE]]
          /\ owed' = started
          /\ UNCHANGED <<backlog, name, saved, issued>>
    BY DEF SpawnAgent, Enter, NoAgent, GoneAgent, NoToken, fileVars
<1>2. cli[c] = "spawn" /\ agent[c].pc = "none"
    BY DEF SpawnAgent, AgentsOK
<1>3. Types'
    BY <1>1 DEF Types, CliPc, AgentType, AgentPc
<1>4. AgentsOK'
    BY <1>1, <1>2 DEF AgentsOK, Types
<1>5. BacklogsOK'
    BY <1>1, <1>2 DEF BacklogsOK, Types, Listening
<1>6. CurrentOK'
    BY <1>1, <1>2 DEF CurrentOK, Matters, Excused, Starting, Listening, Types
<1>7. OwedOK'
    BY <1>1 DEF OwedOK, Types
<1> QED BY <1>3, <1>4, <1>5, <1>6, <1>7

(* Who waits is a run.                                                       *)
LEMMA BacklogRuns ==
    ASSUME Types
    PROVE  \A a \in Run : Range(backlog[a]) \subseteq Run
BY DEF Types, Range

(* A run that is in no backlog joins the one of the agent it can reach.      *)
LEMMA Enqueue ==
    ASSUME Types, BacklogsOK, NEW c \in Run, NEW pc \in {"waiting", "leaving"},
           cli[c] \in {"connect", "look"}, cli' = [cli EXCEPT ![c] = pc],
           name \in Run, Listening(name),
           backlog' = [backlog EXCEPT ![name] = Append(@, c)],
           \A a \in Run : agent'[a].pc = agent[a].pc
    PROVE  /\ cli' \in [Run -> CliPc] /\ backlog' \in [Run -> Seq(Run)]
           /\ \A a \in Run : Range(backlog'[a]) = IF a = name THEN Range(backlog[a]) \cup {c}
                                                             ELSE Range(backlog[a])
           /\ BacklogsOK'
<1>1. /\ \A a \in Run : c \notin Range(backlog[a])
      /\ backlog[name] \in Seq(Run) /\ IsInjective(backlog[name])
    BY DEF BacklogsOK, Types
<1>2. /\ Append(backlog[name], c) \in Seq(Run)
      /\ Range(Append(backlog[name], c)) = Range(backlog[name]) \cup {c}
      /\ IsInjective(Append(backlog[name], c))
    BY <1>1, Joins
<1>3. cli' \in [Run -> CliPc] /\ backlog' \in [Run -> Seq(Run)]
    BY <1>2 DEF Types, CliPc
<1>4. \A a \in Run : Range(backlog'[a]) = IF a = name THEN Range(backlog[a]) \cup {c}
                                                      ELSE Range(backlog[a])
    BY <1>2 DEF Types
<1>5. BacklogsOK'
    <2>1. \A a \in Run : backlog'[a] # <<>> => Listening(a)'
        BY DEF BacklogsOK, Types, Listening
    <2>2. \A a \in Run : IsInjective(backlog'[a])
        BY <1>2 DEF BacklogsOK, Types
    <2>3. ASSUME NEW a \in Run, NEW b \in Run, NEW d \in Range(backlog'[a]) \cap Range(backlog'[b])
          PROVE  a = b
        <3>1. CASE d = c
            BY <1>1, <1>4, <2>3, <3>1
        <3>2. CASE d # c
            <4>1. Range(backlog'[a]) \subseteq Range(backlog[a]) \cup {c}
                BY <1>4
            <4>2. Range(backlog'[b]) \subseteq Range(backlog[b]) \cup {c}
                BY <1>4
            <4>3. d \in Range(backlog[a]) \cap Range(backlog[b])
                BY <2>3, <3>2, <4>1, <4>2
            <4> QED BY <4>3 DEF BacklogsOK
        <3> QED BY <3>1, <3>2
    <2>4. ASSUME NEW a \in Run, NEW d \in Range(backlog'[a])
          PROVE  cli'[d] \in {"waiting", "leaving", "ended"}
        <3>1. CASE d = c
            BY <3>1 DEF Types
        <3>2. CASE d # c
            <4>1. Range(backlog'[a]) \subseteq Range(backlog[a]) \cup {c}
                BY <1>4
            <4>2. d \in Range(backlog[a]) /\ d \in Run
                BY <2>4, <3>2, <4>1, BacklogRuns
            <4> QED BY <3>2, <4>2 DEF BacklogsOK, Types
        <3> QED BY <3>1, <3>2
    <2>5. ASSUME NEW d \in Run, cli'[d] \in {"waiting", "leaving"}
          PROVE  \E a \in Run : d \in Range(backlog'[a])
        <3>1. CASE d = c
            <4>1. d \in Range(backlog'[name])
                <5>1. Range(backlog'[name]) = Range(backlog[name]) \cup {c}
                    BY <1>4, Zenon
                <5> QED BY <5>1, <3>1, Zenon
            <4> QED BY <4>1
        <3>2. CASE d # c
            <4>1. cli'[d] = cli[d]
                BY <3>2 DEF Types
            <4>2. PICK a \in Run : d \in Range(backlog[a])
                BY <2>5, <4>1 DEF BacklogsOK
            <4>3. d \in Range(backlog'[a])
                <5>1. CASE a = name
                    <6>1. Range(backlog'[a]) = Range(backlog[a]) \cup {c}
                        BY <1>4, <5>1, Zenon
                    <6> QED BY <4>2, <6>1, Zenon
                <5>2. CASE a # name
                    <6>1. Range(backlog'[a]) = Range(backlog[a])
                        BY <1>4, <5>2, Zenon
                    <6> QED BY <4>2, <6>1, Zenon
                <5> QED BY <5>1, <5>2
            <4> QED BY <4>3
        <3> QED BY <3>1, <3>2
    <2>6. \A a, b \in Run : Range(backlog'[a]) \cap Range(backlog'[b]) # {} => a = b
        BY <2>3
    <2> QED BY <2>1, <2>2, <2>4, <2>5, <2>6, Zenon DEF BacklogsOK
<1> QED BY <1>3, <1>4, <1>5

(* An agent goes on, and who waits for one waits on.                         *)
LEMMA BacklogsKept ==
    ASSUME BacklogsOK, UNCHANGED <<cli, backlog>>,
           \A b \in Run : backlog[b] # <<>> /\ Listening(b) => Listening(b)'
    PROVE  BacklogsOK'
BY DEF BacklogsOK

(* A request queues up.                                                      *)
LEMMA ConnectToAgentInv ==
    ASSUME AgentInv, NEW c \in Run, ConnectToAgent(c)
    PROVE  AgentInv'
<1> USE DEF AgentInv
<1>1. /\ cli[c] = "connect" /\ cli' = [cli EXCEPT ![c] = "waiting"]
      /\ name \in Run /\ Listening(name)
      /\ backlog' = [backlog EXCEPT ![name] = Append(@, c)]
      /\ UNCHANGED <<agent, name, saved, issued, owed>>
    BY DEF ConnectToAgent, Enter, Reachable, fileVars
<1>2. /\ cli' \in [Run -> CliPc] /\ backlog' \in [Run -> Seq(Run)]
      /\ \A a \in Run : Range(backlog[a]) \subseteq Range(backlog'[a])
      /\ BacklogsOK'
    BY <1>1, Enqueue
<1>3. Types'
    BY <1>1, <1>2 DEF Types
<1>4. AgentsOK' /\ OwedOK'
    BY <1>1 DEF AgentsOK, OwedOK, Reachable, Listening, Types
<1>5. CurrentOK'
    BY <1>1, <1>2 DEF CurrentOK, Matters, Excused, Starting, Listening, Types
<1> QED BY <1>2, <1>3, <1>4, <1>5

-----------------------------------------------------------------------------
(* A step of a login that touches neither agents nor backlogs.               *)
LoginStep(c, pc) ==
    /\ cli[c] \notin {"start", "spawn", "waiting", "leaving", "ended"}
    /\ cli' = [cli EXCEPT ![c] = pc]
    /\ UNCHANGED <<agent, backlog, name, owed>>

(* While a login is at work its agents are excused.                          *)
LEMMA LoginStepInv ==
    ASSUME AgentInv, NEW c \in Run, NEW pc \in {"saving", "look"}, LoginStep(c, pc),
           issued' \in Nat, issued <= issued', saved' \in 0 .. issued'
    PROVE  AgentInv'
<1> USE DEF AgentInv, LoginStep
<1>1. Types'
    BY DEF Types, CliPc
<1>2. AgentsOK' /\ OwedOK'
    BY DEF AgentsOK, OwedOK, Types, Reachable, Listening
<1>3. BacklogsOK'
    BY DEF BacklogsOK, Types, Listening
<1>4. CurrentOK'
    BY DEF CurrentOK, Excused, Types
<1> QED BY <1>1, <1>2, <1>3, <1>4

(* What MarkLate does to the agents.                                         *)
LEMMA MarkLateFacts ==
    ASSUME Types, MarkLate
    PROVE  /\ agent' \in [Run -> AgentType]
           /\ \A a \in Run : /\ agent'[a].pc = agent[a].pc
                             /\ agent'[a].token = agent[a].token
                             /\ agent'[a].late = (agent[a].late \/ Outdated(a))
BY DEF MarkLate, Types, AgentType

(* A login that ends early leaves no agent unexcused.                        *)
LEMMA EndsEarlyInv ==
    ASSUME AgentInv, NEW c \in Run, cli[c] \notin {"start", "spawn", "ended"},
           cli' = [cli EXCEPT ![c] = "ended"],
           MarkLate \/ (UNCHANGED agent /\ cli[c] \notin {"saving", "look", "leaving"}),
           UNCHANGED <<backlog, name, saved, issued, owed>>
    PROVE  AgentInv'
<1> USE DEF AgentInv
<1>1. /\ agent' \in [Run -> AgentType]
      /\ \A a \in Run : /\ agent'[a].pc = agent[a].pc
                        /\ agent'[a].token = agent[a].token
                        /\ agent[a].late => agent'[a].late
    BY MarkLateFacts DEF Types
<1>2. Types'
    BY <1>1 DEF Types, CliPc
<1>3. AgentsOK' /\ OwedOK'
    <2>1. AgentsOK'
        BY <1>1 DEF AgentsOK, Types
    <2>2. OwedOK'
        BY <1>1 DEF OwedOK, Reachable, Listening
    <2> QED BY <2>1, <2>2
<1>4. BacklogsOK'
    BY <1>1, BacklogRuns DEF BacklogsOK, Types, Listening
<1>5. CurrentOK'
    <2>1. CASE MarkLate
        <3> SUFFICES ASSUME NEW a \in Run, Matters(a)'
                     PROVE  agent'[a].token = saved' \/ Excused(a)'
            BY DEF CurrentOK
        <3>1. Matters(a)
            BY <1>1 DEF Matters, Starting, Listening
        <3>2. agent[a].token # NoToken
            BY <3>1 DEF AgentsOK, Matters, Starting, Listening
        <3>3. agent'[a].late = (agent[a].late \/ Outdated(a))
            BY <2>1, MarkLateFacts
        <3> QED BY <1>1, <3>2, <3>3 DEF Outdated, Excused
    <2>2. CASE UNCHANGED agent /\ cli[c] \notin {"saving", "look", "leaving"}
        BY <2>2 DEF CurrentOK, Matters, Excused, Starting, Listening, Types
    <2> QED BY <2>1, <2>2
<1> QED BY <1>2, <1>3, <1>4, <1>5

(* A login reaches the agent there is, and marks those that are starting.    *)
LEMMA LookForAgentInv ==
    ASSUME AgentInv, NEW c \in Run, LookForAgent(c)
    PROVE  AgentInv'
<1> USE DEF AgentInv
<1>1. /\ agent' \in [Run -> AgentType]
      /\ \A a \in Run : /\ agent'[a].pc = agent[a].pc
                        /\ agent'[a].token = agent[a].token
                        /\ agent'[a].late = (agent[a].late \/ (Starting(a) /\ Outdated(a)))
    BY DEF LookForAgent, Types, AgentType
<1>2. cli[c] = "look" /\ UNCHANGED <<name, saved, issued, owed>>
    BY DEF LookForAgent, fileVars
<1>3. PICK pc \in {"leaving", "ended"} : cli' = [cli EXCEPT ![c] = pc]
    BY DEF LookForAgent, Enter
<1>4. AgentsOK' /\ OwedOK'
    BY <1>1, <1>2, <1>3 DEF AgentsOK, OwedOK, Types, Reachable, Listening
<1>5. CASE ~Reachable
    <2>1. UNCHANGED backlog /\ cli' = [cli EXCEPT ![c] = "ended"]
        BY <1>5 DEF LookForAgent, Enter
    <2>2. Types'
        BY <1>1, <1>2, <2>1 DEF Types, CliPc
    <2>3. BacklogsOK'
        BY <1>1, <1>2, <2>1, BacklogRuns DEF BacklogsOK, Types, Listening
    <2>4. CurrentOK'
        <3> SUFFICES ASSUME NEW a \in Run, Matters(a)'
                     PROVE  agent'[a].token = saved' \/ Excused(a)'
            BY DEF CurrentOK
        <3>1. Starting(a)
            BY <1>1, <1>2, <1>5 DEF Matters, Starting, Listening, Reachable
        <3>2. agent[a].token # NoToken
            BY <3>1 DEF AgentsOK, Starting
        <3>3. agent'[a].token = saved' \/ agent'[a].late
            BY <1>1, <1>2, <3>1, <3>2 DEF Outdated
        <3> QED BY <3>3 DEF Excused
    <2> QED BY <1>4, <2>2, <2>3, <2>4
<1>6. CASE Reachable
    <2>1. /\ name \in Run /\ Listening(name)
          /\ backlog' = [backlog EXCEPT ![name] = Append(@, c)]
          /\ cli' = [cli EXCEPT ![c] = "leaving"]
        BY <1>6 DEF LookForAgent, Enter, Reachable
    <2>2. /\ cli' \in [Run -> CliPc] /\ backlog' \in [Run -> Seq(Run)]
          /\ c \in Range(backlog'[name])
          /\ BacklogsOK'
        BY <1>1, <1>2, <2>1, Enqueue
    <2>3. Types'
        BY <1>1, <1>2, <2>2 DEF Types
    <2>4. CurrentOK'
        <3> SUFFICES ASSUME NEW a \in Run, Matters(a)'
                     PROVE  agent'[a].token = saved' \/ Excused(a)'
            BY DEF CurrentOK
        <3>1. CASE Starting(a)
            BY <1>1, <1>2, <3>1 DEF Starting, Outdated, AgentsOK, Excused
        <3>2. CASE ~Starting(a)
            <4>1. a = name
                BY <1>1, <1>2, <3>2 DEF Matters, Starting, Listening
            <4>2. cli'[c] = "leaving" /\ c \in Range(backlog'[a])
                BY <2>1, <2>2, <4>1 DEF Types
            <4> QED BY <4>2 DEF Excused
        <3> QED BY <3>1, <3>2
    <2> QED BY <1>4, <2>2, <2>3, <2>4
<1> QED BY <1>5, <1>6

-----------------------------------------------------------------------------
(* What AgentGoes does to the agents.                                        *)
LEMMA AgentGoesFacts ==
    ASSUME Types, NEW a \in Run, NEW pc \in AgentPc, AgentGoes(a, pc)
    PROVE  /\ agent' \in [Run -> AgentType]
           /\ \A b \in Run \ {a} : agent'[b] = agent[b]
           /\ agent'[a].pc = pc
           /\ pc = "gone" => agent'[a].token = 0 /\ ~agent'[a].late
           /\ pc # "gone" => agent'[a].token = agent[a].token /\ agent'[a].late = agent[a].late
<1>1. CASE pc = "gone"
    BY <1>1 DEF AgentGoes, GoneAgent, NoAgent, NoToken, Types, AgentType, AgentPc
<1>2. CASE pc # "gone"
    BY <1>2 DEF AgentGoes, Types, AgentType, AgentPc
<1> QED BY <1>1, <1>2

(* An agent reads its token, or ends for want of one.                        *)
LEMMA ReadTokenInv ==
    ASSUME AgentInv, NEW a \in Run, ReadToken(a)
    PROVE  AgentInv'
<1> USE DEF AgentInv
<1>1. /\ agent[a].pc = "reading" /\ UNCHANGED <<cli, backlog, name, saved, issued>>
      /\ owed' = (owed /\ saved # 0)
      /\ agent' = [agent EXCEPT ![a] =
            [pc |-> IF saved = 0 THEN "gone" ELSE "removing", token |-> saved, late |-> FALSE]]
    <2>1. GoneAgent = [pc |-> "gone", token |-> 0, late |-> FALSE]
        BY DEF GoneAgent, NoAgent, NoToken
    <2>2. CASE saved = 0
        BY <2>1, <2>2 DEF ReadToken, OnlyAgent, fileVars, NoToken
    <2>3. CASE saved # 0
        BY <2>3 DEF ReadToken, OnlyAgent, fileVars, NoToken
    <2> QED BY <2>2, <2>3
<1>2. Types'
    BY <1>1 DEF Types, AgentType, AgentPc
<1>3. AgentsOK'
    BY <1>1 DEF AgentsOK, Types, NoToken
<1>4. BacklogsOK'
    BY <1>1 DEF BacklogsOK, Types, Listening
<1>5. CurrentOK'
    BY <1>1 DEF CurrentOK, Matters, Excused, Starting, Listening, Types
<1>6. OwedOK'
    BY <1>1 DEF OwedOK, Reachable, Listening, Types
<1> QED BY <1>2, <1>3, <1>4, <1>5, <1>6

(* Whoever removes the file will find none in its way.                       *)
LEMMA RemoveSocketFileInv ==
    ASSUME AgentInv, NEW a \in Run, RemoveSocketFile(a)
    PROVE  AgentInv'
<1> USE DEF AgentInv
<1>1. /\ agent[a].pc = "removing" /\ UNCHANGED <<cli, backlog, saved, issued, owed>>
      /\ name' = NoFile /\ AgentGoes(a, "connecting")
    BY DEF RemoveSocketFile, OnlyAgent, fileVars
<1>2. /\ agent' \in [Run -> AgentType]
      /\ \A b \in Run \ {a} : agent'[b] = agent[b]
      /\ agent'[a].pc = "connecting"
      /\ agent'[a].token = agent[a].token /\ agent'[a].late = agent[a].late
    BY <1>1, AgentGoesFacts DEF AgentPc
<1>3. Types'
    BY <1>1, <1>2 DEF Types
<1>4. AgentsOK'
    BY <1>1, <1>2 DEF AgentsOK
<1>5. BacklogsOK'
    <2>1. \A b \in Run : backlog[b] # <<>> /\ Listening(b) => Listening(b)'
        BY <1>1, <1>2 DEF Listening
    <2> QED BY <1>1, <2>1, BacklogsKept
<1>6. CurrentOK'
    BY <1>1, <1>2, WorkstationAssumption DEF CurrentOK, Matters, Excused, Starting, Listening
<1>7. OwedOK'
    BY <1>1, <1>2 DEF OwedOK
<1> QED BY <1>3, <1>4, <1>5, <1>6, <1>7

(* An agent that finds a file in its way leaves the field to another.        *)
LEMMA BindInv ==
    ASSUME AgentInv, NEW a \in Run, Bind(a)
    PROVE  AgentInv'
<1> USE DEF AgentInv
<1>1. agent[a].pc = "connecting" /\ UNCHANGED <<cli, backlog, saved, issued, owed>>
    BY DEF Bind, OnlyAgent, fileVars
<1>2. CASE name = NoFile
    <2>1. name' = a /\ AgentGoes(a, "listening")
        BY <1>2 DEF Bind
    <2>2. /\ agent' \in [Run -> AgentType]
          /\ \A b \in Run \ {a} : agent'[b] = agent[b]
          /\ agent'[a].pc = "listening"
          /\ agent'[a].token = agent[a].token /\ agent'[a].late = agent[a].late
        BY <2>1, AgentGoesFacts DEF AgentPc
    <2>3. Types' /\ AgentsOK'
        BY <1>1, <2>1, <2>2 DEF Types, AgentsOK
    <2>4. BacklogsOK'
        <3>1. \A b \in Run : backlog[b] # <<>> /\ Listening(b) => Listening(b)'
            BY <1>1, <2>2 DEF Listening
        <3> QED BY <1>1, <3>1, BacklogsKept
    <2>5. CurrentOK'
        BY <1>1, <2>1, <2>2 DEF CurrentOK, Matters, Excused, Starting, Listening
    <2>6. OwedOK'
        BY <2>1, <2>2 DEF OwedOK, Reachable, Listening
    <2> QED BY <2>3, <2>4, <2>5, <2>6
<1>3. CASE name # NoFile
    <2>1. UNCHANGED name /\ AgentGoes(a, "gone")
        BY <1>3 DEF Bind
    <2>2. /\ agent' \in [Run -> AgentType]
          /\ \A b \in Run \ {a} : agent'[b] = agent[b]
          /\ agent'[a].pc = "gone" /\ agent'[a].token = 0
        BY <2>1, AgentGoesFacts DEF AgentPc
    <2>3. Types' /\ AgentsOK'
        <3>1. \A b \in Run : agent'[b].token \in 0 .. issued
            <4> TAKE b \in Run
            <4>1. agent[b].token \in 0 .. issued /\ issued \in Nat
                BY DEF Types
            <4>2. agent'[b].token \in {agent[b].token, 0}
                BY <2>2
            <4> QED BY <4>1, <4>2
        <3>2. Types'
            BY <1>1, <2>1, <2>2, <3>1 DEF Types
        <3>3. AgentsOK'
            BY <1>1, <2>2 DEF AgentsOK
        <3> QED BY <3>2, <3>3
    <2>4. BacklogsOK'
        <3>1. \A b \in Run : backlog[b] # <<>> /\ Listening(b) => Listening(b)'
            BY <1>1, <2>2 DEF Listening
        <3> QED BY <1>1, <3>1, BacklogsKept
    <2>5. CurrentOK'
        BY <1>1, <2>1, <2>2 DEF CurrentOK, Matters, Excused, Starting, Listening
    <2>6. OwedOK'
        BY <1>1, <1>3, <2>1, <2>2 DEF OwedOK, Reachable, Listening
    <2> QED BY <2>3, <2>4, <2>5, <2>6
<1> QED BY <1>2, <1>3

(* The first in a backlog is served; a session is over for a run that waits. *)
LEMMA ServeInv ==
    ASSUME AgentInv, NEW a \in Run, Serve(a)
    PROVE  AgentInv'
<1> USE DEF AgentInv
<1> DEFINE c == Head(backlog[a])
<1>1. /\ backlog[a] # <<>> /\ Listening(a) /\ cli[c] # "leaving"
      /\ backlog' = [backlog EXCEPT ![a] = Tail(@)]
      /\ UNCHANGED <<agent, name, saved, issued, owed>>
    BY DEF Serve, fileVars
<1>2. PICK pc \in {"ended", "write", "connect"} :
          cli' = [cli EXCEPT ![c] = IF @ = "waiting" THEN pc ELSE @]
    BY DEF Serve, Outcomes, Enter, Types
<1>3. /\ Tail(backlog[a]) \in Seq(Run) /\ c \in Run
      /\ Range(backlog[a]) = Range(Tail(backlog[a])) \cup {c}
      /\ IsInjective(Tail(backlog[a])) /\ c \notin Range(Tail(backlog[a]))
    BY <1>1, Leaves DEF BacklogsOK, Types
<1>4. cli[c] \in {"waiting", "ended"} /\ cli'[c] \in {"ended", "write", "connect"}
    BY <1>1, <1>2, <1>3 DEF BacklogsOK, Types
<1>5. \A b \in Run : Range(backlog'[b]) = Range(backlog[b]) \ {c}
    BY <1>1, <1>3 DEF BacklogsOK, Types
<1> HIDE DEF c
<1>6. Types'
    BY <1>1, <1>2, <1>3 DEF Types, CliPc
<1>7. AgentsOK' /\ OwedOK'
    BY <1>1, <1>2, <1>3, <1>4 DEF AgentsOK, OwedOK, Reachable, Listening, Types
<1>8. BacklogsOK'
    <2>1. \A b \in Run : backlog'[b] # <<>> => Listening(b)'
        BY <1>1 DEF BacklogsOK, Listening, Types
    <2>2. \A b \in Run : IsInjective(backlog'[b])
        BY <1>1, <1>3 DEF BacklogsOK, Types
    <2>3. \A b, d \in Run : Range(backlog'[b]) \cap Range(backlog'[d]) # {} => b = d
        BY <1>5 DEF BacklogsOK
    <2>4. \A b \in Run : \A d \in Range(backlog'[b]) : cli'[d] \in {"waiting", "leaving", "ended"}
        BY <1>2, <1>5, BacklogRuns DEF BacklogsOK, Types
    <2>5. \A d \in Run : cli'[d] \in {"waiting", "leaving"} => \E b \in Run : d \in Range(backlog'[b])
        BY <1>2, <1>4, <1>5 DEF BacklogsOK, Types
    <2> QED BY <2>1, <2>2, <2>3, <2>4, <2>5 DEF BacklogsOK
<1>9. CurrentOK'
    <2>1. \A d \in Run : cli[d] \in {"saving", "look", "leaving"} => d # c /\ cli'[d] = cli[d]
        BY <1>2, <1>4 DEF Types
    <2> SUFFICES ASSUME NEW b \in Run, Matters(b)'
                 PROVE  agent'[b].token = saved' \/ Excused(b)'
        BY DEF CurrentOK
    <2>2. agent[b].token = saved \/ Excused(b)
        BY <1>1 DEF CurrentOK, Matters, Starting, Listening
    <2>3. Excused(b) => Excused(b)'
        BY <1>1, <1>5, <2>1 DEF Excused
    <2> QED BY <1>1, <2>2, <2>3
<1> QED BY <1>6, <1>7, <1>8, <1>9

(* With an agent go those who wait for it, and nobody else.                  *)
LEMMA AgentEndsInv ==
    ASSUME AgentInv, NEW a \in Run, agent[a].pc # "none", AgentEnds(a), owed' = FALSE,
           UNCHANGED <<name, saved, issued>>
    PROVE  AgentInv'
<1> USE DEF AgentInv
<1>1. /\ agent' \in [Run -> AgentType]
      /\ \A b \in Run \ {a} : agent'[b] = agent[b]
      /\ agent'[a].pc = "gone" /\ agent'[a].token = 0
    BY AgentGoesFacts DEF AgentEnds, AgentPc
<1>2. backlog' = [backlog EXCEPT ![a] = <<>>]
    BY DEF AgentEnds
<1>3. \A c \in Run : cli'[c] = IF cli[c] \in {"waiting", "leaving"} /\ c \in Range(backlog[a])
                               THEN "ended" ELSE cli[c]
    BY DEF AgentEnds, HangUp
<1>4. cli' \in [Run -> CliPc]
    BY DEF AgentEnds, HangUp, Types, CliPc
<1>5. /\ \A b \in Run \ {a} : backlog'[b] = backlog[b]
      /\ backlog'[a] = <<>> /\ Range(backlog'[a]) = {}
    BY <1>2 DEF Types, Range
<1>6. Types'
    <2>1. \A b \in Run : agent'[b].token \in 0 .. issued
        <3> TAKE b \in Run
        <3>1. agent[b].token \in 0 .. issued /\ issued \in Nat
            BY DEF Types
        <3>2. agent'[b].token \in {agent[b].token, 0}
            BY <1>1
        <3> QED BY <3>1, <3>2
    <2>2. backlog' \in [Run -> Seq(Run)]
        <3>1. <<>> \in Seq(Run)
            OBVIOUS
        <3> QED BY <1>2, <3>1 DEF Types
    <2> QED BY <1>1, <1>4, <2>1, <2>2 DEF Types
<1>7. AgentsOK' /\ OwedOK'
    BY <1>1, <1>3 DEF AgentsOK, OwedOK
<1>8. BacklogsOK'
    <2>1. \A b \in Run : backlog'[b] # <<>> => Listening(b)'
        BY <1>1, <1>5 DEF BacklogsOK, Listening
    <2>2. \A b \in Run : IsInjective(backlog'[b])
        BY <1>5 DEF BacklogsOK, IsInjective
    <2>3. \A b, d \in Run : Range(backlog'[b]) \cap Range(backlog'[d]) # {} => b = d
        BY <1>5 DEF BacklogsOK
    <2>4. \A b \in Run : \A d \in Range(backlog'[b]) : cli'[d] \in {"waiting", "leaving", "ended"}
        BY <1>3, <1>5, BacklogRuns DEF BacklogsOK
    <2>5. \A d \in Run : cli'[d] \in {"waiting", "leaving"} => \E b \in Run : d \in Range(backlog'[b])
        BY <1>3, <1>5 DEF BacklogsOK
    <2> QED BY <2>1, <2>2, <2>3, <2>4, <2>5 DEF BacklogsOK
<1>9. CurrentOK'
    <2> SUFFICES ASSUME NEW b \in Run, Matters(b)'
                 PROVE  agent'[b].token = saved' \/ Excused(b)'
        BY DEF CurrentOK
    <2>1. b # a /\ agent'[b] = agent[b] /\ Matters(b)
        BY <1>1 DEF Matters, Starting, Listening
    <2>2. ASSUME NEW c \in Run, cli[c] = "leaving", c \in Range(backlog[b])
          PROVE  Excused(b)'
        <3>1. c \notin Range(backlog[a])
            BY <2>1, <2>2 DEF BacklogsOK
        <3> QED BY <1>3, <1>5, <2>1, <2>2, <3>1 DEF Excused
    <2> QED BY <1>3, <2>1, <2>2 DEF CurrentOK, Excused
<1> QED BY <1>6, <1>7, <1>8, <1>9

-----------------------------------------------------------------------------
(* The steps of a run that are plain.                                        *)
LEMMA PlainSteps ==
    ASSUME NEW c \in Run,
           \/ Knock(c) \/ NoWorkspace(c) \/ ShowInfo(c) \/ Setup(c) \/ ForwardToCargo(c)
           \/ GoRemote(c) \/ NeedToken(c) \/ GoDirect(c) \/ OpenExecutable(c)
           \/ WriteExecutable(c) \/ Execute(c) \/ ProgramExits(c)
    PROVE  \E pc : PlainStep(c, pc)
<1> USE DEF PlainStep, Enter, CliPc, OnlyRun, agentVars, fileVars
<1>1. CASE Knock(c)
    <2>1. PlainStep(c, IF Reachable THEN "dispatch" ELSE "spawn")
        BY <1>1 DEF Knock
    <2> QED BY <2>1
<1>2. CASE NoWorkspace(c) \/ ShowInfo(c) \/ ForwardToCargo(c) \/ ProgramExits(c)
    <2>1. PlainStep(c, "ended")
        BY <1>2 DEF NoWorkspace, ShowInfo, ForwardToCargo, ProgramExits
    <2> QED BY <2>1
<1>3. CASE Setup(c) \/ GoRemote(c)
    <2>1. PlainStep(c, "token")
        BY <1>3 DEF Setup, GoRemote
    <2> QED BY <2>1
<1>4. CASE NeedToken(c)
    <2>1. PlainStep(c, IF saved = NoToken THEN "ended" ELSE "connect")
        BY <1>4 DEF NeedToken
    <2> QED BY <2>1
<1>5. CASE GoDirect(c)
    <2>1. PICK end \in {"ended", "write", "connect"} : Enter(c, end)
        BY <1>5 DEF GoDirect, Outcomes
    <2>2. PlainStep(c, end)
        BY <1>5, <2>1 DEF GoDirect
    <2> QED BY <2>2
<1>6. CASE OpenExecutable(c)
    <2>1. PlainStep(c, IF Executing = {} THEN "writing" ELSE "ended")
        BY <1>6 DEF OpenExecutable
    <2> QED BY <2>1
<1>7. CASE WriteExecutable(c)
    <2>1. PlainStep(c, "written")
        BY <1>7 DEF WriteExecutable
    <2> QED BY <2>1
<1>8. CASE Execute(c)
    <2>1. PlainStep(c, IF Writers = {} THEN "running" ELSE "ended")
        BY <1>8 DEF Execute
    <2> QED BY <2>1
<1> QED BY <1>1, <1>2, <1>3, <1>4, <1>5, <1>6, <1>7, <1>8

(* The token is asked for, and saved.                                        *)
LEMMA LoginInv ==
    ASSUME AgentInv, NEW c \in Run, Paste(c) \/ WriteToken(c)
    PROVE  AgentInv'
<1>1. issued \in Nat /\ saved \in 0 .. issued
    BY DEF AgentInv, Types
<1>2. CASE WriteToken(c)
    <2>1. LoginStep(c, "look") /\ issued' = issued + 1 /\ saved' = issued + 1
        BY <1>2 DEF WriteToken, Save, LoginStep, Enter, agentVars
    <2> QED BY <1>1, <2>1, LoginStepInv
<1>3. CASE Paste(c) /\ cli' = [cli EXCEPT ![c] = "saving"] /\ saved' = NoToken
    <2>1. LoginStep(c, "saving") /\ issued' = issued /\ saved' = 0
        BY <1>3 DEF Paste, LoginStep, agentVars, NoToken
    <2> QED BY <1>1, <2>1, LoginStepInv
<1>4. CASE Paste(c) /\ cli' = [cli EXCEPT ![c] = "ended"] /\ UNCHANGED saved
    <2>1. PlainStep(c, "ended")
        BY <1>4 DEF Paste, PlainStep, Enter, CliPc, agentVars
    <2> QED BY <2>1, PlainStepInv
<1> QED BY <1>2, <1>3, <1>4 DEF Paste, Enter

(* Ctrl-C, and a token that cannot be saved.                                 *)
LEMMA BreaksOffInv ==
    ASSUME AgentInv, NEW c \in Run, CannotSave(c) \/ Abort(c)
    PROVE  AgentInv'
<1>1. CASE CannotSave(c)
    BY <1>1, EndsEarlyInv DEF CannotSave, Enter, fileVars
<1>2. CASE Abort(c) /\ cli[c] = "spawn"
    <2>1. PlainStep(c, "ended")
        BY <1>2 DEF Abort, PlainStep, Enter, CliPc, fileVars
    <2> QED BY <2>1, PlainStepInv
<1>3. CASE Abort(c) /\ cli[c] # "spawn"
    BY <1>3, EndsEarlyInv DEF Abort, Enter, fileVars
<1> QED BY <1>1, <1>2, <1>3

(* An agent is told to stop, or killed.                                      *)
LEMMA StopsInv ==
    ASSUME AgentInv, NEW a \in Run, Shutdown(a) \/ Kill(a)
    PROVE  AgentInv'
<1>1. /\ agent[a].pc # "none" /\ AgentEnds(a) /\ owed' = FALSE
      /\ UNCHANGED <<name, saved, issued>>
    BY DEF Shutdown, Kill, Listening, fileVars
<1> QED BY <1>1, AgentEndsInv

(* Every step keeps the invariant.                                            *)
LEMMA StepInv == AgentInv /\ [Next]_vars => AgentInv'
<1> SUFFICES ASSUME AgentInv, [Next]_vars PROVE AgentInv'
    OBVIOUS
<1>1. CASE UNCHANGED vars
    BY <1>1 DEF vars, agentVars, fileVars, AgentInv, Types, AgentsOK, BacklogsOK, CurrentOK,
                Matters, Excused, OwedOK, Starting, Listening, Reachable
<1>2. ASSUME NEW c \in Run, CliStep(c) PROVE AgentInv'
    <2>1. CASE \/ Knock(c) \/ NoWorkspace(c) \/ ShowInfo(c) \/ Setup(c) \/ ForwardToCargo(c)
               \/ GoRemote(c) \/ NeedToken(c) \/ GoDirect(c) \/ OpenExecutable(c)
               \/ WriteExecutable(c) \/ Execute(c) \/ ProgramExits(c)
        BY <2>1, PlainSteps, PlainStepInv
    <2>2. CASE SpawnAgent(c)
        BY <2>2, SpawnAgentInv
    <2>3. CASE ConnectToAgent(c)
        BY <2>3, ConnectToAgentInv
    <2>4. CASE Paste(c) \/ WriteToken(c)
        BY <2>4, LoginInv
    <2>5. CASE CannotSave(c)
        BY <2>5, BreaksOffInv
    <2>6. CASE LookForAgent(c)
        BY <2>6, LookForAgentInv
    <2> QED BY <1>2, <2>1, <2>2, <2>3, <2>4, <2>5, <2>6 DEF CliStep
<1>3. ASSUME NEW a \in Run, AgentStep(a) PROVE AgentInv'
    BY <1>3, ReadTokenInv, RemoveSocketFileInv, BindInv, ServeInv, StopsInv DEF AgentStep
<1> QED BY <1>1, <1>2, <1>3, BreaksOffInv, StopsInv DEF Next

(* The invariant of agents and logins.                                       *)
THEOREM AgentSafety == Spec => []AgentInv
BY InitInv, StepInv, PTL DEF Spec

-----------------------------------------------------------------------------
(* A run that waits for an agent is in the backlog of one that listens, and  *)
(* an agent's token is one that was saved.                                   *)
THEOREM WorkstationTypes == Spec => []TypeOK
<1>1. AgentInv => TypeOK
    <2> SUFFICES ASSUME AgentInv PROVE TypeOK
        OBVIOUS
    <2>1. agent \in [Run -> [pc : AgentPc, token : 0 .. issued, late : BOOLEAN]]
        BY DEF AgentInv, Types, AgentType
    <2> QED BY <2>1 DEF AgentInv, Types, BacklogsOK, TypeOK, CliPc, AgentPc
<1> QED BY <1>1, AgentSafety, PTL

(* No agent of before a login serves requests after it, however many agents  *)
(* are started, stopped and killed meanwhile.                                *)
THEOREM CurrentTheorem == Spec => []AgentsCurrent
<1>1. AgentInv => AgentsCurrent
    BY DEF AgentInv, CurrentOK, AgentsCurrent, Matters, Excused, Reachable, LoggingIn
<1> QED BY <1>1, AgentSafety, PTL

(* When no agent is starting any more, the one a run has left for next time  *)
(* or one that took its place can be reached.                                *)
THEOREM NextTimeTheorem == Spec => []AgentForNextTime
<1>1. AgentInv => AgentForNextTime
    BY DEF AgentInv, OwedOK, AgentForNextTime
<1> QED BY <1>1, AgentSafety, PTL
=============================================================================
