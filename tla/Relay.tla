------------------------------- MODULE Relay --------------------------------
(* What abrasive-agent promises, without its sockets, queues and websocket:  *)
(* it carries the session of one run at a time between that run and the      *)
(* daemon, begins none over, and each side reads the words the other said in *)
(* that session one by one, in order.                                        *)
EXTENDS Integers, Sequences

CONSTANTS Run, NoRun

VARIABLES
    carried,  \* the run whose session is being carried, or NoRun
    asked,    \* run -> what it has said
    heard,    \* run -> what the daemon has read of it
    told,     \* run -> what the daemon has said to it
    got       \* run -> what it has read of that

relayVars == <<carried, asked, heard, told, got>>

RelayInit ==
    /\ carried = NoRun
    /\ \A c \in Run : asked[c] = <<>> /\ heard[c] = <<>> /\ told[c] = <<>> /\ got[c] = <<>>

(* t takes up where s stops.                                                 *)
Continues(s, t) == Len(s) <= Len(t) /\ SubSeq(t, 1, Len(s)) = s

(* Of the words in t, as many as s has are read, and now at most one more.   *)
ReadsOn(s, t, read) ==
    read = s \/ (Len(s) < Len(t) /\ read = Append(s, t[Len(s) + 1]))

(* A run reads a word or none, and says some.                                *)
RunTurn(c) ==
    /\ ReadsOn(got[c], told[c], got'[c])
    /\ Continues(asked[c], asked'[c])
    /\ \A d \in Run : d # c => asked'[d] = asked[d] /\ got'[d] = got[d]
    /\ UNCHANGED <<carried, heard, told>>

(* So does the daemon, to the run whose session is carried.                  *)
DaemonTurn(c) ==
    /\ carried = c
    /\ ReadsOn(heard[c], asked[c], heard'[c])
    /\ Continues(told[c], told'[c])
    /\ \A d \in Run : d # c => heard'[d] = heard[d] /\ told'[d] = told[d]
    /\ UNCHANGED <<carried, asked, got>>

(* A session is begun with nothing left of an earlier one,                   *)
Begin(c) ==
    /\ carried = NoRun
    /\ heard[c] = <<>> /\ told[c] = <<>> /\ got[c] = <<>>
    /\ carried' = c
    /\ UNCHANGED <<asked, heard, told, got>>

(* and ends when both sides are done, or is cut off.                         *)
End ==
    /\ carried # NoRun
    /\ carried' = NoRun
    /\ UNCHANGED <<asked, heard, told, got>>

RelayNext ==
    \/ \E c \in Run : RunTurn(c) \/ DaemonTurn(c) \/ Begin(c)
    \/ End

RelaySpec == RelayInit /\ [][RelayNext]_relayVars
=============================================================================
