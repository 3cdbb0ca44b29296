--------------------------- MODULE MCWorkstation ----------------------------
(* Values for the constants of Workstation: a login beside two other         *)
(* commands, and two runs of programs of one name.                           *)
EXTENDS Workstation

CONSTANTS c1, c2, c3

OneLogin ==
    {[c \in Run |-> CASE c = c1 -> "auth" [] c = c2 -> others[1] [] OTHER -> others[2]] :
        others \in {<<"auth", "build">>, <<"run", "build">>, <<"setup", "help">>, <<"tip", "update">>}}

TwoPrograms == {[c \in Run |-> "run"]}
=============================================================================
