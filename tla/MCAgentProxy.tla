---------------------------- MODULE MCAgentProxy ----------------------------
(* Values for the constants of AgentProxy.                                   *)
EXTENDS AgentProxy

CONSTANTS c1, c2

(* Two builds, one of which may be a tip or a login instead.                 *)
BuildAndOther ==
    {[c \in Client |-> IF c = c1 THEN "build" ELSE other] : other \in {"build", "tip", "login"}}
=============================================================================
