--------------------------- MODULE MCBuildService ---------------------------
(* Values for the constants of BuildService.                                 *)
EXTENDS BuildService, TLC

CONSTANTS c1, c2, c3, n1, n2, n3, a, b, t, vx, vy, x, y

App == [team |-> <<"acme">>, scope |-> <<"app">>]

(* Two keys whose {team}_{scope} is the same text.                           *)
LeftKey  == [team |-> <<"a", "_", "b">>, scope |-> <<"c">>]
RightKey == [team |-> <<"a">>, scope |-> <<"b", "_", "c">>]

OneKey == {App}
ClashingKeys == {LeftKey, RightKey}

AllOnApp == [c \in Client |-> App]
OneEach == [c \in Client |-> IF c = c1 THEN LeftKey ELSE RightKey]

PreferFirst == [c \in Client |-> 0]

Flat == [p \in Path |-> {}]
BInsideA == [p \in Path |-> IF p = b THEN {a} ELSE {}]

(* Contents x and y, each with one mtime.                                    *)
MCContentOf == [v \in Version |-> IF v = vx THEN x ELSE y]

MCStatOf == [v \in Version |-> v]

(* One workstation has both files, the other one of them, with other contents. *)
MCCheckouts ==
    {[c \in Client |-> [p \in Path |->
        IF c = c1 THEN vx ELSE IF p = a THEN vy ELSE Absent]]}

(* Where one workstation has the file a, the other has a directory a with b. *)
SwappedCheckouts ==
    {[c \in Client |-> [p \in Path |->
        IF p = t THEN (IF c = c1 THEN vx ELSE Absent)
        ELSE IF (c = c1) = (p = a) THEN vx ELSE Absent]]}

NoHint == {{}}
(* The agent remembers nothing, or a tree of this or another checkout.       *)
AnyHint == {{}, {EmptyTree}, {[p \in Path |-> x]}, {[p \in Path |-> IF p = a THEN x ELSE y]}}

(* A hint of another workspace: everything the client has counts as changed. *)
NestedHint == {{}, {EmptyTree}}

ConnSymmetry == Permutations(Conn)
=============================================================================
