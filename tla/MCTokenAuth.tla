---------------------------- MODULE MCTokenAuth -----------------------------
(* Values for the constants of TokenAuth.                                    *)
EXTENDS TokenAuth, TLC

CONSTANTS t1, t2, h1, h2

OneOrNever == {1, Never}
Symmetry == Permutations(Token) \cup Permutations(Handshake)
=============================================================================
