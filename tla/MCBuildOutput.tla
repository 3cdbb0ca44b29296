--------------------------- MODULE MCBuildOutput ----------------------------
(* Values for the constants of BuildOutput.                                  *)
EXTENDS BuildOutput

CONSTANTS letter, exe1, exe2
=============================================================================
