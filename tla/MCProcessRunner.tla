-------------------------- MODULE MCProcessRunner --------------------------
(* Two threads in Run at the same time, each with a child and a grandchild: *)
(* every inheritance of one's pipe ends by the other's child happens.  A    *)
(* program ends well or by a fault; which non-zero status it has does not   *)
(* matter to any step.                                                      *)
EXTENDS ProcessRunner

SIGSEGV == 11
MCProgramEnds == {0, -SIGSEGV}
=============================================================================
