--------------------------- MODULE MCToolExecutor ---------------------------
(* Two calls of one tool for two steps, and a call of a tool that plan.md has *)
(* and the registry has not.                                                 *)
EXTENDS ToolExecutor

CONSTANTS c1, c2, c3, s1, s2

MCStepOf == [c \in Calls |-> IF c = c2 THEN s2 ELSE s1]
MCToolOf == [c \in Calls |-> IF c = c3 THEN "collect_outputs" ELSE "transcribe_audio"]
=============================================================================
