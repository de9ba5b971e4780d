--------------------------- MODULE MCMainLoopQueue ---------------------------
(* Constants of the TLC instances of MainLoopQueue. *)
EXTENDS MainLoopQueue, TLC

CONSTANTS t1, t2, a, b, s

TwoTasks == {t1, t2}
OneElide == {a}
TwoElide == {a, b}
OneStream == {s}
=============================================================================
