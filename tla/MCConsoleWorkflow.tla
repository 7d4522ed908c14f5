-------------------------- MODULE MCConsoleWorkflow --------------------------
(* Model values for TLC: two sessions that validate and one that does not, *)
(* one inference path that is used again, two pending handlers.            *)
EXTENDS ConsoleWorkflow

CONSTANTS s1, s2, bad, i1, h1, h2
MCSessions == {s1, s2, bad}
MCGood == {s1, s2}
MCInferences == {i1}
MCHandlers == {h1, h2}
=============================================================================
