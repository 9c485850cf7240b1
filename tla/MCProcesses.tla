----------------------------- MODULE MCProcesses -----------------------------
(* Instances of Processes for TLC: the main program and two others, one of *)
(* which needs two pages.                                                  *)
EXTENDS Processes

CONSTANTS shell, small, large

MCNumPages == [p \in Program |-> IF p = large THEN 2 ELSE 1]
==============================================================================
