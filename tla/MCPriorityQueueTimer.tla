------------------------- MODULE MCPriorityQueueTimer -------------------------
(***************************************************************************)
(* Small instances of PriorityQueueTimer.                                  *)
(***************************************************************************)
EXTENDS PriorityQueueTimer

\* The clock advances, or is set back by one.
BothWays == {-1, 1}

\* The clock only advances, as far as a run with six timers allows.
Forward == {1}
===============================================================================
