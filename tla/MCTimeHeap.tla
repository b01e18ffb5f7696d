------------------------------ MODULE MCTimeHeap ------------------------------
(***************************************************************************)
(* Small instances of TimeHeap.                                            *)
(***************************************************************************)
EXTENDS TimeHeap

\* Seconds pass.
Forward == {1, 2}
===============================================================================
