----------------------------- MODULE MCHashtableShm ----------------------------
(***************************************************************************)
(* Three keys, two of which meet in the first row, and two rows.            *)
(***************************************************************************)
EXTENDS HashtableShm

CONSTANTS p1, p2

ThreeKeys == {1, 2, 4}
TwoPrimes == <<3, 2>>
===============================================================================
