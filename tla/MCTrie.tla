--------------------------------- MODULE MCTrie --------------------------------
(***************************************************************************)
(* Keys of up to two of three characters.                                   *)
(***************************************************************************)
EXTENDS Trie

CONSTANTS a, b, c

AnyChar == Permutations(Chars)
===============================================================================
