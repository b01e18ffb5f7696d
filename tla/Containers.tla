------------------------------ MODULE Containers ------------------------------
(***************************************************************************)
(* The containers that keep something between two calls and have no caller *)
(* inside the library, side by side: the trie, the hash tree and the epoll *)
(* wrapper.                                                                *)
(***************************************************************************)
EXTENDS Trie, TLC

CONSTANTS
  SIZE, prime, TreeKeys, Values,           \* of HashTree
  Fds, Flags, max_fd, Stride         \* of Epoller

VARIABLES
  tree, died, store, twice,
  interest, evs, triggered_num, pos, reported, returned

treeVars == <<tree, died, store, twice>>
scanVars == <<interest, evs, triggered_num, pos, reported, returned>>

HashTree_ == INSTANCE HashTree

Epoller_  == INSTANCE Epoller

ASSUME ContainersAssumption == HashTree_!TreeAssumption /\ Epoller_!EpollerAssumption

-------------------------------------------------------------------------------
(***************************************************************************)
(* HashTree.tla: a find that returns gives what a map would.               *)
(***************************************************************************)
TreeFinds == HashTree_!TreeFinds

(***************************************************************************)
(* Epoller.tla: a scan returns what the last wait reported, no event twice.*)
(***************************************************************************)
ScanIsCurrent == Epoller_!ScanIsCurrent
===============================================================================
