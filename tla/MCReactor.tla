------------------------------- MODULE MCReactor -------------------------------
(***************************************************************************)
(* Small instances of Reactor.                                             *)
(***************************************************************************)
EXTENDS Reactor, TLC

\* Two connections and a third that may be given the first one's number.
ThreeHandlers == ("a" :> 1) @@ ("b" :> 2) @@ ("c" :> 1)

\* One connection.
OneHandler == ("a" :> 1)

\* Seconds pass.
Forward == {1}

\* The clock stands still.
Still == {}
===============================================================================
