------------------------- MODULE MCInjectedDisplay -------------------------
(***************************************************************************)
(* Finite configurations of InjectedDisplay for TLC.                       *)
(***************************************************************************)
EXTENDS InjectedDisplay

CONSTANTS c1, c2

\* A cluster that streams while a client is there, an auxiliary display always.
BothDisplays == {[cluster |-> TRUE, force |-> FALSE], [cluster |-> FALSE, force |-> TRUE]}
=============================================================================
