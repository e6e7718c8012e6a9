----------------------------- MODULE MCSession -----------------------------
(***************************************************************************)
(* Finite configurations of Session for TLC.                               *)
(***************************************************************************)
EXTENDS Session, TLC

CONSTANTS c1, c2

\* mitm and ev are what makes io_loop publish tx.
EvConfigs   == {[mitm |-> TRUE, ev |-> TRUE, logger |-> b] : b \in BOOLEAN}
SomeConfigs == {[mitm |-> TRUE, ev |-> TRUE, logger |-> TRUE],
                [mitm |-> TRUE, ev |-> FALSE, logger |-> FALSE],
                [mitm |-> FALSE, ev |-> FALSE, logger |-> FALSE]}

Symmetry == Permutations(Clients)
=============================================================================
