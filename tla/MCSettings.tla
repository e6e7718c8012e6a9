----------------------------- MODULE MCSettings -----------------------------
(***************************************************************************)
(* Finite instances of Settings for TLC.                                   *)
(***************************************************************************)
EXTENDS Settings

CONSTANTS browser, phone
=============================================================================
