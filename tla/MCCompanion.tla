---------------------------- MODULE MCCompanion ----------------------------
(***************************************************************************)
(* Finite instances of Companion for TLC.                                  *)
(***************************************************************************)
EXTENDS Companion

CONSTANTS custom, browser
=============================================================================
