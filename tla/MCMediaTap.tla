----------------------------- MODULE MCMediaTap -----------------------------
(***************************************************************************)
(* Finite configurations of MediaTap for TLC. Clients do not influence     *)
(* each other: one is enough.                                              *)
(***************************************************************************)
EXTENDS MediaTap

CONSTANT c1
=============================================================================
