----------------------------- MODULE MCScripts -----------------------------
(***************************************************************************)
(* Two script files and two callers, a proxy and a web handler, while a    *)
(* file is changed: a call goes through two engines, and a reload destroys *)
(* two.                                                                    *)
(***************************************************************************)
EXTENDS Scripts

TwoPaths == {1, 2}
=============================================================================
