----------------------------- MODULE MCStateStore -----------------------------
(***************************************************************************)
(* StateStore for TLC: the constants come from the .cfg files.             *)
(***************************************************************************)
EXTENDS StateStore
===============================================================================
