---------------------------- MODULE MCHalThread -----------------------------
(***************************************************************************)
(* HalThread for TLC.                                                      *)
(***************************************************************************)
EXTENDS HalThread

\* Two components with one function each.
MCOwner == [f |-> "a", g |-> "b"]
=============================================================================
