---------------------------- MODULE MCIoControl -----------------------------
(***************************************************************************)
(* IoControl for TLC: a changer that returns each tool to its pocket, with *)
(* two tools, and a random one that swaps two tools with the spindle.      *)
(***************************************************************************)
EXTENDS IoControl

MCMachines == {[random |-> FALSE, pockets |-> 2], [random |-> TRUE, pockets |-> 1]}
=============================================================================
