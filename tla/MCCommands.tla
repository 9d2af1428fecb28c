----------------------------- MODULE MCCommands -----------------------------
(* The commands with two runs of `get` in one directory and one `manage`. *)
EXTENDS Commands

Runs == Permutations(Getters)
=============================================================================
