---------------------------- MODULE MCLocalInput ----------------------------
(***************************************************************************)
(* Pids other than the shell's are interchangeable.                        *)
(***************************************************************************)
EXTENDS LocalInput, TLC

PidSymmetry == Permutations(Pids)
=============================================================================
