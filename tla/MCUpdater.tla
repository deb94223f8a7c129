----------------------------- MODULE MCUpdater -----------------------------
(***************************************************************************)
(* Small instances of Updater.  m1 and m2 pass the allow-list, m3 does not;*)
(* with one name for two processes symmetry of the processes is sound for  *)
(* the safety runs (no definition names a process).                        *)
(***************************************************************************)
EXTENDS Updater, TLC

ProcSymmetry == Permutations(Procs)
=============================================================================
