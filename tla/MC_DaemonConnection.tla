-------------------------- MODULE MC_DaemonConnection --------------------------
(***************************************************************************)
(* Instances of DaemonConnection for TLC.                                  *)
(***************************************************************************)
EXTENDS DaemonConnection, TLC

Symmetric == Permutations(Threads) \cup Permutations(Contexts)
=============================================================================
