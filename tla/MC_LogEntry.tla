----------------------------- MODULE MC_LogEntry -----------------------------
(***************************************************************************)
(* Instances of LogEntry for TLC.                                          *)
(***************************************************************************)
EXTENDS LogEntry, TLC

\* The default configuration with both backends, extended by a file.
AllBackends == <<"console", "dlt", "file">>

\* The default configuration without the DLT.
ConsoleOnly == <<"console">>

Symmetric == Permutations(Threads)
=============================================================================
