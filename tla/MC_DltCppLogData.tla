-------------------------- MODULE MC_DltCppLogData --------------------------
(***************************************************************************)
(* Instances of DltCppLogData for TLC.  96 bytes (78 for arguments): a few *)
(* arguments fill the buffer, and the lengths leave every kind of          *)
(* remainder before, at and after the boundary.                            *)
(***************************************************************************)
EXTENDS DltCppLogData

MC_FormatResults == {FormatError, 8, 21}
=============================================================================
