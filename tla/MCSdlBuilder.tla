----------------------------- MODULE MCSdlBuilder -----------------------------
(* SdlBuilder for TLC.                                                         *)
EXTENDS SdlBuilder
==============================================================================
