----------------------------- MODULE MCExamples -----------------------------
(* Values for the examples: three threads of three rounds each; the        *)
(* buffer, smaller than that, is set by the configuration.                 *)
EXTENDS SyncExamples
=============================================================================
