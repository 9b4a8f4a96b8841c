---------------------------- MODULE MCGraphtrace ----------------------------
(* The traced worker and dpservice-dump, with rings of a few entries, for   *)
(* TLC.                                                                     *)
EXTENDS Graphtrace
=============================================================================
