---------------------------- MODULE MCHostPresence ----------------------------
(* Small instances of HostPresence. *)
EXTENDS HostPresence

CONSTANTS j1, j2, j3, r1, r2
=============================================================================
