------------------------------ MODULE MCJobStream ------------------------------
(* Small instances of JobStream.  Rows and entry ids are numbers (they are   *)
(* ordered), so only the processes are symmetric.                            *)
EXTENDS JobStream, TLC

Symmetry == Permutations(Relays) \cup Permutations(Consumers)
=============================================================================
