----------------------------- MODULE MCInputScheduler -----------------------------
(* Small instances of InputScheduler: the last entry does not parse, the others  *)
(* alternate between two sessions in blocks of two.                           *)
EXTENDS InputScheduler

CONSTANTS s1, s2

Blocks == [m \in Messages |-> IF m <= 2 THEN s1 ELSE s2]
Broken == {NMessages}
=============================================================================
