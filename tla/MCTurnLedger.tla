----------------------------- MODULE MCTurnLedger -----------------------------
(* Small instances of TurnLedger: the messages and processes are symmetric.  *)
EXTENDS TurnLedger, TLC

Symmetry == Permutations(Keys) \cup Permutations(Runners)
=============================================================================
