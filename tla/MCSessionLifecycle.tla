-------------------------- MODULE MCSessionLifecycle --------------------------
(* Small instances of SessionLifecycle.                                      *)
EXTENDS SessionLifecycle, TLC

Symmetry == Permutations(Sessions)
=============================================================================
