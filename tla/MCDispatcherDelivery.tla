-------------------------- MODULE MCDispatcherDelivery --------------------------
(* Small instances of DispatcherDelivery.                                    *)
EXTENDS DispatcherDelivery, TLC

Symmetry == Permutations(Dispatchers)
=============================================================================
