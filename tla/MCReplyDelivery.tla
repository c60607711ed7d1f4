----------------------------- MODULE MCReplyDelivery -----------------------------
(* Small instances of ReplyDelivery.                                         *)
EXTENDS ReplyDelivery, TLC

Symmetry == Permutations(Requests)
=============================================================================
