------------------------------ MODULE ReplyPromise ------------------------------
(***************************************************************************)
(* What a turn may rely on when its reply is posted: the chunks of the reply  *)
(* come into view one after the other from the first, and the turn is told     *)
(* that the reply was delivered only when all of them are there.               *)
(***************************************************************************)
EXTENDS Naturals

CONSTANT N          \* chunks of the reply

VARIABLES visible, answer

Init == visible = {} /\ answer = "none"

Show(c) ==
    /\ visible = 1..(c - 1)
    /\ visible' = 1..c
    /\ UNCHANGED answer

Deliver ==
    /\ visible = 1..N
    /\ answer' = "delivered"
    /\ UNCHANGED visible

\* Discord will never take the reply.
Reject ==
    /\ answer = "none" /\ answer' = "rejected"
    /\ UNCHANGED visible

Next == (\E c \in 1..N : Show(c)) \/ Deliver \/ Reject

Spec == Init /\ [][Next]_<<visible, answer>>
=============================================================================
