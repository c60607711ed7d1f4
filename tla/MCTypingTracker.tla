---------------------------- MODULE MCTypingTracker ----------------------------
(* Small instances of TypingTracker. *)
EXTENDS TypingTracker

CONSTANTS t1, t2, t3

TwoStarts   == 1..2
ThreeStarts == 1..3
=============================================================================
