---------------------------- MODULE MCTurnExecution ----------------------------
(* Small instances of TurnExecution: a leader with one or two descendants and   *)
(* one or two output streams.                                               *)
EXTENDS TurnExecution

CONSTANTS leader, child, other, out, err

TwoProcs  == {leader, child}
ThreeProcs == {leader, child, other}
=============================================================================
