----------------------------- MODULE MCStartCommand -----------------------------
(* Small instances of StartCommand: two commands of one owner for one tool, the   *)
(* first with a path, the second with an alias.                                 *)
EXTENDS StartCommand

CONSTANTS c1, c2, owner, claude, work, other, root, home

OneOwner == [c \in Commands |-> owner]
OneTool  == [c \in Commands |-> claude]
Args     == [c \in Commands |-> IF c = c1 THEN work ELSE home]
=============================================================================
