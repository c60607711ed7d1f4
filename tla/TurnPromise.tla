----------------------------- MODULE TurnPromise -----------------------------
(***************************************************************************)
(* What the input ledger promises to the people in a session's thread,     *)
(* whatever the runner processes, the stream and the database do below it. *)
(* Each message (an idempotency key) owns one row of input_turns.  A row   *)
(* is executed at most once, in the order the messages were accepted, and  *)
(* once its outcome is known it is never taken back.  The promise binds    *)
(* until the session's lock is lost under a job that goes on.              *)
(***************************************************************************)
EXTENDS Naturals

CONSTANT Keys      \* idempotency keys the bot hands out

VARIABLES turnStatus,    \* input_turns.status, "none" before the row exists
          turnVersion,   \* input_turns.lifecycle_version
          turnSeq,       \* input_turns.sequence
          runs,          \* how often the tool was started for the key
          drops          \* how often the lock was lost

ledger == <<turnStatus, turnVersion, turnSeq, runs>>
vars   == <<ledger, drops>>

Settled == {"delivered", "delivery_failed", "aborted"}
Open    == {"queued", "executing", "completed", "uncertain"}

\* j was accepted before k and for the same lifecycle version.
Before(j, k) == turnVersion[j] = turnVersion[k] /\ turnSeq[j] < turnSeq[k]

Move(k, from, to) ==
    /\ turnStatus[k] \in from
    /\ turnStatus' = [turnStatus EXCEPT ![k] = to]

Init ==
    /\ turnStatus = [k \in Keys |-> "none"]
    /\ turnVersion = [k \in Keys |-> 0]
    /\ turnSeq = [k \in Keys |-> 0]
    /\ runs = [k \in Keys |-> 0]
    /\ drops = 0

\* A message is accepted behind every message accepted before it.
Accept(k) ==
    /\ Move(k, {"none"}, "queued")
    /\ \A j \in Keys : turnStatus[j] # "none" => turnSeq[j] < turnSeq'[k]
    /\ turnVersion' = [turnVersion EXCEPT ![k] = turnVersion'[k]]
    /\ turnSeq' = [turnSeq EXCEPT ![k] = turnSeq'[k]]
    /\ UNCHANGED runs

\* The tool starts: only from "queued", only behind settled turns.
Start(k) ==
    /\ Move(k, {"queued"}, "executing")
    /\ \A j \in Keys : turnStatus[j] \in Open => ~Before(j, k)
    /\ runs' = [runs EXCEPT ![k] = @ + 1]
    /\ UNCHANGED <<turnVersion, turnSeq>>

Outcome(k) ==
    /\ \/ Move(k, {"executing"}, "completed")
       \/ Move(k, {"executing"}, "uncertain")
       \/ Move(k, {"completed"}, "delivered")
       \/ Move(k, {"completed"}, "delivery_failed")
       \/ Move(k, {"queued"}, "aborted")
    /\ UNCHANGED <<turnVersion, turnSeq, runs>>

\* The loss itself changes nothing; what comes after it is not promised.
Lose == drops = 0 /\ drops' > 0 /\ UNCHANGED ledger
Void == drops > 0

Next ==
    \/ drops = 0 /\ UNCHANGED drops /\ \E k \in Keys : Accept(k) \/ Start(k) \/ Outcome(k)
    \/ Lose
    \/ Void

Spec == Init /\ [][Next]_vars
=============================================================================
