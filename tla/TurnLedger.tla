------------------------------ MODULE TurnLedger ------------------------------
(***************************************************************************)
(* Input turns of one session: the bot accepts messages, the outbox relay  *)
(* and the Redis stream deliver each of them at least once, and the runner *)
(* processes of the session's host execute them under a session advisory   *)
(* lock while stop, archive, resume, restart and the janitor move the      *)
(* session underneath.  One session is enough: the lock, the ledger rows   *)
(* and the ordering rules are all per session.                             *)
(***************************************************************************)
EXTENDS Naturals, FiniteSets

CONSTANTS Keys,           \* idempotency keys of the session's messages
          Runners,        \* runner processes serving the session's host
          NoKey, NoRunner, NoToken,
          MaxVersion,     \* bound on lifecycle_version
          MaxDrops        \* bound on lock connections that die alone

ASSUME ConstantsAssumption ==
    /\ NoKey \notin Keys
    /\ NoRunner \notin Runners
    /\ NoToken \notin Keys
    /\ MaxVersion \in Nat
    /\ MaxDrops \in Nat

VARIABLES status, version, token,    \* the sessions row
          restartedAt,               \* history: version of the latest restart
          turnStatus, turnVersion, turnSeq, nextSeq,  \* input_turns rows
          outbox,                    \* keys whose outbox row is unpublished
          stream,                    \* keys with an entry not yet acknowledged
          lock,                      \* holder of the advisory lock
          drops,                     \* history: how often a job lost it and went on
          pc, key,                   \* each runner process's current job
          runs,                      \* history: tool starts per key
          shown                      \* what the thread got to see per key

sessionVars == <<status, version, token, restartedAt>>
turnVars    == <<turnStatus, turnVersion, turnSeq, nextSeq>>
streamVars  == <<outbox, stream>>
lockVars    == <<lock, drops>>
jobVars     == <<lockVars, pc, key>>
vars == <<sessionVars, turnVars, streamVars, jobVars, runs, shown>>

Live    == {"running", "idle"}
Settled == {"delivered", "delivery_failed", "aborted"}
Open    == {"queued", "executing", "completed", "uncertain"}

SessionStatus == Live \cup {"resuming", "archived", "stopping", "stopped", "failed"}
TurnStatus    == Open \cup Settled \cup {"none"}
\* Program points of run_input_job between which other actors may run.
LockedPoints  == {"session", "ledger", "interrupted", "notice", "denied",
                  "admit", "exec", "post", "posted", "rejected"}
Points        == LockedPoints \cup {"idle", "ack"}

TypeOK ==
    /\ status \in SessionStatus
    /\ version \in 0..MaxVersion
    /\ token \in Keys \cup {NoToken}
    /\ restartedAt \in 0..MaxVersion
    /\ turnStatus \in [Keys -> TurnStatus]
    /\ turnVersion \in [Keys -> 0..MaxVersion]
    /\ turnSeq \in [Keys -> Nat]
    /\ nextSeq \in Nat
    /\ outbox \subseteq Keys
    /\ stream \subseteq Keys
    /\ lock \in Runners \cup {NoRunner} /\ drops \in 0..MaxDrops
    /\ pc \in [Runners -> Points]
    /\ key \in [Runners -> Keys \cup {NoKey}]
    /\ runs \in [Keys -> Nat]
    /\ shown \in [Keys -> SUBSET {"reply", "notice"}]

\* A session as run_create_job leaves it: running, its token minted.
Init ==
    /\ status = "running" /\ version = 0 /\ token = NoToken /\ restartedAt = 0
    /\ turnStatus = [k \in Keys |-> "none"]
    /\ turnVersion = [k \in Keys |-> 0]
    /\ turnSeq = [k \in Keys |-> 0]
    /\ nextSeq = 1
    /\ outbox = {}
    /\ stream = {}
    /\ lock = NoRunner /\ drops = 0
    /\ pc = [r \in Runners |-> "idle"]
    /\ key = [r \in Runners |-> NoKey]
    /\ runs = [k \in Keys |-> 0]
    /\ shown = [k \in Keys |-> {}]

-----------------------------------------------------------------------------
(* The bot and the outbox relay.                                           *)

\* run_input_saga: one transaction under the session's row lock.
Accept(k) ==
    /\ status \in Live
    /\ turnStatus[k] = "none"
    /\ status' = "running"
    /\ turnStatus' = [turnStatus EXCEPT ![k] = "queued"]
    /\ turnVersion' = [turnVersion EXCEPT ![k] = version]
    /\ turnSeq' = [turnSeq EXCEPT ![k] = nextSeq]
    /\ nextSeq' = nextSeq + 1
    /\ outbox' = outbox \cup {k}
    /\ UNCHANGED <<version, token, restartedAt, stream, jobVars, runs, shown>>

\* The relay writes the stream and marks the row.  The entries of a message are
\* alike: it is in the stream while one of them is unacknowledged or, since a crash
\* before the mark publishes it again, still to come (see Ack).
Publish(k) ==
    /\ k \in outbox
    /\ stream' = stream \cup {k}
    /\ outbox' = outbox \ {k}
    /\ UNCHANGED <<sessionVars, turnVars, jobVars, runs, shown>>

-----------------------------------------------------------------------------
(* A runner process working through one stream entry.                      *)

\* The session row is live and still at the version the job was accepted for.
Current(k) == status \in Live /\ version = turnVersion[k]

Goto(r, point) == pc' = [pc EXCEPT ![r] = point]

Unlock(r) == lock' = (IF lock = r THEN NoRunner ELSE lock) /\ UNCHANGED drops

\* The handler returns "deferred": no XACK, the entry stays pending.
Defer(r) ==
    /\ Goto(r, "idle") /\ Unlock(r)
    /\ key' = [key EXCEPT ![r] = NoKey]

\* The handler returns any other outcome: the entry will be acknowledged.
Finish(r) == Goto(r, "ack") /\ Unlock(r) /\ UNCHANGED key

Proceed(r, point) == Goto(r, point) /\ UNCHANGED <<lockVars, key>>

\* Reading or claiming an entry and winning pg_try_advisory_xact_lock; a
\* process that loses defers at once, which changes nothing.
Take(r, k) ==
    /\ pc[r] = "idle" /\ k \in stream
    /\ lock = NoRunner
    /\ lock' = r /\ UNCHANGED drops
    /\ Goto(r, "session")
    /\ key' = [key EXCEPT ![r] = k]
    /\ UNCHANGED <<sessionVars, turnVars, streamVars, runs, shown>>

ReadSession(r) ==
    /\ pc[r] = "session"
    /\ IF Current(key[r]) THEN Proceed(r, "ledger") ELSE Finish(r)
    /\ UNCHANGED <<sessionVars, turnVars, streamVars, runs, shown>>

\* Mutant of Blocked: a completed but unposted turn does not hold back the next.
BlockedByUnfinished(k) ==
    \E j \in Keys \ {k} :
        /\ turnStatus[j] \in {"queued", "executing"}
        /\ turnVersion[j] = turnVersion[k]
        /\ turnStatus[k] \in Open => turnSeq[j] < turnSeq[k]

\* Another turn of this version is the earliest unsettled one.
Blocked(k) ==
    \E j \in Keys \ {k} :
        /\ turnStatus[j] \in Open
        /\ turnVersion[j] = turnVersion[k]
        /\ turnStatus[k] \in Open => turnSeq[j] < turnSeq[k]

\* Mutants of ReadLedger: an interrupted turn is run again; a settled turn is
\* posted again.
ReadLedgerRerunning(r) ==
    /\ pc[r] = "ledger"
    /\ IF Blocked(key[r]) THEN Defer(r)
       ELSE IF turnStatus[key[r]] \in Settled THEN Finish(r)
       ELSE IF turnStatus[key[r]] = "completed" THEN Proceed(r, "post")
       ELSE Proceed(r, "admit")
    /\ UNCHANGED <<sessionVars, turnVars, streamVars, runs, shown>>
ReadLedgerReposting(r) ==
    /\ pc[r] = "ledger"
    /\ IF Blocked(key[r]) THEN Defer(r)
       ELSE IF turnStatus[key[r]] = "queued" THEN Proceed(r, "admit")
       ELSE IF turnStatus[key[r]] \in {"executing", "uncertain"}
         THEN Proceed(r, "interrupted")
       ELSE Proceed(r, "post")
    /\ UNCHANGED <<sessionVars, turnVars, streamVars, runs, shown>>

\* The turn's own row and the earliest open row decide what the job does.
ReadLedger(r) ==
    LET k == key[r] IN
    /\ pc[r] = "ledger"
    /\ IF Blocked(k) THEN Defer(r)
       ELSE \/ turnStatus[k] \in Settled /\ Finish(r)
            \/ turnStatus[k] \in {"executing", "uncertain"}
                 /\ Proceed(r, "interrupted")
            \/ turnStatus[k] = "completed" /\ Proceed(r, "post")
            \/ turnStatus[k] = "queued"
                 /\ \E next \in {"admit", "denied"} : Proceed(r, next)
    /\ UNCHANGED <<sessionVars, turnVars, streamVars, runs, shown>>

\* No lock owner remains for a turn found executing.
MarkUncertain(r) ==
    /\ pc[r] = "interrupted"
    /\ turnStatus' = [turnStatus EXCEPT ![key[r]] = "uncertain"]
    /\ Proceed(r, "notice")
    /\ UNCHANGED <<sessionVars, turnVersion, turnSeq, nextSeq, streamVars,
                   runs, shown>>

\* What POST /reply does: refused unless live and at the turn's version.
Show(k, what) ==
    /\ Current(k)
    /\ shown' = [shown EXCEPT ![k] = @ \cup {what}]

\* The interruption notice was posted, or can never be (410).
PostNotice(r) ==
    /\ pc[r] = "notice"
    /\ Show(key[r], "notice") \/ UNCHANGED shown
    /\ Finish(r)
    /\ UNCHANGED <<sessionVars, turnVars, streamVars, runs>>

\* Mutant of PostReply: an undeliverable reply counts as delivered.
PostReplyIgnoringRejection(r) ==
    /\ pc[r] = "post"
    /\ Show(key[r], "reply") \/ UNCHANGED shown
    /\ Proceed(r, "posted")
    /\ UNCHANGED <<sessionVars, turnVars, streamVars, runs>>

\* The stored reply was posted, or (perhaps after some of its chunks) can
\* never be (410, 422).
PostReply(r) ==
    /\ pc[r] = "post"
    /\ \/ Show(key[r], "reply") /\ \E next \in {"posted", "rejected"} : Proceed(r, next)
       \/ UNCHANGED shown /\ Proceed(r, "rejected")
    /\ UNCHANGED <<sessionVars, turnVars, streamVars, runs>>

\* Either post is refused for now, or its response is lost.
PostFails(r) ==
    /\ \/ /\ pc[r] = "notice"
          /\ Show(key[r], "notice") \/ UNCHANGED shown
       \/ /\ pc[r] = "post"
          /\ Show(key[r], "reply") \/ UNCHANGED shown
    /\ Defer(r)
    /\ UNCHANGED <<sessionVars, turnVars, streamVars, runs>>

\* Mutant of Deny: the turn is not retired.
DenyWithoutRetiring(r) ==
    /\ pc[r] = "denied"
    /\ Finish(r)
    /\ UNCHANGED <<sessionVars, turnVars, streamVars, runs, shown>>

\* The workspace is no longer allowed: retire the turn only if still queued.
Deny(r) ==
    /\ pc[r] = "denied"
    /\ turnStatus' = IF turnStatus[key[r]] = "queued"
                       THEN [turnStatus EXCEPT ![key[r]] = "aborted"]
                       ELSE turnStatus
    /\ Finish(r)
    /\ UNCHANGED <<sessionVars, turnVersion, turnSeq, nextSeq, streamVars,
                   runs, shown>>

\* The admission transaction, then the tool starts.  The upsert's WHERE only
\* protects the row: nothing checks whether it changed one.
Admit(r) ==
    LET k == key[r] IN
    /\ pc[r] = "admit"
    /\ IF Current(k)
         THEN /\ status' = "running"
              /\ turnStatus' = IF turnStatus[k] = "queued"
                                 THEN [turnStatus EXCEPT ![k] = "executing"]
                                 ELSE turnStatus
              /\ runs' = [runs EXCEPT ![k] = @ + 1]
              /\ Proceed(r, "exec")
         ELSE Finish(r) /\ UNCHANGED <<status, turnStatus, runs>>
    /\ UNCHANGED <<version, token, restartedAt, turnVersion, turnSeq, nextSeq,
                   streamVars, shown>>

\* What _deliver gives back of a run: the conversation's token after this turn,
\* or none if the tool gave none, failed, timed out or was revoked.
Reported(k) == {k, NoToken}

\* Mutant of Complete: the token is stored without the version check.
CompleteUnfenced(r) ==
    LET k == key[r] IN
    /\ pc[r] = "exec"
    /\ turnStatus' = [turnStatus EXCEPT ![k] = "completed"]
    /\ \E t \in Reported(k) :
         token' = IF t # NoToken /\ status \in Live THEN t ELSE token
    /\ Proceed(r, "post")
    /\ UNCHANGED <<status, version, restartedAt, turnVersion, turnSeq, nextSeq,
                   streamVars, runs, shown>>

\* The tool ended, timed out or was revoked; one transaction stores the
\* result and, if there is a new resume token and the session is still current,
\* that token (COALESCE keeps the old one otherwise).
Complete(r) ==
    LET k == key[r] IN
    /\ pc[r] = "exec"
    /\ turnStatus' = [turnStatus EXCEPT ![k] = "completed"]
    /\ \E t \in Reported(k) :
         token' = IF t # NoToken /\ Current(k) THEN t ELSE token
    /\ Proceed(r, "post")
    /\ UNCHANGED <<status, version, restartedAt, turnVersion, turnSeq, nextSeq,
                   streamVars, runs, shown>>

\* _mark_turn without only_if.
MarkTurn(r, point, to) ==
    /\ pc[r] = point
    /\ turnStatus' = [turnStatus EXCEPT ![key[r]] = to]
    /\ Finish(r)
    /\ UNCHANGED <<sessionVars, turnVersion, turnSeq, nextSeq, streamVars,
                   runs, shown>>

MarkDelivered(r) == MarkTurn(r, "posted", "delivered")
MarkDeliveryFailed(r) == MarkTurn(r, "rejected", "delivery_failed")

\* XACK of this entry, after the lock's transaction ended; another entry of the
\* message may be left, or still be published.
Ack(r) ==
    /\ pc[r] = "ack"
    /\ stream' \in {stream, stream \ {key[r]}}
    /\ Goto(r, "idle")
    /\ key' = [key EXCEPT ![r] = NoKey]
    /\ UNCHANGED <<sessionVars, turnVars, outbox, lockVars, runs, shown>>

\* The process dies, is cancelled, or a database, Redis or policy error leaves
\* the handler as an exception: the lock goes with its connection, the entry
\* stays pending.
Interrupt(r) ==
    /\ pc[r] # "idle"
    /\ Defer(r)
    /\ UNCHANGED <<sessionVars, turnVars, streamVars, runs, shown>>

\* The lock's connection drops while the process goes on.
DropLock(r) ==
    /\ lock = r /\ drops < MaxDrops
    /\ lock' = NoRunner /\ drops' = drops + 1
    /\ UNCHANGED <<sessionVars, turnVars, streamVars, pc, key, runs, shown>>

-----------------------------------------------------------------------------
(* The session's lifecycle as far as a turn can tell.                      *)

Bump(from, to) ==
    /\ status \in from /\ version < MaxVersion
    /\ status' = to
    /\ version' = version + 1

Stop    == Bump(Live \cup {"resuming"}, "stopping") /\ UNCHANGED <<token, restartedAt>>
Archive == Bump(Live \cup {"stopped"}, "archived") /\ UNCHANGED <<token, restartedAt>>
Resume  == Bump({"archived"}, "resuming") /\ UNCHANGED <<token, restartedAt>>

\* A restart forgets the conversation: its token is cleared with the bump.
Restart ==
    /\ Bump(Live \cup {"stopped"}, "resuming")
    /\ token' = NoToken
    /\ restartedAt' = version + 1

\* run_resume_job; the restart job runs it under the session's lock.
ResumeJob ==
    /\ status = "resuming"
    /\ restartedAt = version => lock = NoRunner
    /\ status' = "running"
    /\ UNCHANGED <<version, token, restartedAt>>

\* The runner's stop job; the session can be archived or restarted from there too.
StopJob ==
    /\ status = "stopping"
    /\ status' = "stopped"
    /\ UNCHANGED <<version, token, restartedAt>>

\* sweep_idle_timeout: not while a turn of this version is unfinished.
IdleSweep ==
    /\ status = "running"
    /\ ~ \E k \in Keys : /\ turnStatus[k] \in Open \ {"uncertain"}
                         /\ turnVersion[k] = version
    /\ status' = "idle"
    /\ UNCHANGED <<version, token, restartedAt>>

\* A lost host or a failed resume ends the session without a version bump.
Fail ==
    /\ status \in Live \cup {"resuming"}
    /\ status' = "failed"
    /\ UNCHANGED <<version, token, restartedAt>>

Lifecycle ==
    /\ \/ Stop \/ Archive \/ Resume \/ Restart
       \/ ResumeJob \/ StopJob \/ IdleSweep \/ Fail
    /\ UNCHANGED <<turnVars, streamVars, jobVars, runs, shown>>

-----------------------------------------------------------------------------
Step(r) ==
    \/ ReadSession(r) \/ ReadLedger(r) \/ MarkUncertain(r) \/ PostNotice(r)
    \/ Deny(r) \/ Admit(r) \/ Complete(r) \/ PostReply(r)
    \/ MarkDelivered(r) \/ MarkDeliveryFailed(r) \/ Ack(r)

Next ==
    \/ \E k \in Keys : Accept(k) \/ Publish(k)
    \/ \E r \in Runners, k \in Keys : Take(r, k)
    \/ \E r \in Runners :
         Step(r) \/ PostFails(r) \/ Interrupt(r) \/ DropLock(r)
    \/ Lifecycle

Spec == Init /\ [][Next]_vars

\* The relay loop and the runner's tasks keep running.  Every pending entry is
\* read or reclaimed again and again (XAUTOCLAIM of entries idle for a minute),
\* and the retries of two processes do not stay in lockstep.
FairSpec ==
    /\ Spec
    /\ \A k \in Keys : WF_vars(Publish(k))
    /\ \A r \in Runners :
         /\ WF_vars(Step(r))
         /\ \A k \in Keys : SF_vars(Take(r, k))

-----------------------------------------------------------------------------
(* Properties.                                                             *)

\* The tool is started at most once per accepted message, across redelivery,
\* crashes and two runner processes: "retry delivery without re-execution".
ExecutedAtMostOnce == \A k \in Keys : runs[k] <= 1

\* The lock lives on a database connection: each time it is lost under a job that
\* goes on, at most one more job can start the tool for a message, and a message
\* that ran is never admitted again from its row.
RerunsNeedLostLocks == \A k \in Keys : runs[k] <= 1 + drops

\* run_input_job fences turns per session: one tool of the session runs at a time,
\* and one more for each lock that was lost.
OneTurnAtATime == Cardinality({r \in Runners : pc[r] = "exec"}) <= 1 + drops

\* j was accepted before k and for the same version.
Before(j, k) == turnVersion[j] = turnVersion[k] /\ turnSeq[j] < turnSeq[k]

\* Until a lock is lost, turns start in the order they were accepted, each behind
\* settled turns, although the stream may deliver them in any order and more than once.
StartedInOrder ==
    drops = 0 =>
      \A j, k \in Keys :
          runs[k] > 0 /\ turnStatus[j] \in Open => ~Before(j, k)

\* Until a lock is lost, the thread never gets both the notice that a turn's effects are uncertain
\* and that turn's reply.
ReplyOrNotice ==
    drops = 0 => \A k \in Keys : shown[k] # {"reply", "notice"}

\* Until a lock is lost, a reply in the thread is the stored reply of a turn that ran
\* to its end, and a turn counts as delivered only if its reply was shown.
ReplyIsBacked ==
    drops = 0 =>
      \A k \in Keys :
        /\ "reply" \in shown[k] =>
             turnStatus[k] \in {"completed", "delivered", "delivery_failed"}
        /\ turnStatus[k] = "delivered" => "reply" \in shown[k]

\* After a restart the session never continues a conversation from before it:
\* old turns cannot restore old tokens.
RestartForgets == token \in Keys => turnVersion[token] >= restartedAt

\* The ledger keeps the promise TurnPromise states: until a lock is lost no message
\* runs twice or out of order, and no outcome is taken back.
Promise == INSTANCE TurnPromise
KeepsPromise == Promise!Spec

\* If processes stop failing and posts stop being refused, a queued turn is
\* settled, unless the session left it behind or an interrupted turn of the
\* same version blocks it until a restart.
QueuedIsSettled ==
    <>[][~ \E r \in Runners : Interrupt(r) \/ PostFails(r)]_vars =>
      \A k \in Keys :
        turnStatus[k] = "queued" ~>
          \/ turnStatus[k] \in Settled
          \/ ~Current(k)
          \/ \E j \in Keys : turnStatus[j] = "uncertain" /\ turnVersion[j] = turnVersion[k]
=============================================================================
