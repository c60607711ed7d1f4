------------------------------- MODULE JobStream -------------------------------
(***************************************************************************)
(* How an outbox row reaches a handler.  A transaction writes the row, a    *)
(* relay of its producer XADDs it to the row's stream and marks it          *)
(* published, the processes of one consumer group read, reclaim, handle,    *)
(* acknowledge or dead-letter the entry, and the janitor trims the stream   *)
(* and deletes published rows.  Relays, consumers and the janitor run in    *)
(* different processes; each may die, and each call to Redis may fail with  *)
(* or without having taken effect.                                          *)
(***************************************************************************)
EXTENDS Integers, Sequences, FiniteSets

CONSTANTS Rows,           \* ids of redis_outbox rows, in insertion order
          Relays,         \* relay loops of one producer
          Consumers,      \* processes of one consumer group
          MaxAttempts,    \* OUTBOX_MAX_ATTEMPTS
          MaxDeliveries,  \* RUNNER_JOB_MAX_DELIVERIES
          MaxEntries      \* bound on the entries ever added to the stream

ASSUME StreamAssumption ==
    /\ Rows \subseteq Nat /\ IsFiniteSet(Rows)
    /\ MaxAttempts \in Nat \ {0}
    /\ MaxDeliveries \in Nat \ {0}
    /\ MaxEntries \in Nat

VARIABLES
    outbox,      \* each row: none, unpublished, published, deleted
    attempts,    \* redis_outbox.attempts
    refusals,    \* history: error replies to the row's XADDs, up to MaxAttempts
    batch,       \* each relay: rows locked, to do, XADDed and refused so far
    log,         \* the stream: the row of each entry, ids are positions
    trimmed,     \* entries up to here were removed by XTRIM
    lastRead,    \* the group's last-delivered-id
    pending,     \* its pending entries list...
    deliveries,  \* ...with delivery counts, up to MaxDeliveries
    dead,        \* entries retained in the dead-letter hash
    worker,      \* each consumer: entries to process, and how far the first is
    local,       \* each consumer: local_attempts, up to MaxDeliveries
    trim,        \* the janitor's trim_acknowledged: last-delivered-id, then floor
    done         \* history: entries a handler worked through

outboxVars == <<outbox, attempts, refusals, batch>>
streamVars == <<log, trimmed, lastRead, pending, deliveries, dead>>
workerVars == <<worker, local>>
vars == <<outboxVars, streamVars, workerVars, trim, done>>

Ids    == 1..MaxEntries
Added  == 1..Len(log)
Idle   == [locked |-> {}, todo |-> {}, added |-> {}, refused |-> {}]
Resting == [todo |-> {}, at |-> "next"]
NoTrim == [at |-> "idle", floor |-> 0]

TypeOK ==
    /\ outbox \in [Rows -> {"none", "unpublished", "published", "deleted"}]
    /\ attempts \in [Rows -> 0..MaxAttempts] /\ refusals \in [Rows -> 0..MaxAttempts]
    /\ batch \in [Relays -> [locked : SUBSET Rows, todo : SUBSET Rows,
                             added : SUBSET Rows, refused : SUBSET Rows]]
    /\ log \in Seq(Rows) /\ Len(log) <= MaxEntries
    /\ trimmed \in 0..MaxEntries
    /\ lastRead \in 0..Len(log)
    /\ pending \subseteq 1..lastRead
    /\ deliveries \in [Ids -> 0..MaxDeliveries]
    /\ dead \subseteq 1..lastRead
    /\ worker \in [Consumers -> [todo : SUBSET Ids, at : {"next", "handled", "failed"}]]
    /\ local \in [Consumers -> [Ids -> 0..MaxDeliveries]]
    /\ trim \in [at : {"idle", "groups", "floor"}, floor : 0..MaxEntries]
    /\ done \subseteq 1..lastRead

Init ==
    /\ outbox = [r \in Rows |-> "none"]
    /\ attempts = [r \in Rows |-> 0] /\ refusals = [r \in Rows |-> 0]
    /\ batch = [k \in Relays |-> Idle]
    /\ log = << >>
    /\ trimmed = 0 /\ lastRead = 0 /\ pending = {} /\ dead = {}
    /\ deliveries = [i \in Ids |-> 0]
    /\ worker = [c \in Consumers |-> Resting]
    /\ local = [c \in Consumers |-> [i \in Ids |-> 0]]
    /\ trim = NoTrim
    /\ done = {}

First(S)   == CHOOSE i \in S : \A j \in S : i <= j
Capped(n)  == IF n < MaxDeliveries THEN n + 1 ELSE n
Refuse(r)  == refusals' = [refusals EXCEPT ![r] = IF @ < MaxAttempts THEN @ + 1 ELSE @]

-----------------------------------------------------------------------------
(* The outbox and its relays.                                               *)

\* write_outbox, in the transaction of the saga that needs the job done.
WriteOutbox(r) ==
    /\ outbox[r] = "none"
    /\ outbox' = [outbox EXCEPT ![r] = "unpublished"]
    /\ UNCHANGED <<attempts, refusals, batch, streamVars, workerVars, trim, done>>

\* SELECT ... FOR UPDATE SKIP LOCKED: some of the rows that are due.
Locked == UNION {batch[k].locked : k \in Relays}
Due    == {r \in Rows : outbox[r] = "unpublished" /\ attempts[r] < MaxAttempts}

SelectBatch(k) ==
    /\ batch[k] = Idle
    /\ \E rows \in SUBSET (Due \ Locked) \ {{}} :
         batch' = [batch EXCEPT ![k] = [Idle EXCEPT !.locked = rows, !.todo = rows]]
    /\ UNCHANGED <<outbox, attempts, refusals, streamVars, workerVars, trim, done>>

\* What is left of a batch after a row, and after a lost connection.
Rest(k, r, added, refused) ==
    [batch[k] EXCEPT !.todo = batch[k].todo \ {r}, !.added = added, !.refused = refused]
Cut(k, refused) == [batch[k] EXCEPT !.todo = {}, !.refused = refused]

\* The outcomes of an XADD: added; an error reply; the connection is lost, with or
\* without the entry, which ends the batch and spends no attempt.
XAdded(k, r) ==
    /\ Len(log) < MaxEntries /\ log' = Append(log, r)
    /\ batch' = [batch EXCEPT ![k] = Rest(k, r, batch[k].added \cup {r}, batch[k].refused)]
    /\ UNCHANGED refusals
XRefused(k, r) ==
    /\ batch' = [batch EXCEPT ![k] = Rest(k, r, batch[k].added, batch[k].refused \cup {r})]
    /\ Refuse(r) /\ UNCHANGED log

\* Mutant of Unreachable: the lost connection counts as a failure of the row.
UnreachableRefuses(k, r) ==
    /\ log' = log \/ (Len(log) < MaxEntries /\ log' = Append(log, r))
    /\ batch' = [batch EXCEPT ![k] = Cut(k, batch[k].refused \cup {r})]
    /\ UNCHANGED refusals
Unreachable(k, r) ==
    /\ log' = log \/ (Len(log) < MaxEntries /\ log' = Append(log, r))
    /\ batch' = [batch EXCEPT ![k] = Cut(k, batch[k].refused)]
    /\ UNCHANGED refusals

\* The batch's next row.
Publish(k) ==
    LET r == First(batch[k].todo) IN
    /\ batch[k].todo # {}
    /\ XAdded(k, r) \/ XRefused(k, r) \/ Unreachable(k, r)
    /\ UNCHANGED <<outbox, attempts, trimmed, lastRead, pending, deliveries, dead,
                   workerVars, trim, done>>

CommitBatch(k) ==
    /\ batch[k] # Idle /\ batch[k].todo = {}
    /\ outbox' = [r \in Rows |-> IF r \in batch[k].added THEN "published" ELSE outbox[r]]
    /\ attempts' = [r \in Rows |-> IF r \in batch[k].refused THEN attempts[r] + 1
                                                             ELSE attempts[r]]
    /\ batch' = [batch EXCEPT ![k] = Idle]
    /\ UNCHANGED <<refusals, streamVars, workerVars, trim, done>>

\* The relay dies or its transaction fails: the marks are lost, not the entries.
AbortBatch(k) ==
    /\ batch[k] # Idle
    /\ batch' = [batch EXCEPT ![k] = Idle]
    /\ UNCHANGED <<outbox, attempts, refusals, streamVars, workerVars, trim, done>>

\* sweep_outbox of the janitor.
DeletePublished(r) ==
    /\ outbox[r] = "published"
    /\ outbox' = [outbox EXCEPT ![r] = "deleted"]
    /\ UNCHANGED <<attempts, refusals, batch, streamVars, workerVars, trim, done>>

\* scripts/recover_outbox.py --retry: only rows that used up their attempts.
RetryExhausted(r) ==
    /\ outbox[r] = "unpublished" /\ attempts[r] = MaxAttempts
    /\ attempts' = [attempts EXCEPT ![r] = 0] /\ refusals' = [refusals EXCEPT ![r] = 0]
    /\ UNCHANGED <<outbox, batch, streamVars, workerVars, trim, done>>

-----------------------------------------------------------------------------
(* A consumer process: _consume_runner_stream, one entry after the other.    *)

Receive(c, ids) ==
    /\ worker' = [worker EXCEPT ![c] = [todo |-> ids, at |-> "next"]]
    /\ deliveries' = [i \in Ids |-> IF i \in ids THEN Capped(deliveries[i]) ELSE deliveries[i]]

\* XREADGROUP '>': the next entries that nobody of the group has read.
ReadNew(c) ==
    /\ worker[c] = Resting
    /\ \E last \in lastRead + 1 .. Len(log) :
         /\ Receive(c, lastRead + 1 .. last)
         /\ lastRead' = last
         /\ pending' = pending \cup (lastRead + 1 .. last)
    /\ UNCHANGED <<outboxVars, log, trimmed, dead, local, trim, done>>

\* XAUTOCLAIM: pending entries whose last delivery is a minute old, whatever
\* their consumer is doing; also those of a consumer that is still at work.
ClaimPending(c) ==
    /\ worker[c] = Resting
    /\ \E ids \in SUBSET pending \ {{}} : Receive(c, ids)
    /\ UNCHANGED <<outboxVars, log, trimmed, lastRead, pending, dead, local, trim, done>>

Current(c) == First(worker[c].todo)
At(c, point) == worker[c].todo # {} /\ worker[c].at = point
Drop(c) == worker' = [worker EXCEPT ![c] = [todo |-> @.todo \ {Current(c)}, at |-> "next"]]

\* Mutant of Handle: every attempt counts as the first.
HandleAsFirst(c) ==
    /\ At(c, "next")
    /\ local' = [local EXCEPT ![c][Current(c)] = 1]
    /\ \/ /\ worker' = [worker EXCEPT ![c].at = "handled"]
          /\ done' = done \cup {Current(c)}
       \/ worker' = [worker EXCEPT ![c].at = "failed"] /\ UNCHANGED done
    /\ UNCHANGED <<outboxVars, streamVars, trim>>

\* The handler works the entry through, or raises or asks to be called again.
Handle(c) ==
    /\ At(c, "next")
    /\ local' = [local EXCEPT ![c][Current(c)] = Capped(@)]
    /\ \/ /\ worker' = [worker EXCEPT ![c].at = "handled"]
          /\ done' = done \cup {Current(c)}
       \/ worker' = [worker EXCEPT ![c].at = "failed"] /\ UNCHANGED done
    /\ UNCHANGED <<outboxVars, streamVars, trim>>

Forget(c) == local' = [local EXCEPT ![c][Current(c)] = 0]

\* XACK
Ack(c) ==
    /\ At(c, "handled")
    /\ pending' = pending \ {Current(c)}
    /\ Drop(c) /\ Forget(c)
    /\ UNCHANGED <<outboxVars, log, trimmed, lastRead, deliveries, dead, trim, done>>

\* Mutant of Park: the entry is acknowledged before it is retained, and the
\* process may die in between.
ParkAckingFirst(c) ==
    /\ At(c, "failed")
    /\ local[c][Current(c)] = MaxDeliveries \/ deliveries[Current(c)] = MaxDeliveries
    /\ pending' = pending \ {Current(c)}
    /\ dead' \in {dead, dead \cup {Current(c)}}
    /\ Drop(c) /\ Forget(c)
    /\ UNCHANGED <<outboxVars, log, trimmed, lastRead, deliveries, trim, done>>

\* _drop_poison_message: HSET and XACK in one Redis transaction, once the local
\* count or the group's delivery count has reached the budget.
Park(c) ==
    /\ At(c, "failed")
    /\ local[c][Current(c)] = MaxDeliveries \/ deliveries[Current(c)] = MaxDeliveries
    /\ pending' = pending \ {Current(c)}
    /\ dead' = dead \cup {Current(c)}
    /\ Drop(c) /\ Forget(c)
    /\ UNCHANGED <<outboxVars, log, trimmed, lastRead, deliveries, trim, done>>

\* The entry stays pending: below the budget (a delivery count Redis does not
\* tell is 0), or Redis failed at the bookkeeping.
LeavePending(c) ==
    /\ At(c, "failed") \/ At(c, "handled")
    /\ Drop(c)
    /\ UNCHANGED <<outboxVars, streamVars, local, trim, done>>

\* The process dies and a new one starts with empty counts.
Crash(c) ==
    /\ worker' = [worker EXCEPT ![c] = Resting]
    /\ local' = [local EXCEPT ![c] = [i \in Ids |-> 0]]
    /\ UNCHANGED <<outboxVars, streamVars, trim, done>>

-----------------------------------------------------------------------------
(* trim_acknowledged: XINFO GROUPS, XPENDING and XTRIM are three calls.      *)

LeastOf(a, b) == IF a < b THEN a ELSE b

\* The floor starts at the retention time or the last delivery, if older.
TrimGroups ==
    /\ trim.at = "idle"
    /\ \E byAge \in Ids :
         trim' = [at |-> "groups", floor |-> LeastOf(byAge, lastRead)]
    /\ UNCHANGED <<outboxVars, streamVars, workerVars, done>>

\* Mutant of TrimPending: only the read position bounds the floor.
TrimPendingToo ==
    /\ trim.at = "groups"
    /\ trim' = [trim EXCEPT !.at = "floor"]
    /\ UNCHANGED <<outboxVars, streamVars, workerVars, done>>
TrimPending ==
    /\ trim.at = "groups"
    /\ trim' = [at |-> "floor",
                floor |-> IF pending = {} THEN trim.floor
                                          ELSE LeastOf(trim.floor, First(pending))]
    /\ UNCHANGED <<outboxVars, streamVars, workerVars, done>>

\* XTRIM MINID floor, or the sweep failed.
Trim ==
    /\ trim.at = "floor"
    /\ trimmed' \in {trimmed, IF trim.floor > trimmed + 1 THEN trim.floor - 1 ELSE trimmed}
    /\ trim' = NoTrim
    /\ UNCHANGED <<outboxVars, log, lastRead, pending, deliveries, dead, workerVars, done>>

-----------------------------------------------------------------------------
Relay(k) == SelectBatch(k) \/ Publish(k) \/ CommitBatch(k)
Consume(c) == ReadNew(c) \/ ClaimPending(c) \/ Handle(c) \/ Ack(c) \/ Park(c)

Next ==
    \/ \E r \in Rows : WriteOutbox(r) \/ DeletePublished(r) \/ RetryExhausted(r)
    \/ \E k \in Relays : Relay(k) \/ AbortBatch(k)
    \/ \E c \in Consumers : Consume(c) \/ LeavePending(c) \/ Crash(c)
    \/ TrimGroups \/ TrimPending \/ Trim

Spec == Init /\ [][Next]_vars

\* Every loop keeps running, and the calls it repeats do not fail forever.  The
\* delivery count Redis keeps is not relied on.
FairSpec ==
    /\ Spec
    /\ \A k \in Relays :
         /\ WF_vars(Relay(k))
         /\ SF_vars(batch[k].todo # {} /\ Publish(k) /\ batch'[k].added # batch[k].added)
         /\ SF_vars(CommitBatch(k))
    /\ \A c \in Consumers :
         /\ WF_vars(Consume(c) \/ LeavePending(c))
         /\ SF_vars(ReadNew(c))
         /\ \A i \in Ids : SF_vars(ClaimPending(c) /\ i \in worker'[c].todo)
         /\ SF_vars(At(c, "failed") /\ local[c][Current(c)] = MaxDeliveries /\ Park(c))

-----------------------------------------------------------------------------
(* Properties.                                                             *)

\* published_at is set only for rows that really are in the stream: a batch cut
\* short by a lost connection leaves the rest of its rows unpublished.
PublishedIsAdded ==
    \A r \in Rows : outbox[r] \in {"published", "deleted"} => \E i \in Added : log[i] = r

\* An outage of Redis spends none of a row's attempts: what is charged to a row, over
\* batches cut short, rolled back and taken up by other relays, was refused to it.
OutageSpendsNothing == \A r \in Rows : attempts[r] <= refusals[r]

\* "Trim only acknowledged stream history, never unread or pending work", while
\* consumers read, claim and acknowledge between the sweep's three calls.
UnfinishedIsKept ==
    \A i \in Added : i > lastRead \/ i \in pending => i > trimmed

\* The outbox, the relay and the group keep the promise of DeliveryPromise: a
\* row is over only once its message was handled or is retained.
Finished(r) ==
    /\ outbox[r] \in {"published", "deleted"}
    /\ \A i \in Added : log[i] = r => i <= lastRead /\ i \notin pending
Promise ==
    INSTANCE DeliveryPromise
    WITH accepted <- {r \in Rows : outbox[r] # "none"},
         handled <- {log[i] : i \in done},
         parked <- {log[i] : i \in dead},
         closed <- {r \in Rows : Finished(r)}
KeepsPromise == Promise!Spec

\* If processes stop dying and transactions stop failing, every row is handled,
\* dead-lettered or exhausted, even if its handler never succeeds and Redis
\* never tells a delivery count.
RowIsSettled ==
    <>[][~ \/ \E c \in Consumers : Crash(c)
         \/ \E k \in Relays : AbortBatch(k)]_vars =>
      \A r \in Rows :
        outbox[r] = "unpublished" ~>
          \/ \E i \in done \cup dead : log[i] = r
          \/ attempts[r] = MaxAttempts \/ Len(log) = MaxEntries
=============================================================================
