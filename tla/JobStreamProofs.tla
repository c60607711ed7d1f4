---------------------------- MODULE JobStreamProofs ----------------------------
(***************************************************************************)
(* What the outbox and its stream promise for any number of rows, relays and    *)
(* consumers: nothing unread or pending is trimmed, a published row is in the     *)
(* stream, an outage spends no attempts, and a row is over only once it was         *)
(* handled or is retained.                                                       *)
(***************************************************************************)
EXTENDS JobStream, FiniteSetTheorems, WellFoundedInduction, TLAPS

\* The batches of two relays have no row in common, and a row in one is due.
BatchInv ==
    /\ \A k \in Relays :
         /\ batch[k].todo \subseteq batch[k].locked
         /\ batch[k].added \subseteq batch[k].locked
         /\ batch[k].refused \subseteq batch[k].locked
         /\ \A r \in batch[k].locked : outbox[r] = "unpublished" /\ attempts[r] < MaxAttempts
    /\ \A j, k \in Relays : j # k => batch[j].locked \cap batch[k].locked = {}

\* A row a relay calls added is in the stream, like one that is published.
AddedInv ==
    /\ \A r \in Rows : outbox[r] \in {"published", "deleted"} => \E i \in Added : log[i] = r
    /\ \A k \in Relays : \A r \in batch[k].added : \E i \in Added : log[i] = r

\* A refused row's next attempt was refused to it too.
RefusedInv ==
    /\ \A r \in Rows : attempts[r] <= refusals[r]
    /\ \A k \in Relays : \A r \in batch[k].refused : attempts[r] < refusals[r]

\* The sweep's floor stays below what is unread and, from its second call on, below
\* what is pending: entries only become pending by being read.
TrimInv ==
    /\ trimmed <= lastRead
    /\ \A i \in pending : i > trimmed
    /\ trim.at # "idle" => trim.floor <= lastRead
    /\ trim.at = "floor" => \A i \in pending : trim.floor <= i

\* A consumer is only at work on what was read.
ReadInv == \A c \in Consumers : worker[c].todo \subseteq 1..lastRead

SafeInv == TypeOK /\ BatchInv /\ ReadInv

\* What was read is pending, handled or retained; what was added was accepted.
WorkInv ==
    /\ \A i \in 1..lastRead : i \in pending \cup done \cup dead
    /\ \A c \in Consumers : At(c, "handled") => Current(c) \in done
    /\ \A i \in Added : outbox[log[i]] # "none"

\* A set of naturals that is not empty has a first element.
LEMMA FirstIsLeast ==
  ASSUME NEW S, S \subseteq Nat, S # {}
  PROVE  First(S) \in S /\ \A j \in S : First(S) <= j
<1> DEFINE Upto(i) == 0..i
           Prefixes == {Upto(i) : i \in S}
<1>1. \A i \in Nat : Upto(i) \in FiniteSubsetsOf(Nat)
  BY FS_Interval DEF FiniteSubsetsOf
<1>2. Prefixes \subseteq FiniteSubsetsOf(Nat) /\ Prefixes # {}
  BY <1>1
<1>3. IsWellFoundedOn(StrictSubsetOrdering(Nat), FiniteSubsetsOf(Nat))
  BY FS_StrictSubsetOrderingWellFounded
<1>4. PICK P \in Prefixes : \A Q \in Prefixes : <<Q, P>> \notin StrictSubsetOrdering(Nat)
  <2> HIDE DEF Prefixes
  <2> QED
    BY <1>2, <1>3, WFMin
<1>5. PICK i \in S : P = Upto(i)
  OBVIOUS
<1>6. ASSUME NEW j \in S, j < i PROVE FALSE
  <2>1. Upto(j) \in Prefixes /\ Upto(j) \subseteq Upto(i) /\ Upto(i) \subseteq Nat
        /\ i \in Upto(i) /\ i \notin Upto(j)
    BY <1>6
  <2>2. <<Upto(j), Upto(i)>> \in StrictSubsetOrdering(Nat)
    BY <2>1, Zenon DEF StrictSubsetOrdering
  <2> QED
    BY <1>4, <1>5, <2>1, <2>2
<1>7. \A j \in S : i <= j
  BY <1>6
<1> QED
  BY <1>7 DEF First

\* JobStream starts well typed.
LEMMA StreamInit == Init => TypeOK
<1> SUFFICES ASSUME Init PROVE TypeOK
  OBVIOUS
<1> USE StreamAssumption DEF StreamAssumption, Init
<1>1. batch \in [Relays -> [locked : SUBSET Rows, todo : SUBSET Rows,
                            added : SUBSET Rows, refused : SUBSET Rows]]
  BY DEF Idle
<1>2. worker \in [Consumers -> [todo : SUBSET Ids, at : {"next", "handled", "failed"}]]
  BY DEF Resting
<1>3. trim \in [at : {"idle", "groups", "floor"}, floor : 0..MaxEntries]
  BY DEF NoTrim
<1>4. log \in Seq(Rows) /\ Len(log) = 0
  OBVIOUS
<1>5. 0 \in 0..MaxAttempts /\ 0 \in 0..MaxDeliveries /\ 0 \in 0..MaxEntries
  OBVIOUS
<1>6. /\ attempts \in [Rows -> 0..MaxAttempts] /\ refusals \in [Rows -> 0..MaxAttempts]
      /\ deliveries \in [Ids -> 0..MaxDeliveries]
      /\ local \in [Consumers -> [Ids -> 0..MaxDeliveries]]
  BY <1>5
<1> QED
  BY <1>1, <1>2, <1>3, <1>4, <1>5, <1>6 DEF TypeOK

\* What is received was read before, and the group counts the delivery.
LEMMA ReceiveTypes ==
  ASSUME TypeOK, NEW c \in Consumers, NEW ids \in SUBSET Ids, Receive(c, ids)
  PROVE  /\ worker' \in [Consumers -> [todo : SUBSET Ids, at : {"next", "handled", "failed"}]]
         /\ deliveries' \in [Ids -> 0..MaxDeliveries]
BY StreamAssumption DEF StreamAssumption, TypeOK, Receive, Capped

\* The entry a consumer is at, and what is left once it is done with it.
LEMMA CurrentTypes ==
  ASSUME TypeOK, NEW c \in Consumers, worker[c].todo # {}
  PROVE  /\ Current(c) \in worker[c].todo /\ Current(c) \in Ids
         /\ Drop(c) => worker' \in [Consumers -> [todo : SUBSET Ids,
                                                  at : {"next", "handled", "failed"}]]
         /\ Forget(c) => local' \in [Consumers -> [Ids -> 0..MaxDeliveries]]
<1>1. worker[c].todo \subseteq Ids /\ worker[c].todo \subseteq Nat
  BY StreamAssumption DEF StreamAssumption, TypeOK, Ids
<1>2. Current(c) \in worker[c].todo
  BY <1>1, FirstIsLeast DEF Current
<1>3. Drop(c) => worker' \in [Consumers -> [todo : SUBSET Ids, at : {"next", "handled", "failed"}]]
  BY <1>1 DEF Drop, TypeOK
<1>4. 0 \in 0..MaxDeliveries
  BY StreamAssumption DEF StreamAssumption
<1>5. Forget(c) => local' \in [Consumers -> [Ids -> 0..MaxDeliveries]]
  BY <1>1, <1>2, <1>4 DEF Forget, TypeOK
<1> QED
  BY <1>1, <1>2, <1>3, <1>5

\* A relay's step.
LEMMA RelayTypes ==
  ASSUME TypeOK, BatchInv, NEW k \in Relays, Relay(k) \/ AbortBatch(k) PROVE TypeOK'
<1> USE StreamAssumption DEF StreamAssumption
<1> DEFINE Batches == [locked : SUBSET Rows, todo : SUBSET Rows,
                       added : SUBSET Rows, refused : SUBSET Rows]
<1>1. Idle \in Batches
  BY DEF Idle
<1>2. CASE SelectBatch(k)
  <2>1. PICK rows \in SUBSET Rows :
          batch' = [batch EXCEPT ![k] = [Idle EXCEPT !.locked = rows, !.todo = rows]]
    BY <1>2 DEF SelectBatch, Due
  <2>2. [Idle EXCEPT !.locked = rows, !.todo = rows] \in Batches
    BY DEF Idle
  <2>3. batch' \in [Relays -> Batches]
    BY <2>1, <2>2 DEF TypeOK
  <2> QED
    BY <1>2, <2>3 DEF SelectBatch, TypeOK, streamVars, workerVars
<1>3. CASE Publish(k)
  <2> DEFINE r == First(batch[k].todo)
  <2>1. batch[k] \in Batches /\ batch[k].todo # {} /\ batch[k].todo \subseteq Nat
    BY <1>3 DEF Publish, TypeOK
  <2>2. r \in Rows
    BY <2>1, FirstIsLeast DEF TypeOK
  <2>9. XAdded(k, r) \/ XRefused(k, r) \/ Unreachable(k, r)
    BY <1>3 DEF Publish
  <2> HIDE DEF r
  <2>3. /\ Rest(k, r, batch[k].added \cup {r}, batch[k].refused) \in Batches
        /\ Rest(k, r, batch[k].added, batch[k].refused \cup {r}) \in Batches
        /\ Cut(k, batch[k].refused) \in Batches
    BY <2>1, <2>2 DEF Rest, Cut
  <2>8. batch' \in [Relays -> Batches]
    <3>1. batch \in [Relays -> Batches]
      BY DEF TypeOK
    <3>2. CASE XAdded(k, r)
      BY <3>1, <3>2, <2>3 DEF XAdded
    <3>3. CASE XRefused(k, r)
      BY <3>1, <3>3, <2>3 DEF XRefused
    <3>4. CASE Unreachable(k, r)
      BY <3>1, <3>4, <2>3 DEF Unreachable
    <3> QED
      BY <2>9, <3>2, <3>3, <3>4
  <2>4. refusals' \in [Rows -> 0..MaxAttempts]
    <3>1. refusals[r] \in 0..MaxAttempts
      BY <2>2 DEF TypeOK
    <3>2. CASE UNCHANGED refusals
      BY <3>2 DEF TypeOK
    <3>3. CASE Refuse(r)
      <4>1. (IF refusals[r] < MaxAttempts THEN refusals[r] + 1 ELSE refusals[r])
              \in 0..MaxAttempts
        BY <3>1
      <4> QED
        BY <3>3, <4>1, Zenon DEF Refuse, TypeOK
    <3> QED
      BY <2>9, <3>2, <3>3 DEF XAdded, XRefused, Unreachable
  <2>5. log' = log \/ (Len(log) < MaxEntries /\ log' = Append(log, r))
    BY <2>9 DEF XAdded, XRefused, Unreachable
  <2>6. log' \in Seq(Rows) /\ Len(log') <= MaxEntries /\ Len(log') >= Len(log)
    <3>1. log \in Seq(Rows) /\ Len(log) \in Nat /\ Len(log) <= MaxEntries
      BY DEF TypeOK
    <3>2. Append(log, r) \in Seq(Rows) /\ Len(Append(log, r)) = Len(log) + 1
      BY <2>2, <3>1
    <3> QED
      BY <2>5, <3>1, <3>2
  <2>7. lastRead \in 0..Len(log')
    BY <2>6 DEF TypeOK
  <2> QED
    BY <1>3, <2>8, <2>4, <2>6, <2>7 DEF Publish, TypeOK, workerVars
<1>4. CASE CommitBatch(k)
  <2>1. batch' \in [Relays -> Batches]
    BY <1>1, <1>4 DEF CommitBatch, TypeOK
  <2>2. \A j \in Relays : batch[j] \in Batches
    BY DEF TypeOK
  <2>3. outbox' \in [Rows -> {"none", "unpublished", "published", "deleted"}]
    BY <1>4 DEF CommitBatch, TypeOK
  <2>4. \A r \in batch[k].refused : r \in Rows /\ attempts[r] < MaxAttempts
    BY <2>2 DEF BatchInv
  <2>5. \A r \in Rows : r \in batch[k].refused => attempts[r] + 1 \in 0..MaxAttempts
    BY <2>4 DEF TypeOK
  <2>6. attempts' \in [Rows -> 0..MaxAttempts]
    BY <1>4, <2>5 DEF CommitBatch, TypeOK
  <2> QED
    BY <1>4, <2>1, <2>3, <2>6 DEF CommitBatch, TypeOK, streamVars, workerVars
<1>5. CASE AbortBatch(k)
  <2>1. batch' \in [Relays -> Batches]
    BY <1>1, <1>5 DEF AbortBatch, TypeOK
  <2> QED
    BY <1>5, <2>1 DEF AbortBatch, TypeOK, streamVars, workerVars
<1> QED
  BY <1>2, <1>3, <1>4, <1>5 DEF Relay

\* A consumer's step.
LEMMA ConsumerTypes ==
  ASSUME SafeInv, NEW c \in Consumers, Consume(c) \/ LeavePending(c) \/ Crash(c)
  PROVE TypeOK' /\ ReadInv'
<1> USE StreamAssumption DEF StreamAssumption, SafeInv
<1> DEFINE Workers == [Consumers -> [todo : SUBSET Ids, at : {"next", "handled", "failed"}]]
<1>1. CASE ReadNew(c)
  <2>1. PICK last \in lastRead + 1 .. Len(log) :
          /\ Receive(c, lastRead + 1 .. last)
          /\ lastRead' = last /\ pending' = pending \cup (lastRead + 1 .. last)
    BY <1>1 DEF ReadNew
  <2>2. lastRead + 1 .. last \in SUBSET Ids /\ last \in 0..Len(log) /\ lastRead \in 0..last
    BY <2>1 DEF TypeOK, Ids
  <2>3. worker' \in Workers /\ deliveries' \in [Ids -> 0..MaxDeliveries]
    BY <2>1, <2>2, ReceiveTypes
  <2>4. pending' \subseteq 1..last /\ dead \subseteq 1..last /\ done \subseteq 1..last
    BY <2>1, <2>2 DEF TypeOK
  <2>5. ReadInv'
    BY <2>1, <2>2 DEF ReadInv, Receive, TypeOK
  <2> QED
    BY <1>1, <2>1, <2>2, <2>3, <2>4, <2>5 DEF ReadNew, TypeOK, outboxVars
<1>2. CASE ClaimPending(c)
  <2>1. PICK ids \in SUBSET pending : Receive(c, ids)
    BY <1>2 DEF ClaimPending
  <2>2. ids \in SUBSET Ids
    BY DEF TypeOK, Ids
  <2>3. worker' \in Workers /\ deliveries' \in [Ids -> 0..MaxDeliveries]
    BY <2>1, <2>2, ReceiveTypes
  <2>4. ReadInv'
    BY <1>2, <2>1 DEF ClaimPending, ReadInv, Receive, TypeOK
  <2> QED
    BY <1>2, <2>3, <2>4 DEF ClaimPending, TypeOK, outboxVars
<1>3. CASE Handle(c)
  <2>1. Current(c) \in worker[c].todo /\ Current(c) \in Ids
    BY <1>3, CurrentTypes DEF Handle, At
  <2>2. Capped(local[c][Current(c)]) \in 0..MaxDeliveries
    BY <2>1 DEF Capped, TypeOK
  <2>3. local' \in [Consumers -> [Ids -> 0..MaxDeliveries]]
    BY <1>3, <2>1, <2>2 DEF Handle, TypeOK
  <2>4. worker' \in Workers /\ ReadInv'
    <3>1. \E point \in {"handled", "failed"} : worker' = [worker EXCEPT ![c].at = point]
      BY <1>3 DEF Handle
    <3>2. worker \in Workers
      BY DEF TypeOK
    <3>3. worker' \in Workers /\ \A d \in Consumers : worker'[d].todo = worker[d].todo
      BY <3>1, <3>2
    <3> QED
      BY <1>3, <3>3 DEF Handle, ReadInv, streamVars
  <2>5. done' \subseteq 1..lastRead
    <3>1. done' = done \/ done' = done \cup {Current(c)}
      BY <1>3 DEF Handle
    <3>2. Current(c) \in 1..lastRead /\ done \subseteq 1..lastRead
      BY <2>1 DEF ReadInv, TypeOK
    <3> QED
      BY <3>1, <3>2
  <2>6. UNCHANGED <<outboxVars, streamVars, trim>>
    BY <1>3 DEF Handle
  <2> QED
    BY <2>3, <2>4, <2>5, <2>6 DEF TypeOK, outboxVars, streamVars
<1>4. CASE Ack(c) \/ Park(c) \/ LeavePending(c)
  <2>1. worker[c].todo # {} /\ Drop(c)
    BY <1>4 DEF Ack, Park, LeavePending, At
  <2>2. worker' \in Workers
    BY <2>1, CurrentTypes
  <2>3. local' \in [Consumers -> [Ids -> 0..MaxDeliveries]]
    BY <1>4, <2>1, CurrentTypes DEF Ack, Park, LeavePending, TypeOK
  <2>4. pending' \subseteq pending
    BY <1>4 DEF Ack, Park, LeavePending, streamVars
  <2>5. lastRead' = lastRead /\ dead' \subseteq 1..lastRead /\ ReadInv'
    <3>1. Current(c) \in 1..lastRead
      BY <2>1, CurrentTypes DEF ReadInv
    <3>2. lastRead' = lastRead /\ dead' \subseteq 1..lastRead
      BY <1>4, <3>1 DEF Ack, Park, LeavePending, streamVars, TypeOK
    <3> QED
      BY <2>1, <3>2 DEF ReadInv, Drop, TypeOK
  <2> QED
    BY <1>4, <2>2, <2>3, <2>4, <2>5 DEF Ack, Park, LeavePending, TypeOK, outboxVars, streamVars
<1>5. CASE Crash(c)
  <2>1. worker' \in Workers
    BY <1>5 DEF Crash, Resting, TypeOK
  <2>4. ReadInv'
    BY <1>5 DEF Crash, Resting, ReadInv, TypeOK, streamVars
  <2>2. [i \in Ids |-> 0] \in [Ids -> 0..MaxDeliveries]
    OBVIOUS
  <2>3. local' \in [Consumers -> [Ids -> 0..MaxDeliveries]]
    BY <1>5, <2>2 DEF Crash, TypeOK
  <2> QED
    BY <1>5, <2>1, <2>3, <2>4 DEF Crash, TypeOK, outboxVars, streamVars
<1> QED
  BY <1>1, <1>2, <1>3, <1>4, <1>5 DEF Consume

\* A relay only takes rows nobody holds, and settles the rows of its own batch.
LEMMA BatchStep ==
  ASSUME SafeInv, NEW k \in Relays, Relay(k) \/ AbortBatch(k) PROVE BatchInv'
<1> USE DEF SafeInv, BatchInv
<1>1. CASE SelectBatch(k)
  <2>1. PICK rows \in SUBSET (Due \ Locked) :
          batch' = [batch EXCEPT ![k] = [Idle EXCEPT !.locked = rows, !.todo = rows]]
    BY <1>1 DEF SelectBatch
  <2>2. /\ batch'[k].locked = rows /\ batch'[k].todo = rows
        /\ batch'[k].added = {} /\ batch'[k].refused = {}
    BY <2>1 DEF Idle, TypeOK
  <2>3. \A j \in Relays : j # k => batch'[j] = batch[j] /\ rows \cap batch[j].locked = {}
    BY <2>1 DEF Locked, TypeOK
  <2>4. \A r \in rows : outbox[r] = "unpublished" /\ attempts[r] < MaxAttempts
    BY DEF Due
  <2>5. UNCHANGED <<outbox, attempts>>
    BY <1>1 DEF SelectBatch
  <2> QED
    BY <2>2, <2>3, <2>4, <2>5
<1>2. CASE Publish(k)
  <2> DEFINE r == First(batch[k].todo)
  <2>1. r \in batch[k].todo
    BY <1>2, FirstIsLeast, StreamAssumption DEF Publish, TypeOK, StreamAssumption
  <2>2. XAdded(k, r) \/ XRefused(k, r) \/ Unreachable(k, r)
    BY <1>2 DEF Publish
  <2> HIDE DEF r
  <2>3. /\ batch'[k].locked = batch[k].locked
        /\ batch'[k].todo \subseteq batch[k].todo
        /\ batch'[k].added \subseteq batch[k].added \cup {r}
        /\ batch'[k].refused \subseteq batch[k].refused \cup {r}
        /\ \A j \in Relays : j # k => batch'[j] = batch[j]
    <3>1. batch \in [Relays -> [locked : SUBSET Rows, todo : SUBSET Rows,
                                added : SUBSET Rows, refused : SUBSET Rows]]
      BY DEF TypeOK
    <3>2. CASE XAdded(k, r)
      BY <3>1, <3>2 DEF XAdded, Rest
    <3>3. CASE XRefused(k, r)
      BY <3>1, <3>3 DEF XRefused, Rest
    <3>4. CASE Unreachable(k, r)
      BY <3>1, <3>4 DEF Unreachable, Cut
    <3> QED
      BY <2>2, <3>2, <3>3, <3>4
  <2>4. UNCHANGED <<outbox, attempts>>
    BY <1>2 DEF Publish
  <2> QED
    BY <2>1, <2>3, <2>4
<1>3. CASE CommitBatch(k) \/ AbortBatch(k)
  <2>1. batch'[k] = Idle /\ \A j \in Relays : j # k => batch'[j] = batch[j]
    BY <1>3 DEF CommitBatch, AbortBatch, TypeOK
  <2>2. \A r \in Rows : r \notin batch[k].locked =>
          outbox'[r] = outbox[r] /\ attempts'[r] = attempts[r]
    BY <1>3 DEF CommitBatch, AbortBatch
  <2>3. \A j \in Relays : j # k => \A r \in batch[j].locked : r \in Rows /\ r \notin batch[k].locked
    BY DEF TypeOK
  <2> QED
    BY <2>1, <2>2, <2>3 DEF Idle
<1> QED
  BY <1>1, <1>2, <1>3 DEF Relay

\* JobStream stays well typed, its relays apart and its consumers behind the read position.
LEMMA SafeStep == SafeInv /\ [Next]_vars => SafeInv'
<1> SUFFICES ASSUME SafeInv, [Next]_vars PROVE SafeInv'
  OBVIOUS
<1> USE StreamAssumption DEF StreamAssumption, SafeInv
<1>1. ASSUME NEW r \in Rows, WriteOutbox(r) \/ DeletePublished(r) \/ RetryExhausted(r)
      PROVE SafeInv'
  <2>1. outbox' \in [Rows -> {"none", "unpublished", "published", "deleted"}]
    BY <1>1 DEF WriteOutbox, DeletePublished, RetryExhausted, TypeOK
  <2>2. 0 \in 0..MaxAttempts
    OBVIOUS
  <2>3. attempts' \in [Rows -> 0..MaxAttempts] /\ refusals' \in [Rows -> 0..MaxAttempts]
    BY <1>1, <2>2 DEF WriteOutbox, DeletePublished, RetryExhausted, TypeOK
  <2>4. UNCHANGED <<batch, streamVars, workerVars, trim, done>>
    BY <1>1 DEF WriteOutbox, DeletePublished, RetryExhausted
  <2>5. BatchInv'
    <3>1. \A k \in Relays : batch[k].locked \subseteq Rows
      BY DEF TypeOK
    <3>2. \A q \in Rows : outbox[q] = "unpublished" /\ attempts[q] < MaxAttempts =>
            outbox'[q] = "unpublished" /\ attempts'[q] < MaxAttempts
      BY <1>1 DEF WriteOutbox, DeletePublished, RetryExhausted, TypeOK
    <3> QED
      BY <2>4, <3>1, <3>2 DEF BatchInv
  <2> QED
    BY <2>1, <2>3, <2>4, <2>5 DEF TypeOK, ReadInv, streamVars, workerVars
<1>2. ASSUME NEW k \in Relays, Relay(k) \/ AbortBatch(k) PROVE SafeInv'
  <2>1. UNCHANGED <<lastRead, worker>>
    BY <1>2 DEF Relay, SelectBatch, Publish, CommitBatch, AbortBatch, streamVars, workerVars
  <2> QED
    BY <1>2, <2>1, RelayTypes, BatchStep DEF ReadInv
<1>3. ASSUME NEW c \in Consumers, Consume(c) \/ LeavePending(c) \/ Crash(c) PROVE SafeInv'
  <2>1. UNCHANGED outboxVars
    BY <1>3 DEF Consume, ReadNew, ClaimPending, Handle, Ack, Park, LeavePending, Crash
  <2> QED
    BY <1>3, <2>1, ConsumerTypes DEF BatchInv, outboxVars
<1>4. CASE TrimGroups \/ TrimPending \/ Trim
  <2>1. UNCHANGED <<outboxVars, log, lastRead, pending, deliveries, dead, workerVars, done>>
    BY <1>4 DEF TrimGroups, TrimPending, Trim, streamVars
  <2>2. trim' \in [at : {"idle", "groups", "floor"}, floor : 0..MaxEntries]
        /\ trimmed' \in 0..MaxEntries
    <3>1. CASE TrimGroups
      BY <3>1 DEF TrimGroups, LeastOf, TypeOK, Ids, streamVars
    <3>2. CASE TrimPending
      <4>1. pending \subseteq Nat /\ pending \subseteq 0..MaxEntries
        BY DEF TypeOK
      <4>2. pending # {} => First(pending) \in 0..MaxEntries
        BY <4>1, FirstIsLeast
      <4>3. trim.floor \in 0..MaxEntries
        BY DEF TypeOK
      <4>4. pending # {} => LeastOf(trim.floor, First(pending)) \in 0..MaxEntries
        BY <4>2, <4>3 DEF LeastOf
      <4> QED
        BY <3>2, <4>3, <4>4 DEF TrimPending, TypeOK, streamVars
    <3>3. CASE Trim
      BY <3>3 DEF Trim, NoTrim, TypeOK
    <3> QED
      BY <1>4, <3>1, <3>2, <3>3
  <2> QED
    BY <2>1, <2>2 DEF TypeOK, BatchInv, ReadInv, outboxVars, workerVars
<1>5. CASE UNCHANGED vars
  BY <1>5 DEF vars, outboxVars, streamVars, workerVars, TypeOK, BatchInv, ReadInv
<1> QED
  BY <1>1, <1>2, <1>3, <1>4, <1>5 DEF Next

\* The initial state is safe.
LEMMA SafeInit == Init => SafeInv
BY StreamInit DEF Init, Idle, Resting, SafeInv, BatchInv, ReadInv

\* JobStream is well typed for any number of rows, relays and consumers.
THEOREM StreamTypes == Spec => []TypeOK
<1>1. SafeInv => TypeOK
  BY DEF SafeInv
<1> QED
  BY <1>1, SafeInit, SafeStep, PTL DEF Spec

\* A relay's batch after SelectBatch or AbortBatch: nothing was added or refused in it.
LEMMA FreshBatch ==
  ASSUME SafeInv, NEW k \in Relays, SelectBatch(k) \/ AbortBatch(k)
  PROVE  /\ UNCHANGED <<outbox, attempts, refusals, log>>
         /\ \A j \in Relays : batch'[j].added \subseteq batch[j].added
                           /\ batch'[j].refused \subseteq batch[j].refused
<1>1. UNCHANGED <<outbox, attempts, refusals, log>>
  BY DEF SelectBatch, AbortBatch, streamVars
<1>2. batch'[k].added = {} /\ batch'[k].refused = {}
  <2>1. CASE SelectBatch(k)
    <3>1. PICK rows \in SUBSET (Due \ Locked) :
            batch' = [batch EXCEPT ![k] = [Idle EXCEPT !.locked = rows, !.todo = rows]]
      BY <2>1 DEF SelectBatch
    <3> QED
      BY <3>1 DEF Idle, SafeInv, TypeOK
  <2>2. CASE AbortBatch(k)
    BY <2>2 DEF AbortBatch, Idle, SafeInv, TypeOK
  <2> QED
    BY <2>1, <2>2
<1>3. \A j \in Relays : j # k => batch'[j] = batch[j]
  BY DEF SelectBatch, AbortBatch, SafeInv, TypeOK
<1> QED
  BY <1>1, <1>2, <1>3

\* The row a relay publishes next, and what becomes of the relay's lists.
LEMMA PublishedRow ==
  ASSUME SafeInv, NEW k \in Relays, Publish(k)
  PROVE  \E r \in Rows :
           /\ attempts[r] < MaxAttempts /\ outbox[r] = "unpublished"
           /\ \/ XAdded(k, r) /\ \A j \in Relays :
                   batch'[j].refused = batch[j].refused
                   /\ batch'[j].added \subseteq batch[j].added \cup {r}
              \/ XRefused(k, r) /\ \A j \in Relays :
                   batch'[j].added = batch[j].added
                   /\ batch'[j].refused \subseteq batch[j].refused \cup {r}
              \/ Unreachable(k, r) /\ \A j \in Relays :
                   batch'[j].added = batch[j].added /\ batch'[j].refused = batch[j].refused
<1> DEFINE r == First(batch[k].todo)
<1>1. XAdded(k, r) \/ XRefused(k, r) \/ Unreachable(k, r)
  BY DEF Publish
<1>2. batch[k].todo \subseteq Nat /\ batch[k].todo # {}
  BY StreamAssumption DEF Publish, SafeInv, TypeOK, StreamAssumption
<1>3. r \in batch[k].todo
  BY <1>2, FirstIsLeast
<1> HIDE DEF r
<1>4. batch \in [Relays -> [locked : SUBSET Rows, todo : SUBSET Rows,
                            added : SUBSET Rows, refused : SUBSET Rows]]
  BY DEF SafeInv, TypeOK
<1>5. r \in Rows /\ attempts[r] < MaxAttempts /\ outbox[r] = "unpublished"
  BY <1>3, <1>4 DEF SafeInv, BatchInv
<1>6. CASE XAdded(k, r)
  <2>1. \A j \in Relays : batch'[j].refused = batch[j].refused
                         /\ batch'[j].added \subseteq batch[j].added \cup {r}
    BY <1>4, <1>6 DEF XAdded, Rest
  <2> QED
    BY <1>5, <1>6, <2>1
<1>7. CASE XRefused(k, r)
  <2>1. \A j \in Relays : batch'[j].added = batch[j].added
                         /\ batch'[j].refused \subseteq batch[j].refused \cup {r}
    BY <1>4, <1>7 DEF XRefused, Rest
  <2> QED
    BY <1>5, <1>7, <2>1
<1>8. CASE Unreachable(k, r)
  BY <1>4, <1>5, <1>8 DEF Unreachable, Cut
<1> QED
  BY <1>1, <1>6, <1>7, <1>8

\* Nothing leaves the log, and a commit publishes what its relay added.
LEMMA AddedStep == SafeInv /\ AddedInv /\ [Next]_vars => AddedInv'
<1> SUFFICES ASSUME SafeInv, AddedInv, [Next]_vars PROVE AddedInv'
  OBVIOUS
<1> USE DEF SafeInv, AddedInv
<1>1. log \in Seq(Rows) /\ Len(log) \in Nat
  BY DEF TypeOK
<1>2. ASSUME NEW r \in Rows, WriteOutbox(r) \/ DeletePublished(r) \/ RetryExhausted(r)
      PROVE AddedInv'
  <2>1. UNCHANGED <<batch, log>>
    BY <1>2 DEF WriteOutbox, DeletePublished, RetryExhausted, streamVars
  <2>2. \A q \in Rows : outbox'[q] \in {"published", "deleted"} =>
                          outbox[q] \in {"published", "deleted"}
    BY <1>2 DEF WriteOutbox, DeletePublished, RetryExhausted, TypeOK
  <2> QED
    BY <2>1, <2>2 DEF Added
<1>3. ASSUME NEW k \in Relays, Relay(k) \/ AbortBatch(k) PROVE AddedInv'
  <2>1. CASE SelectBatch(k) \/ AbortBatch(k)
    BY <2>1, FreshBatch DEF Added
  <2>2. CASE Publish(k)
    <3>1. PICK r \in Rows :
            \/ XAdded(k, r) /\ \A j \in Relays :
                                batch'[j].added \subseteq batch[j].added \cup {r}
            \/ (XRefused(k, r) \/ Unreachable(k, r))
               /\ \A j \in Relays : batch'[j].added = batch[j].added
      BY <2>2, PublishedRow
    <3>3. log' = log \/ log' = Append(log, r)
      BY <3>1 DEF XAdded, XRefused, Unreachable
    <3>4. \A j \in Relays : \A q \in batch'[j].added :
            q \in batch[j].added \/ (q = r /\ log' = Append(log, r))
      BY <3>1 DEF XAdded
    <3>2. /\ Len(log') \in Nat /\ Len(log) <= Len(log')
          /\ \A i \in 1..Len(log) : log'[i] = log[i]
      BY <1>1, <3>3
    <3>6. log' = Append(log, r) => \E i \in 1..Len(log') : log'[i] = r
      BY <1>1
    <3>7. outbox' = outbox
      BY <2>2 DEF Publish
    <3> QED
      BY <3>2, <3>4, <3>6, <3>7 DEF Added
  <2>3. CASE CommitBatch(k)
    <3>1. log' = log /\ \A j \in Relays : batch'[j].added \subseteq batch[j].added
      BY <2>3 DEF CommitBatch, Idle, streamVars, TypeOK
    <3>2. \A r \in Rows : outbox'[r] = outbox[r] \/ r \in batch[k].added
      BY <2>3 DEF CommitBatch
    <3> QED
      BY <3>1, <3>2 DEF Added
  <2> QED
    BY <1>3, <2>1, <2>2, <2>3 DEF Relay
<1>4. ASSUME NEW c \in Consumers, Consume(c) \/ LeavePending(c) \/ Crash(c) PROVE AddedInv'
  BY <1>4 DEF Consume, ReadNew, ClaimPending, Handle, Ack, Park, LeavePending, Crash,
     Added, outboxVars, streamVars
<1>5. CASE TrimGroups \/ TrimPending \/ Trim
  BY <1>5 DEF TrimGroups, TrimPending, Trim, Added, outboxVars, streamVars
<1>6. CASE UNCHANGED vars
  BY <1>6 DEF vars, Added, outboxVars, streamVars
<1> QED
  BY <1>2, <1>3, <1>4, <1>5, <1>6 DEF Next

\* A row marked published, whatever cut its batch short, was added to the stream.
THEOREM PublishedWasAdded == Spec => []PublishedIsAdded
<1>1. Init => AddedInv
  BY DEF Init, Idle, AddedInv
<1>2. AddedInv => PublishedIsAdded
  BY DEF AddedInv, PublishedIsAdded
<1> QED
  BY <1>1, <1>2, SafeInit, SafeStep, AddedStep, PTL DEF Spec

\* An attempt is charged by a commit, for an XADD of that batch that was refused.
LEMMA RefusedStep == SafeInv /\ RefusedInv /\ [Next]_vars => RefusedInv'
<1> SUFFICES ASSUME SafeInv, RefusedInv, [Next]_vars PROVE RefusedInv'
  OBVIOUS
<1> USE DEF SafeInv, RefusedInv
<1>1. /\ \A k \in Relays : batch[k].refused \subseteq Rows /\ batch[k].locked \subseteq Rows
      /\ attempts \in [Rows -> Nat] /\ refusals \in [Rows -> Nat]
  BY StreamAssumption DEF TypeOK, StreamAssumption
<1>2. ASSUME NEW r \in Rows, WriteOutbox(r) \/ DeletePublished(r) PROVE RefusedInv'
  BY <1>2 DEF WriteOutbox, DeletePublished
<1>3. ASSUME NEW r \in Rows, RetryExhausted(r) PROVE RefusedInv'
  <2>1. \A k \in Relays : r \notin batch[k].refused
    BY <1>3, StreamAssumption DEF RetryExhausted, BatchInv, StreamAssumption, TypeOK
  <2>2. \A q \in Rows \ {r} : attempts'[q] = attempts[q] /\ refusals'[q] = refusals[q]
    BY <1>1, <1>3 DEF RetryExhausted
  <2>3. attempts'[r] = 0 /\ refusals'[r] = 0 /\ batch' = batch
    BY <1>1, <1>3 DEF RetryExhausted
  <2> QED
    BY <1>1, <2>1, <2>2, <2>3
<1>4. ASSUME NEW k \in Relays, SelectBatch(k) \/ AbortBatch(k) PROVE RefusedInv'
  BY <1>4, FreshBatch
<1>5. ASSUME NEW k \in Relays, Publish(k) PROVE RefusedInv'
  <2>1. PICK r \in Rows :
          /\ attempts[r] < MaxAttempts
          /\ \/ refusals' = refusals /\ \A j \in Relays : batch'[j].refused = batch[j].refused
             \/ Refuse(r) /\ \A j \in Relays :
                               batch'[j].refused \subseteq batch[j].refused \cup {r}
    BY <1>5, PublishedRow DEF XAdded, XRefused, Unreachable
  <2>2. attempts' = attempts /\ MaxAttempts \in Nat
    BY <1>5, StreamAssumption DEF Publish, StreamAssumption
  <2>3. CASE refusals' = refusals /\ \A j \in Relays : batch'[j].refused = batch[j].refused
    BY <2>2, <2>3
  <2>4. CASE Refuse(r) /\ \A j \in Relays :
                               batch'[j].refused \subseteq batch[j].refused \cup {r}
    <3>1. \A q \in Rows : refusals'[q] = IF q = r /\ refusals[q] < MaxAttempts
                                        THEN refusals[q] + 1 ELSE refusals[q]
      <4>1. refusals' = [refusals EXCEPT ![r] = IF refusals[r] < MaxAttempts
                                                THEN refusals[r] + 1 ELSE refusals[r]]
        BY <2>4, Zenon DEF Refuse
      <4> QED
        BY <1>1, <4>1
    <3>2. attempts[r] < refusals'[r]
          /\ \A q \in Rows : refusals'[q] \in Nat /\ refusals[q] <= refusals'[q]
      BY <1>1, <2>1, <2>2, <3>1
    <3>3. \A q \in Rows : attempts[q] <= refusals'[q]
      BY <1>1, <3>2
    <3>4. \A j \in Relays : \A q \in batch'[j].refused : attempts[q] < refusals'[q]
      <4> SUFFICES ASSUME NEW j \in Relays, NEW q \in batch'[j].refused
                   PROVE attempts[q] < refusals'[q]
        OBVIOUS
      <4>1. CASE q = r
        BY <4>1, <3>2
      <4>2. CASE q # r
        <5>1. q \in batch[j].refused \cup {r}
          BY <2>4
        <5>2. q \in batch[j].refused /\ q \in Rows
          BY <1>1, <4>2, <5>1
        <5> QED
          BY <1>1, <3>2, <5>2
      <4> QED
        BY <4>1, <4>2
    <3> QED
      BY <2>2, <3>3, <3>4
  <2> QED
    BY <2>1, <2>3, <2>4
<1>6. ASSUME NEW k \in Relays, CommitBatch(k) PROVE RefusedInv'
  <2>1. batch'[k].refused = {} /\ \A j \in Relays \ {k} : batch'[j] = batch[j]
    BY <1>6 DEF CommitBatch, Idle, TypeOK
  <2>2. \A q \in Rows : attempts'[q] =
          IF q \in batch[k].refused THEN attempts[q] + 1 ELSE attempts[q]
    BY <1>6 DEF CommitBatch
  <2>3. \A j \in Relays \ {k} : \A q \in batch[j].refused : q \notin batch[k].refused
    BY DEF BatchInv
  <2>4. refusals' = refusals
    BY <1>6 DEF CommitBatch
  <2> QED
    BY <1>1, <2>1, <2>2, <2>3, <2>4
<1>7. ASSUME NEW c \in Consumers, Consume(c) \/ LeavePending(c) \/ Crash(c) PROVE RefusedInv'
  BY <1>7 DEF Consume, ReadNew, ClaimPending, Handle, Ack, Park, LeavePending, Crash,
     outboxVars
<1>8. CASE TrimGroups \/ TrimPending \/ Trim
  BY <1>8 DEF TrimGroups, TrimPending, Trim, outboxVars
<1>9. CASE UNCHANGED vars
  BY <1>9 DEF vars, outboxVars
<1> QED
  BY <1>2, <1>3, <1>4, <1>5, <1>6, <1>7, <1>8, <1>9 DEF Next, Relay

\* No outage of Redis spends an attempt of a row, however batches are cut and rolled back.
THEOREM OutagesAreFree == Spec => []OutageSpendsNothing
<1>1. Init => RefusedInv
  BY DEF Init, Idle, RefusedInv
<1>2. RefusedInv => OutageSpendsNothing
  BY DEF RefusedInv, OutageSpendsNothing
<1> QED
  BY <1>1, <1>2, SafeInit, SafeStep, RefusedStep, PTL DEF Spec

\* Between the calls of a sweep the group may read, claim, acknowledge and park: what
\* becomes pending was unread when the floor was taken, so it lies above the floor.
LEMMA TrimStep == SafeInv /\ TrimInv /\ [Next]_vars => TrimInv'
<1> SUFFICES ASSUME SafeInv, TrimInv, [Next]_vars PROVE TrimInv'
  OBVIOUS
<1>1. /\ trimmed \in Nat /\ lastRead \in Nat /\ Len(log) \in Nat
      /\ pending \subseteq 1..lastRead
      /\ trim \in [at : {"idle", "groups", "floor"}, floor : Nat]
  BY StreamAssumption DEF SafeInv, TypeOK, StreamAssumption
<1>2. CASE UNCHANGED <<trimmed, trim, lastRead>> /\ pending' \subseteq pending
  BY <1>2 DEF TrimInv
<1>3. ASSUME NEW c \in Consumers, ReadNew(c) PROVE TrimInv'
  <2>1. PICK last \in lastRead + 1 .. Len(log) :
          lastRead' = last /\ pending' = pending \cup (lastRead + 1 .. last)
    BY <1>3 DEF ReadNew
  <2>2. UNCHANGED <<trimmed, trim>>
    BY <1>3 DEF ReadNew
  <2> QED
    BY <1>1, <2>1, <2>2 DEF TrimInv
<1>4. CASE TrimGroups
  <2>1. PICK byAge \in Ids : trim' = [at |-> "groups", floor |-> LeastOf(byAge, lastRead)]
    BY <1>4 DEF TrimGroups
  <2>2. LeastOf(byAge, lastRead) <= lastRead
    BY <1>1 DEF LeastOf, Ids
  <2>3. UNCHANGED <<trimmed, pending, lastRead>>
    BY <1>4 DEF TrimGroups, streamVars
  <2> QED
    BY <2>1, <2>2, <2>3 DEF TrimInv
<1>5. CASE TrimPending
  <2>1. trim'.at = "floor" /\ trim'.floor =
          IF pending = {} THEN trim.floor ELSE LeastOf(trim.floor, First(pending))
    BY <1>5 DEF TrimPending
  <2>2. pending \subseteq Nat
    BY <1>1
  <2>3. pending # {} => First(pending) \in pending /\ \A i \in pending : First(pending) <= i
    BY <2>2, FirstIsLeast
  <2>4. trim.floor <= lastRead
    BY <1>5 DEF TrimPending, TrimInv
  <2>5. UNCHANGED <<trimmed, pending, lastRead>>
    BY <1>5 DEF TrimPending, streamVars
  <2>6. trim'.floor <= lastRead
    <3>1. pending # {} => First(pending) \in Nat
      BY <2>2, <2>3
    <3>2. trim.floor \in Nat
      BY <1>1
    <3> QED
      BY <1>1, <2>1, <2>4, <3>1, <3>2 DEF LeastOf
  <2>7. \A i \in pending : trim'.floor <= i
    <3> SUFFICES ASSUME NEW i \in pending PROVE trim'.floor <= i
      OBVIOUS
    <3>1. First(pending) \in Nat /\ First(pending) <= i /\ i \in Nat
      BY <2>2, <2>3
    <3> QED
      BY <1>1, <2>1, <3>1 DEF LeastOf
  <2> QED
    BY <2>1, <2>5, <2>6, <2>7 DEF TrimInv
<1>6. CASE Trim
  <2>1. trimmed' = trimmed \/ (trim.floor > trimmed + 1 /\ trimmed' = trim.floor - 1)
    BY <1>6 DEF Trim
  <2>2. trim' = NoTrim /\ UNCHANGED <<lastRead, pending>> /\ trim.at = "floor"
    BY <1>6 DEF Trim
  <2> QED
    BY <1>1, <2>1, <2>2 DEF TrimInv, NoTrim
<1>7. ASSUME NEW r \in Rows, WriteOutbox(r) \/ DeletePublished(r) \/ RetryExhausted(r)
      PROVE TrimInv'
  BY <1>2, <1>7 DEF WriteOutbox, DeletePublished, RetryExhausted, streamVars
<1>8. ASSUME NEW k \in Relays, Relay(k) \/ AbortBatch(k) PROVE TrimInv'
  BY <1>2, <1>8 DEF Relay, SelectBatch, Publish, CommitBatch, AbortBatch, streamVars
<1>9. ASSUME NEW c \in Consumers, ClaimPending(c) \/ Handle(c) \/ Ack(c) \/ Park(c)
                                  \/ LeavePending(c) \/ Crash(c)
      PROVE TrimInv'
  BY <1>2, <1>9 DEF ClaimPending, Handle, Ack, Park, LeavePending, Crash, streamVars
<1>10. CASE UNCHANGED vars
  BY <1>2, <1>10 DEF vars, streamVars
<1> QED
  BY <1>3, <1>4, <1>5, <1>6, <1>7, <1>8, <1>9, <1>10 DEF Next, Consume

\* No sweep trims an entry that is unread or pending, however many consumers read,
\* reclaim and acknowledge between its calls.
THEOREM NothingUnfinishedIsTrimmed == Spec => []UnfinishedIsKept
<1>1. Init => TrimInv
  BY DEF Init, TrimInv, NoTrim
<1>2. SafeInv /\ TrimInv => UnfinishedIsKept
  <2> SUFFICES ASSUME SafeInv, TrimInv, NEW i \in Added, i > lastRead \/ i \in pending
               PROVE i > trimmed
    BY DEF UnfinishedIsKept
  <2>1. i \in Int /\ lastRead \in Int /\ trimmed \in Int
    BY DEF Added, SafeInv, TypeOK
  <2> QED
    BY <2>1 DEF TrimInv
<1> QED
  BY <1>1, <1>2, SafeInit, SafeStep, TrimStep, PTL DEF Spec

\* An entry leaves the pending list handled or retained, and is read once it is added.
LEMMA WorkStep == SafeInv /\ WorkInv /\ [Next]_vars => WorkInv'
<1> SUFFICES ASSUME SafeInv, WorkInv, [Next]_vars PROVE WorkInv'
  OBVIOUS
<1>1. /\ lastRead \in Nat /\ Len(log) \in Nat /\ log \in Seq(Rows)
      /\ pending \subseteq 1..lastRead
      /\ \A c \in Consumers : worker[c].todo \subseteq Nat
  BY StreamAssumption DEF SafeInv, TypeOK, StreamAssumption, Ids
<1>2. ASSUME NEW r \in Rows, WriteOutbox(r) \/ DeletePublished(r) \/ RetryExhausted(r)
      PROVE WorkInv'
  <2>1. UNCHANGED <<streamVars, workerVars, done>>
    BY <1>2 DEF WriteOutbox, DeletePublished, RetryExhausted
  <2>2. \A q \in Rows : outbox[q] # "none" => outbox'[q] # "none"
    BY <1>2 DEF WriteOutbox, DeletePublished, RetryExhausted, SafeInv, TypeOK
  <2> QED
    BY <1>1, <2>1, <2>2 DEF WorkInv, streamVars, workerVars, Added, At, Current
<1>3. ASSUME NEW k \in Relays, SelectBatch(k) \/ CommitBatch(k) \/ AbortBatch(k)
      PROVE WorkInv'
  <2>1. UNCHANGED <<streamVars, workerVars, done>>
    BY <1>3 DEF SelectBatch, CommitBatch, AbortBatch
  <2>2. \A q \in Rows : outbox[q] # "none" => outbox'[q] # "none"
    BY <1>3 DEF SelectBatch, CommitBatch, AbortBatch
  <2> QED
    BY <1>1, <2>1, <2>2 DEF WorkInv, streamVars, workerVars, Added, At, Current
<1>4. ASSUME NEW k \in Relays, Publish(k) PROVE WorkInv'
  <2>1. UNCHANGED <<outbox, lastRead, pending, dead, workerVars, done>>
    BY <1>4 DEF Publish
  <2>2. \E r \in Rows : outbox[r] # "none" /\ (log' = log \/ log' = Append(log, r))
    <3>1. PICK r \in Rows : outbox[r] = "unpublished"
                            /\ (XAdded(k, r) \/ XRefused(k, r) \/ Unreachable(k, r))
      BY <1>4, PublishedRow
    <3>2. log' = log \/ log' = Append(log, r)
      BY <3>1 DEF XAdded, XRefused, Unreachable
    <3> QED
      BY <3>1, <3>2
  <2>3. \A i \in Added' : outbox'[log'[i]] # "none"
    BY <1>1, <2>1, <2>2 DEF WorkInv, Added
  <2> QED
    BY <2>1, <2>3 DEF WorkInv, workerVars, At, Current
<1>5. ASSUME NEW c \in Consumers, ReadNew(c) PROVE WorkInv'
  <2>1. PICK last \in lastRead + 1 .. Len(log) :
          /\ Receive(c, lastRead + 1 .. last)
          /\ lastRead' = last /\ pending' = pending \cup (lastRead + 1 .. last)
    BY <1>5 DEF ReadNew
  <2>2. UNCHANGED <<outbox, log, dead, done>>
    BY <1>5 DEF ReadNew, outboxVars
  <2>3. \A i \in 1..last : i \in pending' \cup done \cup dead
    BY <1>1, <2>1 DEF WorkInv
  <2>4. worker'[c].at = "next" /\ \A d \in Consumers \ {c} : worker'[d] = worker[d]
    BY <2>1 DEF Receive, SafeInv, TypeOK
  <2> QED
    BY <2>1, <2>2, <2>3, <2>4 DEF WorkInv, At, Current, Added
<1>6. ASSUME NEW c \in Consumers, ClaimPending(c) \/ Crash(c) PROVE WorkInv'
  <2>1. UNCHANGED <<outbox, log, lastRead, pending, dead, done>>
    BY <1>6 DEF ClaimPending, Crash, outboxVars, streamVars
  <2>2. worker'[c].at = "next" /\ \A d \in Consumers \ {c} : worker'[d] = worker[d]
    BY <1>6 DEF ClaimPending, Crash, Receive, Resting, SafeInv, TypeOK
  <2> QED
    BY <2>1, <2>2 DEF WorkInv, At, Current, Added
<1>7. ASSUME NEW c \in Consumers, Handle(c) PROVE WorkInv'
  <2>1. UNCHANGED <<outbox, log, lastRead, pending, dead>>
    BY <1>7 DEF Handle, outboxVars, streamVars
  <2>2. \/ worker'[c].at = "handled" /\ done' = done \cup {Current(c)}
        \/ worker'[c].at = "failed" /\ done' = done
    BY <1>7 DEF Handle, SafeInv, TypeOK
  <2>3. worker'[c].todo = worker[c].todo /\ \A d \in Consumers \ {c} : worker'[d] = worker[d]
    BY <1>7 DEF Handle, SafeInv, TypeOK
  <2> QED
    BY <2>1, <2>2, <2>3 DEF WorkInv, At, Current, Added
<1>8. ASSUME NEW c \in Consumers, Ack(c) \/ Park(c) \/ LeavePending(c) PROVE WorkInv'
  <2>1. UNCHANGED <<outbox, log, lastRead, done>>
    BY <1>8 DEF Ack, Park, LeavePending, outboxVars, streamVars
  <2>2. \A i \in pending : i \in pending' \cup done \cup dead'
    BY <1>8 DEF Ack, Park, LeavePending, streamVars, WorkInv
  <2>3. dead \subseteq dead'
    BY <1>8 DEF Ack, Park, LeavePending, streamVars
  <2>4. worker'[c].at = "next" /\ \A d \in Consumers \ {c} : worker'[d] = worker[d]
    BY <1>8 DEF Ack, Park, LeavePending, Drop, SafeInv, TypeOK
  <2> QED
    BY <2>1, <2>2, <2>3, <2>4 DEF WorkInv, At, Current, Added
<1>9. CASE TrimGroups \/ TrimPending \/ Trim \/ UNCHANGED vars
  BY <1>9 DEF TrimGroups, TrimPending, Trim, WorkInv, vars, outboxVars, streamVars, workerVars,
     At, Current, Added
<1> QED
  BY <1>2, <1>3, <1>4, <1>5, <1>6, <1>7, <1>8, <1>9 DEF Next, Relay, Consume

\* Shorthands for the abstract state.
Accepted == {r \in Rows : outbox[r] # "none"}
Handled  == {log[i] : i \in done}
Parked   == {log[i] : i \in dead}
Closed   == {r \in Rows : Finished(r)}

StreamInv == SafeInv /\ AddedInv /\ WorkInv

\* A row that is over was handled or is retained.
LEMMA ClosedIsDone == StreamInv => Closed \subseteq Handled \cup Parked
<1> SUFFICES ASSUME StreamInv, NEW r \in Closed PROVE r \in Handled \cup Parked
  OBVIOUS
<1>1. PICK i \in Added : log[i] = r
  BY DEF Closed, Finished, StreamInv, AddedInv
<1>2. i <= lastRead /\ i \notin pending
  BY <1>1 DEF Closed, Finished
<1>3. i \in 1..lastRead
  BY <1>2 DEF Added, StreamInv, SafeInv, TypeOK
<1>4. i \in done \cup dead
  BY <1>2, <1>3 DEF StreamInv, WorkInv
<1> QED
  BY <1>1, <1>4 DEF Handled, Parked

\* Steps that leave what a row's end depends on alone.
LEMMA SameState ==
  ASSUME UNCHANGED <<log, lastRead, pending, done, dead>>,
         \A r \in Rows : /\ outbox'[r] # "none" <=> outbox[r] # "none"
                         /\ outbox'[r] \in {"published", "deleted"}
                              <=> outbox[r] \in {"published", "deleted"}
  PROVE  UNCHANGED <<Accepted, Handled, Parked, Closed>>
BY DEF Accepted, Handled, Parked, Closed, Finished, Added

\* The rows of what was handled or retained stay known while the log grows.
LEMMA LogGrows ==
  ASSUME StreamInv, NEW r, log' = Append(log, r), r \in Rows, UNCHANGED <<done, dead>>
  PROVE  Handled' = Handled /\ Parked' = Parked
<1>1. log \in Seq(Rows) /\ Len(log) \in Nat /\ lastRead \in 0..Len(log)
      /\ done \subseteq 1..lastRead /\ dead \subseteq 1..lastRead
  BY DEF StreamInv, SafeInv, TypeOK
<1>2. \A i \in 1..lastRead : log'[i] = log[i]
  BY <1>1
<1> QED
  BY <1>1, <1>2 DEF Handled, Parked

\* A relay's step publishes rows or adds an entry for a row that is not published.
LEMMA RelayRefines ==
  ASSUME StreamInv, StreamInv', NEW k \in Relays, Relay(k) \/ AbortBatch(k)
  PROVE  [Promise!Next]_<<Accepted, Handled, Parked, Closed>>
<1>1. CASE SelectBatch(k) \/ AbortBatch(k)
  BY <1>1, SameState DEF SelectBatch, AbortBatch, streamVars
<1>2. CASE Publish(k)
  <2>1. PICK r \in Rows : outbox[r] = "unpublished"
                          /\ (XAdded(k, r) \/ XRefused(k, r) \/ Unreachable(k, r))
    BY <1>2, PublishedRow DEF StreamInv
  <2>2. log' = log \/ log' = Append(log, r)
    BY <2>1 DEF XAdded, XRefused, Unreachable
  <2>3. UNCHANGED <<outbox, lastRead, pending, dead, done>>
    BY <1>2 DEF Publish
  <2>4. CASE log' = log
    BY <2>3, <2>4, SameState
  <2>5. CASE log' = Append(log, r)
    <3>1. Handled' = Handled /\ Parked' = Parked /\ Accepted' = Accepted
      BY <2>3, <2>5, LogGrows DEF Accepted
    <3>2. log \in Seq(Rows) /\ Len(log) \in Nat
      BY DEF StreamInv, SafeInv, TypeOK
    <3>3. Added' = Added \cup {Len(log) + 1} /\ log'[Len(log) + 1] = r
          /\ \A i \in Added : log'[i] = log[i]
      BY <2>5, <3>2 DEF Added
    <3>4. \A q \in Rows : q # r => (Finished(q)' <=> Finished(q))
      BY <2>3, <3>3 DEF Finished
    <3>5. ~Finished(r) /\ ~Finished(r)'
      BY <2>1, <2>3 DEF Finished
    <3>6. Closed' = Closed
      BY <3>4, <3>5 DEF Closed
    <3> QED
      BY <3>1, <3>6
  <2> QED
    BY <2>2, <2>4, <2>5
<1>3. CASE CommitBatch(k)
  <2>1. UNCHANGED <<log, lastRead, pending, done, dead>>
    BY <1>3 DEF CommitBatch, streamVars
  <2>2. \A r \in Rows : outbox'[r] = outbox[r]
                        \/ (outbox[r] = "unpublished" /\ outbox'[r] = "published")
    BY <1>3 DEF CommitBatch, StreamInv, SafeInv, BatchInv
  <2>3. UNCHANGED <<Accepted, Handled, Parked>> /\ Closed \subseteq Closed'
    BY <2>1, <2>2 DEF Accepted, Handled, Parked, Closed, Finished, Added
  <2>4. Closed' \subseteq Handled \cup Parked
    <3>1. (Closed \subseteq Handled \cup Parked)'
      BY ClosedIsDone, PTL
    <3> QED
      BY <2>3, <3>1
  <2>5. Closed' = Closed \cup Closed' /\ Closed' \in SUBSET (Handled \cup Parked)
    BY <2>3, <2>4
  <2>6. Promise!Close
    BY <2>3, <2>5 DEF Promise!Close, Accepted, Handled, Parked, Closed
  <2> QED
    BY <2>6 DEF Promise!Next
<1> QED
  BY <1>1, <1>2, <1>3 DEF Relay

\* A consumer's step handles the row of its entry, retains it, or ends it.
LEMMA ConsumerRefines ==
  ASSUME StreamInv, StreamInv', NEW c \in Consumers,
         Consume(c) \/ LeavePending(c) \/ Crash(c)
  PROVE  [Promise!Next]_<<Accepted, Handled, Parked, Closed>>
<1>1. /\ lastRead \in Nat /\ Len(log) \in Nat /\ log \in Seq(Rows)
      /\ pending \subseteq 1..lastRead /\ lastRead <= Len(log)
  BY DEF StreamInv, SafeInv, TypeOK
<1>2. worker[c].todo # {} =>
        /\ Current(c) \in Added /\ log[Current(c)] \in Rows
        /\ outbox[log[Current(c)]] # "none"
  <2>1. SUFFICES ASSUME worker[c].todo # {} PROVE Current(c) \in Added
    BY <1>1 DEF StreamInv, WorkInv, Added
  <2>2. Current(c) \in worker[c].todo
    BY <2>1, CurrentTypes DEF StreamInv, SafeInv
  <2> QED
    BY <1>1, <2>2 DEF StreamInv, SafeInv, ReadInv, Added
<1>3. CASE ReadNew(c)
  <2>1. PICK last \in lastRead + 1 .. Len(log) :
          lastRead' = last /\ pending' = pending \cup (lastRead + 1 .. last)
    BY <1>3 DEF ReadNew
  <2>2. UNCHANGED <<outbox, log, dead, done>>
    BY <1>3 DEF ReadNew, outboxVars
  <2>3. \A i \in Added : (i <= lastRead /\ i \notin pending)
                           <=> (i <= lastRead' /\ i \notin pending')
    BY <1>1, <2>1 DEF Added
  <2>4. UNCHANGED <<Accepted, Handled, Parked, Closed>>
    BY <2>2, <2>3 DEF Accepted, Handled, Parked, Closed, Finished, Added
  <2> QED
    BY <2>4
<1>4. CASE ClaimPending(c) \/ LeavePending(c) \/ Crash(c)
  BY <1>4, SameState DEF ClaimPending, LeavePending, Crash, outboxVars, streamVars
<1>5. CASE Handle(c)
  <2>1. PICK r \in Accepted : r = log[Current(c)]
    BY <1>2, <1>5 DEF Handle, At, Accepted
  <2>2. done' = done \/ done' = done \cup {Current(c)}
    BY <1>5 DEF Handle
  <2>3. UNCHANGED <<outbox, log, lastRead, pending, dead>>
    BY <1>5 DEF Handle, outboxVars, streamVars
  <2>4. UNCHANGED <<Accepted, Parked, Closed>>
    BY <2>3 DEF Accepted, Parked, Closed, Finished, Added
  <2>5. Handled' = Handled \/ Handled' = Handled \cup {r}
    BY <2>1, <2>2, <2>3 DEF Handled
  <2>6. Handled' = Handled \/ Promise!Handle(r)
    BY <2>1, <2>4, <2>5 DEF Promise!Handle, Accepted, Handled, Parked, Closed
  <2> QED
    BY <2>4, <2>6 DEF Promise!Next, Accepted
<1>6. CASE Ack(c)
  <2>1. UNCHANGED <<outbox, log, lastRead, dead, done>> /\ pending' \subseteq pending
    BY <1>6 DEF Ack, outboxVars
  <2>2. UNCHANGED <<Accepted, Handled, Parked>> /\ Closed \subseteq Closed'
    BY <2>1 DEF Accepted, Handled, Parked, Closed, Finished, Added
  <2>3. Closed' \subseteq Handled \cup Parked
    <3>1. (Closed \subseteq Handled \cup Parked)'
      BY ClosedIsDone, PTL
    <3> QED
      BY <2>2, <3>1
  <2>4. Closed' = Closed \cup Closed' /\ Closed' \in SUBSET (Handled \cup Parked)
    BY <2>2, <2>3
  <2>5. Promise!Close
    BY <2>2, <2>4 DEF Promise!Close, Accepted, Handled, Parked, Closed
  <2> QED
    BY <2>5 DEF Promise!Next
<1>7. CASE Park(c)
  <2>1. PICK r \in Accepted : r = log[Current(c)]
    BY <1>2, <1>7 DEF Park, At, Accepted
  <2>2. /\ UNCHANGED <<outbox, log, lastRead, done>>
        /\ pending' = pending \ {Current(c)} /\ dead' = dead \cup {Current(c)}
    BY <1>7 DEF Park, outboxVars
  <2>3. UNCHANGED <<Accepted, Handled>> /\ Parked' = Parked \cup {r}
    BY <2>1, <2>2 DEF Accepted, Handled, Parked
  <2>4. \A q \in Rows : Finished(q) => Finished(q)'
    BY <2>2 DEF Finished, Added
  <2>5. \A q \in Rows : q # r /\ Finished(q)' => Finished(q)
    BY <2>1, <2>2 DEF Finished, Added
  <2>6. Closed' = Closed \/ Closed' = Closed \cup {r}
    BY <2>1, <2>4, <2>5 DEF Closed
  <2>7. Promise!Park(r)
    BY <2>1, <2>3, <2>6 DEF Promise!Park, Accepted, Handled, Parked, Closed
  <2> QED
    BY <2>7 DEF Promise!Next, Accepted
<1> QED
  BY <1>3, <1>4, <1>5, <1>6, <1>7 DEF Consume

\* A row waits in the outbox and the stream until it was handled or is retained: outbox,
\* relays and consumer group implement DeliveryPromise.
THEOREM StreamKeepsPromise == Spec => KeepsPromise
<1>1. Init => Promise!Init
  BY DEF Init, Promise!Init, Finished
<1>2. Spec => []StreamInv
  <2>1. Init => AddedInv /\ WorkInv
    BY DEF Init, Idle, Resting, AddedInv, WorkInv, At, Added
  <2>2. StreamInv <=> SafeInv /\ AddedInv /\ WorkInv
    BY DEF StreamInv
  <2> QED
    BY <2>1, <2>2, SafeInit, SafeStep, AddedStep, WorkStep, PTL DEF Spec
<1>3. StreamInv /\ StreamInv' /\ [Next]_vars
        => [Promise!Next]_<<Accepted, Handled, Parked, Closed>>
  <2> SUFFICES ASSUME StreamInv, StreamInv', [Next]_vars
               PROVE [Promise!Next]_<<Accepted, Handled, Parked, Closed>>
    OBVIOUS
  <2>1. ASSUME NEW r \in Rows, WriteOutbox(r)
        PROVE [Promise!Next]_<<Accepted, Handled, Parked, Closed>>
    <3>1. UNCHANGED <<log, lastRead, pending, done, dead>> /\ r \notin Accepted
      BY <2>1 DEF WriteOutbox, streamVars, Accepted
    <3>2. Accepted' = Accepted \cup {r}
      BY <2>1 DEF WriteOutbox, Accepted, StreamInv, SafeInv, TypeOK
    <3>3. \A q \in Rows : outbox'[q] \in {"published", "deleted"}
                            <=> outbox[q] \in {"published", "deleted"}
      BY <2>1 DEF WriteOutbox, StreamInv, SafeInv, TypeOK
    <3>4. UNCHANGED <<Handled, Parked, Closed>>
      BY <3>1, <3>3 DEF Handled, Parked, Closed, Finished, Added
    <3>5. Promise!Accept(r)
      BY <3>1, <3>2, <3>4 DEF Promise!Accept, Accepted, Handled, Parked, Closed
    <3> QED
      BY <3>5 DEF Promise!Next
  <2>2. ASSUME NEW r \in Rows, DeletePublished(r) \/ RetryExhausted(r)
        PROVE [Promise!Next]_<<Accepted, Handled, Parked, Closed>>
    BY <2>2, SameState DEF DeletePublished, RetryExhausted, streamVars,
       StreamInv, SafeInv, TypeOK
  <2>3. CASE TrimGroups \/ TrimPending \/ Trim \/ UNCHANGED vars
    BY <2>3, SameState DEF TrimGroups, TrimPending, Trim, vars, outboxVars, streamVars
  <2> QED
    BY <2>1, <2>2, <2>3, RelayRefines, ConsumerRefines DEF Next
<1>4. StreamInv /\ StreamInv' /\ [Next]_vars => [Promise!Next]_(Promise!vars)
  BY <1>3 DEF Promise!vars, Accepted, Handled, Parked, Closed
<1> QED
  BY <1>1, <1>2, <1>4, PTL DEF Spec, KeepsPromise, Promise!Spec
=============================================================================
