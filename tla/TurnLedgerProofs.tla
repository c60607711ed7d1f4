--------------------------- MODULE TurnLedgerProofs ---------------------------
(***************************************************************************)
(* Proofs about TurnLedger for any set of messages, any set of runner      *)
(* processes and any bounds.                                               *)
(***************************************************************************)
EXTENDS TurnLedger, FiniteSetTheorems, TLAPS

\* A runner that holds a job knows a message; only such a runner takes steps.
KeyKnown == \A r \in Runners : pc[r] # "idle" => key[r] \in Keys

TypeInv == TypeOK /\ KeyKnown

\* The job helpers keep the types of the variables they set.
LEMMA JobTypes ==
    ASSUME TypeInv, NEW r \in Runners,
           \/ Defer(r)
           \/ Finish(r) /\ pc[r] # "idle"
           \/ pc[r] # "idle" /\ \E p \in Points : Proceed(r, p)
    PROVE  /\ lock' \in Runners \cup {NoRunner}
           /\ pc' \in [Runners -> Points]
           /\ key' \in [Runners -> Keys \cup {NoKey}]
           /\ KeyKnown' /\ drops' = drops
<1> USE ConstantsAssumption DEF TypeInv, TypeOK, KeyKnown, Points, LockedPoints,
        Goto, Unlock, lockVars
<1>1. CASE Defer(r)  BY <1>1 DEF Defer
<1>2. CASE Finish(r) /\ pc[r] # "idle"  BY <1>2 DEF Finish
<1>3. CASE pc[r] # "idle" /\ \E p \in Points : Proceed(r, p)
  BY <1>3 DEF Proceed
<1>4. QED  BY <1>1, <1>2, <1>3

\* Every step of every actor keeps the types.
LEMMA TypeStep == TypeInv /\ [Next]_vars => TypeInv'
<1> SUFFICES ASSUME TypeInv, [Next]_vars PROVE TypeInv'
  OBVIOUS
<1> USE ConstantsAssumption DEF TypeInv
<1>1. ASSUME NEW k \in Keys, Accept(k)  PROVE TypeInv'
  BY <1>1 DEF TypeOK, KeyKnown, Accept, jobVars, lockVars, SessionStatus, TurnStatus, Live, Open
<1>2. ASSUME NEW k \in Keys, Publish(k)  PROVE TypeInv'
  BY <1>2 DEF TypeOK, KeyKnown, Publish, sessionVars, turnVars, jobVars, lockVars
<1>3. ASSUME NEW r \in Runners, NEW k \in Keys, Take(r, k)  PROVE TypeInv'
  BY <1>3 DEF TypeOK, KeyKnown, Take, Goto, sessionVars, turnVars, streamVars,
     Points, LockedPoints
<1>4. ASSUME NEW r \in Runners, Step(r) \/ PostFails(r) \/ Interrupt(r)
      PROVE  TypeInv'
  <2>1. CASE ReadSession(r)
    BY <2>1, JobTypes DEF TypeOK, KeyKnown, ReadSession, Points, LockedPoints,
       sessionVars, turnVars, streamVars
  <2>2. CASE ReadLedger(r)
    BY <2>2, JobTypes DEF TypeOK, KeyKnown, ReadLedger, Points, LockedPoints,
       sessionVars, turnVars, streamVars
  <2>3. CASE MarkUncertain(r)
    BY <2>3, JobTypes DEF TypeOK, KeyKnown, MarkUncertain, Points, LockedPoints,
       sessionVars, streamVars, TurnStatus, Open
  <2>4. CASE PostNotice(r)
    BY <2>4, JobTypes DEF TypeOK, KeyKnown, PostNotice, Show,
       sessionVars, turnVars, streamVars
  <2>5. CASE Deny(r)
    BY <2>5, JobTypes DEF TypeOK, KeyKnown, Deny, sessionVars, streamVars,
       TurnStatus, Settled
  <2>6. CASE Admit(r)
    BY <2>6, JobTypes DEF TypeOK, KeyKnown, Admit, Points, LockedPoints,
       streamVars, TurnStatus, Open, SessionStatus, Live
  <2>7. CASE Complete(r)
    BY <2>7, JobTypes DEF TypeOK, KeyKnown, Complete, Reported, Points,
       LockedPoints, streamVars, TurnStatus, Open
  <2>8. CASE PostReply(r)
    BY <2>8, JobTypes DEF TypeOK, KeyKnown, PostReply, Show, Points,
       LockedPoints, sessionVars, turnVars, streamVars
  <2>9. CASE MarkDelivered(r) \/ MarkDeliveryFailed(r)
    BY <2>9, JobTypes DEF TypeOK, KeyKnown, MarkDelivered, MarkDeliveryFailed,
       MarkTurn, sessionVars, streamVars, TurnStatus, Settled
  <2>10. CASE Ack(r)
    BY <2>10 DEF TypeOK, KeyKnown, Ack, Goto, Points, sessionVars, turnVars, lockVars
  <2>11. CASE PostFails(r)
    BY <2>11, JobTypes DEF TypeOK, KeyKnown, PostFails, Show,
       sessionVars, turnVars, streamVars
  <2>12. CASE Interrupt(r)
    BY <2>12, JobTypes DEF TypeOK, KeyKnown, Interrupt,
       sessionVars, turnVars, streamVars
  <2>13. QED
    BY <1>4, <2>1, <2>2, <2>3, <2>4, <2>5, <2>6, <2>7, <2>8, <2>9, <2>10,
       <2>11, <2>12 DEF Step
<1>5. ASSUME NEW r \in Runners, DropLock(r)  PROVE TypeInv'
  BY <1>5 DEF TypeOK, KeyKnown, DropLock, sessionVars, turnVars, streamVars
<1>6. CASE Lifecycle
  BY <1>6 DEF TypeOK, KeyKnown, Lifecycle, Bump, Stop, Archive, Resume, Restart,
     ResumeJob, StopJob, IdleSweep, Fail, turnVars, streamVars, jobVars, lockVars, SessionStatus, Live
<1>7. CASE UNCHANGED vars
  BY <1>7 DEF TypeOK, KeyKnown, vars, sessionVars, turnVars, streamVars, jobVars, lockVars
<1>8. QED  BY <1>1, <1>2, <1>3, <1>4, <1>5, <1>6, <1>7 DEF Next

\* Every variable keeps its type; a job in progress always names a message.
THEOREM TypeCorrect == Spec => [](TypeOK /\ KeyKnown)
<1>1. Init => TypeInv
  BY ConstantsAssumption DEF Init, TypeInv, TypeOK, KeyKnown, SessionStatus, Live,
     TurnStatus, Points
<1>2. QED  BY <1>1, TypeStep, PTL DEF Spec, TypeInv

-----------------------------------------------------------------------------
(* What a lost lock can cost.                                               *)

\* Only a lost connection moves the count of lost locks.
LEMMA DropsGrow ==
    ASSUME TypeInv, [Next]_vars
    PROVE  \/ drops' = drops
           \/ drops' = drops + 1 /\ \E r \in Runners : DropLock(r)
  BY DEF Next, Step, Take, ReadSession, ReadLedger, MarkUncertain, PostNotice, Deny, Admit,
     Complete, PostReply, MarkDelivered, MarkDeliveryFailed, MarkTurn, Ack, PostFails,
     Interrupt, DropLock, Defer, Finish, Proceed, Unlock, Accept, Publish, Lifecycle,
     vars, jobVars, lockVars

\* Jobs that went on after their lock was lost, and jobs about to start the tool.
Strays == {r \in Runners : pc[r] \in LockedPoints /\ lock # r}
Admitting(k) == {r \in Runners : pc[r] = "admit" /\ key[r] = k}

\* Each stray cost a lock; a row still queued never ran; and whoever is about to start
\* the tool for a message that ran got there by a lock of its own.
LostInv ==
    /\ TypeInv
    /\ IsFiniteSet(Strays) /\ Cardinality(Strays) <= drops
    /\ \A k \in Keys : turnStatus[k] \in {"none", "queued"} => runs[k] = 0
    /\ \A r \in Runners : pc[r] # "idle" => turnStatus[key[r]] # "none"
    /\ \A k \in outbox : turnStatus[k] # "none"
    /\ \A k \in stream : turnStatus[k] # "none"
    /\ \A k \in Keys : runs[k] + Cardinality(Admitting(k)) <= 1 + drops

\* A set within d strays and one more has at most d + 1 members.
LEMMA OneMore ==
    ASSUME NEW d \in Nat, NEW T, IsFiniteSet(T), Cardinality(T) <= d, NEW x,
           NEW S \in SUBSET (T \cup {x})
    PROVE  IsFiniteSet(S) /\ Cardinality(S) \in Nat /\ Cardinality(S) <= d + 1
<1>1. /\ IsFiniteSet(T \cup {x})
      /\ Cardinality(T \cup {x}) = IF x \in T THEN Cardinality(T) ELSE Cardinality(T) + 1
  BY FS_AddElement
<1>2. Cardinality(T) \in Nat /\ Cardinality(T \cup {x}) \in Nat
  BY <1>1, FS_CardinalityType
<1>3. IsFiniteSet(S) /\ Cardinality(S) <= Cardinality(T \cup {x})
  BY <1>1, FS_Subset
<1>4. Cardinality(S) \in Nat  BY <1>3, FS_CardinalityType
<1>5. QED  BY <1>1, <1>2, <1>3, <1>4

\* The jobs at some points are the strays among them and the holder of the lock.
LEMMA AtMostOneMore ==
    ASSUME TypeInv, IsFiniteSet(Strays), Cardinality(Strays) <= drops,
           NEW S \in SUBSET {r \in Runners : pc[r] \in LockedPoints}
    PROVE  IsFiniteSet(S) /\ Cardinality(S) \in Nat /\ Cardinality(S) <= 1 + drops
<1>1. S \subseteq Strays \cup {lock}  BY DEF Strays
<1>2. drops \in Nat  BY ConstantsAssumption DEF TypeInv, TypeOK
<1>3. IsFiniteSet(S) /\ Cardinality(S) \in Nat /\ Cardinality(S) <= drops + 1
  BY <1>1, <1>2, OneMore
<1>4. QED  BY <1>2, <1>3

\* A step makes no strays but by a lost lock: whoever takes the lock finds it free,
\* and whoever releases it leaves the points where it is needed.
LEMMA StraysStep ==
    ASSUME LostInv, [Next]_vars
    PROVE  IsFiniteSet(Strays)' /\ Cardinality(Strays') <= drops'
<1> USE ConstantsAssumption
<1>1. TypeInv /\ drops \in Nat /\ IsFiniteSet(Strays) /\ Cardinality(Strays) <= drops
      /\ Cardinality(Strays) \in Nat
  <2>1. TypeInv /\ drops \in Nat /\ IsFiniteSet(Strays) /\ Cardinality(Strays) <= drops
    BY DEF LostInv, TypeInv, TypeOK
  <2>2. QED  BY <2>1, FS_CardinalityType
<1>2. ASSUME NEW r \in Runners, DropLock(r)
      PROVE  IsFiniteSet(Strays)' /\ Cardinality(Strays') <= drops'
  <2>1. Strays' \subseteq Strays \cup {r} /\ drops' = drops + 1
    BY <1>1, <1>2 DEF DropLock, Strays, TypeInv, TypeOK
  <2>2. /\ IsFiniteSet(Strays') /\ Cardinality(Strays') <= drops + 1
    BY <1>1, <2>1, OneMore
  <2>3. QED  BY <2>1, <2>2
<1>3. ASSUME Strays' \subseteq Strays, drops' = drops
      PROVE  IsFiniteSet(Strays)' /\ Cardinality(Strays') <= drops'
  <2>1. /\ IsFiniteSet(Strays') /\ Cardinality(Strays') <= Cardinality(Strays)
        /\ Cardinality(Strays') \in Nat
    BY <1>1, <1>3, FS_Subset, FS_CardinalityType
  <2>2. QED  BY <1>1, <1>3, <2>1
<1> USE DEF Strays, TypeInv, TypeOK, KeyKnown, LockedPoints, Goto, Unlock, Defer, Finish,
        Proceed, lockVars
<1>4. ASSUME NEW r \in Runners, NEW k \in Keys, Take(r, k)  PROVE Strays' \subseteq Strays
  BY <1>1, <1>4 DEF Take
<1>5. ASSUME NEW r \in Runners, Step(r) \/ PostFails(r) \/ Interrupt(r)
      PROVE  Strays' \subseteq Strays
  <2>1. CASE ReadSession(r) \/ ReadLedger(r)  BY <1>1, <2>1 DEF ReadSession, ReadLedger
  <2>2. CASE MarkUncertain(r) \/ PostNotice(r) \/ Deny(r) \/ Admit(r)
    BY <1>1, <2>2 DEF MarkUncertain, PostNotice, Deny, Admit
  <2>3. CASE Complete(r) \/ PostReply(r) \/ MarkDelivered(r) \/ MarkDeliveryFailed(r)
    BY <1>1, <2>3 DEF Complete, PostReply, MarkDelivered, MarkDeliveryFailed, MarkTurn
  <2>4. CASE Ack(r) \/ PostFails(r) \/ Interrupt(r)
    BY <1>1, <2>4 DEF Ack, PostFails, Interrupt
  <2>5. QED  BY <1>5, <2>1, <2>2, <2>3, <2>4 DEF Step
<1>6. ASSUME \/ \E k \in Keys : Accept(k) \/ Publish(k)
             \/ Lifecycle \/ UNCHANGED vars
      PROVE  Strays' \subseteq Strays
  BY <1>6 DEF Accept, Publish, Lifecycle, vars, jobVars, lockVars
<1>7. QED
  BY <1>1, <1>2, <1>3, <1>4, <1>5, <1>6, DropsGrow DEF Next

\* The rows and entries that jobs come from.
LEMMA RowsStep ==
    ASSUME LostInv, [Next]_vars
    PROVE  /\ \A k \in Keys : turnStatus'[k] \in {"none", "queued"} => runs'[k] = 0
           /\ \A r \in Runners : pc'[r] # "idle" => turnStatus'[key'[r]] # "none"
           /\ \A k \in outbox' : turnStatus'[k] # "none"
           /\ \A k \in stream' : turnStatus'[k] # "none"
<1> DEFINE Rows ==
        /\ \A k \in Keys : turnStatus[k] \in {"none", "queued"} => runs[k] = 0
        /\ \A r \in Runners : pc[r] # "idle" => turnStatus[key[r]] # "none"
        /\ \A k \in outbox : turnStatus[k] # "none"
        /\ \A k \in stream : turnStatus[k] # "none"
<1> SUFFICES Rows'  OBVIOUS
<1> TypeInv /\ Rows  BY DEF LostInv
<1> HIDE DEF Rows
<1> USE ConstantsAssumption DEF Rows, TypeInv, TypeOK, KeyKnown
<1>1. ASSUME NEW k \in Keys, Accept(k)  PROVE Rows'
  BY <1>1 DEF Accept, jobVars, lockVars
<1>2. ASSUME NEW k \in Keys, Publish(k)  PROVE Rows'
  BY <1>2 DEF Publish, turnVars, jobVars, lockVars
<1>3. ASSUME NEW r \in Runners, NEW k \in Keys, Take(r, k)  PROVE Rows'
  BY <1>3 DEF Take, Goto, turnVars, streamVars
<1>4. ASSUME NEW r \in Runners, Step(r) \/ PostFails(r) \/ Interrupt(r)
      PROVE  Rows'
  <2> USE DEF Goto, Defer, Finish, Proceed, turnVars, streamVars
  <2>1. CASE ReadSession(r) \/ ReadLedger(r) \/ PostNotice(r) \/ PostReply(r)
             \/ PostFails(r) \/ Interrupt(r)
    BY <2>1 DEF ReadSession, ReadLedger, PostNotice, PostReply, PostFails, Interrupt
  <2>2. CASE MarkUncertain(r) \/ Deny(r) \/ Complete(r)
    BY <2>2 DEF MarkUncertain, Deny, Complete
  <2>3. CASE Admit(r)
    BY <2>3 DEF Admit
  <2>4. CASE MarkDelivered(r) \/ MarkDeliveryFailed(r) \/ Ack(r)
    BY <2>4 DEF MarkDelivered, MarkDeliveryFailed, MarkTurn, Ack
  <2>5. QED  BY <1>4, <2>1, <2>2, <2>3, <2>4 DEF Step
<1>5. CASE \/ \E r \in Runners : DropLock(r)
           \/ Lifecycle \/ UNCHANGED vars
  BY <1>5 DEF DropLock, Lifecycle, vars, turnVars, streamVars, jobVars, lockVars
<1>6. QED  BY <1>1, <1>2, <1>3, <1>4, <1>5 DEF Next

\* Nobody gets to the admission of a message that ran; who starts the tool leaves it.
LEMMA LostStep == LostInv /\ [Next]_vars => LostInv'
<1> SUFFICES ASSUME LostInv, [Next]_vars, NEW k \in Keys
             PROVE  runs'[k] + Cardinality(Admitting(k)') <= 1 + drops'
  BY TypeStep, StraysStep, RowsStep DEF LostInv
<1> USE ConstantsAssumption
<1>1. /\ TypeInv /\ TypeInv' /\ drops \in Nat /\ drops' \in Nat
      /\ drops' = drops \/ drops' = drops + 1
  BY TypeStep, DropsGrow DEF LostInv, TypeInv, TypeOK
<1>2. /\ IsFiniteSet(Admitting(k)) /\ Cardinality(Admitting(k)) \in Nat
      /\ runs[k] \in Nat /\ runs[k] + Cardinality(Admitting(k)) <= 1 + drops
  BY <1>1, AtMostOneMore, FS_CardinalityType DEF LostInv, Admitting, LockedPoints, TypeInv, TypeOK
<1>3. /\ IsFiniteSet(Admitting(k)') /\ Cardinality(Admitting(k)') \in Nat
      /\ Cardinality(Admitting(k)') <= 1 + drops'
  <2>1. TypeInv' /\ IsFiniteSet(Strays)' /\ Cardinality(Strays') <= drops'
    BY <1>1, StraysStep
  <2>2. Admitting(k)' \subseteq Strays' \cup {lock'}
    BY DEF Admitting, Strays, LockedPoints
  <2>3. /\ IsFiniteSet(Admitting(k)') /\ Cardinality(Admitting(k)') \in Nat
        /\ Cardinality(Admitting(k)') <= drops' + 1
    BY <1>1, <2>1, <2>2, OneMore
  <2>4. QED  BY <1>1, <2>3
<1>4. CASE Admitting(k)' \subseteq Admitting(k) /\ runs'[k] = runs[k]
  BY <1>1, <1>2, <1>4, FS_Subset, FS_CardinalityType
<1>5. ASSUME NEW r \in Runners, Admit(r), key[r] = k, runs' = [runs EXCEPT ![k] = @ + 1]
      PROVE  runs'[k] + Cardinality(Admitting(k)') <= 1 + drops'
  <2>1. r \in Admitting(k) /\ Admitting(k)' \subseteq Admitting(k) \ {r}
    BY <1>1, <1>5 DEF Admit, Admitting, Proceed, Finish, Goto, TypeInv, TypeOK
  <2>2. /\ Cardinality(Admitting(k) \ {r}) = Cardinality(Admitting(k)) - 1
        /\ IsFiniteSet(Admitting(k) \ {r})
    BY <1>2, <2>1, FS_RemoveElement
  <2>3. Cardinality(Admitting(k)') <= Cardinality(Admitting(k)) - 1
    BY <2>1, <2>2, FS_Subset
  <2>4. runs'[k] = runs[k] + 1  BY <1>1, <1>5 DEF TypeInv, TypeOK
  <2>5. QED  BY <1>1, <1>2, <1>3, <2>3, <2>4
<1>6. ASSUME NEW r \in Runners, ReadLedger(r), key[r] = k, turnStatus[k] = "queued"
      PROVE  runs'[k] + Cardinality(Admitting(k)') <= 1 + drops'
  <2>1. runs'[k] = 0  BY <1>6 DEF ReadLedger, LostInv
  <2>2. QED  BY <1>1, <1>3, <2>1
<1> USE DEF Admitting, TypeInv, TypeOK, Goto, Defer, Finish, Proceed
<1>7. ASSUME NEW r \in Runners, Step(r) \/ PostFails(r) \/ Interrupt(r)
      PROVE  runs'[k] + Cardinality(Admitting(k)') <= 1 + drops'
  <2>1. CASE ReadLedger(r)
    BY <1>1, <1>4, <1>6, <2>1 DEF ReadLedger
  <2>2. CASE Admit(r)
    BY <1>1, <1>4, <1>5, <2>2 DEF Admit
  <2>3. CASE ReadSession(r) \/ MarkUncertain(r) \/ PostNotice(r) \/ Deny(r)
    BY <1>1, <1>4, <2>3 DEF ReadSession, MarkUncertain, PostNotice, Deny
  <2>4. CASE Complete(r) \/ PostReply(r) \/ MarkDelivered(r) \/ MarkDeliveryFailed(r)
    BY <1>1, <1>4, <2>4 DEF Complete, PostReply, MarkDelivered, MarkDeliveryFailed, MarkTurn
  <2>5. CASE Ack(r) \/ PostFails(r) \/ Interrupt(r)
    BY <1>1, <1>4, <2>5 DEF Ack, PostFails, Interrupt
  <2>6. QED  BY <1>7, <2>1, <2>2, <2>3, <2>4, <2>5 DEF Step
<1>8. ASSUME NEW r \in Runners, NEW j \in Keys, Take(r, j)
      PROVE  runs'[k] + Cardinality(Admitting(k)') <= 1 + drops'
  BY <1>1, <1>4, <1>8 DEF Take
<1>9. CASE \/ \E j \in Keys : Accept(j) \/ Publish(j)
           \/ \E r \in Runners : DropLock(r)
           \/ Lifecycle \/ UNCHANGED vars
  BY <1>4, <1>9 DEF Accept, Publish, DropLock, Lifecycle, vars, jobVars, lockVars
<1>10. QED  BY <1>7, <1>8, <1>9 DEF Next

LEMMA LostHolds == Spec => []LostInv
<1>1. Init => LostInv
  <2> SUFFICES ASSUME Init PROVE LostInv
    OBVIOUS
  <2>1. TypeInv
    BY ConstantsAssumption DEF Init, TypeInv, TypeOK, KeyKnown, SessionStatus, Live,
       TurnStatus, Points
  <2>2. Strays = {} /\ \A k \in Keys : Admitting(k) = {}
    BY DEF Init, Strays, Admitting, LockedPoints
  <2>3. IsFiniteSet(Strays) /\ Cardinality(Strays) = 0 /\ Cardinality({}) = 0
    BY <2>2, FS_EmptySet
  <2>4. QED  BY <2>1, <2>2, <2>3 DEF Init, LostInv
<1>2. QED  BY <1>1, LostStep, PTL DEF Spec

\* However often the lock's connection is lost, each loss lets one more job at most
\* start the tool for a message, or run one beside another; without a loss there
\* is one start and one tool.
THEOREM LostLockCostsOneRun == Spec => [](RerunsNeedLostLocks /\ OneTurnAtATime)
<1>1. LostInv => RerunsNeedLostLocks
  <2> SUFFICES ASSUME LostInv, NEW k \in Keys PROVE runs[k] <= 1 + drops
    BY DEF RerunsNeedLostLocks
  <2>1. Cardinality(Admitting(k)) \in Nat
    BY AtMostOneMore, FS_CardinalityType DEF LostInv, Admitting, LockedPoints
  <2>2. QED
    BY <2>1, ConstantsAssumption DEF LostInv, TypeInv, TypeOK
<1>2. LostInv => OneTurnAtATime
  BY AtMostOneMore DEF LostInv, OneTurnAtATime, LockedPoints
<1>3. QED  BY <1>1, <1>2, LostHolds, PTL


-----------------------------------------------------------------------------
(* The ledger's safety, as long as no lock was lost.                        *)

\* The lock is held from the first read to the last write of a job.
LockHeld == \A r \in Runners : pc[r] \in LockedPoints => lock = r

\* What a job has read of its turn is still so when it acts on it.
ReadIsFresh ==
    \A r \in Runners :
      LET k == key[r] IN
        /\ pc[r] # "idle" => turnStatus[k] # "none"
        /\ pc[r] \in {"admit", "denied"} => turnStatus[k] = "queued"
        /\ pc[r] = "admit" =>
             \A j \in Keys : turnStatus[j] \in Open => ~Before(j, k)
        /\ pc[r] = "interrupted" => turnStatus[k] \in {"executing", "uncertain"}
        /\ pc[r] = "notice" => turnStatus[k] = "uncertain"
        /\ pc[r] = "exec" => turnStatus[k] = "executing"
        /\ pc[r] \in {"post", "posted", "rejected"} => turnStatus[k] = "completed"
        /\ pc[r] = "posted" => "reply" \in shown[k]

\* Messages reach the outbox and the stream only with their row, and rows are
\* numbered in the order they were accepted.
RowsFirst ==
    /\ \A k \in outbox : turnStatus[k] # "none"
    /\ \A k \in stream : turnStatus[k] # "none"
    /\ \A k \in Keys : turnStatus[k] # "none" => turnSeq[k] < nextSeq

\* The row records whether the tool was ever started and what was shown.
RowIsHonest ==
    \A k \in Keys :
        /\ runs[k] = IF turnStatus[k] \in {"none", "queued", "aborted"} THEN 0 ELSE 1
        /\ "reply" \in shown[k] =>
             turnStatus[k] \in {"completed", "delivered", "delivery_failed"}
        /\ "notice" \in shown[k] => turnStatus[k] = "uncertain"
        /\ turnStatus[k] = "delivered" => "reply" \in shown[k]

LedgerInv ==
    /\ TypeInv /\ LockHeld /\ ReadIsFresh /\ RowsFirst /\ RowIsHonest
    /\ StartedInOrder

\* While no lock is lost, every step keeps the ledger's invariant.
LEMMA LedgerStep ==
    ASSUME LedgerInv, [Next]_vars, drops' = drops
    PROVE  LedgerInv'
<1> USE ConstantsAssumption
<1> TypeInv /\ TypeInv'  BY TypeStep DEF LedgerInv
<1> DEFINE Rest == LockHeld /\ ReadIsFresh /\ RowsFirst /\ RowIsHonest /\ StartedInOrder
<1> SUFFICES Rest'  BY DEF LedgerInv
<1> Rest  BY DEF LedgerInv
<1> USE DEF LockHeld, ReadIsFresh, RowsFirst, RowIsHonest, StartedInOrder, Before,
            TypeInv, TypeOK, KeyKnown, LockedPoints, Open, Settled
<1>1. ASSUME NEW k \in Keys, Accept(k)  PROVE Rest'
  BY <1>1 DEF Accept, jobVars, lockVars
<1>2. ASSUME NEW k \in Keys, Publish(k)  PROVE Rest'
  BY <1>2 DEF Publish, sessionVars, turnVars, jobVars, lockVars
<1>3. ASSUME NEW r \in Runners, NEW k \in Keys, Take(r, k)  PROVE Rest'
  BY <1>3 DEF Take, Goto, sessionVars, turnVars, streamVars
<1>4. ASSUME NEW r \in Runners, Step(r) \/ PostFails(r) \/ Interrupt(r)
      PROVE  Rest'
  <2> USE DEF Goto, Unlock, Defer, Finish, Proceed, sessionVars, turnVars,
              streamVars, jobVars, lockVars
  <2>1. CASE ReadSession(r)  BY <2>1 DEF ReadSession
  <2>2. CASE ReadLedger(r)  BY <2>2 DEF ReadLedger, Blocked
  <2>3. CASE MarkUncertain(r)  BY <2>3 DEF MarkUncertain
  <2>4. CASE PostNotice(r)  BY <2>4 DEF PostNotice, Show
  <2>5. CASE Deny(r)  BY <2>5 DEF Deny
  <2>6. CASE Admit(r)  BY <2>6 DEF Admit
  <2>7. CASE Complete(r)  BY <2>7 DEF Complete
  <2>8. CASE PostReply(r)  BY <2>8 DEF PostReply, Show
  <2>9. CASE MarkDelivered(r) \/ MarkDeliveryFailed(r)
    BY <2>9 DEF MarkDelivered, MarkDeliveryFailed, MarkTurn
  <2>10. CASE Ack(r)  BY <2>10 DEF Ack
  <2>11. CASE PostFails(r)  BY <2>11 DEF PostFails, Show
  <2>12. CASE Interrupt(r)  BY <2>12 DEF Interrupt
  <2>13. QED
    BY <1>4, <2>1, <2>2, <2>3, <2>4, <2>5, <2>6, <2>7, <2>8, <2>9, <2>10,
       <2>11, <2>12 DEF Step
<1>5. ASSUME NEW r \in Runners, DropLock(r)  PROVE Rest'
  <2>1. drops \in 0..MaxDrops  BY DEF TypeInv, TypeOK
  <2>2. drops' # drops  BY <1>5, <2>1 DEF DropLock
  <2>3. QED  BY <2>2
<1>6. CASE Lifecycle
  BY <1>6 DEF Lifecycle, turnVars, streamVars, jobVars, lockVars
<1>7. CASE UNCHANGED vars
  BY <1>7 DEF vars, sessionVars, turnVars, streamVars, jobVars, lockVars
<1>8. QED  BY <1>1, <1>2, <1>3, <1>4, <1>5, <1>6, <1>7 DEF Next

LEMMA LedgerInit == Init => LedgerInv
  BY ConstantsAssumption DEF Init, LedgerInv, TypeInv, TypeOK, KeyKnown, LockHeld,
     ReadIsFresh, RowsFirst, RowIsHonest, StartedInOrder, Points, LockedPoints,
     SessionStatus, Live, TurnStatus

LEMMA LedgerHolds == Spec => [](drops = 0 => LedgerInv)
<1>1. TypeInv /\ (drops = 0 => LedgerInv) /\ [Next]_vars => (drops = 0 => LedgerInv)'
  <2> SUFFICES ASSUME TypeInv, drops = 0 => LedgerInv, [Next]_vars, drops' = 0
               PROVE  LedgerInv'
    OBVIOUS
  <2>1. drops = 0 /\ drops' = drops
    BY DropsGrow, ConstantsAssumption DEF TypeInv, TypeOK
  <2>2. QED  BY <2>1, LedgerStep
<1>2. TypeOK /\ KeyKnown => TypeInv  BY DEF TypeInv
<1>3. QED  BY <1>1, <1>2, LedgerInit, TypeCorrect, PTL DEF Spec

\* Until a lock is lost, no turn has run while an earlier one of its session and
\* version is open: the blocking query of saga_input.py holds it back in whatever
\* order entries come.
THEOREM StartsInOrder == Spec => []StartedInOrder
<1>1. (drops = 0 => LedgerInv) => StartedInOrder
  BY DEF LedgerInv, StartedInOrder
<1>2. QED  BY <1>1, LedgerHolds, PTL

\* Until a lock is lost, what the thread is shown agrees with the row: a reply only for
\* a completed turn, the notice only for an uncertain one, and never both.
THEOREM ShowsTheOutcome == Spec => [](ReplyOrNotice /\ ReplyIsBacked)
<1>1. (drops = 0 => LedgerInv) => ReplyOrNotice /\ ReplyIsBacked
  BY DEF LedgerInv, RowIsHonest, ReplyOrNotice, ReplyIsBacked
<1>2. QED  BY <1>1, LedgerHolds, PTL

-----------------------------------------------------------------------------
(* The detailed ledger implements the promise.                             *)

\* While no lock was lost, a step of the ledger accepts a message, starts a turn, moves
\* one turn to an outcome, or leaves the rows alone.
LEMMA RowStep ==
    ASSUME LedgerInv, [Next]_vars
    PROVE  \/ \E k \in Keys : Promise!Accept(k) \/ Promise!Start(k) \/ Promise!Outcome(k)
           \/ UNCHANGED Promise!ledger
<1> USE ConstantsAssumption DEF LedgerInv, TypeInv, TypeOK, KeyKnown, Promise!ledger
<1>1. ASSUME NEW k \in Keys, Accept(k)  PROVE Promise!Accept(k)
  BY <1>1 DEF Accept, RowsFirst, Promise!Accept, Promise!Move
<1>2. ASSUME NEW r \in Runners, Admit(r)
      PROVE  Promise!Start(key[r]) \/ UNCHANGED Promise!ledger
  BY <1>2 DEF Admit, ReadIsFresh, Before, Open, Promise!Start, Promise!Move,
     Promise!Open, Promise!Before
<1>3. ASSUME NEW r \in Runners,
             \/ MarkUncertain(r) \/ Deny(r) \/ Complete(r)
             \/ MarkDelivered(r) \/ MarkDeliveryFailed(r)
      PROVE  Promise!Outcome(key[r]) \/ UNCHANGED Promise!ledger
  BY <1>3 DEF MarkUncertain, Deny, Complete, MarkDelivered, MarkDeliveryFailed,
     MarkTurn, ReadIsFresh, Promise!Outcome, Promise!Move
<1>4. ASSUME NEW r \in Runners,
             \/ ReadSession(r) \/ ReadLedger(r) \/ PostNotice(r) \/ PostReply(r)
             \/ PostFails(r) \/ Ack(r) \/ Interrupt(r) \/ DropLock(r)
      PROVE  UNCHANGED Promise!ledger
  BY <1>4 DEF ReadSession, ReadLedger, PostNotice, PostReply, PostFails, Ack,
     Interrupt, DropLock, turnVars
<1>5. ASSUME NEW r \in Runners, pc[r] # "idle"  PROVE key[r] \in Keys
  BY <1>5
<1>6. CASE \E r \in Runners :
             Step(r) \/ PostFails(r) \/ Interrupt(r) \/ DropLock(r)
  BY <1>2, <1>3, <1>4, <1>5, <1>6 DEF Step, MarkUncertain, Deny,
     Complete, MarkDelivered, MarkDeliveryFailed, MarkTurn, Admit
<1>7. CASE \E k \in Keys : Accept(k) \/ Publish(k)
  BY <1>1, <1>7 DEF Publish, turnVars
<1>8. CASE \/ \E r \in Runners, k \in Keys : Take(r, k)
           \/ Lifecycle
           \/ UNCHANGED vars
  BY <1>8 DEF Take, Lifecycle, vars, turnVars
<1>9. QED  BY <1>6, <1>7, <1>8 DEF Next

\* Up to the first lost lock a step is one of the promise's, the loss changes no row, and
\* after it the promise is void.
LEMMA PromiseStep ==
    ASSUME TypeInv, drops = 0 => LedgerInv, [Next]_vars
    PROVE  [Promise!Next]_(Promise!vars)
<1> USE DEF Promise!vars, Promise!Next
<1>1. drops \in Nat  BY ConstantsAssumption DEF TypeInv, TypeOK
<1>2. CASE drops > 0  BY <1>2 DEF Promise!Void
<1>3. CASE drops = 0 /\ drops' = drops  BY <1>3, RowStep
<1>4. CASE drops = 0 /\ drops' # drops
  <2>1. drops' = 1 /\ \E r \in Runners : DropLock(r)  BY <1>4, DropsGrow
  <2>2. UNCHANGED Promise!ledger  BY <2>1 DEF DropLock, turnVars, Promise!ledger
  <2>3. QED  BY <1>4, <2>1, <2>2 DEF Promise!Lose
<1>5. QED  BY <1>1, <1>2, <1>3, <1>4

\* The ledger keeps the promise: until a lock is lost at most one start per message, in
\* order, and no outcome taken back.
THEOREM Implements == Spec => KeepsPromise
<1>1. Init => Promise!Init  BY DEF Init, Promise!Init
<1>2. TypeInv /\ (drops = 0 => LedgerInv) /\ [Next]_vars => [Promise!Next]_(Promise!vars)
  BY PromiseStep
<1>3. TypeOK /\ KeyKnown => TypeInv  BY DEF TypeInv
<1>4. QED
  BY <1>1, <1>2, <1>3, LedgerHolds, TypeCorrect, PTL DEF Spec, KeepsPromise, Promise!Spec

-----------------------------------------------------------------------------
(* The token fence needs no lock at all.                                    *)

\* Only rows of accepted messages are in the outbox, the stream, a job or the
\* token; restarts and rows never run ahead of the session's version.
TokenInv ==
    /\ TypeInv /\ RestartForgets
    /\ \A k \in outbox : turnStatus[k] # "none"
    /\ \A k \in stream : turnStatus[k] # "none"
    /\ \A r \in Runners : pc[r] # "idle" => turnStatus[key[r]] # "none"
    /\ token \in Keys => turnStatus[token] # "none"
    /\ restartedAt <= version

LEMMA TokenStep ==
    ASSUME TokenInv, [Next]_vars
    PROVE  TokenInv'
<1> USE ConstantsAssumption
<1> TypeInv /\ TypeInv'  BY TypeStep DEF TokenInv
<1> USE DEF TokenInv, TypeInv, TypeOK, KeyKnown, RestartForgets
<1>1. ASSUME NEW k \in Keys, Accept(k)  PROVE TokenInv'
  BY <1>1 DEF Accept, jobVars, lockVars
<1>2. ASSUME NEW k \in Keys, Publish(k)  PROVE TokenInv'
  BY <1>2 DEF Publish, sessionVars, turnVars, jobVars, lockVars
<1>3. ASSUME NEW r \in Runners, NEW k \in Keys, Take(r, k)  PROVE TokenInv'
  BY <1>3 DEF Take, Goto, sessionVars, turnVars, streamVars
<1>4. ASSUME NEW r \in Runners, Step(r) \/ PostFails(r) \/ Interrupt(r)
      PROVE  TokenInv'
  <2> USE DEF Goto, Unlock, Defer, Finish, Proceed, sessionVars, turnVars,
              streamVars, jobVars, lockVars
  <2>1. CASE ReadSession(r) \/ ReadLedger(r) \/ Interrupt(r) \/ Ack(r)
    BY <2>1 DEF ReadSession, ReadLedger, Interrupt, Ack
  <2>2. CASE PostNotice(r) \/ PostReply(r) \/ PostFails(r)
    BY <2>2 DEF PostNotice, PostReply, PostFails, Show
  <2>3. CASE MarkUncertain(r) \/ Deny(r) \/ MarkDelivered(r) \/ MarkDeliveryFailed(r)
    BY <2>3 DEF MarkUncertain, Deny, MarkDelivered, MarkDeliveryFailed, MarkTurn
  <2>4. CASE Admit(r)  BY <2>4 DEF Admit
  <2>5. CASE Complete(r)  BY <2>5 DEF Complete, Reported, Current
  <2>6. QED  BY <1>4, <2>1, <2>2, <2>3, <2>4, <2>5 DEF Step
<1>5. ASSUME NEW r \in Runners, DropLock(r)  PROVE TokenInv'
  BY <1>5 DEF DropLock, sessionVars, turnVars, streamVars
<1>6. CASE Lifecycle
  BY <1>6 DEF Lifecycle, Bump, Stop, Archive, Resume, Restart, ResumeJob,
     StopJob, IdleSweep, Fail, turnVars, streamVars, jobVars, lockVars
<1>7. CASE UNCHANGED vars
  BY <1>7 DEF vars, sessionVars, turnVars, streamVars, jobVars, lockVars
<1>8. QED  BY <1>1, <1>2, <1>3, <1>4, <1>5, <1>6, <1>7 DEF Next

\* A turn of an older version cannot restore a token a restart cleared, even
\* if the lock is lost while the turn's tool runs.
THEOREM OldTurnsCannotRestoreTokens == Spec => []RestartForgets
<1>1. Init => TokenInv
  BY ConstantsAssumption, TypeCorrect DEF Init, TokenInv, TypeInv, TypeOK, KeyKnown,
     RestartForgets, SessionStatus, Live, TurnStatus, Points
<1>2. TokenInv => RestartForgets  BY DEF TokenInv
<1>3. QED  BY <1>1, <1>2, TokenStep, PTL DEF Spec
=============================================================================
