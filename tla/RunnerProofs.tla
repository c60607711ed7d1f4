------------------------------- MODULE RunnerProofs -------------------------------
(***************************************************************************)
(* Theorems about what one runner process runs beside each other: the loop    *)
(* over its input stream (InputScheduler), and the heartbeat of its host with   *)
(* the janitors that watch it (HostPresence).            *)
(***************************************************************************)
EXTENDS InputScheduler, HostPresence, FiniteSetTheorems, TLAPS

-----------------------------------------------------------------------------
(* The input loop: the tasks of a session form a chain through `previous`, and *)
(* whatever ends a task, ends the first of its chain.                        *)

SameSession(t, u) == SessionOf[job[t]] = SessionOf[job[u]]

\* A task that is not done works on a readable entry of the stream.
TypeInv == TypeOK /\ \A t \in Active : job[t] \in Messages \ Bad

\* A task that runs has awaited its predecessor.
RunnersWaited == \A t \in Active : state[t] = "running" => previous[t] = NoOne

\* A task without a predecessor is the first of its session.
FirstOfSession ==
    \A t, u \in Active : previous[u] = NoOne /\ <<t, u>> \in before => ~SameSession(t, u)

\* A task awaits one of its session, and the others before it are before that one.
Linked ==
    \A u \in Active : previous[u] # NoOne =>
        /\ previous[u] \in Active /\ SameSession(previous[u], u)
        /\ \A t \in Active : <<t, u>> \in before /\ SameSession(t, u)
                                => t = previous[u] \/ <<t, previous[u]>> \in before

\* The tail of a session is one of its tasks, ...
TailIsOfSession ==
    \A s \in Sessions : tails[s] # NoOne => tails[s] \in Active /\ SessionOf[job[tails[s]]] = s

\* ... and every other task of the session is before it.
TailIsLast ==
    \A u \in Active :
        /\ tails[SessionOf[job[u]]] # NoOne
        /\ u = tails[SessionOf[job[u]]] \/ <<u, tails[SessionOf[job[u]]]>> \in before

ChainInv ==
    RunnersWaited /\ FirstOfSession /\ Linked /\ TailIsOfSession /\ TailIsLast

-----------------------------------------------------------------------------
\* While there is room, a fresh task object has a name of its own.
LEMMA NewTaskIsFree ==
    ASSUME TypeOK, HasRoom
    PROVE  NewTask \in Tasks /\ state[NewTask] = "free"
<1>1. Cardinality(Tasks) = Capacity + 1
  BY FS_Interval, SchedulerAssumption DEF Tasks
<1>2. Active # Tasks
  BY <1>1, SchedulerAssumption DEF HasRoom
<1>3. \E t \in Tasks : state[t] = "free"
  BY <1>2 DEF Active
<1>4. QED  BY <1>3, Zenon DEF NewTask

LEMMA TypesInit == Init => TypeInv
<1> SUFFICES ASSUME Init PROVE TypeInv
  OBVIOUS
<1>1. Active = {}
  BY DEF Init, Active
<1>2. next \in 1..(NMessages + 1) /\ crashes \in 0..MaxCrashes /\ pending \subseteq 1..(next - 1)
  BY SchedulerAssumption DEF Init
<1>3. /\ state \in [Tasks -> {"free", "queued", "running"}] /\ job \in [Tasks -> Messages \cup {NoOne}]
      /\ previous \in [Tasks -> Tasks \cup {NoOne}] /\ tails \in [Sessions -> Tasks \cup {NoOne}]
  BY DEF Init
<1>4. QED  BY <1>1, <1>2, <1>3 DEF Init, TypeInv, TypeOK

\* Every step keeps the types.
LEMMA TypesStep == TypeInv /\ [Next]_vars => TypeInv'
<1> USE SchedulerAssumption DEF TypeInv, TypeOK, Active, Messages
<1> SUFFICES ASSUME TypeInv, [Next]_vars PROVE TypeInv'
  OBVIOUS
<1>1. CASE UNCHANGED vars
  BY <1>1 DEF vars, streamVars, taskVars
<1>2. CASE ClaimPending
  BY <1>2 DEF ClaimPending, streamVars, taskVars
<1>3. CASE ReadNew
  <2>1. PICK n \in 1..(Capacity - Cardinality(Active)) :
          /\ next + n <= NMessages + 1
          /\ batch' = next..(next + n - 1)
          /\ next' = next + n
          /\ pending' = pending \cup (next..(next + n - 1))
    BY <1>3 DEF ReadNew
  <2>2. n \in Int /\ n >= 1
    OBVIOUS
  <2>3. /\ UNCHANGED <<handled, parked, stop, crashes>> /\ loop' = "batch"
        /\ UNCHANGED <<state, job, previous, tails, inflight, before>>
    BY <1>3 DEF ReadNew, taskVars
  <2>4. next' \in 1..(NMessages + 1)
    BY <2>1, <2>2
  <2>5. pending' \subseteq 1..(next' - 1)
    BY <2>1, <2>2
  <2>6. batch' \subseteq Messages
    BY <2>1, <2>2
  <2>7. QED  BY <2>3, <2>4, <2>5, <2>6
<1>4. CASE EndBatch \/ AwaitRoom \/ FindRoom \/ LeaveLoop
  BY <1>4 DEF EndBatch, AwaitRoom, FindRoom, LeaveLoop, streamVars, taskVars
<1>5. CASE EndDrain \/ Signal \/ \E m \in Bad : ParkRaises(m)
  <2>1. CASE CancelAll
    BY <2>1 DEF CancelAll, NoTasks, streamVars
  <2>2. CASE ~stop /\ stop' = TRUE /\ UNCHANGED <<streamVars, loop, batch, taskVars, crashes>>
    BY <2>2 DEF streamVars, taskVars
  <2>3. QED  BY <1>5, <2>1, <2>2 DEF EndDrain, Signal, ParkRaises
<1>6. CASE Restart
  <2>1. UNCHANGED <<next, pending, handled, parked>> /\ loop' = "top" /\ batch' = {} /\ stop' = FALSE
    BY <1>6 DEF Restart, streamVars
  <2>2. crashes' \in 0..MaxCrashes
    BY <1>6 DEF Restart
  <2>3. Active' = {} /\ NoTasks
    BY <1>6 DEF Restart, NoTasks
  <2>4. QED  BY <2>1, <2>2, <2>3 DEF NoTasks
<1>7. CASE \E m \in Messages : PassOver(m) \/ Park(m)
  BY <1>7 DEF PassOver, Park, Fresh, streamVars, taskVars
<1>8. ASSUME NEW m \in Messages, Admit(m) PROVE TypeInv'
  <2> DEFINE t == NewTask
  <2>1. t \in Tasks /\ state[t] = "free"
    BY <1>8, NewTaskIsFree DEF Admit, Fresh
  <2> HIDE DEF t
  <2>2. SessionOf[m] \in Sessions /\ tails[SessionOf[m]] \in Tasks \cup {NoOne}
    BY DEF Sessions
  <2>3. /\ m \notin Bad
        /\ state' = [state EXCEPT ![t] = "queued"] /\ job' = [job EXCEPT ![t] = m]
        /\ previous' = [previous EXCEPT ![t] = tails[SessionOf[m]]]
        /\ tails' = [tails EXCEPT ![SessionOf[m]] = t]
        /\ inflight' = inflight \cup {m} /\ before' = before \cup (Active \X {t})
        /\ batch' = batch \ {m} /\ UNCHANGED <<streamVars, loop, stop, crashes>>
    BY <1>8 DEF Admit, Chained, t
  <2>4. Active' = Active \cup {t}
    BY <2>1, <2>3
  <2>5. before' \subseteq Active' \X Active'
    BY <2>3, <2>4
  <2>6. QED  BY <2>1, <2>2, <2>3, <2>4, <2>5 DEF streamVars
<1>9. ASSUME NEW t \in Tasks, Start(t) PROVE TypeInv'
  BY <1>9 DEF Start, Ready, streamVars
<1>10. ASSUME NEW t \in Tasks, GiveUp(t) \/ Succeed(t) \/ Defer(t) PROVE TypeInv'
  <2>1. End(t) /\ t \in Active
    BY <1>10 DEF GiveUp, Succeed, Defer, Ready
  <2>2. Active' = Active \ {t}
    BY <2>1 DEF End
  <2>3. before' \subseteq Active' \X Active'
    BY <2>1, <2>2 DEF End
  <2>4. pending' \subseteq pending /\ handled' \subseteq Messages \ Bad
    BY <1>10, <2>1 DEF GiveUp, Succeed, Defer
  <2>5. QED  BY <2>1, <2>2, <2>3, <2>4 DEF End, Forgotten
<1>11. QED
  BY <1>1, <1>2, <1>3, <1>4, <1>5, <1>6, <1>7, <1>8, <1>9, <1>10 DEF Next, Loop, Task

\* Every variable keeps its type, and a task works on a readable entry: whatever
\* is cancelled, fails or restarts, no task of _consume_input_stream is left
\* without its message.
THEOREM TypeCorrect == Spec => []TypeInv
  BY TypesInit, TypesStep, PTL DEF Spec

-----------------------------------------------------------------------------
LEMMA LostStep == TypeInv /\ NothingLost /\ [Next]_vars => NothingLost'
<1> USE SchedulerAssumption DEF TypeInv, TypeOK, Messages, NothingLost
<1> SUFFICES ASSUME TypeInv, NothingLost, [Next]_vars PROVE NothingLost'
  OBVIOUS
<1>1. CASE ReadNew
  <2>1. PICK n \in 1..(Capacity - Cardinality(Active)) :
          /\ next' = next + n
          /\ pending' = pending \cup (next..(next + n - 1))
    BY <1>1 DEF ReadNew
  <2>2. n \in Int /\ UNCHANGED <<handled, parked>>
    BY <1>1 DEF ReadNew
  <2>3. QED  BY <2>1, <2>2
<1>2. CASE \E m \in Messages : Park(m)
  BY <1>2 DEF Park
<1>3. CASE \E t \in Tasks : Succeed(t)
  BY <1>3 DEF Succeed, End
<1>4. CASE UNCHANGED <<next, pending, handled, parked>>
  BY <1>4
<1>5. QED
  BY <1>1, <1>2, <1>3, <1>4 DEF Next, Loop, Task, vars, streamVars, ClaimPending, EndBatch, AwaitRoom,
     FindRoom, LeaveLoop, EndDrain, CancelAll, PassOver, Admit, Signal, Restart, ParkRaises, Start, GiveUp, Defer, End

\* Every entry the loop of _consume_input_stream has read stays pending until it
\* was handled or retained: an entry leaves the pending list at the XACK only.
THEOREM NothingIsLost == Spec => []NothingLost
<1>1. Init => NothingLost
  BY DEF Init, NothingLost
<1>2. QED  BY <1>1, LostStep, TypeCorrect, PTL DEF Spec

-----------------------------------------------------------------------------
LEMMA ChainInit == Init => ChainInv
<1> SUFFICES ASSUME Init PROVE ChainInv
  OBVIOUS
<1>1. Active = {}
  BY DEF Init, Active
<1>2. \A s \in Sessions : tails[s] = NoOne
  BY DEF Init
<1>3. QED  BY <1>1, <1>2 DEF ChainInv, RunnersWaited, FirstOfSession, Linked, TailIsOfSession, TailIsLast

\* A new task goes behind the tail of its session and becomes the tail.
LEMMA ChainAdmit == ASSUME TypeInv, ChainInv, NEW m \in Messages, Admit(m) PROVE ChainInv'
<1> DEFINE t == NewTask
<1>1. t \in Tasks /\ state[t] = "free"
  BY NewTaskIsFree DEF TypeInv, Admit, Fresh
<1> HIDE DEF t
<1>2. /\ state' = [state EXCEPT ![t] = "queued"] /\ job' = [job EXCEPT ![t] = m]
      /\ previous' = [previous EXCEPT ![t] = tails[SessionOf[m]]]
      /\ tails' = [tails EXCEPT ![SessionOf[m]] = t]
      /\ before' = before \cup (Active \X {t})
  BY DEF Admit, Chained, t
<1>3. Active' = Active \cup {t} /\ t \notin Active /\ before \subseteq Active \X Active
  BY <1>1, <1>2 DEF Active, TypeInv, TypeOK
<1>4. SessionOf[m] \in Sessions /\ \A u \in Active : SessionOf[job[u]] \in Sessions
  BY DEF Sessions, TypeInv
<1>5. /\ job'[t] = m /\ previous'[t] = tails[SessionOf[m]] /\ state'[t] = "queued"
      /\ \A u \in Active : job'[u] = job[u] /\ previous'[u] = previous[u] /\ state'[u] = state[u]
      /\ tails'[SessionOf[m]] = t
      /\ \A s \in Sessions \ {SessionOf[m]} : tails'[s] = tails[s]
  BY <1>1, <1>2, <1>3, <1>4 DEF TypeInv, TypeOK, Active
<1>6. \A u, v \in Active : <<u, v>> \in before' <=> <<u, v>> \in before
  BY <1>2, <1>3
<1>7. \A u \in Active' : <<u, t>> \in before' <=> u \in Active
  BY <1>2, <1>3
<1>8. \A u \in Active' : <<t, u>> \notin before'
  BY <1>2, <1>3
<1>9. t # NoOne
  BY <1>1, SchedulerAssumption
<1> USE DEF ChainInv, SameSession
<1>10. RunnersWaited'
  BY <1>3, <1>5 DEF RunnersWaited
<1>11. FirstOfSession'
  <2> SUFFICES ASSUME NEW u \in Active', NEW v \in Active', previous'[v] = NoOne, <<u, v>> \in before'
               PROVE  ~SameSession(u, v)'
    BY DEF FirstOfSession
  <2>1. CASE v = t
    <3>1. u \in Active /\ tails[SessionOf[m]] = NoOne
      BY <2>1, <1>5, <1>7
    <3>2. SessionOf[job[u]] # SessionOf[m]
      BY <3>1 DEF TailIsLast
    <3>3. QED  BY <2>1, <3>1, <3>2, <1>5
  <2>2. CASE v # t
    BY <2>2, <1>3, <1>5, <1>6, <1>8 DEF FirstOfSession
  <2>3. QED  BY <2>1, <2>2
<1>12. Linked'
  <2> SUFFICES ASSUME NEW u \in Active', previous'[u] # NoOne
               PROVE  /\ previous'[u] \in Active' /\ SameSession(previous[u], u)'
                      /\ \A v \in Active' : <<v, u>> \in before' /\ SameSession(v, u)'
                             => v = previous'[u] \/ <<v, previous'[u]>> \in before'
    BY DEF Linked
  <2>1. CASE u = t
    <3>1. previous'[u] \in Active /\ SessionOf[job[previous'[u]]] = SessionOf[m]
      BY <2>1, <1>4, <1>5 DEF TailIsOfSession
    <3>2. QED  BY <2>1, <3>1, <1>3, <1>5, <1>6, <1>8 DEF TailIsLast
  <2>2. CASE u # t
    BY <2>2, <1>3, <1>5, <1>6, <1>8 DEF Linked
  <2>3. QED  BY <2>1, <2>2
<1>13. TailIsOfSession'
  BY <1>3, <1>4, <1>5 DEF TailIsOfSession
<1>14. TailIsLast'
  BY <1>3, <1>4, <1>5, <1>6, <1>7, <1>9 DEF TailIsLast
<1>15. QED  BY <1>10, <1>11, <1>12, <1>13, <1>14

\* A task that ends has no predecessor left: it is the first of its session, and
\* whoever awaited it becomes the first.
LEMMA ChainEnd ==
    ASSUME TypeInv, ChainInv, NEW t \in Active, previous[t] = NoOne, End(t)
    PROVE  ChainInv'
<1>1. /\ Active' = Active \ {t} /\ t \in Tasks /\ t # NoOne
      /\ \A u \in Active' : job'[u] = job[u] /\ state'[u] = state[u]
      /\ \A u \in Active' : previous'[u] = IF previous[u] = t THEN NoOne ELSE previous[u]
      /\ \A s \in Sessions : tails'[s] = IF tails[s] = t THEN NoOne ELSE tails[s]
  BY SchedulerAssumption DEF End, Active, TypeInv, TypeOK
<1>2. \A u, v \in Active' : <<u, v>> \in before' <=> <<u, v>> \in before
  BY <1>1 DEF End
<1>3. \A u \in Active : SessionOf[job[u]] \in Sessions
  BY DEF Sessions, TypeInv
<1> USE DEF ChainInv, SameSession
<1>4. \A u \in Active' : SameSession(u, t) => <<u, t>> \notin before
  BY <1>1 DEF FirstOfSession
<1>5. RunnersWaited'
  BY <1>1 DEF RunnersWaited
<1>6. FirstOfSession'
  <2> SUFFICES ASSUME NEW u \in Active', NEW v \in Active', previous'[v] = NoOne, <<u, v>> \in before'
               PROVE  ~SameSession(u, v)'
    BY DEF FirstOfSession
  <2>1. CASE previous[v] = t
    <3>1. SessionOf[job[t]] = SessionOf[job[v]] /\ u \in Active /\ u # t /\ <<u, v>> \in before
      BY <2>1, <1>1, <1>2 DEF Linked
    <3>2. SessionOf[job[u]] = SessionOf[job[v]] => <<u, t>> \in before
      BY <2>1, <3>1, <1>1 DEF Linked
    <3>3. SessionOf[job[u]] # SessionOf[job[v]]
      BY <3>1, <3>2, <1>4
    <3>4. QED  BY <3>3, <1>1
  <2>2. CASE previous[v] # t
    BY <2>2, <1>1, <1>2 DEF FirstOfSession
  <2>3. QED  BY <2>1, <2>2
<1>7. Linked'
  BY <1>1, <1>2 DEF Linked
<1>8. TailIsOfSession'
  BY <1>1 DEF TailIsOfSession
<1>9. TailIsLast'
  <2> SUFFICES ASSUME NEW u \in Active'
               PROVE  /\ tails'[SessionOf[job[u]]] # NoOne
                      /\ u = tails[SessionOf[job[u]]] \/ <<u, tails[SessionOf[job[u]]]>> \in before
    <3>1. \A u \in Active' : job'[u] = job[u] /\ u \in Active /\ SessionOf[job[u]] \in Sessions
      BY <1>1, <1>3
    <3>2. \A u \in Active' : tails'[SessionOf[job[u]]] # NoOne
                               => tails'[SessionOf[job[u]]] = tails[SessionOf[job[u]]]
      BY <1>1, <3>1
    <3>3. \A u \in Active' : tails'[SessionOf[job[u]]] # NoOne
                               => tails[SessionOf[job[u]]] \in Active'
      BY <1>1, <3>1, <3>2 DEF TailIsOfSession
    <3>4. QED  BY <1>2, <3>1, <3>2, <3>3 DEF TailIsLast
  <2>1. u \in Active /\ u # t /\ SessionOf[job[u]] \in Sessions
    BY <1>1, <1>3
  <2>2. tails[SessionOf[job[u]]] # t
    BY <2>1, <1>4 DEF TailIsLast, TailIsOfSession
  <2>3. QED  BY <2>1, <2>2, <1>1 DEF TailIsLast
<1>10. QED  BY <1>5, <1>6, <1>7, <1>8, <1>9

\* Every step keeps the chains.
LEMMA ChainStep == TypeInv /\ ChainInv /\ [Next]_vars => ChainInv'
<1> SUFFICES ASSUME TypeInv, ChainInv, [Next]_vars PROVE ChainInv'
  OBVIOUS
<1>1. ASSUME NEW m \in Messages, Admit(m) PROVE ChainInv'
  BY <1>1, ChainAdmit
<1>2. ASSUME NEW t \in Tasks, Start(t) PROVE ChainInv'
  <2>1. /\ Active' = Active /\ UNCHANGED <<job, previous, tails, before>>
        /\ previous[t] = NoOne
        /\ \A u \in Active : u # t => state'[u] = state[u]
    BY <1>2 DEF Start, Ready, Active, TypeInv, TypeOK
  <2>2. RunnersWaited'
    BY <2>1 DEF ChainInv, RunnersWaited
  <2>3. QED
    BY <2>1, <2>2 DEF ChainInv, SameSession, FirstOfSession, Linked, TailIsOfSession, TailIsLast
<1>3. ASSUME NEW t \in Tasks, GiveUp(t) \/ Succeed(t) \/ Defer(t) PROVE ChainInv'
  <2>1. t \in Active /\ End(t)
    BY <1>3 DEF GiveUp, Succeed, Defer, Ready, Active
  <2>2. previous[t] = NoOne
    BY <1>3, <2>1 DEF GiveUp, Succeed, Defer, Ready, ChainInv, RunnersWaited
  <2>3. QED  BY <2>1, <2>2, ChainEnd
<1>4. CASE NoTasks
  <2>1. Active' = {} /\ \A s \in Sessions : tails'[s] = NoOne
    BY <1>4 DEF NoTasks, Active
  <2>2. QED
    BY <2>1 DEF ChainInv, RunnersWaited, FirstOfSession, Linked, TailIsOfSession, TailIsLast
<1>5. CASE UNCHANGED taskVars
  BY <1>5 DEF taskVars, Active, ChainInv, SameSession, RunnersWaited, FirstOfSession, Linked,
     TailIsOfSession, TailIsLast
<1>6. QED
  BY <1>1, <1>2, <1>3, <1>4, <1>5 DEF Next, Loop, Task, vars, ClaimPending, ReadNew, EndBatch, AwaitRoom,
     FindRoom, LeaveLoop, EndDrain, CancelAll, PassOver, Park, Signal, Restart, ParkRaises

\* Turns of one session run one at a time, in the order they were admitted: a
\* running task has awaited its predecessor, so it is the first of its session.
\* This is the `tails` chain of _consume_input_stream across retries, failed
\* handlers, drains and cancellations.
THEOREM SessionsAreSerial == Spec => []SerialPerSession
<1>1. ChainInv => SerialPerSession
  BY DEF ChainInv, RunnersWaited, FirstOfSession, SameSession, SerialPerSession
<1>2. QED  BY <1>1, ChainInit, ChainStep, TypeCorrect, PTL DEF Spec

-----------------------------------------------------------------------------
(* The host's presence.                                                    *)

\* A process that has sent a heartbeat got past its recovery, and while one that
\* did still serves, the heartbeat is not older than the recovery time.
ServedInv ==
    /\ PresenceTypeOK
    /\ \A r \in beaten : runner[r] # "recovering"
    /\ age = Lost => \A r \in Runners : ~Serving(r)

LEMMA ServedInit == PresenceInit => ServedInv
<1> SUFFICES ASSUME PresenceInit PROVE ServedInv
  OBVIOUS
<1>1. /\ janitor \in [Janitors -> {"idle", "sweeping", "ending"}]
      /\ runner \in [Runners -> {"off", "recovering", "up", "leaving", "over"}]
  BY DEF PresenceInit
<1>2. drops \in 0..MaxDrops /\ age \in Recent..Lost
  BY PresenceAssumption DEF PresenceInit, Recent, Lost
<1>3. PresenceTypeOK
  BY <1>1, <1>2 DEF PresenceInit, PresenceTypeOK
<1>4. QED  BY <1>3 DEF PresenceInit, ServedInv, Serving

LEMMA ServedStep == ServedInv /\ [PresenceNext]_presenceVars => ServedInv'
<1> SUFFICES ASSUME ServedInv, [PresenceNext]_presenceVars PROVE ServedInv'
  OBVIOUS
<1> USE PresenceAssumption DEF ServedInv, PresenceTypeOK, Serving, Recent, Silent,
            Lost, lockVars, hostVars
<1>1. CASE UNCHANGED presenceVars
  BY <1>1 DEF presenceVars
<1>2. ASSUME NEW r \in Runners, Launch(r) \/ Recover(r) PROVE ServedInv'
  BY <1>2 DEF Launch, Recover, SetRunner
<1>3. ASSUME NEW r \in Runners, Beat(r) PROVE ServedInv'
  BY <1>3 DEF Beat
<1>4. ASSUME NEW r \in Runners, Leave(r) \/ MarkOffline(r) \/ RunnerCrash(r)
      PROVE  ServedInv'
  BY <1>4 DEF Leave, MarkOffline, RunnerCrash, SetRunner
<1>5. CASE Age
  BY <1>5 DEF Age
<1>6. ASSUME NEW j \in Janitors, SweepOrphans(j) PROVE ServedInv'
  BY <1>6 DEF SweepOrphans
<1>7. ASSUME NEW j \in Janitors,
             \/ Acquire(j) \/ EndSweep(j) \/ Release(j) \/ ReleaseFails(j)
             \/ DropLock(j)
      PROVE  ServedInv'
  BY <1>7 DEF Acquire, EndSweep, Release, ReleaseFails, DropLock, Unlock
<1>8. QED  BY <1>1, <1>2, <1>3, <1>4, <1>5, <1>6, <1>7 DEF PresenceNext

\* The janitor fails no session as lost while a runner that has reached the database
\* serves the host: neither a late heartbeat, nor the offline mark an older process
\* leaves behind, nor sweeps that overlap after a lost lock make it do so.
THEOREM SessionsOfServingHostLive == PresenceSpec => LiveRunnerKeepsSessions
<1>1. ServedInv /\ [PresenceNext]_presenceVars
        => [session = "live" /\ session' = "failed" => ~ \E r \in Runners : Serving(r)]_presenceVars
  <2> SUFFICES ASSUME ServedInv, PresenceNext, session = "live", session' = "failed"
               PROVE  ~ \E r \in Runners : Serving(r)
    OBVIOUS
  <2>1. PICK j \in Janitors : SweepOrphans(j)
    BY DEF PresenceNext, Launch, Recover, Beat, Leave, MarkOffline,
       RunnerCrash, Age, Acquire, EndSweep, Release, ReleaseFails,
       DropLock, hostVars
  <2>2. QED  BY <2>1 DEF SweepOrphans, Fails, ServedInv
<1>2. QED  BY <1>1, ServedInit, ServedStep, PTL DEF PresenceSpec, LiveRunnerKeepsSessions
=============================================================================
