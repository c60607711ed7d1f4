------------------------------ MODULE SessionProofs ------------------------------
(***************************************************************************)
(* Theorems about a session's life for any sessions, any quota and any bound on  *)
(* the lifecycle version (SessionLifecycle), and about what the dispatcher makes  *)
(* of the notices written with it, for any notices and dispatchers                *)
(* (DispatcherDelivery).                                                    *)
(***************************************************************************)
EXTENDS SessionLifecycle, DispatcherDelivery, TLAPS

\* Minting and reporting keep tokens tokens.
LEMMA MintedType ==
    ASSUME NEW s \in Sessions, NEW v \in 0..MaxVersion, NEW t \in Tokens
    PROVE  Minted(s, v, t) \subseteq Tokens
  BY LifecycleAssumption DEF Minted, Tokens, Named

LEMMA ReportedType ==
    ASSUME NEW s \in Sessions, NEW v \in 0..MaxVersion, NEW t \in Tokens
    PROVE  Reported(s, v, t) \subseteq Tokens
  BY MintedType DEF Reported, Tokens

\* What is reported without a token begins a conversation of the turn's version.
LEMMA ReportBegins ==
    ASSUME NEW s \in Sessions, NEW v \in 0..MaxVersion
    PROVE  \A u \in Reported(s, v, NoToken) : u # NoToken => u[1] = s /\ u[2] = v
<1>1. \A u \in Reported(s, v, NoToken) : u # NoToken => u = <<s, v, 1>>
  BY DEF Reported, Minted
<1>2. QED  BY <1>1

\* What is reported with a token is that token or a later one of its conversation.
LEMMA ReportContinues ==
    ASSUME NEW s \in Sessions, NEW v \in 0..MaxVersion, NEW t \in Named, t # NoToken
    PROVE  \A u \in Reported(s, v, t) :
              u # NoToken => /\ u[1] = t[1] /\ u[2] = t[2]
                             /\ u # t => Continues(t, u)
<1> SUFFICES ASSUME NEW u \in Reported(s, v, t), u # NoToken, u # t
             PROVE  u[1] = t[1] /\ u[2] = t[2] /\ Continues(t, u)
  OBVIOUS
<1>1. Conversation(u) = Conversation(t) /\ u[3] = t[3] + 1  BY DEF Reported, Minted
<1>2. t[3] \in Nat  BY LifecycleAssumption DEF Named
<1>3. QED  BY <1>1, <1>2 DEF Conversation, Continues

\* The compare-and-swap keeps the types of the columns it writes.
LEMMA BumpType ==
    ASSUME TypeOK, NEW s \in Sessions, NEW from, NEW to \in Statuses, Bump(s, from, to)
    PROVE  /\ status' \in [Sessions -> Statuses]
           /\ version' \in [Sessions -> 0..MaxVersion]
           /\ version[s] + 1 \in 0..MaxVersion
  BY LifecycleAssumption DEF TypeOK, Bump, SetStatus

\* What is enqueued with it is a job.
LEMMA EnqueueType ==
    ASSUME TypeOK, NEW s \in Sessions, version[s] + 1 \in 0..MaxVersion,
           NEW kind \in {"stop", "resume", "restart"}, Enqueue(kind, s)
    PROVE  jobs' \subseteq Job
  BY DEF TypeOK, Enqueue, Job, Tokens

\* A failed start gives the session, and takes from its predecessor, a reason.
LEMMA StartFailedType ==
    ASSUME TypeOK, NEW s \in Sessions, StartFailed(s)
    PROVE  reason' \in [Sessions -> Reasons \cup Sessions]
<1> DEFINE r == [reason EXCEPT ![s] = "start_failed"]
<1>1. r \in [Sessions -> Reasons \cup Sessions]  BY DEF TypeOK, Reasons
<1>2. reason' = Release(s, r)  BY DEF StartFailed
<1> HIDE DEF r
<1>3. QED  BY <1>1, <1>2 DEF Release, Reasons

\* Every transaction keeps the types of the rows, the jobs and the reads.
LEMMA TypeStep == TypeOK /\ [Next]_vars => TypeOK'
<1> SUFFICES ASSUME TypeOK, [Next]_vars PROVE TypeOK'
  OBVIOUS
<1> USE LifecycleAssumption
<1>1. ASSUME NEW s \in Sessions, Command(s)  PROVE TypeOK'
  <2>1. CASE Create(s)
    <3>1. PICK t \in Tokens :
            jobs' = jobs \cup {[kind |-> "create", session |-> s,
                                version |-> 0, token |-> t]}
      BY <2>1 DEF Create, TypeOK, Tokens
    <3>2. jobs' \subseteq Job  BY <3>1 DEF TypeOK, Job
    <3>3. reason' \in [Sessions -> Reasons \cup Sessions]
      BY <2>1 DEF Create, TypeOK
    <3>4. QED
      BY <2>1, <3>2, <3>3 DEF Create, SetStatus, Ask, TypeOK, Statuses, Active
  <2>2. CASE Stop(s) \/ Archive(s) \/ Resume(s) \/ Restart(s)
    <3>1. PICK from \in SUBSET Statuses, to \in Statuses : Bump(s, from, to)
      BY <2>2 DEF Stop, Archive, Resume, Restart, Statuses, Active
    <3>2. \E kind \in {"stop", "resume", "restart"} : Enqueue(kind, s)
      BY <2>2 DEF Stop, Archive, Resume, Restart
    <3>3. QED
      BY <2>2, <3>1, <3>2, BumpType, EnqueueType
      DEF Stop, Archive, Resume, Restart, Ask, TypeOK, Tokens
  <2>3. QED  BY <1>1, <2>1, <2>2 DEF Command
<1>2. ASSUME NEW s \in Sessions, TurnStart(s) \/ RecoverFails(s) \/ Watchdog(s) \/ Timeout(s)
      PROVE  TypeOK'
  <2>1. CASE TurnStart(s)
    BY <2>1 DEF TurnStart, SetStatus, TypeOK, Statuses, Active, Reading
  <2>2. CASE \/ RecoverFails(s) \/ CreatingWatchdog(s) \/ ResumingWatchdog(s)
             \/ IdleTimeout(s)
    <3>1. status' \in [Sessions -> Statuses]
      BY <2>2 DEF RecoverFails, CreatingWatchdog, ResumingWatchdog, IdleTimeout,
         StartFailed, SetStatus, TypeOK, Statuses, Ended, Active
    <3>2. reason' \in [Sessions -> Reasons \cup Sessions]
      BY <2>2, StartFailedType DEF RecoverFails, CreatingWatchdog, ResumingWatchdog,
         IdleTimeout, TypeOK, Reasons
    <3>3. QED
      BY <2>2, <3>1, <3>2 DEF RecoverFails, CreatingWatchdog, ResumingWatchdog,
         IdleTimeout, TypeOK
  <2>3. CASE ArchiveTimeout(s) \/ StopTimeout(s) \/ StoppingWatchdog(s)
    <3>1. PICK from \in SUBSET Statuses, to \in Statuses : Bump(s, from, to)
      BY <2>3 DEF ArchiveTimeout, StopTimeout, StoppingWatchdog, Statuses, Active
    <3>2. Enqueue("stop", s) \/ jobs' = jobs
      BY <2>3 DEF ArchiveTimeout, StopTimeout, StoppingWatchdog
    <3>3. QED
      BY <2>3, <3>1, <3>2, BumpType, EnqueueType
      DEF ArchiveTimeout, StopTimeout, StoppingWatchdog, Ask, TypeOK, Reasons
  <2>4. QED  BY <1>2, <2>1, <2>2, <2>3 DEF Watchdog, Timeout
<1>3. ASSUME NEW j \in jobs, RunJob(j)  PROVE TypeOK'
  <2> j \in Job  BY DEF TypeOK
  <2>1. CASE CreateJob(j)
    <3>1. j.session \in Sessions /\ j.token \in Tokens /\ version[j.session] \in 0..MaxVersion
      BY DEF TypeOK, Job
    <3>2. token' \in [Sessions -> Tokens]
      BY <2>1, <3>1, MintedType DEF CreateJob, TypeOK
    <3>3. status' \in [Sessions -> Statuses]
      BY <2>1, <3>1 DEF CreateJob, StartFailed, SetStatus, TypeOK, Statuses, Ended, Active
    <3>4. reason' \in [Sessions -> Reasons \cup Sessions]
      BY <2>1, <3>1, StartFailedType DEF CreateJob, TypeOK
    <3>5. QED  BY <2>1, <3>2, <3>3, <3>4 DEF CreateJob, TypeOK
  <2>2. CASE StopJob(j)
    BY <2>2 DEF StopJob, TypeOK, Statuses
  <2>3. CASE ResumeRead(j)
    BY <2>3 DEF ResumeRead, TypeOK, Job, Reading
  <2>4. QED  BY <1>3, <2>1, <2>2, <2>3 DEF RunJob
<1>4. ASSUME NEW x \in reading, ResumeWrite(x)  PROVE TypeOK'
  <2>1. /\ x \in Reading /\ x.session \in Sessions
        /\ x.version \in 0..MaxVersion /\ x.token \in Tokens
    BY DEF TypeOK, Reading
  <2>2. status' \in [Sessions -> Statuses]
    BY <1>4, <2>1 DEF ResumeWrite, SetStatus, TypeOK, Statuses, Ended, Active
  <2>3. token' \in [Sessions -> Tokens]
    BY <1>4, <2>1, MintedType DEF ResumeWrite, TypeOK
  <2>4. reason' \in [Sessions -> Reasons \cup Sessions]
    BY <1>4, <2>1 DEF ResumeWrite, TypeOK, Reasons
  <2>5. QED  BY <1>4, <2>2, <2>3, <2>4 DEF ResumeWrite, TypeOK
<1>5. ASSUME NEW y \in turns, TurnEnd(y)  PROVE TypeOK'
  <2>1. y.session \in Sessions /\ y.version \in 0..MaxVersion /\ y.token \in Tokens
    BY DEF TypeOK, Reading
  <2>2. token' \in [Sessions -> Tokens]
    BY <1>5, <2>1, ReportedType DEF TurnEnd, TypeOK
  <2>3. QED  BY <1>5, <2>2 DEF TurnEnd, TypeOK
<1>6. CASE HostLost  BY <1>6 DEF HostLost, TypeOK, Statuses, Ended, Reasons
<1>7. CASE UNCHANGED vars  BY <1>7 DEF vars, TypeOK
<1>8. QED  BY <1>1, <1>2, <1>3, <1>4, <1>5, <1>6, <1>7 DEF Next

\* Rows, jobs, and in-flight reads and turns keep their types.
THEOREM TypeCorrect == Spec => []TypeOK
<1>1. Init => TypeOK
  BY LifecycleAssumption DEF Init, TypeOK, Statuses, Tokens, Reasons
<1>2. QED  BY <1>1, TypeStep, PTL DEF Spec

-----------------------------------------------------------------------------
(* Every transaction compares the status it found, which is all that the    *)
(* last command needs to stand.                                             *)

\* One transaction either records what it asks for or keeps to what was asked.
LEMMA AskedStep ==
    ASSUME TypeOK, AsLastAsked, [Next]_vars
    PROVE  AsLastAsked'
<1> USE LifecycleAssumption DEF TypeOK, AsLastAsked, SetStatus, Ask, Bump, Active, Ended
<1>1. ASSUME NEW s \in Sessions, Command(s)  PROVE AsLastAsked'
  BY <1>1 DEF Command, Create, Stop, Archive, Resume, Restart
<1>2. ASSUME NEW s \in Sessions, TurnStart(s) \/ RecoverFails(s)  PROVE AsLastAsked'
  BY <1>2 DEF TurnStart, RecoverFails
<1>3. ASSUME NEW s \in Sessions, Watchdog(s) \/ Timeout(s)  PROVE AsLastAsked'
  BY <1>3 DEF Watchdog, Timeout, CreatingWatchdog, ResumingWatchdog,
     StoppingWatchdog, IdleTimeout, ArchiveTimeout, StopTimeout, StartFailed
<1>4. ASSUME NEW j \in jobs, RunJob(j)  PROVE AsLastAsked'
  BY <1>4 DEF RunJob, CreateJob, StopJob, ResumeRead, StartFailed, Job
<1>5. ASSUME NEW x \in reading, ResumeWrite(x)  PROVE AsLastAsked'
  BY <1>5 DEF ResumeWrite, Unchanged, Reading
<1>6. CASE \E y \in turns : TurnEnd(y)  BY <1>6 DEF TurnEnd
<1>7. CASE HostLost  BY <1>7 DEF HostLost
<1>8. CASE UNCHANGED vars  BY <1>8 DEF vars
<1>9. QED  BY <1>1, <1>2, <1>3, <1>4, <1>5, <1>6, <1>7, <1>8 DEF Next

\* Late, repeated or lost runner jobs never overturn the last command.
THEOREM LastCommandStands == Spec => []AsLastAsked
<1>1. Init => AsLastAsked  BY DEF Init, AsLastAsked, Active
<1>2. QED  BY <1>1, AskedStep, TypeCorrect, PTL DEF Spec

\* No transaction selects a failed or orphaned row.
THEOREM EndIsFinal == Spec => EndedIsFinal
<1>1. ASSUME TypeOK, [Next]_vars
      PROVE  [\A s \in Sessions : status[s] \in Ended =>
                status'[s] = status[s] /\ version'[s] = version[s]]_vars
  <2> USE DEF TypeOK, SetStatus, Bump, Active, Ended
  <2>1. ASSUME NEW s \in Sessions,
               Command(s) \/ TurnStart(s) \/ RecoverFails(s) \/ Watchdog(s) \/ Timeout(s)
        PROVE  \A t \in Sessions : status[t] \in Ended =>
                  status'[t] = status[t] /\ version'[t] = version[t]
    BY <1>1, <2>1 DEF Command, Create, Stop, Archive, Resume, Restart, TurnStart, RecoverFails,
       Watchdog, Timeout, CreatingWatchdog, ResumingWatchdog, StoppingWatchdog,
       IdleTimeout, ArchiveTimeout, StopTimeout, StartFailed
  <2>2. ASSUME NEW j \in jobs, RunJob(j)
        PROVE  \A t \in Sessions : status[t] \in Ended =>
                  status'[t] = status[t] /\ version'[t] = version[t]
    BY <1>1, <2>2 DEF RunJob, CreateJob, StopJob, ResumeRead, StartFailed, Job
  <2>3. ASSUME NEW x \in reading, ResumeWrite(x)
        PROVE  \A t \in Sessions : status[t] \in Ended =>
                  status'[t] = status[t] /\ version'[t] = version[t]
    BY <1>1, <2>3 DEF ResumeWrite, Unchanged, Reading
  <2>4. CASE HostLost  BY <1>1, <2>4 DEF HostLost
  <2>5. CASE \E y \in turns : TurnEnd(y)  BY <2>5 DEF TurnEnd
  <2>6. QED  BY <1>1, <2>1, <2>2, <2>3, <2>4, <2>5 DEF Next, vars
<1>2. QED  BY <1>1, TypeCorrect, PTL DEF Spec, EndedIsFinal

-----------------------------------------------------------------------------
(* A resume job may sit between its SELECT and its UPDATE, and a turn between *)
(* its admission and its end, for any time.                                 *)

\* A read or a turn that could still be written back holds what the row holds now, one
\* version has one turn at a time, and the history of restarts never runs ahead of it.
FreshInv ==
    /\ TypeOK /\ RestartIsFresh
    /\ \A x \in reading :
         /\ x.version <= version[x.session]
         /\ Unchanged(x) => x.token = token[x.session]
    /\ \A y \in turns :
         /\ y.version <= version[y.session]
         /\ y.version = version[y.session] =>
              /\ status[y.session] \notin {"none", "creating", "resuming"}
              /\ y.token = token[y.session]
    /\ \A y, z \in turns : y.session = z.session /\ y.version = z.version => y = z
    /\ \A s \in Sessions :
         /\ restartedAt[s] <= version[s]
         /\ status[s] \in {"none", "creating"} => restartedAt[s] = 0

LEMMA FreshStep ==
    ASSUME FreshInv, [Next]_vars
    PROVE  FreshInv'
<1> TypeOK /\ TypeOK'  BY TypeStep DEF FreshInv
<1> USE LifecycleAssumption DEF FreshInv, TypeOK, RestartIsFresh, Unchanged, SetStatus,
        Ask, Bump, Reading
<1>1. ASSUME NEW s \in Sessions, Create(s)  PROVE FreshInv'
  BY <1>1 DEF Create
<1>2. ASSUME NEW s \in Sessions, Stop(s) \/ Archive(s) \/ Resume(s)  PROVE FreshInv'
  BY <1>2 DEF Stop, Archive, Resume, Active
<1>3. ASSUME NEW s \in Sessions, Restart(s)  PROVE FreshInv'
  BY <1>3 DEF Restart
<1>4. ASSUME NEW s \in Sessions, TurnStart(s) \/ RecoverFails(s)  PROVE FreshInv'
  BY <1>4 DEF TurnStart, RecoverFails, Ended
<1>5. ASSUME NEW s \in Sessions, Watchdog(s) \/ Timeout(s)  PROVE FreshInv'
  BY <1>5 DEF Watchdog, Timeout, CreatingWatchdog, ResumingWatchdog,
     StoppingWatchdog, IdleTimeout, ArchiveTimeout, StopTimeout, StartFailed
<1>6. ASSUME NEW j \in jobs, RunJob(j)  PROVE FreshInv'
  BY <1>6 DEF RunJob, CreateJob, StopJob, ResumeRead, StartFailed, Job, Minted
<1>7. ASSUME NEW x \in reading, ResumeWrite(x)  PROVE FreshInv'
  BY <1>7 DEF ResumeWrite, Minted, Ended
<1>8. ASSUME NEW y \in turns, TurnEnd(y)  PROVE FreshInv'
  <2> DEFINE s == y.session
  <2>1. y \in Reading /\ s \in Sessions /\ y.version \in 0..MaxVersion /\ y.token \in Tokens
    OBVIOUS
  <2>2. PICK t \in Reported(s, y.version, y.token) :
          token' = IF /\ t # NoToken
                      /\ status[s] \in {"running", "idle"} /\ version[s] = y.version
                     THEN [token EXCEPT ![s] = t] ELSE token
    BY <1>8 DEF TurnEnd
  <2>3. UNCHANGED <<status, version, reading, restartedAt>> /\ turns' = turns \ {y}
    BY <1>8 DEF TurnEnd
  <2>4. CASE token' = token  BY <2>3, <2>4
  <2>5. CASE /\ t # NoToken
             /\ status[s] \in {"running", "idle"} /\ version[s] = y.version
             /\ token' = [token EXCEPT ![s] = t]
    <3>1. y.token = token[s]  BY <2>5
    <3>2. restartedAt[s] > 0 => t[1] = s /\ t[2] >= restartedAt[s]
      <4>1. restartedAt[s] <= y.version  BY <2>1, <2>5
      <4>2. restartedAt[s] > 0 /\ token[s] # NoToken =>
              token[s][1] = s /\ token[s][2] >= restartedAt[s]
        BY <2>1
      <4>3. CASE y.token = NoToken
        <5>1. t[1] = s /\ t[2] = y.version  BY <2>1, <2>2, <2>5, <4>3, ReportBegins
        <5>2. QED  BY <4>1, <5>1
      <4>4. CASE y.token # NoToken
        <5>1. y.token \in Named  BY <2>1, <4>4 DEF Tokens
        <5>2. t[1] = y.token[1] /\ t[2] = y.token[2]
          BY <2>1, <2>2, <2>5, <4>4, <5>1, ReportContinues
        <5>3. QED  BY <3>1, <4>2, <4>4, <5>2
      <4>5. QED  BY <4>3, <4>4
    <3>3. RestartIsFresh'  BY <2>3, <2>5, <3>2
    <3>4. \A x \in reading' : Unchanged(x)' => x.session # s  BY <2>3, <2>5
    <3>5. \A z \in turns' : z.version = version'[z.session] => z.session # s
      BY <2>3, <2>5
    <3>6. QED  BY <2>3, <2>5, <3>3, <3>4, <3>5
  <2>6. QED  BY <2>2, <2>4, <2>5
<1>9. CASE HostLost  BY <1>9 DEF HostLost
<1>10. CASE UNCHANGED vars  BY <1>10 DEF vars
<1>11. QED
  BY <1>1, <1>2, <1>3, <1>4, <1>5, <1>6, <1>7, <1>8, <1>9, <1>10 DEF Next, Command

\* After a restart no token from before it, nor an inherited one, returns.
THEOREM RestartStartsFresh == Spec => []RestartIsFresh
<1>1. Init => FreshInv
  BY LifecycleAssumption DEF Init, FreshInv, RestartIsFresh, TypeOK, Statuses, Tokens,
     Reasons
<1>2. FreshInv => RestartIsFresh  BY DEF FreshInv
<1>3. QED  BY <1>1, <1>2, FreshStep, PTL DEF Spec

\* A session that was not started yet has no conversation to lose.
UnstartedIsBlank ==
    \A s \in Sessions : status[s] \in {"none", "creating"} => token[s] = NoToken

LEMMA BlankStep ==
    ASSUME FreshInv, UnstartedIsBlank, [Next]_vars
    PROVE  UnstartedIsBlank'
<1> USE LifecycleAssumption DEF FreshInv, TypeOK, UnstartedIsBlank, SetStatus, Bump
<1>1. ASSUME NEW s \in Sessions, Command(s)  PROVE UnstartedIsBlank'
  BY <1>1 DEF Command, Create, Stop, Archive, Resume, Restart, Active
<1>2. ASSUME NEW s \in Sessions, TurnStart(s) \/ RecoverFails(s)  PROVE UnstartedIsBlank'
  BY <1>2 DEF TurnStart, RecoverFails, Ended
<1>3. ASSUME NEW s \in Sessions, Watchdog(s) \/ Timeout(s)  PROVE UnstartedIsBlank'
  BY <1>3 DEF Watchdog, Timeout, CreatingWatchdog, ResumingWatchdog,
     StoppingWatchdog, IdleTimeout, ArchiveTimeout, StopTimeout, StartFailed
<1>4. ASSUME NEW j \in jobs, RunJob(j)  PROVE UnstartedIsBlank'
  BY <1>4 DEF RunJob, CreateJob, StopJob, ResumeRead, StartFailed, Job
<1>5. ASSUME NEW x \in reading, ResumeWrite(x)  PROVE UnstartedIsBlank'
  BY <1>5 DEF ResumeWrite, Unchanged, Ended, Reading
<1>6. CASE \E y \in turns : TurnEnd(y)  BY <1>6 DEF TurnEnd
<1>7. CASE HostLost  BY <1>7 DEF HostLost
<1>8. CASE UNCHANGED vars  BY <1>8 DEF vars
<1>9. QED  BY <1>1, <1>2, <1>3, <1>4, <1>5, <1>6, <1>7, <1>8 DEF Next

\* No command, job, timeout or failure takes a session away from its conversation: a
\* resume writes back the token it read, which is the row's; a turn writes a later one of
\* the conversation it was given, which is the row's if its version still is; only a
\* restart clears it.
THEOREM ConversationStays == Spec => ConversationKept
<1>1. Init => FreshInv /\ UnstartedIsBlank
  BY LifecycleAssumption DEF Init, FreshInv, RestartIsFresh, TypeOK, Statuses, Tokens,
     Reasons, UnstartedIsBlank
<1>2. FreshInv /\ UnstartedIsBlank /\ [Next]_vars => (FreshInv /\ UnstartedIsBlank)'
  BY FreshStep, BlankStep
<1>3. FreshInv /\ UnstartedIsBlank /\ [Next]_vars =>
        [\A s \in Sessions :
           token[s] # NoToken /\ token'[s] # token[s] =>
              IF token'[s] = NoToken THEN restartedAt'[s] = version'[s]
                                     ELSE Continues(token[s], token'[s])]_vars
  <2> SUFFICES ASSUME FreshInv, UnstartedIsBlank, Next,
                      NEW s \in Sessions, token[s] # NoToken, token'[s] # token[s]
               PROVE  IF token'[s] = NoToken THEN restartedAt'[s] = version'[s]
                                             ELSE Continues(token[s], token'[s])
    BY DEF vars
  <2> DEFINE Goal == IF token'[s] = NoToken THEN restartedAt'[s] = version'[s]
                                            ELSE Continues(token[s], token'[s])
  <2> USE DEF FreshInv, TypeOK
  <2>1. ASSUME NEW r \in Sessions, Restart(r)  PROVE Goal
    BY <2>1 DEF Restart, Bump
  <2>2. ASSUME NEW y \in turns, TurnEnd(y)  PROVE Goal
    <3>1. PICK t \in Reported(y.session, y.version, y.token) :
            token' = IF /\ t # NoToken
                        /\ status[y.session] \in {"running", "idle"}
                        /\ version[y.session] = y.version
                       THEN [token EXCEPT ![y.session] = t] ELSE token
      BY <2>2 DEF TurnEnd
    <3>2. /\ t # NoToken /\ version[y.session] = y.version
          /\ s = y.session /\ token'[s] = t
      BY <3>1 DEF Reading
    <3>3. y.token = token[s] /\ y.version \in 0..MaxVersion /\ y.token \in Tokens
      BY <3>2 DEF Reading
    <3>4. /\ t \in Reported(s, y.version, y.token)
          /\ t # y.token /\ y.token # NoToken /\ y.token \in Named
      BY <3>1, <3>2, <3>3 DEF Tokens
    <3>5. Continues(y.token, t)
      BY <3>2, <3>3, <3>4, ReportContinues
    <3>6. QED  BY <3>2, <3>3, <3>5
  <2>3. ASSUME NEW j \in jobs, CreateJob(j)  PROVE FALSE
    BY <2>3 DEF CreateJob, UnstartedIsBlank, Job
  <2>4. ASSUME NEW x \in reading, ResumeWrite(x)  PROVE FALSE
    <3>1. Unchanged(x) => x.token = token[x.session]  OBVIOUS
    <3>2. QED  BY <2>4, <3>1 DEF ResumeWrite, Minted, Reading
  <2>5. CASE token' = token  BY <2>5
  <2>6. QED
    BY <2>1, <2>2, <2>3, <2>4, <2>5 DEF Next, Command, Create, Stop, Archive, Resume,
       RecoverFails, Watchdog, Timeout, CreatingWatchdog, ResumingWatchdog,
       StoppingWatchdog, IdleTimeout, ArchiveTimeout, StopTimeout, RunJob,
       StopJob, ResumeRead, TurnStart, HostLost
<1>4. QED  BY <1>1, <1>2, <1>3, PTL DEF Spec, ConversationKept

-----------------------------------------------------------------------------
(* The dispatcher's notices.                                               *)

LEMMA StageFacts ==
    ASSUME NEW n \in Notices
    PROVE  /\ n \in Terminal => StagesOf(n) = Stages
           /\ n \in ArchiveOrders => StagesOf(n) = {"archive"}
           /\ n \notin Terminal \cup ArchiveOrders => StagesOf(n) = {"post"}
           /\ FirstStage(n) \in StagesOf(n)
           /\ FirstStage(n) = "archive" => n \in ArchiveOrders
  BY DispatcherAssumption DEF StagesOf, FirstStage, Stages

\* Every stage of a notice was done, or it is an archive order found stale.
Settled(n) ==
    n \in skipped \/ \A s \in StagesOf(n) : <<n, s>> \in done /\ (s = "archive" => marked)

\* Discord showed a post as often as it forgot its nonce, and once more while it
\* remembers it.
PostsCounted == \A n \in Notices : shown[n] <= forgets[n] + (IF n \in known THEN 1 ELSE 0)

\* A handler is at a stage of a notice that was written, past the stages that are done.
AtStage(d) ==
    /\ notice[d] \in written /\ stage[d] \in StagesOf(notice[d])
    /\ stage[d] = "archive" /\ notice[d] \in Terminal => <<notice[d], "post">> \in done
    /\ pc[d] = "look" => notice[d] \in ArchiveOrders
    /\ pc[d] = "ack" => Settled(notice[d])

HandlerInv == \A d \in Dispatchers : pc[d] # "idle" => AtStage(d)

\* Between claim and commit the handler holds the row of its key, which is not done.
RowHeld ==
    \A d \in Dispatchers :
        pc[d] \in {"act", "finalize"} => owner[Key(d)] = d /\ Key(d) \notin finished

\* What the rows and the stream say of a notice is about one that was written.
RowsHonest ==
    /\ \A n \in Notices : copies[n] > 0 => n \in written
    /\ \A k \in done : k[2] = "archive" => marked

DispatchInv ==
    DispatchTypeOK /\ PostsCounted /\ HandlerInv /\ RowHeld /\ RowsHonest /\ NothingDropped

LEMMA DispatchStarts == DispatchInit => DispatchInv
<1> SUFFICES ASSUME DispatchInit PROVE DispatchInv
  OBVIOUS
<1>1. /\ copies \in [Notices -> 0..MaxCopies] /\ tries \in [Notices -> 0..MaxDeliveries]
      /\ owner \in [Keys -> Dispatchers \cup {NoOne}] /\ stage \in [Dispatchers -> Stages]
  BY DispatcherAssumption DEF DispatchInit, Stages
<1>2. /\ pc \in [Dispatchers -> {"idle", "look", "claim", "act", "finalize", "ack", "failed"}]
      /\ notice \in [Dispatchers -> written \cup {NoOne}]
      /\ shown \in [Notices -> 0..MaxForgets + 1] /\ forgets \in [Notices -> 0..MaxForgets]
  BY DispatcherAssumption DEF DispatchInit
<1>3. DispatchTypeOK
  BY <1>1, <1>2 DEF DispatchInit, DispatchTypeOK
<1>4. PostsCounted /\ HandlerInv /\ RowHeld /\ RowsHonest /\ NothingDropped
  BY DEF DispatchInit, PostsCounted, HandlerInv, RowHeld, RowsHonest, NothingDropped
<1>5. QED  BY <1>3, <1>4 DEF DispatchInv

\* What the invariant says of a handler at work.
LEMMA AtWork ==
    ASSUME DispatchInv, NEW d \in Dispatchers, pc[d] # "idle"
    PROVE  /\ notice[d] \in written /\ notice[d] \in Notices /\ Key(d) \in Keys
           /\ stage[d] \in StagesOf(notice[d]) /\ stage[d] \in Stages
  BY DEF DispatchInv, HandlerInv, AtStage, DispatchTypeOK, Key, Keys

-----------------------------------------------------------------------------
\* A post appears only when Discord does not remember its nonce.
LEMMA PostsStep == DispatchInv /\ [DispatchNext]_dispatchVars => PostsCounted'
<1> SUFFICES ASSUME DispatchInv, [DispatchNext]_dispatchVars PROVE PostsCounted'
  OBVIOUS
<1> USE DEF DispatchInv, DispatchTypeOK, PostsCounted
<1>1. ASSUME NEW n \in Notices, Forget(n) PROVE PostsCounted'
  BY <1>1, DispatcherAssumption DEF Forget
<1>2. ASSUME NEW d \in Dispatchers, Act(d) PROVE PostsCounted'
  <2>1. pc[d] = "act" /\ notice[d] \in Notices
    BY <1>2, AtWork DEF Act
  <2>2. CASE Post(notice[d])
    BY <2>1, <2>2, DispatcherAssumption DEF Post
  <2>3. CASE UNCHANGED <<shown, known, forgets>>
    BY <2>3
  <2>4. QED  BY <1>2, <2>2, <2>3 DEF Act, discordVars
<1>3. CASE UNCHANGED <<shown, known, forgets>>
  BY <1>3
<1>4. QED
  BY <1>1, <1>2, <1>3 DEF DispatchNext, dispatchVars, discordVars, Step, Revive, Write, Replay, ExpireKey,
     Take, LookAtSession, Claim, Finalize, Ack, Fail, Crash, handlerVars, claimVars, streamVars

-----------------------------------------------------------------------------
\* Rows, entries and handlers keep their types; PostsStep bounds the posts shown.
LEMMA DispatchTypeStep == DispatchInv /\ [DispatchNext]_dispatchVars => DispatchTypeOK'
<1> SUFFICES ASSUME DispatchInv, [DispatchNext]_dispatchVars PROVE DispatchTypeOK'
  OBVIOUS
<1> USE DEF DispatchTypeOK
<1>1. DispatchTypeOK  BY DEF DispatchInv
<1>2. ASSUME NEW n \in Notices, Write(n) PROVE DispatchTypeOK'
  <2>1. copies' \in [Notices -> 0..MaxCopies] /\ session' \in {"live", "archived", "ended"}
    BY <1>1, <1>2, DispatcherAssumption DEF Write
  <2>2. QED
    BY <1>1, <1>2, <2>1 DEF Write, claimVars, handlerVars, discordVars
<1>3. ASSUME NEW n \in Notices, Forget(n) PROVE DispatchTypeOK'
  <2>1. forgets' \in [Notices -> 0..MaxForgets] /\ known' \subseteq Notices
    BY <1>1, <1>3, DispatcherAssumption DEF Forget
  <2>2. QED
    BY <1>1, <1>3, <2>1 DEF Forget, streamVars, claimVars, handlerVars
<1>4. ASSUME NEW n \in Notices, Replay(n) PROVE DispatchTypeOK'
  <2>1. copies' \in [Notices -> 0..MaxCopies] /\ tries' \in [Notices -> 0..MaxDeliveries]
    BY <1>1, <1>4, DispatcherAssumption DEF Replay
  <2>2. QED
    BY <1>1, <1>4, <2>1 DEF Replay, claimVars, handlerVars, discordVars
<1>5. ASSUME NEW k \in Keys, ExpireKey(k) PROVE DispatchTypeOK'
  BY <1>1, <1>5 DEF ExpireKey, streamVars, handlerVars, discordVars
<1>6. ASSUME NEW d \in Dispatchers, NEW n \in Notices, Take(d, n) PROVE DispatchTypeOK'
  <2>1. /\ tries' \in [Notices -> 0..MaxDeliveries]
        /\ n \in written
    BY <1>1, <1>6, DispatcherAssumption DEF Take, DispatchInv, RowsHonest
  <2>2. pc' \in [Dispatchers -> {"idle", "look", "claim", "act", "finalize", "ack", "failed"}]
        /\ stage' \in [Dispatchers -> Stages] /\ notice' \in [Dispatchers -> written \cup {NoOne}]
    BY <1>1, <1>6, <2>1 DEF Take, Goto, FirstStage, Stages
  <2>3. QED
    BY <1>1, <1>6, <2>1, <2>2 DEF Take, claimVars, discordVars
<1>7. ASSUME NEW d \in Dispatchers, LookAtSession(d) PROVE DispatchTypeOK'
  BY <1>1, <1>7, AtWork DEF LookAtSession, Goto, claimVars, discordVars
<1>8. ASSUME NEW d \in Dispatchers, Claim(d) PROVE DispatchTypeOK'
  <2>1. pc' \in [Dispatchers -> {"idle", "look", "claim", "act", "finalize", "ack", "failed"}]
        /\ stage' \in [Dispatchers -> Stages]
    BY <1>1, <1>8 DEF Claim, NextStage, Goto, Stages
  <2>2. owner' \in [Keys -> Dispatchers \cup {NoOne}]
    BY <1>1, <1>8 DEF Claim
  <2>3. QED
    BY <1>1, <1>8, <2>1, <2>2 DEF Claim, streamVars, discordVars
<1>9. ASSUME NEW d \in Dispatchers, Act(d) PROVE DispatchTypeOK'
  <2>1. /\ notice[d] \in Notices /\ pc[d] = "act"
    BY <1>9, AtWork DEF Act
  <2>2. pc' \in [Dispatchers -> {"idle", "look", "claim", "act", "finalize", "ack", "failed"}]
    BY <1>1, <1>9 DEF Act, Goto
  <2>3. owner' \in [Keys -> Dispatchers \cup {NoOne}]
    BY <1>1, <1>9 DEF Act
  <2>4. /\ known' \subseteq Notices /\ archived' \in BOOLEAN
        /\ forgets' = forgets
    BY <1>1, <1>9, <2>1 DEF Act, Post, discordVars
  <2>5. shown' \in [Notices -> 0..MaxForgets + 1]
    <3>1. CASE shown' = shown
      BY <1>1, <3>1
    <3>2. CASE shown' = [shown EXCEPT ![notice[d]] = @ + 1] /\ notice[d] \notin known
      BY <1>1, <2>1, <3>2, DispatcherAssumption DEF DispatchInv, PostsCounted
    <3>3. QED  BY <1>9, <3>1, <3>2 DEF Act, Post, discordVars
  <2>6. QED
    BY <1>1, <1>9, <2>2, <2>3, <2>4, <2>5 DEF Act, streamVars
<1>10. ASSUME NEW d \in Dispatchers, Finalize(d) PROVE DispatchTypeOK'
  <2>1. Key(d) \in Keys  BY <1>10, AtWork DEF Finalize
  <2>2. pc' \in [Dispatchers -> {"idle", "look", "claim", "act", "finalize", "ack", "failed"}]
        /\ stage' \in [Dispatchers -> Stages]
    BY <1>1, <1>10 DEF Finalize, NextStage, Goto, Stages
  <2>3. owner' \in [Keys -> Dispatchers \cup {NoOne}]
    BY <1>1, <1>10 DEF Finalize
  <2>4. marked' \in BOOLEAN /\ finished' \subseteq done' /\ done' \subseteq Keys
    BY <1>1, <1>10, <2>1 DEF Finalize
  <2>5. QED
    BY <1>1, <1>10, <2>2, <2>3, <2>4 DEF Finalize, streamVars, discordVars
<1>11. ASSUME NEW d \in Dispatchers, Ack(d) \/ Fail(d) \/ Crash(d) PROVE DispatchTypeOK'
  <2>1. notice[d] \in written /\ notice[d] \in Notices
    BY <1>11, AtWork DEF Ack, Fail, Crash
  <2>2. pc' \in [Dispatchers -> {"idle", "look", "claim", "act", "finalize", "ack", "failed"}]
        /\ notice' \in [Dispatchers -> written \cup {NoOne}]
    BY <1>1, <1>11 DEF Ack, Fail, Crash, Rest, Goto
  <2>3. copies' \in [Notices -> 0..MaxCopies] /\ dead' \subseteq written
    BY <1>1, <1>11, <2>1 DEF Ack, Fail, Crash, streamVars
  <2>4. owner' \in [Keys -> Dispatchers \cup {NoOne}]
    BY <1>1, <1>11 DEF Ack, Fail, Crash, claimVars
  <2>5. QED
    BY <1>1, <1>11, <2>2, <2>3, <2>4
    DEF Ack, Fail, Crash, Rest, claimVars, streamVars, discordVars
<1>12. CASE Revive \/ UNCHANGED dispatchVars
  BY <1>1, <1>12 DEF Revive, dispatchVars, streamVars, claimVars, handlerVars, discordVars
<1>13. QED
  BY <1>2, <1>3, <1>4, <1>5, <1>6, <1>7, <1>8, <1>9, <1>10, <1>11, <1>12
  DEF DispatchNext, Step

-----------------------------------------------------------------------------
\* What was written, done, marked or found stale remains so.
LEMMA DeliveryGrows ==
    ASSUME DispatchInv, [DispatchNext]_dispatchVars
    PROVE  /\ done \subseteq done' /\ skipped \subseteq skipped' /\ written \subseteq written'
           /\ marked => marked'
<1>1. ASSUME NEW d \in Dispatchers, Finalize(d)
      PROVE  done \subseteq done' /\ skipped' = skipped /\ written' = written /\ (marked => marked')
  BY <1>1 DEF Finalize, streamVars, DispatchInv, DispatchTypeOK
<1>2. ASSUME NEW d \in Dispatchers, LookAtSession(d)
      PROVE  done' = done /\ skipped \subseteq skipped' /\ written' = written /\ marked' = marked
  BY <1>2 DEF LookAtSession, claimVars
<1>3. ASSUME NEW n \in Notices, Write(n)
      PROVE  done' = done /\ skipped' = skipped /\ written \subseteq written' /\ marked' = marked
  BY <1>3 DEF Write, claimVars
<1>4. ASSUME NEW d \in Dispatchers,
             Claim(d) \/ Act(d) \/ Ack(d) \/ Fail(d) \/ Crash(d) \/ \E n \in Notices : Take(d, n)
      PROVE  UNCHANGED <<done, skipped, written, marked>>
  BY <1>4 DEF Claim, Act, Ack, Fail, Crash, Take, claimVars, streamVars
<1>5. ASSUME \/ Revive \/ \E n \in Notices : Forget(n) \/ Replay(n)
             \/ \E k \in Keys : ExpireKey(k)
             \/ UNCHANGED dispatchVars
      PROVE  UNCHANGED <<done, skipped, written, marked>>
  BY <1>5 DEF Revive, Forget, Replay, ExpireKey, dispatchVars, claimVars, streamVars
<1>6. QED  BY <1>1, <1>2, <1>3, <1>4, <1>5 DEF DispatchNext, Step

\* So does a notice that is settled.
LEMMA SettledStays ==
    ASSUME DispatchInv, [DispatchNext]_dispatchVars, NEW n \in Notices, Settled(n)
    PROVE  Settled(n)'
  BY DeliveryGrows DEF Settled

\* A step of one handler leaves the others where they are.
LEMMA OthersKeepStage ==
    ASSUME DispatchInv, [DispatchNext]_dispatchVars, NEW d \in Dispatchers,
           \A e \in Dispatchers \ {d} :
               pc'[e] = pc[e] /\ notice'[e] = notice[e] /\ stage'[e] = stage[e],
           pc'[d] # "idle" => AtStage(d)'
    PROVE  HandlerInv'
<1> SUFFICES ASSUME NEW e \in Dispatchers, pc'[e] # "idle", e # d PROVE AtStage(e)'
  BY DEF HandlerInv
<1>1. AtStage(e) /\ notice[e] \in Notices
  BY AtWork DEF DispatchInv, HandlerInv
<1>2. pc[e] = "ack" => Settled(notice[e])'
  BY <1>1, SettledStays DEF AtStage
<1>3. QED  BY <1>1, <1>2, DeliveryGrows DEF AtStage, Settled

\* A stage that is done leads to the archive stage or to a notice that is settled.
LEMMA NextStageInv ==
    ASSUME DispatchInv, [DispatchNext]_dispatchVars, NEW d \in Dispatchers,
           pc[d] \in {"claim", "finalize"}, NextStage(d), notice' = notice,
           Key(d) \in done', stage[d] = "archive" => marked'
    PROVE  AtStage(d)'
<1>1. /\ notice[d] \in Notices /\ notice[d] \in written' /\ AtStage(d)
      /\ stage[d] \in {"post", "archive"}
  BY AtWork, DeliveryGrows DEF DispatchInv, HandlerInv, Stages
<1>2. CASE stage[d] = "post" /\ notice[d] \in Terminal
  BY <1>1, <1>2, StageFacts DEF NextStage, Goto, AtStage, DispatchInv, DispatchTypeOK, Stages, Key
<1>3. CASE ~(stage[d] = "post" /\ notice[d] \in Terminal)
  <2>1. \A s \in StagesOf(notice[d]) :
            <<notice[d], s>> \in done' /\ (s = "archive" => marked')
    <3>1. CASE notice[d] \in Terminal
      BY <1>1, <1>3, <3>1, StageFacts, DeliveryGrows DEF AtStage, Stages, Key
    <3>2. CASE notice[d] \notin Terminal
      BY <1>1, <3>2, StageFacts DEF AtStage, Key
    <3>3. QED  BY <3>1, <3>2
  <2>2. pc'[d] = "ack" /\ stage' = stage
    BY <1>3 DEF NextStage, Goto, DispatchInv, DispatchTypeOK
  <2>3. QED  BY <1>1, <2>1, <2>2, DeliveryGrows DEF AtStage, Settled
<1>4. QED  BY <1>2, <1>3

\* Each action puts its handler at a stage of its notice.
LEMMA HandlerStep == DispatchInv /\ [DispatchNext]_dispatchVars => HandlerInv'
<1> SUFFICES ASSUME DispatchInv, [DispatchNext]_dispatchVars PROVE HandlerInv'
  OBVIOUS
<1>1. DispatchTypeOK  BY DEF DispatchInv
<1>2. ASSUME NEW d \in Dispatchers, NEW n \in Notices, Take(d, n) PROVE HandlerInv'
  <2>1. /\ notice'[d] = n /\ stage'[d] = FirstStage(n)
        /\ pc'[d] = IF n \in ArchiveOrders THEN "look" ELSE "claim"
    BY <1>1, <1>2 DEF Take, Goto, DispatchTypeOK
  <2>2. n \in written'
    BY <1>1, <1>2 DEF Take, DispatchInv, RowsHonest, DispatchTypeOK
  <2>3. AtStage(d)'
    BY <2>1, <2>2, StageFacts, DispatcherAssumption DEF AtStage
  <2>4. QED
    BY <1>2, <2>3, OthersKeepStage DEF Take, Goto, DispatchInv, DispatchTypeOK
<1>3. ASSUME NEW d \in Dispatchers, LookAtSession(d) PROVE HandlerInv'
  <2>1. AtStage(d) /\ notice[d] \in Notices
    BY <1>3, AtWork DEF LookAtSession, DispatchInv, HandlerInv
  <2>2. AtStage(d)'
    <3>1. CASE session = "live"
      BY <1>1, <1>3, <2>1, <3>1 DEF LookAtSession, Goto, AtStage, Settled, DispatchTypeOK, claimVars
    <3>2. CASE session # "live"
      BY <1>1, <1>3, <2>1, <3>2 DEF LookAtSession, Goto, AtStage, DispatchTypeOK, claimVars
    <3>3. QED  BY <3>1, <3>2
  <2>3. QED
    BY <1>1, <1>3, <2>2, OthersKeepStage DEF LookAtSession, Goto, DispatchTypeOK
<1>4. ASSUME NEW d \in Dispatchers, Claim(d) PROVE HandlerInv'
  <2>1. AtStage(d) /\ notice[d] \in Notices /\ pc[d] = "claim"
    BY <1>4, AtWork DEF Claim, DispatchInv, HandlerInv
  <2>2. CASE Key(d) \in finished
    <3>1. Key(d) \in done /\ (stage[d] = "archive" => marked)
      BY <1>1, <2>2 DEF DispatchInv, RowsHonest, DispatchTypeOK, Key
    <3>2. AtStage(d)'
      BY <1>4, <2>1, <2>2, <3>1, DeliveryGrows, NextStageInv DEF Claim
    <3>3. QED
      BY <1>1, <1>4, <2>2, <3>2, OthersKeepStage DEF Claim, NextStage, Goto, DispatchTypeOK
  <2>3. CASE Key(d) \notin finished
    <3>1. AtStage(d)'
      BY <1>1, <1>4, <2>1, <2>3, DeliveryGrows DEF Claim, Goto, AtStage, DispatchTypeOK
    <3>2. QED
      BY <1>1, <1>4, <2>3, <3>1, OthersKeepStage DEF Claim, Goto, DispatchTypeOK
  <2>4. QED  BY <2>2, <2>3
<1>5. ASSUME NEW d \in Dispatchers, Act(d) PROVE HandlerInv'
  <2>1. AtStage(d) /\ pc'[d] \in {"finalize", "failed"}
    BY <1>1, <1>5 DEF Act, Goto, DispatchInv, HandlerInv, DispatchTypeOK
  <2>2. AtStage(d)'
    BY <1>5, <2>1 DEF Act, AtStage, streamVars
  <2>3. QED
    BY <1>1, <1>5, <2>2, OthersKeepStage DEF Act, Goto, DispatchTypeOK
<1>6. ASSUME NEW d \in Dispatchers, Finalize(d) PROVE HandlerInv'
  <2>1. AtStage(d) /\ pc[d] = "finalize"
    BY <1>6 DEF Finalize, DispatchInv, HandlerInv
  <2>2. CASE pc' = [pc EXCEPT ![d] = "failed"] /\ stage' = stage /\ done' = done
    <3>1. AtStage(d)'
      BY <1>1, <1>6, <2>1, <2>2 DEF Finalize, AtStage, DispatchTypeOK, streamVars
    <3>2. QED
      BY <1>1, <1>6, <2>2, <3>1, OthersKeepStage DEF Finalize, DispatchTypeOK
  <2>3. CASE NextStage(d) /\ Key(d) \in done' /\ (stage[d] = "archive" => marked')
    <3>1. AtStage(d)'
      BY <1>6, <2>1, <2>3, NextStageInv DEF Finalize
    <3>2. QED
      BY <1>1, <1>6, <2>3, <3>1, OthersKeepStage DEF Finalize, NextStage, Goto, DispatchTypeOK
  <2>4. QED  BY <1>1, <1>6, <2>2, <2>3 DEF Finalize, Goto, DispatchTypeOK
<1>7. ASSUME NEW d \in Dispatchers, Ack(d) \/ Fail(d) \/ Crash(d) PROVE HandlerInv'
  BY <1>1, <1>7, OthersKeepStage DEF Ack, Fail, Crash, Rest, Goto, DispatchTypeOK
<1>8. ASSUME handlerVars' = handlerVars PROVE HandlerInv'
  <2> SUFFICES ASSUME NEW d \in Dispatchers, pc'[d] # "idle" PROVE AtStage(d)'
    BY DEF HandlerInv
  <2>1. AtStage(d) /\ notice[d] \in Notices
    BY <1>8, AtWork DEF handlerVars, DispatchInv, HandlerInv
  <2>2. QED
    BY <1>8, <2>1, SettledStays, DeliveryGrows DEF handlerVars, AtStage, Settled
<1>9. QED
  BY <1>2, <1>3, <1>4, <1>5, <1>6, <1>7, <1>8
  DEF DispatchNext, Step, dispatchVars, Revive, Write, Forget, Replay, ExpireKey

-----------------------------------------------------------------------------
\* A row has one holder: whoever releases or finishes another key leaves it alone.
LEMMA RowHeldStep == DispatchInv /\ [DispatchNext]_dispatchVars => RowHeld'
<1> SUFFICES ASSUME DispatchInv, [DispatchNext]_dispatchVars,
                    NEW e \in Dispatchers, pc'[e] \in {"act", "finalize"}
             PROVE  owner'[Key(e)'] = e /\ Key(e)' \notin finished'
  BY DEF RowHeld
<1>1. DispatchTypeOK /\ RowHeld  BY DEF DispatchInv
<1>2. e # NoOne  BY DispatcherAssumption
<1>3. ASSUME pc[e] \in {"act", "finalize"}
      PROVE  owner[Key(e)] = e /\ Key(e) \notin finished /\ Key(e) \in Keys
  BY <1>1, <1>3, AtWork DEF RowHeld
<1>4. ASSUME NEW d \in Dispatchers, Claim(d)
      PROVE  owner'[Key(e)'] = e /\ Key(e)' \notin finished'
  <2>1. Key(d) \in Keys /\ owner[Key(d)] = NoOne  BY <1>4, AtWork DEF Claim
  <2>2. CASE e = d
    <3>1. Key(d) \notin finished /\ pc'[d] = "act"
      BY <1>1, <1>4, <2>2 DEF Claim, NextStage, Goto, DispatchTypeOK
    <3>2. QED
      BY <1>1, <1>4, <2>1, <2>2, <3>1 DEF Claim, DispatchTypeOK, Key
  <2>3. CASE e # d
    <3>1. pc[e] = pc'[e] /\ Key(e)' = Key(e)
      BY <1>1, <1>4, <2>3 DEF Claim, NextStage, Goto, DispatchTypeOK, Key
    <3>2. QED
      BY <1>1, <1>2, <1>3, <1>4, <2>1, <3>1 DEF Claim, DispatchTypeOK
  <2>4. QED  BY <2>2, <2>3
<1>5. ASSUME NEW d \in Dispatchers, Act(d)
      PROVE  owner'[Key(e)'] = e /\ Key(e)' \notin finished'
  <2>1. Key(e)' = Key(e) /\ finished' = finished  BY <1>5 DEF Act, Key
  <2>2. Key(d) \in Keys /\ owner[Key(d)] = d
    BY <1>1, <1>5, AtWork DEF Act, RowHeld
  <2>3. CASE e = d
    BY <1>1, <1>3, <1>5, <2>1, <2>3 DEF Act, Goto, DispatchTypeOK
  <2>4. CASE e # d
    <3>1. pc'[e] = pc[e]  BY <1>1, <1>5, <2>4 DEF Act, Goto, DispatchTypeOK
    <3>2. QED  BY <1>1, <1>3, <1>5, <2>1, <2>2, <2>4, <3>1 DEF Act, DispatchTypeOK
  <2>5. QED  BY <2>3, <2>4
<1>6. ASSUME NEW d \in Dispatchers, Finalize(d)
      PROVE  owner'[Key(e)'] = e /\ Key(e)' \notin finished'
  <2>1. Key(d) \in Keys /\ owner[Key(d)] = d
    BY <1>1, <1>6, AtWork DEF Finalize, RowHeld
  <2>2. e # d
    BY <1>1, <1>6 DEF Finalize, NextStage, Goto, DispatchTypeOK
  <2>3. pc'[e] = pc[e] /\ Key(e)' = Key(e)
    BY <1>1, <1>6, <2>2 DEF Finalize, NextStage, Goto, DispatchTypeOK, Key
  <2>4. QED
    BY <1>1, <1>3, <1>6, <2>1, <2>2, <2>3 DEF Finalize, DispatchTypeOK
<1>7. ASSUME NEW d \in Dispatchers, Crash(d)
      PROVE  owner'[Key(e)'] = e /\ Key(e)' \notin finished'
  <2>1. e # d  BY <1>1, <1>7 DEF Crash, Rest, Goto, DispatchTypeOK
  <2>2. pc'[e] = pc[e] /\ Key(e)' = Key(e)
    BY <1>1, <1>7, <2>1 DEF Crash, Rest, Goto, DispatchTypeOK, Key
  <2>3. QED  BY <1>1, <1>3, <1>7, <2>1, <2>2 DEF Crash
<1>8. ASSUME NEW d \in Dispatchers,
             LookAtSession(d) \/ Ack(d) \/ Fail(d) \/ \E n \in Notices : Take(d, n)
      PROVE  owner'[Key(e)'] = e /\ Key(e)' \notin finished'
  <2>1. pc'[d] \notin {"act", "finalize"} /\ UNCHANGED <<owner, finished>>
    BY <1>1, <1>8 DEF LookAtSession, Ack, Fail, Take, Rest, Goto, DispatchTypeOK, claimVars
  <2>2. pc'[e] = pc[e] /\ Key(e)' = Key(e)
    BY <1>1, <1>8, <2>1 DEF LookAtSession, Ack, Fail, Take, Rest, Goto, DispatchTypeOK, Key
  <2>3. QED  BY <1>3, <2>1, <2>2
<1>9. ASSUME \/ Revive \/ UNCHANGED dispatchVars
             \/ \E n \in Notices : Write(n) \/ Forget(n) \/ Replay(n)
             \/ \E k \in Keys : ExpireKey(k)
      PROVE  owner'[Key(e)'] = e /\ Key(e)' \notin finished'
  <2>1. UNCHANGED <<pc, notice, stage, owner>> /\ finished' \subseteq finished
    BY <1>9 DEF Revive, dispatchVars, Write, Forget, Replay, ExpireKey, handlerVars, claimVars
  <2>2. QED  BY <1>3, <2>1 DEF Key
<1>10. QED
  BY <1>4, <1>5, <1>6, <1>7, <1>8, <1>9 DEF DispatchNext, Step

\* Entries are added for notices that were written, outcomes together with the mark.
LEMMA RowsHonestStep == DispatchInv /\ [DispatchNext]_dispatchVars => RowsHonest'
<1> SUFFICES ASSUME DispatchInv, [DispatchNext]_dispatchVars PROVE RowsHonest'
  OBVIOUS
<1>1. DispatchTypeOK /\ RowsHonest  BY DEF DispatchInv
<1>2. \A k \in done' : k[2] = "archive" => marked'
  <2>1. ASSUME NEW d \in Dispatchers, Finalize(d)
        PROVE  \A k \in done' : k[2] = "archive" => marked'
    <3>1. \A k \in done : k[2] = "archive" => marked  BY <1>1 DEF RowsHonest
    <3>2. CASE UNCHANGED <<done, marked>>
      BY <3>1, <3>2
    <3>3. CASE done' = done \cup {Key(d)} /\ (stage[d] = "archive" => marked')
      BY <3>1, <3>3, DeliveryGrows DEF Key
    <3>4. QED  BY <1>1, <2>1, <3>2, <3>3 DEF Finalize, DispatchTypeOK
  <2>2. CASE done' = done
    BY <1>1, <2>2, DeliveryGrows DEF RowsHonest
  <2>3. QED
    BY <2>1, <2>2 DEF DispatchNext, Step, dispatchVars, Revive, Write, Forget, Replay, ExpireKey,
       LookAtSession, Claim, Act, Ack, Fail, Crash, Take, claimVars
<1>3. ASSUME NEW n \in Notices, copies'[n] > 0 PROVE n \in written'
  <2>1. ASSUME NEW m \in Notices, Write(m) \/ Replay(m) PROVE n \in written'
    <3>1. m \in written'  BY <1>1, <2>1 DEF Write, Replay, DispatchTypeOK
    <3>2. m # n => copies'[n] = copies[n]  BY <1>1, <2>1 DEF Write, Replay, DispatchTypeOK
    <3>3. QED  BY <1>1, <1>3, <3>1, <3>2, DeliveryGrows DEF RowsHonest
  <2>2. ASSUME NEW d \in Dispatchers, Ack(d) \/ Fail(d) PROVE n \in written'
    <3>1. notice[d] \in written' /\ notice[d] \in Notices
      BY <2>2, AtWork, DeliveryGrows DEF Ack, Fail
    <3>2. notice[d] # n => copies'[n] = copies[n]
      BY <1>1, <2>2 DEF Ack, Fail, DispatchTypeOK
    <3>3. QED  BY <1>1, <1>3, <3>1, <3>2, DeliveryGrows DEF RowsHonest
  <2>3. CASE copies' = copies
    BY <1>1, <1>3, <2>3, DeliveryGrows DEF RowsHonest
  <2>4. QED
    BY <2>1, <2>2, <2>3 DEF DispatchNext, Step, dispatchVars, Revive, Forget, ExpireKey,
       LookAtSession, Claim, Act, Finalize, Crash, Take, streamVars
<1>4. QED  BY <1>2, <1>3 DEF RowsHonest

-----------------------------------------------------------------------------
\* The last entry of a notice goes by Ack, which the handler reaches when the notice
\* is settled, or by Fail, which retains it.
LEMMA NothingDroppedStep == DispatchInv /\ [DispatchNext]_dispatchVars => NothingDropped'
<1> SUFFICES ASSUME DispatchInv, [DispatchNext]_dispatchVars PROVE NothingDropped'
  OBVIOUS
<1>1. DispatchTypeOK /\ DispatchTypeOK'  BY DispatchTypeStep DEF DispatchInv
<1> SUFFICES ASSUME NEW n \in Notices, n \in written', copies'[n] = 0
             PROVE  n \in dead' \/ Settled(n)'
  BY <1>1 DEF NothingDropped, Settled, DispatchTypeOK
<1>2. ASSUME n \in written, copies[n] = 0 PROVE n \in dead \/ Settled(n)'
  <2>1. n \in dead \/ Settled(n)
    BY <1>2 DEF DispatchInv, NothingDropped, Settled
  <2>2. QED  BY <2>1, SettledStays
<1>3. ASSUME NEW m \in Notices, Write(m) PROVE n \in dead' \/ Settled(n)'
  <2>1. m # n
    BY <1>1, <1>3, DispatcherAssumption DEF Write, DispatchTypeOK
  <2>2. n \in written /\ copies[n] = 0 /\ dead' = dead
    BY <1>1, <1>3, <2>1 DEF Write, DispatchTypeOK
  <2>3. QED  BY <1>2, <2>2
<1>4. ASSUME NEW m \in Notices, Replay(m) PROVE n \in dead' \/ Settled(n)'
  <2>1. m # n
    BY <1>1, <1>4, DispatcherAssumption DEF Replay, DispatchTypeOK
  <2>2. n \in written /\ copies[n] = 0 /\ dead' = dead \ {m}
    BY <1>1, <1>4, <2>1 DEF Replay, DispatchTypeOK
  <2>3. QED  BY <1>2, <2>1, <2>2
<1>5. ASSUME NEW d \in Dispatchers, Ack(d) PROVE n \in dead' \/ Settled(n)'
  <2>1. notice[d] \in Notices /\ Settled(notice[d])
    BY <1>5, AtWork DEF Ack, DispatchInv, HandlerInv, AtStage
  <2>2. CASE n = notice[d]  BY <2>1, <2>2, SettledStays
  <2>3. CASE n # notice[d]
    <3>1. n \in written /\ copies[n] = 0 /\ dead' = dead
      BY <1>1, <1>5, <2>3 DEF Ack, DispatchTypeOK
    <3>2. QED  BY <1>2, <3>1
  <2>4. QED  BY <2>2, <2>3
<1>6. ASSUME NEW d \in Dispatchers, Fail(d) PROVE n \in dead' \/ Settled(n)'
  <2>1. n \in written /\ dead \subseteq dead'  BY <1>6 DEF Fail
  <2>2. CASE n \in dead'  BY <2>2
  <2>3. CASE n \notin dead'
    <3>1. copies[n] = 0
      BY <1>1, <1>6, <2>3 DEF Fail, DispatchTypeOK
    <3>2. QED  BY <1>2, <2>1, <3>1
  <2>4. QED  BY <2>2, <2>3
<1>7. CASE UNCHANGED <<copies, written, dead>>
  BY <1>2, <1>7
<1>8. QED
  BY <1>3, <1>4, <1>5, <1>6, <1>7 DEF DispatchNext, Step, dispatchVars, Revive, Forget, ExpireKey,
     LookAtSession, Claim, Act, Finalize, Crash, Take, streamVars

LEMMA DispatchInductive == DispatchSpec => []DispatchInv
<1>1. DispatchInv /\ [DispatchNext]_dispatchVars => DispatchInv'
  BY DispatchTypeStep, PostsStep, HandlerStep, RowHeldStep, RowsHonestStep, NothingDroppedStep
  DEF DispatchInv
<1>2. QED  BY <1>1, DispatchStarts, PTL DEF DispatchSpec

\* Notices, rows and handlers keep their types; a post is never shown more often than
\* Discord forgot its nonce and once more.
THEOREM DispatchTypeCorrect == DispatchSpec => []DispatchTypeOK
<1>1. DispatchInv => DispatchTypeOK  BY DEF DispatchInv
<1>2. QED  BY <1>1, DispatchInductive, PTL

\* A notice appears a second time only after Discord forgot its nonce, however often
\* it is delivered, replayed, or sent by a handler whose transaction is rolled back.
THEOREM PostsAreNotRepeated == DispatchSpec => []ShownOncePerWindow
<1>1. DispatchInv => ShownOncePerWindow
  BY DispatcherAssumption DEF DispatchInv, DispatchTypeOK, PostsCounted, ShownOncePerWindow
<1>2. QED  BY <1>1, DispatchInductive, PTL

\* Acknowledging the last entry of a notice takes all its stages, a retained copy or a
\* live session, for any number of dispatchers, entries and deliveries.
THEOREM NoNoticeIsDropped == DispatchSpec => []NothingDropped
<1>1. DispatchInv => NothingDropped  BY DEF DispatchInv
<1>2. QED  BY <1>1, DispatchInductive, PTL

\* The handler that posts holds the row, and the row it holds is not done.
THEOREM DonePostsStay == DispatchSpec => DoneStaysDone
<1>1. DispatchInv /\ [DispatchNext]_dispatchVars =>
        [\A n \in Notices : <<n, "post">> \in finished => shown'[n] = shown[n]]_dispatchVars
  <2> SUFFICES ASSUME DispatchInv, DispatchNext,
                      NEW n \in Notices, <<n, "post">> \in finished
               PROVE  shown'[n] = shown[n]
    BY DEF dispatchVars
  <2>1. ASSUME NEW d \in Dispatchers, Act(d) PROVE shown'[n] = shown[n]
    <3>1. Key(d) \notin finished /\ notice[d] \in Notices
      BY <2>1, AtWork DEF Act, DispatchInv, RowHeld
    <3>2. CASE shown' = shown  BY <3>2
    <3>3. CASE stage[d] = "post" /\ shown' = [shown EXCEPT ![notice[d]] = @ + 1]
      BY <3>1, <3>3 DEF Key, DispatchInv, DispatchTypeOK
    <3>4. QED  BY <2>1, <3>2, <3>3 DEF Act, Post, discordVars
  <2>2. CASE shown' = shown  BY <2>2
  <2>3. QED
    BY <2>1, <2>2 DEF DispatchNext, Step, Revive, Write, Forget, Replay, ExpireKey, LookAtSession,
       Claim, Finalize, Ack, Fail, Crash, Take, discordVars
<1>2. QED  BY <1>1, DispatchInductive, PTL DEF DoneStaysDone, DispatchSpec
=============================================================================
